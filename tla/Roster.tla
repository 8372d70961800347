--------------------------------- MODULE Roster ---------------------------------
(***************************************************************************)
(* Registration rows: who writes, refreshes and removes agents/<id>.md.    *)
(* register, boot and self-check publish a row (internal/op/register.go,   *)
(* internal/cli/boot.go, self_check.go), the tick of a serve lane renews   *)
(* its claim and refreshes its row (internal/op/channel.go,                *)
(* internal/loop/registration.go), boots and ticks sweep stale rows        *)
(* (internal/loop/sweep.go), and clean --mailbox removes the inbox of an   *)
(* id without a row (internal/cli/clean.go).                               *)
(*                                                                         *)
(* A critical section that writes one file is one step: every writer of    *)
(* that file holds the same lock. What the claim rules themselves promise  *)
(* is in ServeLease; what is delivered into the inboxes is in Send.        *)
(***************************************************************************)
EXTENDS Naturals, FiniteSets, FiniteSetsExt

CONSTANTS Agent,      \* ids, ordered as a sweep sorts them
          Lane,       \* serve launches, each with its own token
          Home,       \* Home[l]: the id lane l serves
          Steady,     \* the lanes that are not killed
          Cmd,        \* slots of other commands
          Casts,      \* the instances: which of them take part, which ids are
                      \* in use, whose lock file cannot
                      \* be opened, and how many kills and torn files there are
          None,
          StaleAfter, Tolerance, LeaseTimeout, MaxSweepPerPass,
          MaxClock    \* bound on the clock

VARIABLES cast,    \* one of Casts, chosen once
          clock,
          row,     \* row[i]: agents/<i>.md
          inbox,   \* the ids whose inbox directory exists
          claim,   \* claim[i]: state/<i>/serve.claim
          lock,    \* lock[i]: who holds state/<i>/.lock across steps
          proc,    \* proc[p]: how far a lane or a command is
          faults

vars == <<cast, clock, row, inbox, claim, lock, proc, faults>>

Time == 0..MaxClock
Proc == Lane \cup Cmd

\* A row that does not parse has ok = FALSE and its mtime in seen; notes says
\* whether it has a body (working repos, which every launch gives, are left out).
Row == [seen : Time, ok : BOOLEAN, notes : BOOLEAN, by : Lane \cup {None}]
Claim == [by : Lane, seen : Time]
Corrupt == [by |-> None, seen |-> 0]   \* a claim that cannot be read

ASSUME RosterAssumption == /\ Home \in [Lane -> Agent] /\ Lane \cap Cmd = {}
                           /\ None \notin Proc /\ None \notin Row
                           /\ {StaleAfter, Tolerance, LeaseTimeout, MaxSweepPerPass,
                               MaxClock} \subseteq Nat

\* Stage, the id acted on, the token carried, the time read at the start, what
\* a register was given or merged, a sweep's candidates and how many it removed
\* (what a stage no longer needs is reset).
Idle == [pc |-> "idle", id |-> None, tok |-> None, now |-> 0, notes |-> FALSE,
         sweep |-> FALSE, todo |-> {}, removed |-> 0]

Gone == [Idle EXCEPT !.pc = "gone"]

\* A lane between two ticks; a command runs once.
Rest(p) == IF p \in Lane THEN [Idle EXCEPT !.pc = "tick", !.id = Home[p], !.tok = p] ELSE Gone

At(p, pc) == proc[p].pc = pc
Id(p) == proc[p].id
Set(p, r) == proc' = [proc EXCEPT ![p] = r]
Go(p, pc) == proc' = [proc EXCEPT ![p].pc = pc]
Fault == faults < cast.faults /\ faults' = faults + 1

\* The lock of i can be taken now.
Open(i) == i \notin cast.poisoned /\ lock[i] = None

-----------------------------------------------------------------------------
(* Staleness *)

\* A claim dated in the future is fresh, a row dated in the future beyond the
\* tolerance is as stale as can be.
ClaimIsStale(c, now) == now >= c.seen + LeaseTimeout
ClaimProvablyDead(i, now) ==
  claim[i] # Corrupt /\ (claim[i] # None => ClaimIsStale(claim[i], now))
LiveElsewhere(i, tok, now) ==
  /\ claim[i] \notin {None, Corrupt}
  /\ ~ClaimIsStale(claim[i], now)
  /\ claim[i].by # tok

\* VerifyFence of lane l.
Fenced(l) == claim[Id(l)] # Corrupt /\ (claim[Id(l)] # None => claim[Id(l)].by # l)

TooOld(r, now) == \/ now > r.seen + StaleAfter
                  \/ r.seen > now + Tolerance

-----------------------------------------------------------------------------
(* register, boot and self-check *)

\* A row is left for ServeToken = tok; without a vendor flag the vendor is the
\* one of the row. Boot sweeps afterwards, with the time it started at.
Register(c, i, tok, given, vendor, sweep) ==
  /\ At(c, "idle") /\ c \in cast.who /\ i \in cast.ids
  /\ tok # None => Home[tok] = i
  /\ vendor \/ (row[i] # None /\ row[i].ok)
  /\ Set(c, [Idle EXCEPT !.pc = "publish", !.id = i, !.tok = tok, !.now = clock,
                         !.notes = given, !.sweep = sweep])
  /\ UNCHANGED <<cast, clock, row, inbox, claim, lock, faults>>

\* The row is read under the lock, what is not given is kept, and the inbox is
\* there before the row is.
PublishInbox(p) ==
  LET i == Id(p) IN
  /\ At(p, "publish") /\ Open(i)
  /\ row[i] # None => row[i].ok
  /\ ~LiveElsewhere(i, proc[p].tok, proc[p].now)
  /\ lock' = [lock EXCEPT ![i] = p]
  /\ inbox' = inbox \cup {i}
  /\ Set(p, [proc[p] EXCEPT !.pc = "row", !.notes = @ \/ (row[i] # None /\ row[i].notes)])
  /\ UNCHANGED <<cast, clock, row, claim, faults>>

\* An unreadable row, a live owner with another token, a busy lock. It is the
\* end of a launch, which releases its claim.
Refuse(p) ==
  LET i == Id(p) IN
  /\ At(p, "publish")
  /\ \/ ~Open(i)
     \/ row[i] # None /\ ~row[i].ok
     \/ LiveElsewhere(i, proc[p].tok, proc[p].now)
  /\ Set(p, Gone)
  /\ claim' = IF p \in Lane /\ Open(i) /\ claim[i] # Corrupt /\ ~Fenced(p)
                THEN [claim EXCEPT ![i] = None] ELSE claim
  /\ UNCHANGED <<cast, clock, row, inbox, lock, faults>>

PublishRow(p) ==
  LET i == Id(p) IN
  /\ At(p, "row")
  /\ row' = [row EXCEPT ![i] = [seen |-> proc[p].now, ok |-> TRUE,
                                notes |-> proc[p].notes, by |-> proc[p].tok]]
  /\ lock' = [lock EXCEPT ![i] = IF @ = p THEN None ELSE @]
  /\ Set(p, IF proc[p].sweep THEN [proc[p] EXCEPT !.pc = "scan", !.notes = FALSE] ELSE Rest(p))
  /\ UNCHANGED <<cast, clock, inbox, claim, faults>>

-----------------------------------------------------------------------------
(* The tick of a serve lane *)

\* A launch acquires the claim and registers under its token.
Launch(l) ==
  LET i == Home[l] IN
  /\ At(l, "idle") /\ l \in cast.who /\ Open(i)
  /\ ClaimProvablyDead(i, clock)
  /\ claim' = [claim EXCEPT ![i] = [by |-> l, seen |-> clock]]
  /\ Set(l, [Idle EXCEPT !.pc = "publish", !.id = i, !.tok = l, !.now = clock])
  /\ UNCHANGED <<cast, clock, row, inbox, lock, faults>>

\* The time of the tick is read first; the sweep is due every sweepInterval.
Tick(l, due) ==
  /\ At(l, "tick")
  /\ Set(l, [proc[l] EXCEPT !.pc = "renew", !.now = clock, !.sweep = due])
  /\ UNCHANGED <<cast, clock, row, inbox, claim, lock, faults>>

\* Fenced is the end of the lane; any other failure is a warning.
Renew(l) ==
  LET i == Id(l) IN
  /\ At(l, "renew")
  /\ IF ~Open(i) \/ claim[i] = Corrupt THEN Go(l, "beat") /\ UNCHANGED claim
     ELSE IF Fenced(l) THEN Set(l, Gone) /\ UNCHANGED claim
     ELSE Go(l, "beat") /\ claim' = [claim EXCEPT ![i].seen = clock]
  /\ UNCHANGED <<cast, clock, row, inbox, lock, faults>>

\* Mutant of Beat: the fence that Renew verified is enough.
BeatUnfenced(l) ==
  LET i == Id(l) IN
  /\ At(l, "beat")
  /\ Set(l, IF proc[l].sweep THEN [proc[l] EXCEPT !.pc = "scan"] ELSE Rest(l))
  /\ IF ~Open(i) \/ (row[i] # None /\ ~row[i].ok) THEN UNCHANGED row
     ELSE row' = [row EXCEPT ![i] = [seen |-> clock, ok |-> TRUE, by |-> l,
                    notes |-> row[i] # None /\ row[i].notes]]
  /\ UNCHANGED <<cast, clock, inbox, claim, lock, faults>>

\* The fence is verified again under this lock; a missing row is written from
\* the template, an unreadable one is left; no failure stops the lane.
Beat(l) ==
  LET i == Id(l) IN
  /\ At(l, "beat")
  /\ Set(l, IF proc[l].sweep THEN [proc[l] EXCEPT !.pc = "scan"] ELSE Rest(l))
  /\ IF ~Open(i) \/ claim[i] = Corrupt \/ Fenced(l) \/ (row[i] # None /\ ~row[i].ok)
       THEN UNCHANGED row
     ELSE row' = [row EXCEPT ![i] = [seen |-> clock, ok |-> TRUE, by |-> l,
                    notes |-> row[i] # None /\ row[i].notes]]
  /\ UNCHANGED <<cast, clock, inbox, claim, lock, faults>>

Release(l) ==
  /\ At(l, "tick") /\ l \notin Steady /\ Open(Id(l))
  /\ claim' = IF claim[Id(l)] = Corrupt \/ Fenced(l) THEN claim
              ELSE [claim EXCEPT ![Id(l)] = None]
  /\ Set(l, Gone)
  /\ UNCHANGED <<cast, clock, row, inbox, lock, faults>>

-----------------------------------------------------------------------------
(* SweepStaleRegistrations *)

Home0(p) == IF p \in Lane THEN Home[p] ELSE Id(p)

Candidates(self, now) == {i \in Agent \ {self} : /\ row[i] # None
                                                 /\ TooOld(row[i], now)
                                                 /\ ClaimProvablyDead(i, now)}

Scan(p) ==
  /\ At(p, "scan")
  /\ Set(p, [proc[p] EXCEPT !.pc = "sweep", !.removed = 0,
                            !.todo = Candidates(Home0(p), proc[p].now)])
  /\ UNCHANGED <<cast, clock, row, inbox, claim, lock, faults>>

Next1(p) == Min(proc[p].todo)
Sweeping(p) == At(p, "sweep") /\ proc[p].todo # {} /\ proc[p].removed < MaxSweepPerPass

\* Mutant of SweepOne: what the scan found is removed.
SweepOneBlind(p) ==
  LET i == Next1(p) IN
  /\ Sweeping(p) /\ Open(i)
  /\ row' = [row EXCEPT ![i] = None]
  /\ Set(p, [proc[p] EXCEPT !.todo = @ \ {i}, !.removed = @ + 1])
  /\ UNCHANGED <<cast, clock, inbox, claim, lock, faults>>

\* Age and claim are read again under the lock; only the row goes.
SweepOne(p) ==
  LET i == Next1(p)
      still == i \in Candidates(Home0(p), proc[p].now)
  IN
  /\ Sweeping(p) /\ Open(i)
  /\ row' = IF still THEN [row EXCEPT ![i] = None] ELSE row
  /\ Set(p, [proc[p] EXCEPT !.todo = @ \ {i}, !.removed = IF still THEN @ + 1 ELSE @])
  /\ UNCHANGED <<cast, clock, inbox, claim, lock, faults>>

\* Mutant of SweepFails: the first failure ends the pass.
SweepAborts(p) ==
  /\ Sweeping(p) /\ ~Open(Next1(p))
  /\ Set(p, Rest(p))
  /\ UNCHANGED <<cast, clock, row, inbox, claim, lock, faults>>

\* A lock that cannot be taken costs this candidate and no other.
SweepFails(p) ==
  /\ Sweeping(p) /\ ~Open(Next1(p))
  /\ Set(p, [proc[p] EXCEPT !.todo = @ \ {Next1(p)}])
  /\ UNCHANGED <<cast, clock, row, inbox, claim, lock, faults>>

SweepEnds(p) ==
  /\ At(p, "sweep") /\ ~Sweeping(p)
  /\ Set(p, Rest(p))
  /\ UNCHANGED <<cast, clock, row, inbox, claim, lock, faults>>

-----------------------------------------------------------------------------
(* clean --mailbox --yes *)

Abandoned(i, now) == row[i] = None /\ ClaimProvablyDead(i, now)

CleanStart(c, i) ==
  /\ At(c, "idle") /\ c \in cast.who /\ Abandoned(i, clock)
  /\ Set(c, [Idle EXCEPT !.pc = "clean", !.id = i, !.now = clock])
  /\ UNCHANGED <<cast, clock, row, inbox, claim, lock, faults>>

\* The refusals are checked again under the lock.
CleanMailbox(c) ==
  /\ At(c, "clean")
  /\ Set(c, Gone)
  /\ inbox' = IF Open(Id(c)) /\ Abandoned(Id(c), proc[c].now)
                THEN inbox \ {Id(c)} ELSE inbox
  /\ UNCHANGED <<cast, clock, row, claim, lock, faults>>

-----------------------------------------------------------------------------
(* Kills, torn files and the clock *)

Killed(p) ==
  /\ Fault /\ p \notin Steady /\ proc[p].pc \notin {"idle", "gone"}
  /\ Set(p, Gone)
  /\ lock' = [i \in Agent |-> IF lock[i] = p THEN None ELSE lock[i]]
  /\ UNCHANGED <<cast, clock, row, inbox, claim>>

Torn(i) ==
  /\ Fault
  /\ \/ /\ row[i] # None
        /\ row' = [row EXCEPT ![i].ok = FALSE, ![i].seen = clock]
        /\ UNCHANGED claim
     \/ /\ claim[i] # None
        /\ claim' = [claim EXCEPT ![i] = Corrupt]
        /\ UNCHANGED row
  /\ UNCHANGED <<cast, clock, inbox, lock, proc>>

ClockTicks == /\ clock < MaxClock /\ clock' = clock + 1
              /\ UNCHANGED <<cast, row, inbox, claim, lock, proc, faults>>

-----------------------------------------------------------------------------
\* Ids never used, and ids that left a row and an inbox behind.
Init ==
  /\ cast \in Casts
  /\ clock = 0
  /\ row \in {r \in [Agent -> {None, [seen |-> 0, ok |-> TRUE, notes |-> TRUE, by |-> None]}] :
               \A i \in Agent \ cast.ids : r[i] = None}
  /\ inbox = {i \in Agent : row[i] # None}
  /\ claim = [i \in Agent |-> None]
  /\ lock = [i \in Agent |-> None]
  /\ proc = [p \in Proc |-> Idle]
  /\ faults = 0

Publish(p) == PublishInbox(p) \/ PublishRow(p) \/ Refuse(p)
Sweep(p) == Scan(p) \/ SweepOne(p) \/ SweepFails(p) \/ SweepEnds(p)
Turn(l) == Launch(l) \/ Renew(l) \/ Beat(l)

Next ==
  \/ \E c \in Cmd, i \in Agent :
       \/ \E tok \in Lane \cup {None}, given, vendor, sweep \in BOOLEAN :
            Register(c, i, tok, given, vendor, sweep)
       \/ CleanStart(c, i)
  \/ \E c \in Cmd : CleanMailbox(c)
  \/ \E p \in Proc : Publish(p) \/ Sweep(p) \/ Killed(p)
  \/ \E l \in Lane : Turn(l) \/ Release(l) \/ \E due \in BOOLEAN : Tick(l, due)
  \/ \E i \in Agent : Torn(i)
  \/ ClockTicks

Spec == Init /\ [][Next]_vars

\* A steady lane is scheduled, its sweep comes due again and again, and a lock
\* that is free again and again is taken within agentLockTimeout some time.
Fairness ==
  \A l \in Steady : /\ WF_vars(Turn(l) \/ Publish(l) \/ Scan(l) \/ SweepEnds(l))
                    /\ SF_vars(Tick(l, TRUE)) /\ SF_vars(SweepOne(l)) /\ WF_vars(SweepFails(l))
FairSpec == Spec /\ Fairness /\ \A c \in Cmd : WF_vars(PublishRow(c))

-----------------------------------------------------------------------------
Live(i) == claim[i] \notin {None, Corrupt} /\ ~ClaimIsStale(claim[i], clock)
Bare(i) == row[i] # None /\ i \notin inbox
Sweepable(i) == row[i] # None /\ TooOld(row[i], clock) /\ ClaimProvablyDead(i, clock)

TypeOK ==
  /\ clock \in Time
  /\ \A i \in Agent : /\ row[i] \in Row \cup {None}
                      /\ claim[i] \in Claim \cup {None, Corrupt}
                      /\ lock[i] # None => At(lock[i], "row") /\ Id(lock[i]) = i
  /\ inbox \subseteq Agent
  /\ \A p \in Proc : /\ proc[p].todo \subseteq Agent \ {Home0(p)}
                     /\ proc[p].removed <= MaxSweepPerPass

\* While a lane's claim is live nobody removes its row, and only that lane and
\* the commands that carry its token write it.
LiveRowMine == [][\A i \in Agent : Live(i) /\ row'[i] # row[i] /\ faults' = faults =>
                    row'[i] # None /\ row'[i].by = claim[i].by]_vars

\* The body of a row outlives every refresh of it: a register,
\* a boot or a heartbeat that has no bio to give keeps it.
NotesKept == [][\A i \in Agent : row[i] # None /\ row'[i] # None /\ row[i].notes =>
                  row'[i].notes]_vars

\* A row that a sweep removes is old, unless it was written more than the
\* tolerance after the sweep read its clock.
SweptIsOld == [][\A i \in Agent : row[i] # None /\ row'[i] = None =>
                   \/ clock > row[i].seen + StaleAfter
                   \/ \E p \in Proc : /\ proc'[p] # proc[p]
                                      /\ row[i].seen > proc[p].now + Tolerance]_vars

\* A row comes to be without an inbox only by the heartbeat of a lane.
BareByBeat == [][\A i \in Agent : Bare(i)' /\ ~Bare(i) =>
                   row[i] = None /\ \E l \in Lane : At(l, "beat") /\ Id(l) = i]_vars

\* As long as one lane keeps ticking, no stale row of another id stays: not
\* because of the cap on a pass, not because some other row's lock is broken.
SweptInTheEnd ==
  \A l \in Steady : \A i \in Agent \ {Home[l]} :
    []<>At(l, "tick") => []<>(i \in cast.poisoned \/ ~Sweepable(i))
=============================================================================
