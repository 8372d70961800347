------------------------------ MODULE RosterProofs ------------------------------
(***************************************************************************)
(* Proofs about the registration rows and the life of serve: who may write *)
(* and remove a row, what a sweep and a clean-up leave, and in which order *)
(* a lane ends.                                                            *)
(*                                                                         *)
(* RosterInv says what a register holds between its two writes: the lock,  *)
(* an inbox, the notes of the row it read, and a claim nobody else has     *)
(* made live.  Everybody who could spoil one of these takes the same lock; *)
(* the time a command read is in the past, and what was dead stays dead.   *)
(***************************************************************************)
EXTENDS MCRoster, TLAPS

-----------------------------------------------------------------------------
(* The rows: the invariant *)

Stages == {"idle", "gone", "tick", "publish", "row", "renew", "beat", "scan", "sweep", "clean"}
Process == [pc : Stages, id : Agent \cup {None}, tok : Lane \cup {None}, now : Time,
            notes : BOOLEAN, sweep : BOOLEAN, todo : SUBSET Agent, removed : 0 .. MaxSweepPerPass]
Asleep == {"idle", "gone"}

FileTypes == /\ clock \in Time /\ inbox \subseteq Agent
             /\ row \in [Agent -> Row \cup {None}]
             /\ claim \in [Agent -> Claim \cup {None, Corrupt}]
             /\ lock \in [Agent -> Proc \cup {None}]
ProcTypes == proc \in [Proc -> Process]

\* A lane acts on its own id, a command on the id it was given; a sweep never has
\* its own id on its list.
Placed(p) == /\ proc[p].pc \notin Asleep => Id(p) \in Agent
             /\ p \in Lane /\ proc[p].pc \notin Asleep => Id(p) = Home[p] /\ proc[p].tok = p
             /\ Home0(p) \notin proc[p].todo
             /\ proc[p].now <= clock

\* What p found when it took the lock for its row still holds.
Holding(p) ==
  At(p, "row") => /\ lock[Id(p)] = p /\ Id(p) \in inbox
                  /\ ~LiveElsewhere(Id(p), proc[p].tok, clock)
                  /\ row[Id(p)] # None /\ row[Id(p)].notes => proc[p].notes

\* Nobody else holds a lock across steps.
LocksHeld == \A i \in Agent : lock[i] # None => At(lock[i], "row") /\ Id(lock[i]) = i

RosterInv == /\ FileTypes /\ ProcTypes /\ LocksHeld
             /\ \A p \in Proc : Placed(p) /\ Holding(p)

-----------------------------------------------------------------------------
(* The life of serve: the invariant *)

Starting == {"start", "lease", "identity", "spawn", "register", "raw", "reap", "active"}
Giving == {"release", "forget", "ended"}
Mains == Starting \cup {"wait", "lost", "join", "offline", "killed"} \cup Giving

Flagged ==
  /\ remote \in BOOLEAN /\ deaf \in BOOLEAN /\ full \in BOOLEAN /\ pty \in BOOLEAN
  /\ ident \in BOOLEAN
  /\ down \in BOOLEAN /\ stop \in BOOLEAN /\ lost \in BOOLEAN
RunTypes ==
  /\ main \in Mains /\ held \in {"none", "mine", "lost"}
  /\ child \in {"none", "run", "dying", "exited"} /\ status \in {"none", "active", "offline"}
  /\ poll \in {"off", "tick", "save", "wait", "done"}
  /\ inject \in {"off", "wait", "ask", "lock", "type", "save", "done"}
  /\ typist \in {"off", "read", "lock", "type", "done"} /\ ~(inject = "type" /\ typist = "type")
  /\ killer \in {"off", "hangup", "kill", "done"}

\* The loops begin when the start is over; until then nothing is recorded.
Begun == main \in Starting => poll = "off" /\ inject = "off" /\ typist = "off" /\ status = "none"
\* The wrapper and its terminal, by where serve stands.
Wrapped == /\ child = "none" => ~pty
           /\ main \in {"start", "lease", "identity", "spawn"} => child = "none"
           /\ main = "register" /\ remote => child = "none"
           /\ main \in {"reap", "offline"} \cup Giving => ~pty
           /\ main \in {"join", "offline"} => child = "exited"
           /\ main \in Giving => child \in {"none", "exited"}
\* The lease and the identity record are taken after the start and put back.
Taken == /\ main \in {"start", "lease"} => held = "none" /\ ~ident
         /\ main \in {"forget", "ended"} => held # "mine"
         /\ main = "ended" => ~ident
\* Once the offline record is near, no poll is in flight.
Polled == main \in {"offline"} \cup Giving \/ status = "offline" => poll \in {"off", "done"}

RunInv == Flagged /\ RunTypes /\ Begun /\ Wrapped /\ Taken /\ Polled

LaneInv == RosterInv /\ RunInv /\ faults \in Nat

-----------------------------------------------------------------------------
(* Time, claims and processes *)

\* The constants, one fact at a time.
LEMMA Given ==
  /\ Home \in [Lane -> Agent] /\ Lane \cap Cmd = {} /\ None \notin Proc /\ None \notin Row
  /\ StaleAfter \in Nat /\ Tolerance \in Nat /\ LeaseTimeout \in Nat
  /\ MaxSweepPerPass \in Nat /\ MaxClock \in Nat
  BY RosterAssumption

\* A claim that was dead for somebody who read the clock before is dead now.
LEMMA DeadStaysDead ==
  ASSUME NEW i \in Agent, NEW now \in Time, NEW late \in Time, now <= late,
         claim[i] \in Claim \cup {None, Corrupt}
  PROVE  /\ ClaimProvablyDead(i, now) => ClaimProvablyDead(i, late)
         /\ \A t : ~LiveElsewhere(i, t, now) => ~LiveElsewhere(i, t, late)
  <1>1. ASSUME claim[i] \in Claim, ClaimIsStale(claim[i], now)
        PROVE  ClaimIsStale(claim[i], late)
    <2>1. claim[i].seen \in Nat /\ LeaseTimeout \in Nat /\ now \in Nat /\ late \in Nat
      BY <1>1, Given DEF Claim, Time
    <2> QED
      BY <1>1, <2>1 DEF ClaimIsStale
  <1> QED
    BY <1>1 DEF ClaimProvablyDead, LiveElsewhere

\* A process at rest: between two ticks, or gone.
LEMMA Resting ==
  ASSUME NEW p \in Proc
  PROVE  /\ Rest(p) \in Process /\ Gone \in Process /\ Idle \in Process
         /\ Rest(p).pc \in {"tick", "gone"} /\ Rest(p).todo = {} /\ Rest(p).now = 0
         /\ p \in Lane => Rest(p).id = Home[p] /\ Rest(p).tok = p
         /\ p \notin Lane => Rest(p).pc = "gone"
         /\ Gone.pc = "gone" /\ Gone.todo = {} /\ Gone.now = 0
         /\ Idle.pc = "idle" /\ Idle.todo = {} /\ Idle.now = 0
  <1>1. Idle \in Process
    BY Given DEF Idle, Process, Stages, Time
  <1>2. Gone \in Process
    BY <1>1 DEF Gone, Process, Stages, Idle
  <1>3. ASSUME p \in Lane
        PROVE  [Idle EXCEPT !.pc = "tick", !.id = Home[p], !.tok = p] \in Process
    <2>1. Home[p] \in Agent
      BY <1>3, Given
    <2> QED
      BY <1>1, <1>3, <2>1 DEF Process, Stages
  <1> QED
    BY <1>1, <1>2, <1>3 DEF Rest, Gone, Idle

-----------------------------------------------------------------------------
(* What a step leaves to the others *)

\* What a step may do to the files of an id whose lock somebody else holds.
Spares(j) == /\ j \in inbox => j \in inbox'
             /\ claim'[j] \in {claim[j], None, Corrupt}
             /\ row'[j] # None /\ row'[j].notes => row[j] # None /\ row[j].notes

\* A record that p may have.
Fit(p, r) == /\ r.pc \notin Asleep => r.id \in Agent /\ (p \in Lane => r.id = Home[p] /\ r.tok = p)
             /\ (IF p \in Lane THEN Home[p] ELSE r.id) \notin r.todo
             /\ r.now <= clock

\* A process at rest fits.
LEMMA RestFits ==
  ASSUME NEW p \in Proc, clock \in Nat
  PROVE  Rest(p) \in Process /\ Fit(p, Rest(p)) /\ Rest(p).pc # "row"
  <1>1. CASE p \in Lane
    <2>1. Home[p] \in Agent
      BY <1>1, Given
    <2> QED
      BY <1>1, <2>1, Resting DEF Fit
  <1>2. CASE p \notin Lane
    <2>1. Rest(p) = Gone
      BY <1>2 DEF Rest
    <2> QED
      BY <1>2, <2>1, Resting DEF Fit, Asleep
  <1> QED
    BY <1>1, <1>2

LEMMA FitIsPlaced ==
  ASSUME NEW p \in Proc, NEW r \in Process, Fit(p, r), ProcTypes, Set(p, r), clock' = clock
  PROVE  /\ ProcTypes' /\ proc'[p] = r /\ Placed(p)'
         /\ \A q \in Proc \ {p} : proc'[q] = proc[q]
  <1>1. proc' = [proc EXCEPT ![p] = r] /\ proc \in [Proc -> Process]
    BY DEF Set, ProcTypes
  <1>2. proc'[p] = r /\ \A q \in Proc \ {p} : proc'[q] = proc[q]
    BY <1>1
  <1>3. ProcTypes'
    BY <1>1 DEF ProcTypes
  <1> QED
    BY <1>2, <1>3 DEF Placed, Fit, Id, Home0

\* Somebody who did not move, and whose id was spared, is where he was.
LEMMA OneStays ==
  ASSUME FileTypes, FileTypes', NEW q \in Proc, Placed(q), Holding(q), proc'[q] = proc[q],
         clock <= clock', ProcTypes,
         At(q, "row") => Spares(Id(q)) /\ lock'[Id(q)] = lock[Id(q)]
  PROVE  Placed(q)' /\ Holding(q)'
  <1>1. Placed(q)'
    <2>1. proc[q].now \in Nat /\ clock \in Nat /\ clock' \in Nat
      BY DEF FileTypes, ProcTypes, Process, Time
    <2> QED
      BY <2>1 DEF Placed, Id, Home0
  <1>2. ASSUME At(q, "row")
        PROVE  Holding(q)'
    <2>1. /\ Id(q) \in Agent /\ lock[Id(q)] = q /\ Id(q) \in inbox
          /\ ~LiveElsewhere(Id(q), proc[q].tok, clock)
          /\ row[Id(q)] # None /\ row[Id(q)].notes => proc[q].notes
      BY <1>2 DEF Placed, Holding, At, Asleep
    <2>2. PICK j \in Agent : j = Id(q)
      BY <2>1
    <2>3. Id(q)' = j
      BY <2>2 DEF Id
    <2>4. ~LiveElsewhere(j, proc[q].tok, clock')
      <3>1. claim[j] \in Claim \cup {None, Corrupt} /\ clock \in Time /\ clock' \in Time
        BY DEF FileTypes
      <3> QED
        BY <2>1, <2>2, <3>1, DeadStaysDead
    <2>5. ~LiveElsewhere(j, proc[q].tok, clock)'
      BY <1>2, <2>2, <2>4 DEF Spares, LiveElsewhere
    <2> QED
      BY <1>2, <2>1, <2>2, <2>3, <2>5 DEF Holding, Spares, At
  <1> QED
    BY <1>1, <1>2 DEF Holding, At

\* The locks of p may go; the others stay with their holders.
LEMMA LocksStay ==
  ASSUME LocksHeld, FileTypes, NEW p \in Proc,
         \A q \in Proc \ {p} : proc'[q] = proc[q],
         \A j \in Agent : lock'[j] # None => lock'[j] = lock[j] /\ lock[j] # p
  PROVE  LocksHeld'
  <1> SUFFICES ASSUME NEW j \in Agent, lock'[j] # None
               PROVE  At(lock[j], "row")' /\ Id(lock[j])' = j
    BY DEF LocksHeld
  <1>1. lock'[j] = lock[j] /\ lock[j] \in Proc \ {p} /\ At(lock[j], "row") /\ Id(lock[j]) = j
    BY DEF LocksHeld, FileTypes
  <1>2. PICK q \in Proc \ {p} : q = lock[j]
    BY <1>1
  <1> QED
    BY <1>1, <1>2 DEF At, Id

\* A step of p that takes and gives back no lock.
LEMMA Moves ==
  ASSUME RosterInv, FileTypes', NEW p \in Proc, NEW r \in Process, Fit(p, r), Set(p, r),
         UNCHANGED <<clock, lock>>, ~At(p, "row"), r.pc # "row",
         \A j \in Agent : lock[j] # None => Spares(j)
  PROVE  RosterInv'
  <1>1. FileTypes /\ ProcTypes /\ LocksHeld /\ \A q \in Proc : Placed(q) /\ Holding(q)
    BY DEF RosterInv
  <1>2. ProcTypes' /\ proc'[p] = r /\ Placed(p)' /\ \A q \in Proc \ {p} : proc'[q] = proc[q]
    BY <1>1, FitIsPlaced
  <1>3. Holding(p)'
    BY <1>2 DEF Holding, At
  <1>4. ASSUME NEW q \in Proc \ {p}
        PROVE  Placed(q)' /\ Holding(q)'
    <2>1. clock <= clock'
      BY <1>1 DEF FileTypes, Time
    <2>2. At(q, "row") => Spares(Id(q))
      BY <1>1, Given DEF Holding, Placed, At, Asleep
    <2> QED
      BY <1>1, <1>2, <2>1, <2>2, OneStays
  <1>5. LocksHeld'
    <2> SUFFICES ASSUME NEW i \in Agent, lock[i] # None
                 PROVE  At(lock[i], "row")' /\ Id(lock[i])' = i
      BY DEF LocksHeld
    <2>1. lock[i] \in Proc /\ At(lock[i], "row") /\ Id(lock[i]) = i
      BY <1>1 DEF LocksHeld, FileTypes
    <2>2. PICK q \in Proc : q = lock[i]
      BY <2>1
    <2> QED
      BY <1>2, <2>1, <2>2 DEF At, Id
  <1> QED
    BY <1>1, <1>2, <1>3, <1>4, <1>5 DEF RosterInv

-----------------------------------------------------------------------------
(* The steps *)

\* register, boot and self-check begin; clean --mailbox begins and ends.
LEMMA CommandsKeep ==
  ASSUME RosterInv, NEW c \in Cmd,
         \/ \E i \in Agent, tok \in Lane \cup {None}, given, vendor, sweep \in BOOLEAN :
              Register(c, i, tok, given, vendor, sweep)
         \/ \E i \in Agent : CleanStart(c, i)
         \/ CleanMailbox(c)
  PROVE  RosterInv'
  <1>t. /\ FileTypes /\ ProcTypes /\ \A q \in Proc : Placed(q) /\ Holding(q)
        /\ c \in Proc /\ c \notin Lane
    BY Given DEF RosterInv, Proc
  <1>1. ASSUME NEW i \in Agent, NEW tok \in Lane \cup {None}, NEW given \in BOOLEAN,
               NEW vendor \in BOOLEAN, NEW sweep \in BOOLEAN,
               Register(c, i, tok, given, vendor, sweep)
        PROVE  RosterInv'
    <2> DEFINE r == [Idle EXCEPT !.pc = "publish", !.id = i, !.tok = tok, !.now = clock,
                         !.notes = given, !.sweep = sweep]
    <2>1. /\ Set(c, r) /\ At(c, "idle")
          /\ UNCHANGED <<clock, row, inbox, claim, lock>>
      BY <1>1 DEF Register
    <2>2. r \in Process /\ r.pc = "publish" /\ r.id = i /\ r.todo = {} /\ r.now = clock
      <3>1. Idle \in Process /\ Idle.todo = {} /\ clock \in Time
        BY <1>t, Resting DEF FileTypes
      <3> QED
        BY <3>1 DEF Process, Stages
    <2> HIDE DEF r
    <2>3. Fit(c, r)
      BY <1>t, <2>2 DEF Fit, FileTypes, Time
    <2>4. FileTypes' /\ ~At(c, "row") /\ \A j \in Agent : Spares(j)
      BY <1>t, <2>1 DEF FileTypes, At, Spares
    <2> QED
      BY <1>t, <2>1, <2>2, <2>3, <2>4, Moves
  <1>2. ASSUME NEW i \in Agent, CleanStart(c, i)
        PROVE  RosterInv'
    <2> DEFINE r == [Idle EXCEPT !.pc = "clean", !.id = i, !.now = clock]
    <2>1. /\ Set(c, r) /\ At(c, "idle")
          /\ UNCHANGED <<clock, row, inbox, claim, lock>>
      BY <1>2 DEF CleanStart
    <2>2. r \in Process /\ r.pc = "clean" /\ r.id = i /\ r.todo = {} /\ r.now = clock
      <3>1. Idle \in Process /\ Idle.todo = {} /\ clock \in Time
        BY <1>t, Resting DEF FileTypes
      <3> QED
        BY <3>1 DEF Process, Stages
    <2> HIDE DEF r
    <2>3. Fit(c, r)
      BY <1>t, <2>2 DEF Fit, FileTypes, Time
    <2>4. FileTypes' /\ ~At(c, "row") /\ \A j \in Agent : Spares(j)
      BY <1>t, <2>1 DEF FileTypes, At, Spares
    <2> QED
      BY <1>t, <2>1, <2>2, <2>3, <2>4, Moves
  <1>3. CASE CleanMailbox(c)
    <2>1. /\ Set(c, Gone) /\ At(c, "clean")
          /\ UNCHANGED <<clock, row, claim, lock>>
          /\ inbox' = inbox \/ (Open(Id(c)) /\ inbox' = inbox \ {Id(c)})
      BY <1>3 DEF CleanMailbox
    <2>2. Gone \in Process /\ Fit(c, Gone) /\ Gone.pc # "row"
      BY <1>t, Resting DEF Fit, FileTypes, Time, Asleep
    <2>3. FileTypes' /\ ~At(c, "row") /\ \A j \in Agent : lock[j] # None => Spares(j)
      BY <1>t, <2>1 DEF FileTypes, At, Spares, Open
    <2> QED
      BY <1>t, <2>1, <2>2, <2>3, Moves
  <1> QED
    BY <1>1, <1>2, <1>3

\* The claims: a launch takes one, a tick renews it, an end gives it back.
LEMMA ClaimsKeep ==
  ASSUME RosterInv, NEW l \in Lane, Launch(l) \/ Renew(l) \/ Release(l)
  PROVE  RosterInv'
  <1>t. /\ FileTypes /\ ProcTypes /\ \A q \in Proc : Placed(q) /\ Holding(q)
        /\ l \in Proc /\ proc[l] \in Process
    BY DEF RosterInv, Proc, ProcTypes
  <1>g. Gone \in Process /\ Fit(l, Gone) /\ Gone.pc = "gone"
    BY <1>t, Resting DEF Fit, FileTypes, Time, Asleep
  <1>1. CASE Launch(l)
    <2> DEFINE i == Home[l]
    <2> DEFINE r == [Idle EXCEPT !.pc = "publish", !.id = i, !.tok = l, !.now = clock]
    <2>1. /\ Set(l, r) /\ At(l, "idle") /\ Open(i) /\ i \in Agent
          /\ claim' = [claim EXCEPT ![i] = [by |-> l, seen |-> clock]]
          /\ UNCHANGED <<clock, row, inbox, lock>>
      BY <1>1, Given DEF Launch
    <2>2. /\ r \in Process /\ r.pc = "publish" /\ r.id = i /\ r.todo = {} /\ r.now = clock
          /\ r.tok = l
      <3>1. Idle \in Process /\ Idle.todo = {} /\ clock \in Time
        BY <1>t, Resting DEF FileTypes
      <3> QED
        BY <2>1, <3>1 DEF Process, Stages
    <2> HIDE DEF r
    <2>3. Fit(l, r)
      <3>1. clock \in Nat
        BY <1>t DEF FileTypes, Time
      <3> QED
        BY <2>1, <2>2, <3>1 DEF Fit
    <2>4. FileTypes'
      <3>1. [by |-> l, seen |-> clock] \in Claim
        BY <1>t DEF FileTypes, Claim
      <3> QED
        BY <1>t, <2>1, <3>1 DEF FileTypes
    <2>5. ~At(l, "row") /\ \A j \in Agent : lock[j] # None => Spares(j)
      BY <1>t, <2>1 DEF FileTypes, At, Spares, Open
    <2> QED
      BY <1>t, <2>1, <2>2, <2>3, <2>4, <2>5, Moves
  <1>2. CASE Renew(l)
    <2> DEFINE r == [proc[l] EXCEPT !.pc = "beat"]
    <2>1. /\ At(l, "renew") /\ UNCHANGED <<clock, row, inbox, lock>>
          /\ Set(l, r) \/ Set(l, Gone)
          /\ \/ claim' = claim
             \/ /\ Open(Id(l)) /\ claim[Id(l)] \notin {None, Corrupt}
                /\ claim' = [claim EXCEPT ![Id(l)].seen = clock]
      BY <1>2 DEF Renew, Go, Set, Fenced
    <2>2. /\ r \in Process /\ r.pc = "beat" /\ r.id = Id(l) /\ r.todo = proc[l].todo
          /\ r.now = proc[l].now /\ r.tok = proc[l].tok
      BY <1>t DEF Process, Stages, Id
    <2>3. Id(l) \in Agent /\ Fit(l, r)
      BY <1>t, <2>1, <2>2 DEF Fit, Placed, At, Asleep, Home0
    <2> HIDE DEF r
    <2>4. FileTypes'
      <3>1. CASE claim' = claim
        BY <1>t, <2>1, <3>1 DEF FileTypes
      <3>2. CASE /\ claim[Id(l)] \notin {None, Corrupt}
                 /\ claim' = [claim EXCEPT ![Id(l)].seen = clock]
        <4>1. claim[Id(l)] \in Claim
          BY <1>t, <2>3, <3>2 DEF FileTypes
        <4>2. [claim[Id(l)] EXCEPT !.seen = clock] \in Claim
          BY <1>t, <4>1 DEF FileTypes, Claim
        <4> QED
          BY <1>t, <2>1, <2>3, <3>2, <4>2 DEF FileTypes
      <3> QED
        BY <2>1, <3>1, <3>2
    <2>5. ~At(l, "row") /\ \A j \in Agent : lock[j] # None => Spares(j)
      BY <1>t, <2>1, <2>3 DEF FileTypes, At, Spares, Open
    <2> QED
      BY <1>t, <1>g, <2>1, <2>2, <2>3, <2>4, <2>5, Moves
  <1>3. CASE Release(l)
    <2>1. /\ At(l, "tick") /\ UNCHANGED <<clock, row, inbox, lock>> /\ Set(l, Gone) /\ Open(Id(l))
          /\ claim' = claim \/ claim' = [claim EXCEPT ![Id(l)] = None]
      BY <1>3 DEF Release
    <2>2. FileTypes'
      BY <1>t, <2>1 DEF FileTypes
    <2>3. ~At(l, "row") /\ \A j \in Agent : lock[j] # None => Spares(j)
      BY <1>t, <2>1 DEF FileTypes, At, Spares
    <2> QED
      BY <1>t, <1>g, <2>1, <2>2, <2>3, Moves
  <1> QED
    BY <1>1, <1>2, <1>3

\* The tick of a lane reads the clock; its beat writes the row or leaves it.
LEMMA BeatsKeep ==
  ASSUME RosterInv, NEW l \in Lane, Beat(l) \/ \E due \in BOOLEAN : Tick(l, due)
  PROVE  RosterInv'
  <1>t. /\ FileTypes /\ ProcTypes /\ \A q \in Proc : Placed(q) /\ Holding(q)
        /\ l \in Proc /\ proc[l] \in Process
    BY DEF RosterInv, Proc, ProcTypes
  <1>1. ASSUME NEW due \in BOOLEAN, Tick(l, due)
        PROVE  RosterInv'
    <2> DEFINE r == [proc[l] EXCEPT !.pc = "renew", !.now = clock, !.sweep = due]
    <2>1. Set(l, r) /\ At(l, "tick") /\ UNCHANGED <<clock, row, inbox, claim, lock>>
      BY <1>1 DEF Tick
    <2>2. /\ r \in Process /\ r.pc = "renew" /\ r.id = Id(l) /\ r.todo = proc[l].todo
          /\ r.now = clock /\ r.tok = proc[l].tok
      BY <1>t DEF Process, Stages, Id, FileTypes
    <2> HIDE DEF r
    <2>3. Fit(l, r)
      BY <1>t, <2>1, <2>2 DEF Fit, Placed, At, Asleep, Home0, FileTypes, Time
    <2>4. FileTypes' /\ ~At(l, "row") /\ \A j \in Agent : Spares(j)
      BY <1>t, <2>1 DEF FileTypes, At, Spares
    <2> QED
      BY <1>t, <2>1, <2>2, <2>3, <2>4, Moves
  <1>2. CASE Beat(l)
    <2> DEFINE i == Id(l)
    <2> DEFINE b == [seen |-> clock, ok |-> TRUE, by |-> l,
                     notes |-> row[i] # None /\ row[i].notes]
    <2> DEFINE r == IF proc[l].sweep THEN [proc[l] EXCEPT !.pc = "scan"] ELSE Rest(l)
    <2>1. /\ At(l, "beat") /\ Set(l, r) /\ UNCHANGED <<clock, inbox, claim, lock>>
          /\ row' = row \/ (Open(i) /\ row' = [row EXCEPT ![i] = b])
      BY <1>2 DEF Beat
    <2>2. i \in Agent /\ b \in Row
      <3>1. i \in Agent
        BY <1>t, <2>1 DEF Placed, At, Asleep
      <3>2. (row[i] # None /\ row[i].notes) \in BOOLEAN
        BY <1>t, <3>1 DEF FileTypes, Row
      <3> QED
        BY <1>t, <3>1, <3>2 DEF FileTypes, Row
    <2>3. r \in Process /\ r.pc \in {"scan", "tick"} /\ Fit(l, r)
      <3>1. CASE proc[l].sweep
        <4>1. /\ r \in Process /\ r.pc = "scan" /\ r.id = Id(l) /\ r.todo = proc[l].todo
              /\ r.now = proc[l].now /\ r.tok = proc[l].tok
          BY <1>t, <3>1 DEF Process, Stages, Id
        <4>2. Placed(l) /\ proc[l].pc = "beat"
          BY <1>t, <2>1 DEF At
        <4> HIDE DEF r
        <4> QED
          BY <4>1, <4>2 DEF Fit, Placed, Asleep, Home0, Id
      <3>2. CASE ~proc[l].sweep
        <4>1. r = Rest(l) /\ Rest(l) \in Process /\ Rest(l).pc \in {"tick", "gone"}
              /\ Rest(l).id = Home[l] /\ Rest(l).tok = l /\ Rest(l).todo = {} /\ Rest(l).now = 0
          BY <1>t, <3>2, Resting
        <4>2. Rest(l).pc = "tick"
          BY DEF Rest, Idle
        <4>3. Home[l] \in Agent /\ clock \in Nat
          BY <1>t, Given DEF FileTypes, Time
        <4> HIDE DEF r
        <4> QED
          BY <4>1, <4>2, <4>3 DEF Fit
      <3> QED
        BY <3>1, <3>2
    <2> HIDE DEF b, r
    <2>4. FileTypes'
      BY <1>t, <2>1, <2>2 DEF FileTypes
    <2>5. ~At(l, "row") /\ \A j \in Agent : lock[j] # None => Spares(j)
      BY <1>t, <2>1 DEF FileTypes, At, Spares, Open
    <2> QED
      BY <1>t, <2>1, <2>3, <2>4, <2>5, Moves
  <1> QED
    BY <1>1, <1>2

\* A refused register ends; a refused launch gives its claim back.
LEMMA RefusalKeeps == ASSUME RosterInv, NEW p \in Proc, Refuse(p) PROVE RosterInv'
  <1>t. /\ FileTypes /\ ProcTypes /\ \A q \in Proc : Placed(q) /\ Holding(q)
    BY DEF RosterInv
  <1>g. Gone \in Process /\ Fit(p, Gone) /\ Gone.pc = "gone"
    BY <1>t, Resting DEF Fit, FileTypes, Time, Asleep
  <1>1. /\ At(p, "publish") /\ Set(p, Gone) /\ UNCHANGED <<clock, row, inbox, lock>>
        /\ claim' = claim \/ (Open(Id(p)) /\ claim' = [claim EXCEPT ![Id(p)] = None])
    BY DEF Refuse
  <1>2. FileTypes'
    BY <1>t, <1>1 DEF FileTypes
  <1>3. ~At(p, "row") /\ \A j \in Agent : lock[j] # None => Spares(j)
    BY <1>t, <1>1 DEF FileTypes, At, Spares, Open
  <1> QED
    BY <1>t, <1>g, <1>1, <1>2, <1>3, Moves

\* A sweep goes on with its list, less what it has dealt with.
LEMMA SweepsKeep == ASSUME RosterInv, NEW p \in Proc, Sweep(p) PROVE RosterInv'
  <1>t. /\ FileTypes /\ ProcTypes /\ \A q \in Proc : Placed(q) /\ Holding(q)
        /\ proc[p] \in Process /\ clock \in Nat
    BY DEF RosterInv, ProcTypes, FileTypes, Time
  <1>a. p \in Lane \/ Id(p) = Home0(p)
    BY DEF Home0
  <1>1. CASE Scan(p)
    <2> DEFINE found == Candidates(Home0(p), proc[p].now)
    <2> DEFINE r == [proc[p] EXCEPT !.pc = "sweep", !.removed = 0, !.todo = found]
    <2>1. At(p, "scan") /\ Set(p, r) /\ UNCHANGED <<clock, row, inbox, claim, lock>>
      BY <1>1 DEF Scan
    <2>2. found \in SUBSET Agent /\ Home0(p) \notin found
      BY DEF Candidates
    <2> HIDE DEF found
    <2>3. 0 \in 0 .. MaxSweepPerPass
      BY Given
    <2>4. /\ r \in Process /\ r.pc = "sweep" /\ r.id = Id(p) /\ r.todo = found
          /\ r.now = proc[p].now /\ r.tok = proc[p].tok
      BY <1>t, <2>2, <2>3 DEF Process, Stages, Id
    <2> HIDE DEF r
    <2>5. Fit(p, r)
      BY <1>t, <2>1, <2>2, <2>4 DEF Fit, Placed, At, Asleep, Home0
    <2>6. FileTypes' /\ ~At(p, "row") /\ \A j \in Agent : Spares(j)
      BY <1>t, <2>1 DEF FileTypes, At, Spares
    <2> QED
      BY <1>t, <2>1, <2>4, <2>5, <2>6, Moves
  <1>2. CASE SweepOne(p)
    <2> DEFINE i == Next1(p)
    <2> DEFINE still == i \in Candidates(Home0(p), proc[p].now)
    <2> DEFINE n == IF still THEN proc[p].removed + 1 ELSE proc[p].removed
    <2> DEFINE r == [proc[p] EXCEPT !.todo = proc[p].todo \ {i}, !.removed = n]
    <2>1. /\ At(p, "sweep") /\ Open(i) /\ Set(p, r) /\ UNCHANGED <<clock, inbox, claim, lock>>
          /\ proc[p].removed < MaxSweepPerPass
          /\ row' = row \/ row' = [row EXCEPT ![i] = None]
      BY <1>2 DEF SweepOne, Sweeping
    <2>2. n \in 0 .. MaxSweepPerPass
      BY <1>t, <2>1, Given DEF Process
    <2> HIDE DEF n, still
    <2>3. /\ r \in Process /\ r.pc = "sweep" /\ r.id = Id(p) /\ r.todo \subseteq proc[p].todo
          /\ r.now = proc[p].now /\ r.tok = proc[p].tok
      BY <1>t, <2>1, <2>2 DEF Process, Stages, Id, At
    <2> HIDE DEF r, i
    <2>4. Fit(p, r)
      BY <1>t, <2>1, <2>3 DEF Fit, Placed, At, Asleep, Home0
    <2>5. FileTypes'
      BY <1>t, <2>1 DEF FileTypes
    <2>6. ~At(p, "row") /\ \A j \in Agent : lock[j] # None => Spares(j)
      BY <1>t, <2>1 DEF FileTypes, At, Spares, Open
    <2> QED
      BY <1>t, <2>1, <2>3, <2>4, <2>5, <2>6, Moves
  <1>3. CASE SweepFails(p)
    <2> DEFINE r == [proc[p] EXCEPT !.todo = proc[p].todo \ {Next1(p)}]
    <2>1. At(p, "sweep") /\ Set(p, r) /\ UNCHANGED <<clock, row, inbox, claim, lock>>
      BY <1>3 DEF SweepFails, Sweeping
    <2>2. /\ r \in Process /\ r.pc = "sweep" /\ r.id = Id(p) /\ r.todo \subseteq proc[p].todo
          /\ r.now = proc[p].now /\ r.tok = proc[p].tok
      BY <1>t, <2>1 DEF Process, Stages, Id, At
    <2> HIDE DEF r
    <2>3. Fit(p, r)
      BY <1>t, <2>1, <2>2 DEF Fit, Placed, At, Asleep, Home0
    <2>4. FileTypes' /\ ~At(p, "row") /\ \A j \in Agent : Spares(j)
      BY <1>t, <2>1 DEF FileTypes, At, Spares
    <2> QED
      BY <1>t, <2>1, <2>2, <2>3, <2>4, Moves
  <1>4. CASE SweepEnds(p)
    <2>1. At(p, "sweep") /\ Set(p, Rest(p)) /\ UNCHANGED <<clock, row, inbox, claim, lock>>
      BY <1>4 DEF SweepEnds
    <2>2. Rest(p) \in Process /\ Fit(p, Rest(p)) /\ Rest(p).pc # "row"
      BY <1>t, RestFits
    <2>3. FileTypes' /\ ~At(p, "row") /\ \A j \in Agent : Spares(j)
      BY <1>t, <2>1 DEF FileTypes, At, Spares
    <2> QED
      BY <1>t, <2>1, <2>2, <2>3, Moves
  <1> QED
    BY <1>1, <1>2, <1>3, <1>4 DEF Sweep

\* A register takes the lock of its id: what it sees there it holds.
LEMMA InboxKeeps == ASSUME RosterInv, NEW p \in Proc, PublishInbox(p) PROVE RosterInv'
  <1>t. /\ FileTypes /\ ProcTypes /\ LocksHeld /\ \A q \in Proc : Placed(q) /\ Holding(q)
        /\ proc[p] \in Process /\ clock \in Nat
    BY DEF RosterInv, ProcTypes, FileTypes, Time
  <1> DEFINE i == Id(p)
  <1> DEFINE n == proc[p].notes \/ (row[i] # None /\ row[i].notes)
  <1> DEFINE r == [proc[p] EXCEPT !.pc = "row", !.notes = n]
  <1>1. /\ At(p, "publish") /\ Open(i) /\ Set(p, r)
        /\ ~LiveElsewhere(i, proc[p].tok, proc[p].now)
        /\ lock' = [lock EXCEPT ![i] = p] /\ inbox' = inbox \cup {i}
        /\ UNCHANGED <<clock, row, claim>>
    BY DEF PublishInbox
  <1>2. i \in Agent /\ n \in BOOLEAN
    <2>1. i \in Agent
      BY <1>t, <1>1 DEF Placed, At, Asleep
    <2>2. (row[i] # None /\ row[i].notes) \in BOOLEAN /\ proc[p].notes \in BOOLEAN
      BY <1>t, <2>1 DEF FileTypes, Row, Process
    <2> QED
      BY <2>1, <2>2
  <1>3. /\ r \in Process /\ r.pc = "row" /\ r.id = i /\ r.todo = proc[p].todo
        /\ r.now = proc[p].now /\ r.tok = proc[p].tok /\ r.notes = n
    BY <1>t, <1>2 DEF Process, Stages, Id
  <1>4. (row[i] # None /\ row[i].notes) => n
    OBVIOUS
  <1> HIDE DEF r, n
  <1>5. Fit(p, r)
    BY <1>t, <1>1, <1>3 DEF Fit, Placed, At, Asleep, Home0
  <1>6. FileTypes'
    BY <1>t, <1>1, <1>2 DEF FileTypes
  <1>7. ProcTypes' /\ proc'[p] = r /\ Placed(p)' /\ \A q \in Proc \ {p} : proc'[q] = proc[q]
    BY <1>t, <1>1, <1>3, <1>5, FitIsPlaced
  <1>8. Holding(p)'
    <2>1. ~LiveElsewhere(i, proc[p].tok, clock)
      <3>1. /\ claim[i] \in Claim \cup {None, Corrupt} /\ proc[p].now \in Time /\ clock \in Time
            /\ proc[p].now <= clock
        BY <1>t, <1>2 DEF FileTypes, Process, Placed
      <3> QED
        BY <1>1, <1>2, <3>1, DeadStaysDead
    <2>2. ~LiveElsewhere(i, proc[p].tok, clock)'
      BY <1>1, <1>3, <1>7, <2>1 DEF LiveElsewhere, Id
    <2>3. lock'[i] = p /\ i \in inbox' /\ Id(p)' = i
      BY <1>t, <1>1, <1>2, <1>3, <1>7 DEF FileTypes, Id
    <2> QED
      BY <1>1, <1>3, <1>4, <1>7, <2>2, <2>3 DEF Holding
  <1>9. ASSUME NEW q \in Proc \ {p}
        PROVE  Placed(q)' /\ Holding(q)'
    <2>1. At(q, "row") => Id(q) \in Agent /\ lock[Id(q)] = q /\ Id(q) # i
      BY <1>t, <1>1, Given DEF Holding, Placed, At, Asleep, Open
    <2>2. At(q, "row") => Spares(Id(q)) /\ lock'[Id(q)] = lock[Id(q)]
      BY <1>t, <1>1, <2>1 DEF Spares, FileTypes
    <2>3. clock <= clock'
      BY <1>t, <1>1
    <2> QED
      BY <1>t, <1>6, <1>7, <2>2, <2>3, OneStays
  <1>10. LocksHeld'
    <2> SUFFICES ASSUME NEW j \in Agent, lock'[j] # None
                 PROVE  At(lock[j], "row")' /\ Id(lock[j])' = j
      BY DEF LocksHeld
    <2>1. CASE j = i
      <3>1. lock'[j] = p
        BY <1>t, <1>1, <2>1 DEF FileTypes
      <3> QED
        BY <1>3, <1>7, <2>1, <3>1 DEF At, Id
    <2>2. CASE j # i
      <3>1. lock'[j] = lock[j] /\ lock[j] \in Proc /\ At(lock[j], "row") /\ Id(lock[j]) = j
        BY <1>t, <1>1, <2>2 DEF FileTypes, LocksHeld
      <3>2. PICK q \in Proc : q = lock[j]
        BY <3>1
      <3> QED
        BY <1>1, <1>7, <3>1, <3>2 DEF At, Id
    <2> QED
      BY <2>1, <2>2
  <1> QED
    BY <1>6, <1>7, <1>8, <1>9, <1>10 DEF RosterInv

\* A row is written and the lock given back.
LEMMA RowKeeps == ASSUME RosterInv, NEW p \in Proc, PublishRow(p) PROVE RosterInv'
  <1>t. /\ FileTypes /\ ProcTypes /\ LocksHeld /\ \A q \in Proc : Placed(q) /\ Holding(q)
        /\ proc[p] \in Process /\ clock \in Nat
    BY DEF RosterInv, ProcTypes, FileTypes, Time
  <1> DEFINE i == Id(p)
  <1> DEFINE b == [seen |-> proc[p].now, ok |-> TRUE, notes |-> proc[p].notes, by |-> proc[p].tok]
  <1> DEFINE r == IF proc[p].sweep THEN [proc[p] EXCEPT !.pc = "scan", !.notes = FALSE]
                  ELSE Rest(p)
  <1>1. /\ At(p, "row") /\ Set(p, r) /\ row' = [row EXCEPT ![i] = b]
        /\ lock' = [lock EXCEPT ![i] = IF lock[i] = p THEN None ELSE lock[i]]
        /\ UNCHANGED <<clock, inbox, claim>>
    BY DEF PublishRow
  <1>2. i \in Agent /\ b \in Row /\ lock[i] = p
    <2>1. i \in Agent
      BY <1>t, <1>1 DEF Placed, At, Asleep
    <2> QED
      BY <1>t, <1>1, <2>1 DEF Process, Row, Holding
  <1>3. r \in Process /\ r.pc # "row" /\ Fit(p, r)
    <2>1. CASE proc[p].sweep
      <3>1. /\ r \in Process /\ r.pc = "scan" /\ r.id = Id(p) /\ r.todo = proc[p].todo
            /\ r.now = proc[p].now /\ r.tok = proc[p].tok
        BY <1>t, <2>1 DEF Process, Stages, Id
      <3>2. Placed(p) /\ proc[p].pc = "row"
        BY <1>t, <1>1 DEF At
      <3> HIDE DEF r
      <3> QED
        BY <3>1, <3>2 DEF Fit, Placed, Asleep, Home0, Id
    <2>2. CASE ~proc[p].sweep
      <3>1. r = Rest(p)
        BY <2>2
      <3> HIDE DEF r
      <3> QED
        BY <1>t, <3>1, RestFits
    <2> QED
      BY <2>1, <2>2
  <1> HIDE DEF r, b
  <1>4. lock' = [lock EXCEPT ![i] = None]
    BY <1>1, <1>2
  <1>5. FileTypes'
    BY <1>t, <1>1, <1>2, <1>4 DEF FileTypes
  <1>6. ProcTypes' /\ proc'[p] = r /\ Placed(p)' /\ \A q \in Proc \ {p} : proc'[q] = proc[q]
    BY <1>t, <1>1, <1>3, FitIsPlaced
  <1>7. Holding(p)'
    BY <1>3, <1>6 DEF Holding, At
  <1>8. ASSUME NEW q \in Proc \ {p}
        PROVE  Placed(q)' /\ Holding(q)'
    <2>1. At(q, "row") => Id(q) \in Agent /\ lock[Id(q)] = q /\ Id(q) # i
      BY <1>t, <1>2 DEF Holding, Placed, At, Asleep
    <2>2. At(q, "row") => Spares(Id(q)) /\ lock'[Id(q)] = lock[Id(q)]
      BY <1>t, <1>1, <1>4, <2>1 DEF Spares, FileTypes
    <2>3. clock <= clock'
      BY <1>t, <1>1
    <2> QED
      BY <1>t, <1>5, <1>6, <2>2, <2>3, OneStays
  <1>9. LocksHeld'
    <2>1. ASSUME NEW j \in Agent, lock'[j] # None
          PROVE  lock'[j] = lock[j] /\ lock[j] # p
      BY <1>t, <1>1, <1>2, <1>4, <2>1 DEF FileTypes, LocksHeld
    <2> QED
      BY <1>t, <1>6, <2>1, LocksStay
  <1> QED
    BY <1>5, <1>6, <1>7, <1>8, <1>9 DEF RosterInv

\* A killed process loses its locks with it.
LEMMA KillsKeep == ASSUME RosterInv, NEW p \in Proc, Killed(p) PROVE RosterInv'
  <1>t. /\ FileTypes /\ ProcTypes /\ LocksHeld /\ \A q \in Proc : Placed(q) /\ Holding(q)
        /\ clock \in Nat
    BY DEF RosterInv, FileTypes, Time
  <1>1. /\ Set(p, Gone) /\ lock' = [i \in Agent |-> IF lock[i] = p THEN None ELSE lock[i]]
        /\ UNCHANGED <<clock, row, inbox, claim>>
    BY DEF Killed
  <1>2. FileTypes'
    BY <1>t, <1>1 DEF FileTypes
  <1>3. Gone \in Process /\ Fit(p, Gone) /\ Gone.pc = "gone"
    BY <1>t, Resting DEF Fit, Asleep
  <1>4. ProcTypes' /\ proc'[p] = Gone /\ Placed(p)' /\ \A q \in Proc \ {p} : proc'[q] = proc[q]
    BY <1>t, <1>1, <1>3, FitIsPlaced
  <1>5. Holding(p)'
    BY <1>3, <1>4 DEF Holding, At
  <1>6. ASSUME NEW q \in Proc \ {p}
        PROVE  Placed(q)' /\ Holding(q)'
    <2>1. At(q, "row") => Id(q) \in Agent /\ lock[Id(q)] = q
      BY <1>t DEF Holding, Placed, At, Asleep
    <2>2. At(q, "row") => Spares(Id(q)) /\ lock'[Id(q)] = lock[Id(q)]
      BY <1>1, <2>1 DEF Spares
    <2>3. clock <= clock'
      BY <1>t, <1>1
    <2> QED
      BY <1>t, <1>2, <1>4, <2>2, <2>3, OneStays
  <1>7. LocksHeld'
    <2>1. ASSUME NEW j \in Agent, lock'[j] # None
          PROVE  lock'[j] = lock[j] /\ lock[j] # p
      BY <1>1, <2>1
    <2> QED
      BY <1>t, <1>4, <2>1, LocksStay
  <1> QED
    BY <1>2, <1>4, <1>5, <1>6, <1>7 DEF RosterInv

\* A torn file, or a second that passes: nobody moves.
LEMMA WorldKeeps ==
  ASSUME RosterInv, ClockTicks \/ \E i \in Agent : Torn(i)
  PROVE  RosterInv'
  <1>t. /\ FileTypes /\ ProcTypes /\ LocksHeld /\ \A q \in Proc : Placed(q) /\ Holding(q)
        /\ clock \in Nat
    BY DEF RosterInv, FileTypes, Time
  <1>1. proc' = proc /\ lock' = lock /\ inbox' = inbox
    BY DEF ClockTicks, Torn
  <1>2. clock <= clock' /\ clock' \in Time
    <2>1. clock' = clock \/ (clock < MaxClock /\ clock' = clock + 1)
      BY DEF ClockTicks, Torn
    <2>2. clock \in 0 .. MaxClock /\ MaxClock \in Nat
      BY <1>t, Given DEF FileTypes, Time
    <2> QED
      BY <2>1, <2>2 DEF Time
  <1>3. /\ row' \in [Agent -> Row \cup {None}]
        /\ claim' \in [Agent -> Claim \cup {None, Corrupt}]
        /\ \A j \in Agent : Spares(j)
    <2>1. CASE row' = row /\ claim' = claim
      BY <1>t, <1>1, <2>1 DEF FileTypes, Spares
    <2>2. CASE \E i \in Agent : /\ row[i] # None /\ claim' = claim
                                /\ row' = [row EXCEPT ![i].ok = FALSE, ![i].seen = clock]
      <3>1. PICK i \in Agent : /\ row[i] # None /\ claim' = claim
                               /\ row' = [row EXCEPT ![i].ok = FALSE, ![i].seen = clock]
        BY <2>2
      <3> DEFINE b == [row[i] EXCEPT !.ok = FALSE, !.seen = clock]
      <3>2. row[i] \in Row
        BY <1>t, <3>1 DEF FileTypes
      <3>3. b \in Row /\ b.notes = row[i].notes
        BY <1>t, <3>2 DEF Row, FileTypes
      <3>4. row' = [row EXCEPT ![i] = b]
        BY <1>t, <3>1 DEF FileTypes
      <3> HIDE DEF b
      <3> QED
        BY <1>t, <1>1, <3>1, <3>3, <3>4 DEF FileTypes, Spares
    <2>3. CASE \E i \in Agent : row' = row /\ claim' = [claim EXCEPT ![i] = Corrupt]
      BY <1>t, <1>1, <2>3 DEF FileTypes, Spares
    <2> QED
      BY <2>1, <2>2, <2>3 DEF ClockTicks, Torn
  <1>4. FileTypes' /\ ProcTypes'
    BY <1>t, <1>1, <1>2, <1>3 DEF FileTypes, ProcTypes
  <1>5. ASSUME NEW q \in Proc
        PROVE  Placed(q)' /\ Holding(q)'
    <2>1. At(q, "row") => Spares(Id(q)) /\ lock'[Id(q)] = lock[Id(q)]
      BY <1>t, <1>1, <1>3 DEF Placed, At, Asleep
    <2> QED
      BY <1>t, <1>1, <1>2, <1>4, <2>1, OneStays
  <1>6. LocksHeld'
    BY <1>t, <1>1 DEF LocksHeld, At, Id
  <1> QED
    BY <1>4, <1>5, <1>6 DEF RosterInv

LEMMA RosterKept == ASSUME RosterInv, Next PROVE RosterInv'
  <1>1. CASE \E c \in Cmd, i \in Agent :
               \/ \E tok \in Lane \cup {None}, given, vendor, sweep \in BOOLEAN :
                    Register(c, i, tok, given, vendor, sweep)
               \/ CleanStart(c, i)
    BY <1>1, CommandsKeep
  <1>2. CASE \E c \in Cmd : CleanMailbox(c)
    BY <1>2, CommandsKeep
  <1>3. CASE \E p \in Proc : Publish(p) \/ Sweep(p) \/ Killed(p)
    BY <1>3, InboxKeeps, RowKeeps, RefusalKeeps, SweepsKeep, KillsKeep DEF Publish
  <1>4. CASE \E l \in Lane : Turn(l) \/ Release(l) \/ \E due \in BOOLEAN : Tick(l, due)
    BY <1>4, ClaimsKeep, BeatsKeep DEF Turn
  <1>5. CASE ClockTicks \/ \E i \in Agent : Torn(i)
    BY <1>5, WorldKeeps
  <1> QED
    BY <1>1, <1>2, <1>3, <1>4, <1>5 DEF Next

-----------------------------------------------------------------------------
(* The life of serve: every step keeps the invariant *)

LEMMA RunStarts == R!Init => RunInv
  BY DEF R!Init, RunInv, Flagged, RunTypes, Begun, Wrapped, Taken, Polled, Mains, Starting, Giving

\* The start, and the undoing of a start that failed.
LEMMA StartsKeep ==
  ASSUME RunInv,
         \/ R!Start \/ R!Lease \/ R!Identity \/ R!Spawn \/ R!Register \/ R!Raw \/ R!Reap
         \/ R!Active
  PROVE  RunInv'
  <1>t. Flagged /\ RunTypes /\ Begun /\ Wrapped /\ Taken /\ Polled
    BY DEF RunInv
  <1> USE DEF Starting, Giving, R!Goto, R!lane, R!flags, R!loops, R!After
  <1>1. CASE R!Start \/ R!Lease
    <2>0. Flagged'
      BY <1>t, <1>1 DEF R!Start, R!Lease, Flagged
    <2>1. RunTypes'
      BY <1>t, <1>1 DEF R!Start, R!Lease, RunTypes, Mains
    <2>2. Begun' /\ Polled'
      BY <1>t, <1>1 DEF R!Start, R!Lease, Begun, Polled
    <2>3. Wrapped'
      BY <1>t, <1>1 DEF R!Start, R!Lease, Wrapped
    <2>4. Taken'
      BY <1>t, <1>1 DEF R!Start, R!Lease, Taken
    <2> QED
      BY <2>0, <2>1, <2>2, <2>3, <2>4 DEF RunInv
  <1>2. CASE R!Identity
    <2>0. Flagged'
      BY <1>t, <1>2 DEF R!Identity, Flagged
    <2>1. RunTypes'
      BY <1>t, <1>2 DEF R!Identity, RunTypes, Mains
    <2>2. Begun' /\ Polled'
      BY <1>t, <1>2 DEF R!Identity, Begun, Polled
    <2>3. Wrapped'
      BY <1>t, <1>2 DEF R!Identity, Wrapped
    <2>4. Taken'
      BY <1>t, <1>2 DEF R!Identity, Taken
    <2> QED
      BY <2>0, <2>1, <2>2, <2>3, <2>4 DEF RunInv
  <1>3. CASE R!Spawn
    <2>0. Flagged'
      BY <1>t, <1>3 DEF R!Spawn, R!SpawnFails, Flagged
    <2>1. RunTypes'
      BY <1>t, <1>3 DEF R!Spawn, R!SpawnFails, RunTypes, Mains
    <2>2. Begun' /\ Polled'
      BY <1>t, <1>3 DEF R!Spawn, R!SpawnFails, Begun, Polled
    <2>3. Wrapped'
      BY <1>t, <1>3 DEF R!Spawn, R!SpawnFails, Wrapped
    <2>4. Taken'
      BY <1>t, <1>3 DEF R!Spawn, R!SpawnFails, Taken
    <2> QED
      BY <2>0, <2>1, <2>2, <2>3, <2>4 DEF RunInv
  <1>4. CASE R!Register
    <2>0. Flagged'
      BY <1>t, <1>4 DEF R!Register, R!Undo, R!Hit, Flagged
    <2>1. RunTypes'
      BY <1>t, <1>4 DEF R!Register, R!Undo, R!Hit, RunTypes, Mains
    <2>2. Begun' /\ Polled'
      BY <1>t, <1>4 DEF R!Register, R!Undo, R!Hit, Begun, Polled
    <2>3. Wrapped'
      <3>1. CASE main' = R!After.register /\ child' = child /\ pty' = pty
        BY <1>t, <1>4, <3>1 DEF R!Register, Wrapped
      <3>2. CASE child # "none" /\ R!Undo
        BY <1>t, <1>4, <3>2 DEF R!Register, R!Undo, R!Hit, Wrapped, RunTypes
      <3>3. CASE child = "none" /\ main' = "release" /\ child' = child /\ pty' = pty
        BY <1>t, <1>4, <3>3 DEF R!Register, Wrapped
      <3> QED
        BY <1>4, <3>1, <3>2, <3>3 DEF R!Register
    <2>4. Taken'
      BY <1>t, <1>4 DEF R!Register, R!Undo, R!Hit, Taken
    <2> QED
      BY <2>0, <2>1, <2>2, <2>3, <2>4 DEF RunInv
  <1>5. CASE R!Raw
    <2>0. Flagged'
      BY <1>t, <1>5 DEF R!Raw, R!Undo, R!Hit, Flagged
    <2>1. RunTypes'
      BY <1>t, <1>5 DEF R!Raw, R!Undo, R!Hit, RunTypes, Mains
    <2>2. Begun' /\ Polled'
      BY <1>t, <1>5 DEF R!Raw, R!Undo, R!Hit, Begun, Polled
    <2>3. Wrapped'
      BY <1>t, <1>5 DEF R!Raw, R!Undo, R!Hit, Wrapped
    <2>4. Taken'
      BY <1>t, <1>5 DEF R!Raw, R!Undo, R!Hit, Taken
    <2> QED
      BY <2>0, <2>1, <2>2, <2>3, <2>4 DEF RunInv
  <1>6. CASE R!Reap \/ R!Active
    <2>0. Flagged'
      BY <1>t, <1>6 DEF R!Reap, R!Reaped, R!Active, Flagged
    <2>1. RunTypes'
      BY <1>t, <1>6 DEF R!Reap, R!Reaped, R!Active, RunTypes, Mains
    <2>2. Begun' /\ Polled'
      BY <1>t, <1>6 DEF R!Reap, R!Reaped, R!Active, Begun, Polled
    <2>3. Wrapped'
      BY <1>t, <1>6 DEF R!Reap, R!Reaped, R!Active, Wrapped
    <2>4. Taken'
      BY <1>t, <1>6 DEF R!Reap, R!Reaped, R!Active, Taken
    <2> QED
      BY <2>0, <2>1, <2>2, <2>3, <2>4 DEF RunInv
  <1> QED
    BY <1>1, <1>2, <1>3, <1>4, <1>5, <1>6

\* The end: the loops are stopped and the lease is given back.
LEMMA GivesKeep ==
  ASSUME RunInv,
         R!Ended \/ R!ChannelLost \/ R!Join \/ R!Offline \/ R!Release \/ R!Forget
  PROVE  RunInv'
  <1>t. Flagged /\ RunTypes /\ Begun /\ Wrapped /\ Taken /\ Polled
    BY DEF RunInv
  <1> USE DEF Starting, Giving, R!Goto, R!lane, R!flags, R!loops
  <1>1. CASE R!Ended \/ R!ChannelLost
    <2>0. Flagged'
      BY <1>t, <1>1 DEF R!Ended, R!ChannelLost, R!RequestShutdown, Flagged
    <2>1. RunTypes'
      BY <1>t, <1>1 DEF R!Ended, R!ChannelLost, R!RequestShutdown, RunTypes, Mains
    <2>2. Begun' /\ Polled'
      BY <1>t, <1>1 DEF R!Ended, R!ChannelLost, R!RequestShutdown, Begun, Polled
    <2>3. Wrapped'
      BY <1>t, <1>1 DEF R!Ended, R!ChannelLost, R!RequestShutdown, Wrapped
    <2>4. Taken'
      BY <1>t, <1>1 DEF R!Ended, R!ChannelLost, R!RequestShutdown, Taken
    <2> QED
      BY <2>0, <2>1, <2>2, <2>3, <2>4 DEF RunInv
  <1>2. CASE R!Join \/ R!Offline
    <2>0. Flagged'
      BY <1>t, <1>2 DEF R!Join, R!Joined, R!Offline, Flagged
    <2>1. RunTypes'
      BY <1>t, <1>2 DEF R!Join, R!Joined, R!Offline, RunTypes, Mains
    <2>2. Begun' /\ Polled'
      BY <1>t, <1>2 DEF R!Join, R!Joined, R!Offline, Begun, Polled
    <2>3. Wrapped'
      BY <1>t, <1>2 DEF R!Join, R!Joined, R!Offline, Wrapped
    <2>4. Taken'
      BY <1>t, <1>2 DEF R!Join, R!Joined, R!Offline, Taken
    <2> QED
      BY <2>0, <2>1, <2>2, <2>3, <2>4 DEF RunInv
  <1>3. CASE R!Release \/ R!Forget
    <2>0. Flagged'
      BY <1>t, <1>3 DEF R!Release, R!Forget, Flagged
    <2>1. RunTypes'
      BY <1>t, <1>3 DEF R!Release, R!Forget, RunTypes, Mains
    <2>2. Begun' /\ Polled'
      BY <1>t, <1>3 DEF R!Release, R!Forget, Begun, Polled
    <2>3. Wrapped'
      BY <1>t, <1>3 DEF R!Release, R!Forget, Wrapped
    <2>4. Taken'
      BY <1>t, <1>3 DEF R!Release, R!Forget, Taken
    <2> QED
      BY <2>0, <2>1, <2>2, <2>3, <2>4 DEF RunInv
  <1> QED
    BY <1>1, <1>2, <1>3

\* The goroutines beside it, and the world.
LEMMA LoopsKeep ==
  ASSUME RunInv,
         \/ R!Signal \/ R!PollLoop \/ R!Inject \/ R!Typist \/ R!Killer
         \/ R!ChildEnds \/ R!LeaseLost \/ R!Killed
  PROVE  RunInv'
  <1>t. Flagged /\ RunTypes /\ Begun /\ Wrapped /\ Taken /\ Polled
    BY DEF RunInv
  <1> USE DEF Starting, Giving, R!Goto, R!lane, R!flags, R!loops, R!Running, R!Over
  <1>1. CASE R!Signal \/ R!ChildEnds \/ R!LeaseLost \/ R!Killed
    <2>0. Flagged'
      BY <1>t, <1>1 DEF R!Signal, R!RequestShutdown, R!ChildEnds, R!LeaseLost, R!Killed, Flagged
    <2>1. RunTypes'
      BY <1>t, <1>1 DEF R!Signal, R!RequestShutdown, R!ChildEnds, R!LeaseLost, R!Killed,
                        RunTypes, Mains
    <2>2. Begun' /\ Polled'
      BY <1>t, <1>1 DEF R!Signal, R!RequestShutdown, R!ChildEnds, R!LeaseLost, R!Killed,
                        Begun, Polled
    <2>3. Wrapped'
      BY <1>t, <1>1 DEF R!Signal, R!RequestShutdown, R!ChildEnds, R!LeaseLost, R!Killed, Wrapped
    <2>4. Taken'
      BY <1>t, <1>1 DEF R!Signal, R!RequestShutdown, R!ChildEnds, R!LeaseLost, R!Killed, Taken
    <2> QED
      BY <2>0, <2>1, <2>2, <2>3, <2>4 DEF RunInv
  <1>2. CASE R!Poll
    <2>0. Flagged'
      BY <1>t, <1>2 DEF R!Poll, R!RequestShutdown, R!Fenced, Flagged
    <2>1. RunTypes'
      BY <1>t, <1>2 DEF R!Poll, R!RequestShutdown, R!Fenced, RunTypes, Mains
    <2>2. Begun' /\ Polled'
      BY <1>t, <1>2 DEF R!Poll, R!RequestShutdown, R!Fenced, Begun, Polled
    <2>3. Wrapped'
      BY <1>t, <1>2 DEF R!Poll, R!RequestShutdown, R!Fenced, Wrapped
    <2>4. Taken'
      BY <1>t, <1>2 DEF R!Poll, R!RequestShutdown, R!Fenced, Taken
    <2> QED
      BY <2>0, <2>1, <2>2, <2>3, <2>4 DEF RunInv
  <1>3. CASE R!PollSave \/ R!PollWait
    <2>0. Flagged'
      BY <1>t, <1>3 DEF R!PollSave, R!PollWait, Flagged
    <2>1. RunTypes'
      BY <1>t, <1>3 DEF R!PollSave, R!PollWait, RunTypes, Mains
    <2>2. Begun' /\ Polled'
      BY <1>t, <1>3 DEF R!PollSave, R!PollWait, Begun, Polled
    <2>3. Wrapped'
      BY <1>t, <1>3 DEF R!PollSave, R!PollWait, Wrapped
    <2>4. Taken'
      BY <1>t, <1>3 DEF R!PollSave, R!PollWait, Taken
    <2> QED
      BY <2>0, <2>1, <2>2, <2>3, <2>4 DEF RunInv
  <1>4. CASE R!Inject \/ R!Typist
    <2>1. /\ UNCHANGED <<remote, deaf, full, main, held, child, pty, ident, down, stop, lost,
                       poll, killer>>
          /\ inject # "off" \/ typist # "off"
          /\ status' \in {status, "active"}
          /\ inject' \in {inject, "wait", "ask", "lock", "type", "save", "done"}
          /\ typist' \in {typist, "read", "lock", "type", "done"}
          /\ ~(inject' = "type" /\ typist' = "type")
      <3>1. CASE R!Wake \/ R!Ask \/ R!InjectSave \/ R!InjectDone
        BY <1>t, <3>1 DEF R!Wake, R!Ask, R!InjectSave, R!InjectDone, RunTypes
      <3>2. CASE R!InjectLock \/ R!Typed
        BY <1>t, <3>2 DEF R!InjectLock, R!Typed, R!MutexFree, RunTypes
      <3>3. CASE R!Typist
        BY <1>t, <3>3 DEF R!Typist, R!Copy, R!MutexFree, RunTypes
      <3> QED
        BY <1>4, <3>1, <3>2, <3>3 DEF R!Inject
    <2>2. Flagged' /\ Wrapped' /\ Taken'
      BY <1>t, <2>1 DEF Flagged, Wrapped, Taken
    <2>3. RunTypes'
      BY <1>t, <2>1 DEF RunTypes, Mains
    <2>4. Begun' /\ Polled'
      BY <1>t, <2>1 DEF Begun, Polled
    <2> QED
      BY <2>2, <2>3, <2>4 DEF RunInv
  <1>5. CASE R!Hangup \/ R!KillerKills
    <2>0. Flagged'
      BY <1>t, <1>5 DEF R!Hangup, R!KillerKills, R!Kill, R!Hit, Flagged
    <2>1. RunTypes'
      BY <1>t, <1>5 DEF R!Hangup, R!KillerKills, R!Kill, R!Hit, RunTypes, Mains
    <2>2. Begun' /\ Polled'
      BY <1>t, <1>5 DEF R!Hangup, R!KillerKills, R!Kill, R!Hit, Begun, Polled
    <2>3. Wrapped'
      BY <1>t, <1>5 DEF R!Hangup, R!KillerKills, R!Kill, R!Hit, Wrapped
    <2>4. Taken'
      BY <1>t, <1>5 DEF R!Hangup, R!KillerKills, R!Kill, R!Hit, Taken
    <2> QED
      BY <2>0, <2>1, <2>2, <2>3, <2>4 DEF RunInv
  <1> QED
    BY <1>1, <1>2, <1>3, <1>4, <1>5 DEF R!PollLoop, R!Killer

LEMMA RunKept == ASSUME RunInv, R!Next PROVE RunInv'
  BY StartsKeep, GivesKeep, LoopsKeep DEF R!Next, R!Main

-----------------------------------------------------------------------------
(* The invariant of a behaviour of either side *)

LEMMA RosterStarts == Init => RosterInv
  <1> SUFFICES ASSUME Init PROVE RosterInv
    OBVIOUS
  <1>1. FileTypes
    <2>1. [seen |-> 0, ok |-> TRUE, notes |-> TRUE, by |-> None] \in Row /\ 0 \in Time
      BY Given DEF Row, Time
    <2>2. row \in [Agent -> Row \cup {None}]
      <3>1. row \in [Agent -> {None, [seen |-> 0, ok |-> TRUE, notes |-> TRUE, by |-> None]}]
        BY DEF Init
      <3> QED
        BY <2>1, <3>1
    <2> QED
      BY <2>1, <2>2 DEF Init, FileTypes
  <1>2. \A p \in Proc : /\ proc[p] = Idle /\ proc[p].pc = "idle"
                       /\ proc[p].todo = {} /\ proc[p].now = 0
    BY DEF Init, Idle
  <1>3. ProcTypes
    <2>1. \A p \in Proc : Idle \in Process
      BY Resting
    <2> QED
      BY <2>1 DEF Init, ProcTypes
  <1>4. \A p \in Proc : Placed(p) /\ Holding(p)
    BY <1>2 DEF Init, Placed, Holding, At, Asleep
  <1>5. LocksHeld
    BY DEF Init, LocksHeld
  <1> QED
    BY <1>1, <1>3, <1>4, <1>5 DEF RosterInv

\* The side that is not played stands still.
LEMMA RosterStands == ASSUME RosterInv, UNCHANGED vars PROVE RosterInv'
  <1>1. FileTypes' /\ ProcTypes' /\ LocksHeld'
    BY DEF RosterInv, vars, FileTypes, ProcTypes, LocksHeld, At, Id
  <1>2. \A p \in Proc : Placed(p)' /\ Holding(p)'
    BY DEF RosterInv, vars, Placed, Holding, At, Id, Home0, LiveElsewhere
  <1> QED
    BY <1>1, <1>2 DEF RosterInv

LEMMA RunStands == ASSUME RunInv, UNCHANGED run PROVE RunInv'
  BY DEF RunInv, run, Flagged, RunTypes, Begun, Wrapped, Taken, Polled

\* What a step is, seen from either side.
LEMMA Sides ==
  ASSUME [LaneNext]_all
  PROVE  /\ Next \/ UNCHANGED vars
         /\ R!Next \/ UNCHANGED run
  BY DEF LaneNext, Rows, Runs, all

\* A command that starts reads, and writes nothing.
LEMMA StartsWriteNothing ==
  ASSUME NEW c \in Cmd, NEW i \in Agent,
         \/ \E tok \in Lane \cup {None}, given, vendor, sweep \in BOOLEAN :
              Register(c, i, tok, given, vendor, sweep)
         \/ CleanStart(c, i)
  PROVE  UNCHANGED <<clock, row, inbox, claim, lock, faults>>
  <1>1. \A tok, given, vendor, sweep :
          Register(c, i, tok, given, vendor, sweep) =>
            UNCHANGED <<clock, row, inbox, claim, lock, faults>>
    BY DEF Register
  <1>2. CleanStart(c, i) => UNCHANGED <<clock, row, inbox, claim, lock, faults>>
    BY DEF CleanStart
  <1> QED
    BY <1>1, <1>2

\* Kills and torn files are counted.
LEMMA FaultsCount == Next => faults' \in {faults, faults + 1}
  <1> SUFFICES ASSUME Next PROVE faults' \in {faults, faults + 1}
    OBVIOUS
  <1>1. CASE \E c \in Cmd, i \in Agent :
               \/ \E tok \in Lane \cup {None}, given, vendor, sweep \in BOOLEAN :
                    Register(c, i, tok, given, vendor, sweep)
               \/ CleanStart(c, i)
    BY <1>1, StartsWriteNothing
  <1>2. CASE ClockTicks \/ (\E c \in Cmd : CleanMailbox(c)) \/ \E i \in Agent : Torn(i)
    BY <1>2 DEF CleanMailbox, ClockTicks, Torn, Fault
  <1>3. CASE \E p \in Proc : Publish(p) \/ Sweep(p) \/ Killed(p)
    BY <1>3 DEF Publish, PublishInbox, PublishRow, Refuse, Killed, Fault, Sweep, Scan, SweepOne,
                SweepFails, SweepEnds
  <1>4. CASE \E l \in Lane : Turn(l) \/ Release(l) \/ \E due \in BOOLEAN : Tick(l, due)
    BY <1>4 DEF Turn, Launch, Renew, Beat, Release, Tick
  <1> QED
    BY <1>1, <1>2, <1>3, <1>4 DEF Next

LEMMA LaneSafe == LaneRuns => []LaneInv
  <1>1. LaneInit => LaneInv
    BY RosterStarts, RunStarts DEF LaneInit, LaneInv, Init
  <1>2. LaneInv /\ [LaneNext]_all => (RosterInv /\ RunInv)'
    BY Sides, RosterKept, RosterStands, RunKept, RunStands DEF LaneInv
  <1>3. faults \in Nat /\ [LaneNext]_all => faults' \in Nat
    BY Sides, FaultsCount DEF vars
  <1>4. LaneInv /\ [LaneNext]_all => LaneInv'
    BY <1>2, <1>3 DEF LaneInv
  <1> QED
    BY <1>1, <1>4, PTL DEF LaneRuns

-----------------------------------------------------------------------------
(* What a step does to the rows *)

\* Who writes a row, and what becomes of the others.
Published(p) == /\ At(p, "row")
                /\ row' = [row EXCEPT ![Id(p)] = [seen |-> proc[p].now, ok |-> TRUE,
                                       notes |-> proc[p].notes, by |-> proc[p].tok]]
Beaten(l) == /\ At(l, "beat") /\ Open(Id(l)) /\ claim[Id(l)] # Corrupt /\ ~Fenced(l)
             /\ row' = [row EXCEPT ![Id(l)] = [seen |-> clock, ok |-> TRUE, by |-> l,
                               notes |-> row[Id(l)] # None /\ row[Id(l)].notes]]
Swept(p) == /\ Next1(p) \in Candidates(Home0(p), proc[p].now)
            /\ row' = [row EXCEPT ![Next1(p)] = None] /\ proc'[p] # proc[p]

LEMMA RowSteps ==
  ASSUME RosterInv, Next
  PROVE  \/ UNCHANGED row
         \/ UNCHANGED inbox
            /\ \/ \E p \in Proc : (Published(p) \/ Swept(p)) /\ UNCHANGED <<claim, clock, faults>>
               \/ \E l \in Lane : Beaten(l) /\ UNCHANGED <<claim, clock, faults>>
               \/ \E i \in Agent : /\ row[i] # None /\ faults' = faults + 1
                                   /\ row' = [row EXCEPT ![i].ok = FALSE, ![i].seen = clock]
  <1>1. CASE \E c \in Cmd, i \in Agent :
               \/ \E tok \in Lane \cup {None}, given, vendor, sweep \in BOOLEAN :
                    Register(c, i, tok, given, vendor, sweep)
               \/ CleanStart(c, i)
    BY <1>1, StartsWriteNothing
  <1>2. CASE ClockTicks \/ \E c \in Cmd : CleanMailbox(c)
    BY <1>2 DEF CleanMailbox, ClockTicks
  <1>3. CASE \E p \in Proc : \/ PublishInbox(p) \/ Refuse(p) \/ Killed(p) \/ Scan(p)
                             \/ SweepFails(p) \/ SweepEnds(p)
    BY <1>3 DEF PublishInbox, Refuse, Killed, Scan, SweepFails, SweepEnds
  <1>4. CASE \E p \in Proc : PublishRow(p)
    BY <1>4 DEF PublishRow, Published
  <1>5. ASSUME NEW p \in Proc, SweepOne(p)
        PROVE  UNCHANGED row \/ (Swept(p) /\ UNCHANGED <<inbox, claim, clock, faults>>)
    <2>1. CASE Next1(p) \in Candidates(Home0(p), proc[p].now)
      <3>1. /\ row' = [row EXCEPT ![Next1(p)] = None]
            /\ proc' = [proc EXCEPT ![p] = [proc[p] EXCEPT !.todo = @ \ {Next1(p)},
                                                           !.removed = @ + 1]]
            /\ UNCHANGED <<inbox, claim, clock, faults>>
        BY <1>5, <2>1 DEF SweepOne, Set
      <3>2. proc \in [Proc -> Process] /\ proc[p] \in Process
        BY DEF RosterInv, ProcTypes
      <3>3. proc'[p].removed = proc[p].removed + 1 /\ proc[p].removed \in Nat
        BY <3>1, <3>2, Given DEF Process
      <3>4. proc'[p] # proc[p]
        BY <3>3
      <3> QED
        BY <2>1, <3>1, <3>4 DEF Swept
    <2>2. CASE Next1(p) \notin Candidates(Home0(p), proc[p].now)
      BY <1>5, <2>2 DEF SweepOne
    <2> QED
      BY <2>1, <2>2
  <1>6. CASE \E l \in Lane : \/ Launch(l) \/ Renew(l) \/ Release(l)
                             \/ \E due \in BOOLEAN : Tick(l, due)
    BY <1>6 DEF Launch, Renew, Release, Tick
  <1>7. CASE \E l \in Lane : Beat(l)
    BY <1>7 DEF Beat, Beaten
  <1>8. CASE \E i \in Agent : Torn(i)
    BY <1>8 DEF Torn, Fault
  <1> QED
    BY <1>1, <1>2, <1>3, <1>4, <1>5, <1>6, <1>7, <1>8 DEF Next, Publish, Sweep, Turn

\* A claim that is not dead at the clock was not dead before.
LEMMA LiveIsNotDead ==
  ASSUME RosterInv, NEW p \in Proc, NEW i \in Agent, Live(i)
  PROVE  ~ClaimProvablyDead(i, proc[p].now)
  <1>1. /\ clock \in Time /\ proc[p] \in Process /\ proc[p].now <= clock
        /\ claim[i] \in Claim \cup {None, Corrupt}
    BY DEF RosterInv, FileTypes, ProcTypes, Placed
  <1>2. proc[p].now \in Time
    BY <1>1 DEF Process
  <1>3. ~ClaimProvablyDead(i, clock)
    BY DEF Live, ClaimProvablyDead
  <1> QED
    BY <1>1, <1>2, <1>3, DeadStaysDead

\* What is written is a row.
LEMMA Written ==
  ASSUME RosterInv
  PROVE  /\ \A p \in Proc : Published(p) => row'[Id(p)] \in Row /\ row'[Id(p)] # None
         /\ \A l \in Lane : Beaten(l) => row'[Id(l)] \in Row /\ row'[Id(l)] # None
  <1>t. FileTypes /\ ProcTypes /\ \A p \in Proc : Placed(p)
    BY DEF RosterInv
  <1>1. ASSUME NEW p \in Proc, Published(p)
        PROVE  row'[Id(p)] \in Row
    <2>1. Id(p) \in Agent /\ proc[p] \in Process
      BY <1>t, <1>1 DEF Published, Placed, At, Asleep, ProcTypes
    <2>2. [seen |-> proc[p].now, ok |-> TRUE, notes |-> proc[p].notes, by |-> proc[p].tok] \in Row
      BY <2>1 DEF Process, Row
    <2> QED
      BY <1>t, <1>1, <2>1, <2>2 DEF Published, FileTypes
  <1>2. ASSUME NEW l \in Lane, Beaten(l)
        PROVE  row'[Id(l)] \in Row
    <2>1. Id(l) \in Agent
      BY <1>t, <1>2 DEF Beaten, Placed, At, Asleep, Proc
    <2>2. (row[Id(l)] # None /\ row[Id(l)].notes) \in BOOLEAN
      BY <1>t, <2>1 DEF FileTypes, Row
    <2>3. [seen |-> clock, ok |-> TRUE, by |-> l,
           notes |-> row[Id(l)] # None /\ row[Id(l)].notes] \in Row
      BY <1>t, <2>2 DEF FileTypes, Row
    <2> QED
      BY <1>t, <1>2, <2>1, <2>3 DEF Beaten, FileTypes
  <1> QED
    BY <1>1, <1>2, Given

\* An inbox goes only with a clean-up, which finds no row.
LEMMA InboxSteps ==
  ASSUME Next, UNCHANGED row, NEW i \in Agent
  PROVE  i \in inbox => i \in inbox' \/ row[i] = None
  <1>1. CASE \E c \in Cmd, i1 \in Agent :
               \/ \E tok \in Lane \cup {None}, given, vendor, sweep \in BOOLEAN :
                    Register(c, i1, tok, given, vendor, sweep)
               \/ CleanStart(c, i1)
    BY <1>1, StartsWriteNothing
  <1>2. CASE ClockTicks \/ \E i1 \in Agent : Torn(i1)
    BY <1>2 DEF ClockTicks, Torn
  <1>3. CASE \E p \in Proc : Publish(p) \/ Sweep(p) \/ Killed(p)
    BY <1>3 DEF Publish, PublishInbox, PublishRow, Refuse, Killed, Sweep, Scan, SweepOne,
                SweepFails, SweepEnds
  <1>4. CASE \E l \in Lane : Turn(l) \/ Release(l) \/ \E due \in BOOLEAN : Tick(l, due)
    BY <1>4 DEF Turn, Launch, Renew, Beat, Release, Tick
  <1>5. CASE \E c \in Cmd : CleanMailbox(c)
    BY <1>5 DEF CleanMailbox, Abandoned
  <1> QED
    BY <1>1, <1>2, <1>3, <1>4, <1>5 DEF Next

-----------------------------------------------------------------------------
(* What a step does to the lease and to the record of the runner *)

\* Only the release gives the lease back.
LEMMA OnlyReleases ==
  ASSUME R!Next, held = "mine", held' = "none"
  PROVE  main = "release" /\ main \in Giving
  <1> USE DEF R!lane, R!flags, R!loops, R!Goto
  <1>1. CASE \/ R!Start \/ R!Lease \/ R!Identity \/ R!Spawn
             \/ R!Register \/ R!Raw \/ R!Reap \/ R!Active
    BY <1>1 DEF R!Start, R!Lease, R!Identity, R!Spawn, R!Register, R!Raw, R!Reap, R!Active
  <1>2. CASE R!Ended \/ R!ChannelLost \/ R!Join \/ R!Offline \/ R!Release \/ R!Forget
    BY <1>2 DEF R!Ended, R!ChannelLost, R!Join, R!Offline, R!Release, R!Forget, Giving
  <1>3. CASE R!Signal \/ R!PollLoop \/ R!Inject \/ R!Typist
    BY <1>3 DEF R!Signal, R!PollLoop, R!Poll, R!PollSave, R!PollWait, R!Inject, R!Wake,
                R!Ask, R!InjectLock, R!Typed, R!InjectSave, R!InjectDone, R!Typist, R!Copy
  <1>4. CASE R!Killer \/ R!ChildEnds \/ R!LeaseLost \/ R!Killed
    BY <1>4 DEF R!Killer, R!Hangup, R!KillerKills, R!ChildEnds, R!LeaseLost, R!Killed
  <1> QED
    BY <1>1, <1>2, <1>3, <1>4 DEF R!Next, R!Main

\* "active" is written by the start of the loops, by a poll and by a wake.
LEMMA OnlySaves ==
  ASSUME R!Next, status = "offline", status' = "active"
  PROVE  main = "active" \/ poll = "save" \/ inject = "save"
  <1> USE DEF R!lane, R!flags, R!loops, R!Goto
  <1>1. CASE \/ R!Start \/ R!Lease \/ R!Identity \/ R!Spawn
             \/ R!Register \/ R!Raw \/ R!Reap \/ R!Active
    BY <1>1 DEF R!Start, R!Lease, R!Identity, R!Spawn, R!Register, R!Raw, R!Reap, R!Active
  <1>2. CASE R!Ended \/ R!ChannelLost \/ R!Join \/ R!Offline \/ R!Release \/ R!Forget
    BY <1>2 DEF R!Ended, R!ChannelLost, R!Join, R!Offline, R!Release, R!Forget
  <1>3. CASE R!Signal \/ R!PollLoop \/ R!Inject \/ R!Typist
    BY <1>3 DEF R!Signal, R!PollLoop, R!Poll, R!PollSave, R!PollWait, R!Inject, R!Wake,
                R!Ask, R!InjectLock, R!Typed, R!InjectSave, R!InjectDone, R!Typist, R!Copy
  <1>4. CASE R!Killer \/ R!ChildEnds \/ R!LeaseLost \/ R!Killed
    BY <1>4 DEF R!Killer, R!Hangup, R!KillerKills, R!ChildEnds, R!LeaseLost, R!Killed
  <1> QED
    BY <1>1, <1>2, <1>3, <1>4 DEF R!Next, R!Main

-----------------------------------------------------------------------------
(* The theorems *)

\* MCRoster!LaneTypeOK: the rows, claims and locks keep their types and a lock
\* that is held across steps has its holder between the two writes of a register;
\* a lane that ended, also on a failed launch, holds neither the lease nor an
\* identity nor a wrapper.
THEOREM LaneTypesHold == LaneRuns => []LaneTypeOK
  <1>1. RosterInv => TypeOK
    <2> SUFFICES ASSUME RosterInv PROVE TypeOK
      OBVIOUS
    <2>1. FileTypes /\ ProcTypes /\ LocksHeld /\ \A p \in Proc : Placed(p)
      BY DEF RosterInv
    <2>2. ASSUME NEW p \in Proc
          PROVE  proc[p].todo \subseteq Agent \ {Home0(p)} /\ proc[p].removed <= MaxSweepPerPass
      <3>1. proc[p] \in Process /\ Home0(p) \notin proc[p].todo
        BY <2>1 DEF ProcTypes, Placed
      <3> QED
        BY <3>1, Given DEF Process
    <2> QED
      BY <2>1, <2>2 DEF TypeOK, FileTypes, LocksHeld
  <1>2. RunInv => R!TypeOK
    <2> SUFFICES ASSUME RunInv PROVE R!TypeOK
      OBVIOUS
    <2>1. {remote, deaf, full, pty, ident, down, stop, lost} \subseteq BOOLEAN
      BY DEF RunInv, Flagged
    <2>2. main = "ended" => child \in {"none", "exited"} /\ held # "mine" /\ ~ident /\ ~pty
      BY DEF RunInv, Wrapped, Taken, Giving
    <2> QED
      BY <2>1, <2>2 DEF RunInv, RunTypes, Mains, Starting, Giving, R!TypeOK
  <1>3. LaneInv => LaneTypeOK
    BY <1>1, <1>2 DEF LaneInv, LaneTypeOK
  <1> QED
    BY <1>3, LaneSafe, PTL

\* MCRoster!RowKept: while a lane's claim is live nobody removes its row and only
\* that lane and the commands that carry its token write it; and no refresh of any
\* row loses what its owner wrote in it.
THEOREM RowsAreKept == LaneRuns => RowKept
  <1>1. LaneInv /\ [LaneNext]_all =>
          [\A i \in Agent : Live(i) /\ row'[i] # row[i] /\ faults' = faults =>
             row'[i] # None /\ row'[i].by = claim[i].by]_vars
    <2> SUFFICES ASSUME RosterInv, Next, NEW i \in Agent, Live(i), row'[i] # row[i],
                        faults \in Nat, faults' = faults
                 PROVE  row'[i] # None /\ row'[i].by = claim[i].by
      BY Sides DEF LaneInv
    <2>t. FileTypes /\ FileTypes' /\ ProcTypes /\ \A p \in Proc : Placed(p) /\ Holding(p)
      BY RosterKept DEF RosterInv
    <2>l. claim[i] \notin {None, Corrupt} /\ ~ClaimIsStale(claim[i], clock)
      BY DEF Live
    <2>1. ASSUME NEW p \in Proc, Published(p)
          PROVE  row'[i] # None /\ row'[i].by = claim[i].by
      <3>1. i = Id(p) /\ ~LiveElsewhere(i, proc[p].tok, clock)
        BY <2>t, <2>1 DEF Published, FileTypes, Holding
      <3>2. claim[i].by = proc[p].tok
        BY <2>l, <3>1 DEF LiveElsewhere
      <3>3. row'[i].by = proc[p].tok
        BY <2>t, <2>1, <3>1 DEF Published, FileTypes
      <3>4. row'[i] # None
        BY <2>t, <2>1, <3>1, Written
      <3> QED
        BY <3>2, <3>3, <3>4
    <2>2. ASSUME NEW p \in Proc, Swept(p)
          PROVE  FALSE
      <3>1. i = Next1(p) /\ ClaimProvablyDead(i, proc[p].now)
        BY <2>t, <2>2 DEF Swept, FileTypes, Candidates
      <3> QED
        BY <3>1, LiveIsNotDead
    <2>3. ASSUME NEW l \in Lane, Beaten(l)
          PROVE  row'[i] # None /\ row'[i].by = claim[i].by
      <3>1. i = Id(l) /\ claim[i].by = l
        BY <2>t, <2>l, <2>3 DEF Beaten, FileTypes, Fenced
      <3>2. row'[i].by = l
        BY <2>t, <2>3, <3>1 DEF Beaten, FileTypes
      <3>3. row'[i] # None
        BY <2>t, <2>3, <3>1, Written
      <3> QED
        BY <3>1, <3>2, <3>3
    <2>4. faults' # faults + 1
      OBVIOUS
    <2> QED
      BY <2>1, <2>2, <2>3, <2>4, RowSteps
  <1>2. LaneInv /\ [LaneNext]_all =>
          [\A i \in Agent : row[i] # None /\ row'[i] # None /\ row[i].notes => row'[i].notes]_vars
    <2> SUFFICES ASSUME RosterInv, Next, NEW i \in Agent, row[i] # None, row'[i] # None,
                        row[i].notes
                 PROVE  row'[i].notes
      BY Sides DEF LaneInv
    <2>t. FileTypes /\ ProcTypes /\ \A p \in Proc : Placed(p) /\ Holding(p)
      BY DEF RosterInv
    <2>1. ASSUME NEW p \in Proc, Published(p)
          PROVE  row'[i].notes
      BY <2>t, <2>1 DEF Published, FileTypes, Holding
    <2>2. ASSUME NEW p \in Proc, Swept(p)
          PROVE  row'[i].notes
      BY <2>t, <2>2 DEF Swept, FileTypes
    <2>3. ASSUME NEW l \in Lane, Beaten(l)
          PROVE  row'[i].notes
      BY <2>t, <2>3 DEF Beaten, FileTypes
    <2>4. ASSUME NEW j \in Agent, row[j] # None,
                 row' = [row EXCEPT ![j].ok = FALSE, ![j].seen = clock]
          PROVE  row'[i].notes
      <3>1. row[j] \in Row
        BY <2>t, <2>4 DEF FileTypes
      <3> QED
        BY <2>t, <2>4, <3>1 DEF FileTypes, Row
    <2> QED
      BY <2>1, <2>2, <2>3, <2>4, RowSteps
  <1> QED
    BY <1>1, <1>2, LaneSafe, PTL DEF LaneRuns, RowKept, LiveRowMine, NotesKept

\* MCRoster!SweptWhole: a row that is removed is old, unless it was written more
\* than the tolerance after its sweep read the clock; and only the heartbeat of a
\* lane, never a clean-up or a launch beside it, leaves a row without an inbox.
THEOREM SweptWholly == LaneRuns => SweptWhole
  <1>1. LaneInv /\ [LaneNext]_all =>
          [\A i \in Agent : row[i] # None /\ row'[i] = None =>
             \/ clock > row[i].seen + StaleAfter
             \/ \E p \in Proc : /\ proc'[p] # proc[p]
                                /\ row[i].seen > proc[p].now + Tolerance]_vars
    <2> SUFFICES ASSUME RosterInv, Next, NEW i \in Agent, row[i] # None, row'[i] = None
                 PROVE  \/ clock > row[i].seen + StaleAfter
                        \/ \E p \in Proc : /\ proc'[p] # proc[p]
                                           /\ row[i].seen > proc[p].now + Tolerance
      BY Sides DEF LaneInv
    <2>t. FileTypes /\ ProcTypes /\ \A p \in Proc : Placed(p)
      BY DEF RosterInv
    <2>1. ASSUME NEW p \in Proc, Published(p)
          PROVE  FALSE
      BY <2>t, <2>1, Written DEF Published, FileTypes
    <2>2. ASSUME NEW p \in Proc, Swept(p)
          PROVE  \/ clock > row[i].seen + StaleAfter
                 \/ proc'[p] # proc[p] /\ row[i].seen > proc[p].now + Tolerance
      <3>1. TooOld(row[i], proc[p].now) /\ proc'[p] # proc[p]
        BY <2>t, <2>2 DEF Swept, FileTypes, Candidates
      <3>2. proc[p].now <= clock /\ proc[p].now \in Nat /\ clock \in Nat
        BY <2>t DEF FileTypes, ProcTypes, Process, Placed, Time
      <3>3. row[i].seen \in Nat /\ StaleAfter \in Nat /\ Tolerance \in Nat
        <4>1. row[i] \in Row
          BY <2>t DEF FileTypes
        <4> QED
          BY <4>1, Given DEF Row, Time
      <3> QED
        BY <3>1, <3>2, <3>3 DEF TooOld
    <2>3. ASSUME NEW l \in Lane, Beaten(l)
          PROVE  FALSE
      BY <2>t, <2>3, Written DEF Beaten, FileTypes
    <2>4. ASSUME NEW j \in Agent, row[j] # None,
                 row' = [row EXCEPT ![j].ok = FALSE, ![j].seen = clock]
          PROVE  FALSE
      <3>1. row[j] \in Row
        BY <2>t, <2>4 DEF FileTypes
      <3>2. [row[j] EXCEPT !.ok = FALSE, !.seen = clock] \in Row
        BY <2>t, <3>1 DEF FileTypes, Row
      <3>3. row'[i] = row[i] \/ row'[i] = [row[j] EXCEPT !.ok = FALSE, !.seen = clock]
        BY <2>t, <2>4 DEF FileTypes
      <3> QED
        BY <3>2, <3>3, Given
    <2> QED
      BY <2>1, <2>2, <2>3, <2>4, RowSteps
  <1>2. LaneInv /\ [LaneNext]_all =>
          [\A i \in Agent : Bare(i)' /\ ~Bare(i) =>
             row[i] = None /\ \E l \in Lane : At(l, "beat") /\ Id(l) = i]_vars
    <2> SUFFICES ASSUME RosterInv, Next, NEW i \in Agent, Bare(i)', ~Bare(i)
                 PROVE  row[i] = None /\ \E l \in Lane : At(l, "beat") /\ Id(l) = i
      BY Sides DEF LaneInv
    <2>t. FileTypes /\ ProcTypes /\ \A p \in Proc : Placed(p) /\ Holding(p)
      BY DEF RosterInv
    <2>b. row'[i] # None /\ i \notin inbox' /\ (row[i] = None \/ i \in inbox)
      BY DEF Bare
    <2>0. CASE UNCHANGED row
      BY <2>0, <2>b, InboxSteps
    <2>1. ASSUME NEW p \in Proc, Published(p), UNCHANGED inbox
          PROVE  FALSE
      BY <2>t, <2>b, <2>1 DEF Published, FileTypes, Holding
    <2>2. ASSUME NEW p \in Proc, Swept(p), UNCHANGED inbox
          PROVE  FALSE
      BY <2>t, <2>b, <2>2 DEF Swept, FileTypes
    <2>3. ASSUME NEW l \in Lane, Beaten(l), UNCHANGED inbox
          PROVE  row[i] = None /\ At(l, "beat") /\ Id(l) = i
      BY <2>t, <2>b, <2>3 DEF Beaten, FileTypes
    <2>4. ASSUME NEW j \in Agent, row[j] # None, UNCHANGED inbox,
                 row' = [row EXCEPT ![j].ok = FALSE, ![j].seen = clock]
          PROVE  FALSE
      BY <2>t, <2>b, <2>4 DEF FileTypes
    <2> QED
      BY <2>0, <2>1, <2>2, <2>3, <2>4, RowSteps
  <1> QED
    BY <1>1, <1>2, LaneSafe, PTL DEF LaneRuns, SweptWhole, SweptIsOld, BareByBeat

\* MCRoster!EndOrder: a lane gives its lease back only when its wrapper is gone, and
\* no poll in flight writes "active" over the offline record.
THEOREM EndsInOrder == LaneRuns => EndOrder
  <1>1. LaneInv /\ [LaneNext]_all =>
          [held = "mine" /\ held' = "none" => child \in {"none", "exited"}]_(R!vars)
    <2> SUFFICES ASSUME RunInv, R!Next, held = "mine", held' = "none"
                 PROVE  child \in {"none", "exited"}
      BY Sides DEF LaneInv, run, R!vars, R!lane, R!flags, R!loops
    <2>1. main \in Giving
      BY OnlyReleases
    <2> QED
      BY <2>1 DEF RunInv, Wrapped
  <1>2. LaneInv /\ [LaneNext]_all =>
          [status = "offline" /\ status' = "active" => inject = "save"]_(R!vars)
    <2> SUFFICES ASSUME RunInv, R!Next, status = "offline", status' = "active"
                 PROVE  inject = "save"
      BY Sides DEF LaneInv, run, R!vars, R!lane, R!flags, R!loops
    <2> QED
      BY OnlySaves DEF RunInv, Begun, Polled, Starting
  <1> QED
    BY <1>1, <1>2, LaneSafe, PTL
    DEF LaneRuns, EndOrder, R!ReleasedAfterChild, R!OfflineStays
=============================================================================
