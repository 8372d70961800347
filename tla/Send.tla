---------------------------------- MODULE Send ----------------------------------
(***************************************************************************)
(* One send of internal/cli/send.go and internal/op/send.go: preflight,    *)
(* body, stamp minted under the sender's lock (internal/loop/floor.go),    *)
(* link under the recipient's lock (internal/loop/seq.go), obligation      *)
(* under the sender's lock again, and the spool of a body that was not     *)
(* delivered. Beside it run what discharges obligations (op/claim.go,      *)
(* op/cleanowed.go) and what changes a recipient's row.                    *)
(*                                                                         *)
(* Each slot of Sender sends one body, again and again while it is told    *)
(* that nothing was delivered. A lock is polled and may time out; a fence  *)
(* check may refuse whenever it is made (ServeLease says when).            *)
(***************************************************************************)
EXTENDS Naturals, FiniteSets

CONSTANTS Agent,
          Sender,    \* slots of send processes, one body each
          Jobs,      \* what the slots may have to send: from whom to whom,
                     \* what is asked or answered, and how often it is tried
          Keeper,    \* slots of processes that discharge obligations
          Free,      \* a lock nobody holds
          Nobody,    \* no message, no slot
          ReplyIn,   \* ReplyOwedDeadline
          MaxClock,  \* bound: microseconds of the clock
          MaxFaults  \* bound: kills, I/O errors, clock steps, row changes

ASSUME SlotAssumption ==
  /\ Jobs \subseteq [Sender -> [from : Agent, to : Agent, ask : BOOLEAN,
                       answers : Sender \cup {Nobody}, big : BOOLEAN,
                       forged : BOOLEAN, tries : Nat]]
  /\ Sender \cap Keeper = {} /\ {Free, Nobody} \cap (Sender \cup Keeper) = {}
ASSUME BoundAssumption == {ReplyIn, MaxClock, MaxFaults} \subseteq Nat /\ MaxClock > 0

VARIABLES job,     \* job[s]: the body of slot s, chosen once
          clock,   \* time.Now in microseconds; it may step back
          row,     \* row[a]: what agents/<a>.md says
          lock,    \* lock[a]: holder of state/<a>/.lock
          floor,   \* floor[a]: last_issued of state/<a>/send.floor, 0 if none
          inbox,   \* the messages linked into inboxes
          owed,    \* owed[a]: state/<a>/owed.json
          spool,   \* spool[a]: preserved bodies by file name
          send,    \* send[s]: how far a send is
          keep,    \* keep[k]: how far a discharge is
          faults   \* how many so far

vars == <<job, clock, row, lock, floor, inbox, owed, spool, send, keep, faults>>

Time == 1..MaxClock
Stamp == Nat \ {0}
Id == [to : Agent, from : Agent, stamp : Stamp]
Message == [id : Id, body : Sender, ref : Id \cup {Nobody}]
Obligation == [id : Id, by : Nat]
SpoolName == [at : Time, to : Agent]

From(s) == job[s].from
To(s) == job[s].to

\* The stage of a send, when it started, the ref it replies to, its identity
\* (the 128-bit suffix is left out: the stamp alone tells messages apart), the
\* stamps of its sender that had landed when it began, the spool name it
\* reported, and attempts so far.
Fresh == [pc |-> "idle", at |-> 0, ref |-> Nobody, id |-> Nobody,
          after |-> {}, kept |-> Nobody, tries |-> 0]

At(s, pc) == send[s].pc = pc
Go(s, pc) == send' = [send EXCEPT ![s].pc = pc]
Release(a) == lock' = [lock EXCEPT ![a] = Free]
Fault == faults < MaxFaults /\ faults' = faults + 1
World == <<job, clock, row>>
Env == <<World, faults>>
Files == <<floor, inbox, owed, spool>>

-----------------------------------------------------------------------------
(* cmdSend before delivery *)

\* SendPreflight: lock-free, so it can be out of date at once.
Reachable(s) == row[From(s)] \in {"fresh", "stale"} /\ row[To(s)] = "fresh"

StampsOf(a) == {m.id.stamp : m \in {n \in inbox : n.id.from = a}}

Preflight(s) ==
  /\ send[s].pc \in {"idle", "failed", "refused"} /\ send[s].tries < job[s].tries
  /\ send' = [send EXCEPT ![s] = [Fresh EXCEPT
                !.pc = IF Reachable(s) THEN "compose" ELSE "refused",
                !.at = clock, !.tries = send[s].tries + 1,
                !.after = StampsOf(From(s))]]
  /\ UNCHANGED <<lock, keep, Env, Files>>

\* The body is read and capped, the envelope composed; a reply names the
\* message it answers, when the sender has it.
Refs(s) == {m.id : m \in {n \in inbox : n.body = job[s].answers}}

\* Mutant of Compose: delivery without a stamp.
ComposeUnminted(s, ref) ==
  /\ At(s, "compose")
  /\ send' = [send EXCEPT ![s].ref = ref, ![s].pc = "deliver"]
  /\ UNCHANGED <<lock, keep, Env, Files>>

Compose(s, ref) ==
  /\ At(s, "compose")
  /\ ref \in Refs(s) \/ (Refs(s) = {} /\ ref = Nobody)
  /\ send' = [send EXCEPT ![s].ref = ref,
                          ![s].pc = CASE job[s].big -> "refused"
                                      [] job[s].forged -> "fail"
                                      [] OTHER -> "mint"]
  /\ UNCHANGED <<lock, keep, Env, Files>>

-----------------------------------------------------------------------------
(* MintSendStamp, under the sender's lock *)

TakeLock(s, pc, a, next) ==
  /\ At(s, pc) /\ lock[a] = Free
  /\ lock' = [lock EXCEPT ![a] = s]
  /\ Go(s, next)
  /\ UNCHANGED <<keep, Env, Files>>

MintLock(s) == TakeLock(s, "mint", From(s), "minting")

Later(a) == IF clock > floor[a] THEN clock ELSE floor[a] + 1

\* Mutants of Mint: the clock alone; the lock kept for the delivery.
MintNow(s) ==
  /\ At(s, "minting")
  /\ floor' = [floor EXCEPT ![From(s)] = clock]
  /\ send' = [send EXCEPT ![s].pc = "deliver",
                          ![s].id = [to |-> To(s), from |-> From(s), stamp |-> clock]]
  /\ Release(From(s))
  /\ UNCHANGED <<inbox, owed, spool, keep, Env>>

\* The floor is saved before the stamp is used; 0 is "never minted".
Mint(s) ==
  LET stamp == Later(From(s)) IN
  /\ At(s, "minting")
  /\ floor' = [floor EXCEPT ![From(s)] = stamp]
  /\ send' = [send EXCEPT ![s].pc = "deliver",
                          ![s].id = [to |-> To(s), from |-> From(s), stamp |-> stamp]]
  /\ Release(From(s))
  /\ UNCHANGED <<inbox, owed, spool, keep, Env>>

\* VerifyFence refuses, or the floor cannot be read or saved.
MintFails(s) ==
  /\ At(s, "minting") /\ Fault
  /\ Release(From(s)) /\ Go(s, "fail")
  /\ UNCHANGED <<World, keep, Files>>

-----------------------------------------------------------------------------
(* DeliverUnderRecipientLock *)

DeliverLock(s) == TakeLock(s, "deliver", To(s), "check")

\* The row and the fence are read again; a refusal links nothing.
Recheck(s) ==
  /\ At(s, "check")
  /\ IF row[To(s)] = "fresh"
       THEN Go(s, "link") /\ UNCHANGED lock
       ELSE Go(s, "fail") /\ Release(To(s))
  /\ UNCHANGED <<keep, Env, Files>>

Link(s) ==
  /\ At(s, "link")
  /\ inbox' = inbox \cup {[id |-> send[s].id, body |-> s, ref |-> send[s].ref]}
  /\ Go(s, "sync")
  /\ UNCHANGED <<lock, floor, owed, spool, keep, Env>>

\* VerifyFence refuses, the inbox directory is gone, the temporary file or the
\* link fails; linkNoClobber takes back a link it could not sync.
LinkFails(s) ==
  /\ send[s].pc \in {"check", "link"} /\ Fault
  /\ Go(s, "fail") /\ Release(To(s))
  /\ UNCHANGED <<World, keep, Files>>

\* Whatever the last directory sync returns, the message is delivered.
SyncInbox(s) ==
  /\ At(s, "sync")
  /\ Release(To(s)) /\ Go(s, IF job[s].ask THEN "owe" ELSE "sent")
  /\ UNCHANGED <<keep, Env, Files>>

\* Mutant of SyncFails: reported as an error like any other.
SyncFailsUnsent(s) ==
  /\ At(s, "sync") /\ Fault
  /\ Release(To(s)) /\ Go(s, "fail")
  /\ UNCHANGED <<World, keep, Files>>

SyncFails(s) ==
  /\ At(s, "sync") /\ Fault
  /\ Release(To(s)) /\ Go(s, IF job[s].ask THEN "owe" ELSE "sent")
  /\ UNCHANGED <<World, keep, Files>>

-----------------------------------------------------------------------------
(* RecordOwed *)

OweLock(s) == TakeLock(s, "owe", From(s), "owing")

Owe(s) ==
  LET a == From(s) IN
  /\ At(s, "owing")
  /\ owed' = IF \E o \in owed[a] : o.id = send[s].id THEN owed
             ELSE [owed EXCEPT ![a] = @ \cup
                     {[id |-> send[s].id, by |-> send[s].at + ReplyIn]}]
  /\ Go(s, "sent") /\ Release(a)
  /\ UNCHANGED <<floor, inbox, spool, keep, Env>>

\* An OwedNote beside a delivered message, never a failed send.
OweFails(s) ==
  /\ At(s, "owing") /\ Fault
  /\ Go(s, "sent") /\ Release(From(s))
  /\ UNCHANGED <<World, keep, Files>>

\* A lock that stays busy past agentLockTimeout.
TimesOut(s) ==
  \/ /\ At(s, "mint") /\ lock[From(s)] # Free
     /\ Go(s, "fail")
     /\ UNCHANGED <<lock, keep, Env, Files>>
  \/ /\ At(s, "deliver") /\ lock[To(s)] # Free
     /\ Go(s, "fail")
     /\ UNCHANGED <<lock, keep, Env, Files>>
  \/ /\ At(s, "owe") /\ lock[From(s)] # Free
     /\ Go(s, "sent")
     /\ UNCHANGED <<lock, keep, Env, Files>>

-----------------------------------------------------------------------------
(* A failure: the body is preserved, and the report says how to retry. *)

Name(s) == [at |-> send[s].at, to |-> To(s)]

\* O_EXCL: a name that is taken preserves nothing, and the report says so.
Preserve(s) ==
  /\ At(s, "fail")
  /\ IF spool[From(s)][Name(s)] = Nobody
       THEN /\ spool' = [spool EXCEPT ![From(s)][Name(s)] = s]
            /\ send' = [send EXCEPT ![s].pc = "failed", ![s].kept = Name(s)]
       ELSE Go(s, "failed") /\ UNCHANGED spool
  /\ UNCHANGED <<lock, floor, inbox, owed, keep, Env>>

Killed(s) ==
  /\ send[s].pc \notin {"idle", "sent", "failed", "refused", "dead"}
  /\ Fault
  /\ Go(s, "dead")
  /\ lock' = [a \in Agent |-> IF lock[a] = s THEN Free ELSE lock[a]]
  /\ UNCHANGED <<World, keep, Files>>

-----------------------------------------------------------------------------
(* Discharging: dischargeOwed of a consumed reply, and clean --owed --yes *)

\* The stage of a discharge, whose ledger, the time it read, and what it keeps.
IdleKeeper == [pc |-> "idle", of |-> Nobody, at |-> 0, left |-> {}]

\* The ref must name us as asker and the sender as the one that owed it.
Answers(m) == /\ m.ref # Nobody /\ m.ref.from = m.id.to
              /\ m.ref.to = m.id.from

\* Mutant of ClearLock: the ledger is read before the lock is taken.
ClearNoLock(k, m) ==
  /\ keep[k] = IdleKeeper /\ Answers(m)
  /\ \E o \in owed[m.id.to] : o.id = m.ref
  /\ keep' = [keep EXCEPT ![k] = [IdleKeeper EXCEPT !.pc = "save", !.of = m.id.to,
                !.left = {o \in owed[m.id.to] : o.id # m.ref}]]
  /\ UNCHANGED <<lock, send, Env, Files>>

ClearLock(k, m) ==
  /\ keep[k] = IdleKeeper /\ Answers(m) /\ lock[m.id.to] = Free
  /\ \E o \in owed[m.id.to] : o.id = m.ref
  /\ lock' = [lock EXCEPT ![m.id.to] = k]
  /\ keep' = [keep EXCEPT ![k] = [IdleKeeper EXCEPT !.pc = "save", !.of = m.id.to,
                !.left = {o \in owed[m.id.to] : o.id # m.ref}]]
  /\ UNCHANGED <<send, Env, Files>>

\* CleanOwed reads the clock before it waits for the lock.
PruneStart(k, a) ==
  /\ keep[k] = IdleKeeper /\ owed[a] # {}
  /\ keep' = [keep EXCEPT ![k] = [IdleKeeper EXCEPT !.pc = "prune", !.of = a, !.at = clock]]
  /\ UNCHANGED <<lock, send, Env, Files>>

PruneLock(k) ==
  /\ keep[k].pc = "prune" /\ lock[keep[k].of] = Free
  /\ lock' = [lock EXCEPT ![keep[k].of] = k]
  /\ keep' = [keep EXCEPT ![k].pc = "save",
                ![k].left = {o \in owed[keep[k].of] : o.by >= keep[k].at}]
  /\ UNCHANGED <<send, Env, Files>>

\* The ledger that was loaded, without what it drops, replaces the file.
SaveLedger(k) ==
  /\ keep[k].pc = "save"
  /\ owed' = [owed EXCEPT ![keep[k].of] = keep[k].left]
  /\ keep' = [keep EXCEPT ![k] = IdleKeeper]
  /\ lock' = [a \in Agent |-> IF lock[a] = k THEN Free ELSE lock[a]]
  /\ UNCHANGED <<floor, inbox, spool, send, Env>>

KeeperKilled(k) ==
  /\ keep[k].pc = "save" /\ Fault
  /\ keep' = [keep EXCEPT ![k] = IdleKeeper]
  /\ lock' = [a \in Agent |-> IF lock[a] = k THEN Free ELSE lock[a]]
  /\ UNCHANGED <<World, send, Files>>

-----------------------------------------------------------------------------
(* The clock and the rows *)

SetClock(t) ==
  /\ t = clock + 1 \/ (t < clock /\ Fault)
  /\ t = clock + 1 => UNCHANGED faults
  /\ clock' = t
  /\ UNCHANGED <<job, row, lock, send, keep, Files>>

Sway(a, r) == /\ Fault
              /\ row' = [row EXCEPT ![a] = r]
              /\ UNCHANGED <<job, clock, lock, send, keep, Files>>

\* A lane that registers again or beats, one that is silent past stale_after,
\* a hand edit; a sweep deletes a stale row under its agent's lock.
RowBack(a) == row[a] # "fresh" /\ Sway(a, "fresh")
RowAges(a) == row[a] = "fresh" /\ Sway(a, "stale")
RowTorn(a) == row[a] # "none" /\ Sway(a, "unreadable")
\* Mutant of RowSwept: the sweep deletes what its scan listed.
RowSweptUnlocked(a) == row[a] # "none" /\ Sway(a, "none")

RowSwept(a) == row[a] \in {"stale", "unreadable"} /\ lock[a] = Free /\ Sway(a, "none")

-----------------------------------------------------------------------------
Init ==
  /\ job \in Jobs
  /\ clock = 1
  /\ row \in [Agent -> {"fresh", "stale"}]
  /\ lock = [a \in Agent |-> Free]
  /\ floor = [a \in Agent |-> 0]
  /\ inbox = {}
  /\ owed = [a \in Agent |-> {}]
  /\ spool = [a \in Agent |-> [n \in SpoolName |-> Nobody]]
  /\ send = [s \in Sender |-> Fresh]
  /\ keep = [k \in Keeper |-> IdleKeeper]
  /\ faults = 0

Step(s) == \/ \E ref \in Refs(s) \cup {Nobody} : Compose(s, ref)
           \/ MintLock(s) \/ Mint(s) \/ DeliverLock(s) \/ Recheck(s)
           \/ Link(s) \/ SyncInbox(s)
           \/ OweLock(s) \/ Owe(s) \/ TimesOut(s) \/ Preserve(s)

Next == \/ \E s \in Sender : \/ Preflight(s) \/ Step(s) \/ Killed(s)
                             \/ MintFails(s) \/ LinkFails(s) \/ SyncFails(s) \/ OweFails(s)
        \/ \E k \in Keeper : \/ \E m \in inbox : ClearLock(k, m)
                             \/ \E a \in Agent : PruneStart(k, a)
                             \/ PruneLock(k) \/ SaveLedger(k) \/ KeeperKilled(k)
        \/ \E t \in Time : SetClock(t)
        \/ \E a \in Agent : RowBack(a) \/ RowAges(a) \/ RowTorn(a) \/ RowSwept(a)

Spec == Init /\ [][Next]_vars

-----------------------------------------------------------------------------
Stage == {"idle", "compose", "mint", "minting", "deliver", "check", "link", "sync",
          "owe", "owing", "sent", "fail", "failed", "refused", "dead"}
SendStage ==
  [pc : Stage, at : Nat, ref : Id \cup {Nobody}, id : Id \cup {Nobody},
   after : SUBSET Stamp, kept : SpoolName \cup {Nobody}, tries : Nat]
KeeperStage == [pc : {"idle", "prune", "save"}, of : Agent \cup {Nobody},
                at : Nat, left : SUBSET Obligation]

TypeOK ==
  /\ job \in Jobs /\ clock \in Time /\ faults \in Nat
  /\ row \in [Agent -> {"fresh", "stale", "unreadable", "none"}]
  /\ lock \in [Agent -> Sender \cup Keeper \cup {Free}]
  /\ floor \in [Agent -> Stamp \cup {0}]
  /\ inbox \subseteq Message
  /\ owed \in [Agent -> SUBSET Obligation]
  /\ spool \in [Agent -> [SpoolName -> Sender \cup {Nobody}]]
  /\ send \in [Sender -> SendStage] /\ keep \in [Keeper -> KeeperStage]

\* A message of a sender is younger than all that this sender had landed when
\* its send began, across clock steps, kills and concurrent sends: a reader
\* that sorts by stamp sees one agent's consecutive messages in their order.
SendOrder == \A s \in Sender : send[s].id # Nobody =>
               \A x \in send[s].after : x < send[s].id.stamp

\* A send that is reported as failed, and may be run again, delivered nothing;
\* one reported as sent delivered under the identity it reports. So a body
\* that is only sent again on a failure report lands once. The retry command a report
\* prints sends the body of that report.
ReportTrue ==
  /\ \A s \in Sender : /\ send[s].pc = "failed" => \A m \in inbox : m.body # s
                       /\ send[s].pc = "sent" => \E m \in inbox : m.body = s /\ m.id = send[s].id
                       /\ send[s].kept # Nobody => spool[From(s)][send[s].kept] = s
  /\ \A m, n \in inbox : m.body = n.body => m = n

\* An obligation leaves the ledger only when the agent that owes the reply
\* answered it, or when its deadline had passed for the process that prunes it:
\* neither a ledger write of another process nor a third party's echo of the
\* ref removes it.
AskKept == [][\A a \in Agent : \A o \in owed[a] \ owed'[a] :
                \/ \E m \in inbox : m.ref = o.id /\ m.id.from = o.id.to /\ m.id.to = a
                \/ \E k \in Keeper : keep[k].of = a /\ o.by < keep[k].at]_vars

\* A message is linked only into the inbox of an agent that has a row.
LandsOnRow == [][\A m \in inbox' \ inbox : row[m.id.to] # "none"]_vars
=============================================================================
