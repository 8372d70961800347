------------------------------- MODULE SendProofs -------------------------------
(***************************************************************************)
(* Theorems about Send for every set of agents, slots and jobs: stamps     *)
(* grow over what had landed, reports are true, a message is linked onto a *)
(* row, and an obligation leaves for its answer or its deadline. The       *)
(* invariant says which lock a stage holds and what holding it protects.   *)
(***************************************************************************)
EXTENDS Send, TLAPS

\* A send that began has read the clock; a discharge that began has a ledger.
Begun ==
  /\ \A s \in Sender : send[s].pc # "idle" => send[s].at \in Time
  /\ \A k \in Keeper : keep[k].pc # "idle" => keep[k].of \in Agent

\* The critical sections, and whose lock each of them holds.
Holds ==
  /\ \A s \in Sender : /\ send[s].pc \in {"minting", "owing"} => lock[From(s)] = s
                       /\ send[s].pc \in {"check", "link", "sync"} => lock[To(s)] = s
  /\ \A k \in Keeper : keep[k].pc = "save" => lock[keep[k].of] = k

\* What the check read about the row stands until the lock is released.
RowStands == \A s \in Sender : send[s].pc = "link" => row[To(s)] # "none"

\* A send that goes on to deliver, or has an identity, minted it for its job.
Minted == \A s \in Sender :
  send[s].pc \in {"deliver", "check", "link", "sync", "owe", "owing", "sent"}
      \/ send[s].id # Nobody
    => /\ send[s].id \in Id
       /\ send[s].id.from = From(s) /\ send[s].id.to = To(s)
       /\ send[s].id.stamp <= floor[From(s)]

\* The floor of an agent is at least every stamp of it that landed.
FloorHolds ==
  /\ \A m \in inbox : m.id.stamp <= floor[m.id.from]
  /\ \A s \in Sender : \A x \in send[s].after : x <= floor[From(s)]

\* What is in an inbox was linked by a send that knows it, under its identity.
Known == \A m \in inbox : /\ send[m.body].pc \in {"sync", "owe", "owing", "sent", "dead"}
                          /\ m.id = send[m.body].id /\ m.ref = send[m.body].ref

\* A send past its link has its message in the inbox.
Linked == \A s \in Sender : send[s].pc \in {"sync", "owe", "owing", "sent"}
            => \E m \in inbox : m.body = s /\ m.id = send[s].id

\* A spool name that was reported still holds the body it was reported for.
Preserved == \A s \in Sender :
               send[s].kept # Nobody => spool[From(s)][send[s].kept] = s

\* What a discharge is about to drop was answered or is past its deadline.
MayDrop(k, o) ==
  \/ \E m \in inbox : m.ref = o.id /\ m.id.from = o.id.to /\ m.id.to = keep[k].of
  \/ o.by < keep[k].at
Dropping == \A k \in Keeper : keep[k].pc = "save" =>
              \A o \in owed[keep[k].of] \ keep[k].left : MayDrop(k, o)

IInv == /\ TypeOK /\ Begun /\ Holds /\ RowStands /\ Minted /\ FloorHolds
        /\ SendOrder /\ Known /\ Linked /\ Preserved /\ Dropping

USE SlotAssumption, BoundAssumption

-----------------------------------------------------------------------------
\* A job names agents, and says yes or no to an ask.
LEMMA JobType ==
  ASSUME TypeOK, NEW s \in Sender
  PROVE  /\ From(s) \in Agent /\ To(s) \in Agent
         /\ job[s].ask \in BOOLEAN /\ job[s].tries \in Nat
BY DEF TypeOK, From, To

LEMMA InitInv == Init => IInv
<1> SUFFICES ASSUME Init PROVE IInv
  OBVIOUS
<1>1. Fresh \in SendStage /\ IdleKeeper \in KeeperStage
  BY DEF Fresh, SendStage, IdleKeeper, KeeperStage, Stage
<1>2. TypeOK
  BY <1>1 DEF Init, TypeOK, Time, Stamp
<1>3. Begun /\ Holds /\ RowStands /\ Minted /\ FloorHolds /\ SendOrder
  BY DEF Init, Begun, Holds, RowStands, Minted, FloorHolds, SendOrder, Fresh, IdleKeeper
<1>4. Known /\ Linked /\ Preserved /\ Dropping
  BY DEF Init, Known, Linked, Preserved, Dropping, Fresh, IdleKeeper
<1>5. QED
  BY <1>2, <1>3, <1>4 DEF IInv

-----------------------------------------------------------------------------
(* What each kind of step does to the record of its slot *)

LEMMA Going ==
  ASSUME TypeOK, NEW s \in Sender, NEW p \in Stage, Go(s, p)
  PROVE  /\ send' \in [Sender -> SendStage]
         /\ \A t \in Sender :
              /\ send'[t].pc = (IF t = s THEN p ELSE send[t].pc)
              /\ send'[t].at = send[t].at /\ send'[t].ref = send[t].ref
              /\ send'[t].id = send[t].id /\ send'[t].after = send[t].after
              /\ send'[t].kept = send[t].kept
<1>1. [send[s] EXCEPT !.pc = p] \in SendStage
  <2>1. send[s] \in SendStage
    BY DEF TypeOK
  <2>2. QED
    BY <2>1 DEF SendStage
<1>2. send' \in [Sender -> SendStage]
  BY <1>1 DEF TypeOK, Go
<1>3. QED
  BY <1>2 DEF TypeOK, Go, SendStage

LEMMA Preflighted ==
  ASSUME TypeOK, NEW s \in Sender, Preflight(s)
  PROVE  /\ send' \in [Sender -> SendStage]
         /\ \A t \in Sender \ {s} : send'[t] = send[t]
         /\ send'[s].pc \in {"compose", "refused"} /\ send'[s].at = clock
         /\ send'[s].id = Nobody /\ send'[s].after = StampsOf(From(s))
         /\ send'[s].kept = Nobody
<1>1. StampsOf(From(s)) \in SUBSET Stamp
  BY DEF TypeOK, StampsOf, Message, Id
<1> DEFINE p == IF Reachable(s) THEN "compose" ELSE "refused"
           r == [Fresh EXCEPT !.pc = p, !.at = clock, !.tries = send[s].tries + 1,
                              !.after = StampsOf(From(s))]
<1>2. Fresh \in SendStage /\ Fresh.id = Nobody /\ Fresh.kept = Nobody
  BY DEF Fresh, SendStage, Stage
<1>3. send[s].tries + 1 \in Nat /\ clock \in Nat
  BY DEF TypeOK, SendStage, Time
<1>4. /\ r \in SendStage
      /\ r.pc = p /\ r.at = clock /\ r.after = StampsOf(From(s))
      /\ r.id = Nobody /\ r.kept = Nobody
  <2> p \in Stage
    BY DEF Stage
  <2> HIDE DEF p
  <2> QED
    BY <1>1, <1>2, <1>3 DEF SendStage
<1>5. send' = [send EXCEPT ![s] = r]
  BY DEF Preflight
<1>6. send' \in [Sender -> SendStage] /\ send'[s] = r
  <2> HIDE DEF r
  <2> QED
    BY <1>4, <1>5 DEF TypeOK
<1>7. \A t \in Sender \ {s} : send'[t] = send[t]
  <2> HIDE DEF r
  <2> QED
    BY <1>5 DEF TypeOK
<1>8. p \in {"compose", "refused"}
  OBVIOUS
<1> HIDE DEF r, p
<1>9. QED
  BY <1>4, <1>6, <1>7, <1>8

LEMMA Composed ==
  ASSUME TypeOK, NEW s \in Sender, NEW ref \in Refs(s) \cup {Nobody}, Compose(s, ref)
  PROVE  /\ send' \in [Sender -> SendStage]
         /\ \A t \in Sender \ {s} : send'[t] = send[t]
         /\ send[s].pc = "compose" /\ send'[s].pc \in {"refused", "fail", "mint"}
         /\ send'[s].at = send[s].at /\ send'[s].id = send[s].id
         /\ send'[s].after = send[s].after /\ send'[s].kept = send[s].kept
<1>1. ref \in Id \cup {Nobody}
  BY DEF Refs, TypeOK, Message
<1> DEFINE p == CASE job[s].big -> "refused" [] job[s].forged -> "fail" [] OTHER -> "mint"
<1>2. p \in {"refused", "fail", "mint"} /\ send' = [send EXCEPT ![s].ref = ref, ![s].pc = p]
  BY DEF Compose
<1> HIDE DEF p
<1> DEFINE r == [send[s] EXCEPT !.ref = ref, !.pc = p]
<1>3. send' = [send EXCEPT ![s] = r]
  <2>1. send \in [Sender -> SendStage]
    BY DEF TypeOK
  <2>2. QED
    BY <1>2, <2>1
<1>4. r \in SendStage
  <2>1. send[s] \in SendStage /\ p \in Stage
    BY <1>2 DEF TypeOK, Stage
  <2>2. QED
    BY <1>1, <2>1 DEF SendStage
<1>5. send' \in [Sender -> SendStage] /\ send'[s] = r
  BY <1>3, <1>4 DEF TypeOK
<1>6. r.pc = p /\ r.at = send[s].at /\ r.id = send[s].id /\ r.after = send[s].after
      /\ r.kept = send[s].kept
  BY DEF TypeOK, SendStage
<1>7. QED
  BY <1>3, <1>5, <1>6 DEF TypeOK, Compose, At

LEMMA MintedNow ==
  ASSUME TypeOK, NEW s \in Sender, Mint(s)
  PROVE  /\ send' \in [Sender -> SendStage]
         /\ \A t \in Sender \ {s} : send'[t] = send[t]
         /\ send'[s].pc = "deliver" /\ send'[s].at = send[s].at
         /\ send'[s].after = send[s].after /\ send'[s].kept = send[s].kept
         /\ Later(From(s)) \in Stamp /\ floor[From(s)] < Later(From(s))
         /\ send'[s].id = [to |-> To(s), from |-> From(s), stamp |-> Later(From(s))]
         /\ send'[s].id \in Id
<1> DEFINE id == [to |-> To(s), from |-> From(s), stamp |-> Later(From(s))]
           r == [send[s] EXCEPT !.pc = "deliver", !.id = id]
<1>1. Later(From(s)) \in Stamp /\ floor[From(s)] < Later(From(s))
  BY JobType DEF TypeOK, Later, Stamp, Time
<1>2. id \in Id
  BY <1>1, JobType DEF Id
<1>3. r \in SendStage
  <2>1. send[s] \in SendStage /\ "deliver" \in Stage
    BY DEF TypeOK, Stage
  <2>2. QED
    BY <1>2, <2>1 DEF SendStage
<1>4. send' = [send EXCEPT ![s] = r]
  BY DEF TypeOK, Mint
<1>5. send' \in [Sender -> SendStage] /\ send'[s] = r
  BY <1>3, <1>4 DEF TypeOK
<1>6. r.pc = "deliver" /\ r.at = send[s].at /\ r.id = id /\ r.after = send[s].after
      /\ r.kept = send[s].kept
  BY DEF TypeOK, SendStage
<1>7. QED
  BY <1>1, <1>2, <1>4, <1>5, <1>6 DEF TypeOK

LEMMA PreservedNow ==
  ASSUME TypeOK, Begun, NEW s \in Sender, Preserve(s)
  PROVE  /\ send' \in [Sender -> SendStage]
         /\ \A t \in Sender \ {s} : send'[t] = send[t]
         /\ send[s].pc = "fail" /\ send'[s].pc = "failed"
         /\ send'[s].at = send[s].at /\ send'[s].ref = send[s].ref
         /\ send'[s].id = send[s].id /\ send'[s].after = send[s].after
         /\ Name(s) \in SpoolName
         /\ \/ /\ spool[From(s)][Name(s)] = Nobody
               /\ spool' = [spool EXCEPT ![From(s)][Name(s)] = s]
               /\ send'[s].kept = Name(s)
            \/ UNCHANGED spool /\ send'[s].kept = send[s].kept
<1>1. Name(s) \in SpoolName
  <2>1. send[s].at \in Time
    BY DEF Preserve, At, Begun
  <2>2. QED
    BY <2>1, JobType DEF Name, SpoolName
<1>2. send[s] \in SendStage /\ send[s].pc = "fail" /\ "failed" \in Stage
  BY DEF TypeOK, Preserve, At, Stage
<1> DEFINE r == [send[s] EXCEPT !.pc = "failed", !.kept = Name(s)]
<1>3. CASE spool[From(s)][Name(s)] = Nobody
  <2>1. send' = [send EXCEPT ![s] = r] /\ spool' = [spool EXCEPT ![From(s)][Name(s)] = s]
    <3>1. send \in [Sender -> SendStage]
      BY DEF TypeOK
    <3>2. QED
      BY <1>3, <3>1 DEF Preserve
  <2>2. /\ r \in SendStage
        /\ r.pc = "failed" /\ r.at = send[s].at /\ r.ref = send[s].ref
        /\ r.id = send[s].id /\ r.after = send[s].after /\ r.kept = Name(s)
    BY <1>1, <1>2 DEF SendStage
  <2> HIDE DEF r
  <2>3. send' \in [Sender -> SendStage] /\ send'[s] = r
    BY <2>1, <2>2 DEF TypeOK
  <2>4. \A t \in Sender \ {s} : send'[t] = send[t]
    BY <2>1 DEF TypeOK
  <2>5. QED
    BY <1>1, <1>2, <1>3, <2>1, <2>2, <2>3, <2>4
<1>4. CASE spool[From(s)][Name(s)] # Nobody
  <2>1. Go(s, "failed") /\ UNCHANGED spool
    BY <1>4 DEF Preserve
  <2>2. \A t \in Sender \ {s} : send'[t] = send[t]
    BY <2>1 DEF Go, TypeOK
  <2>3. QED
    BY <1>1, <1>2, <2>1, <2>2, Going
<1>5. QED
  BY <1>3, <1>4

LEMMA Keeping ==
  ASSUME TypeOK, NEW k \in Keeper, NEW r \in KeeperStage, keep' = [keep EXCEPT ![k] = r]
  PROVE  /\ keep' \in [Keeper -> KeeperStage] /\ keep'[k] = r
         /\ \A j \in Keeper \ {k} : keep'[j] = keep[j]
BY DEF TypeOK

LEMMA Clearing ==
  ASSUME TypeOK, NEW k \in Keeper, NEW m \in inbox, ClearLock(k, m)
  PROVE  /\ keep' \in [Keeper -> KeeperStage]
         /\ \A j \in Keeper \ {k} : keep'[j] = keep[j]
         /\ keep'[k].pc = "save" /\ keep'[k].of = m.id.to /\ m.id.to \in Agent
         /\ keep'[k].left = {o \in owed[m.id.to] : o.id # m.ref}
<1> DEFINE left == {o \in owed[m.id.to] : o.id # m.ref}
           r == [IdleKeeper EXCEPT !.pc = "save", !.of = m.id.to, !.left = left]
<1>1. m.id.to \in Agent
  BY DEF TypeOK, Message, Id
<1>2. left \in SUBSET Obligation
  BY <1>1 DEF TypeOK
<1>3. IdleKeeper \in KeeperStage
  BY DEF IdleKeeper, KeeperStage
<1>4. r \in KeeperStage /\ r.pc = "save" /\ r.of = m.id.to /\ r.left = left
  <2> HIDE DEF left
  <2> QED
    BY <1>1, <1>2, <1>3 DEF KeeperStage
<1>5. keep' = [keep EXCEPT ![k] = r]
  BY DEF ClearLock
<1> HIDE DEF r
<1>6. QED
  BY <1>1, <1>4, <1>5, Keeping

LEMMA Pruning ==
  ASSUME TypeOK, NEW k \in Keeper, NEW a \in Agent, PruneStart(k, a)
  PROVE  /\ keep' \in [Keeper -> KeeperStage]
         /\ \A j \in Keeper \ {k} : keep'[j] = keep[j]
         /\ keep'[k].pc = "prune" /\ keep'[k].of = a
<1> DEFINE r == [IdleKeeper EXCEPT !.pc = "prune", !.of = a, !.at = clock]
<1>1. IdleKeeper \in KeeperStage /\ clock \in Nat
  BY DEF IdleKeeper, KeeperStage, TypeOK, Time
<1>2. r \in KeeperStage /\ r.pc = "prune" /\ r.of = a
  BY <1>1 DEF KeeperStage
<1>3. keep' = [keep EXCEPT ![k] = r]
  BY DEF PruneStart
<1> HIDE DEF r
<1>4. QED
  BY <1>2, <1>3, Keeping

LEMMA Pruned ==
  ASSUME TypeOK, Begun, NEW k \in Keeper, PruneLock(k)
  PROVE  /\ keep' \in [Keeper -> KeeperStage]
         /\ \A j \in Keeper \ {k} : keep'[j] = keep[j]
         /\ keep'[k].pc = "save" /\ keep'[k].of = keep[k].of /\ keep[k].of \in Agent
         /\ keep'[k].at = keep[k].at
         /\ keep'[k].left = {o \in owed[keep[k].of] : o.by >= keep[k].at}
<1> DEFINE left == {o \in owed[keep[k].of] : o.by >= keep[k].at}
           r == [keep[k] EXCEPT !.pc = "save", !.left = left]
<1>1. keep[k] \in KeeperStage /\ keep[k].of \in Agent
  BY DEF TypeOK, Begun, PruneLock
<1>2. left \in SUBSET Obligation
  BY <1>1 DEF TypeOK
<1>3. r \in KeeperStage /\ r.pc = "save" /\ r.of = keep[k].of /\ r.at = keep[k].at /\ r.left = left
  <2> HIDE DEF left
  <2> QED
    BY <1>1, <1>2 DEF KeeperStage
<1>4. keep' = [keep EXCEPT ![k] = r]
  BY DEF PruneLock, TypeOK
<1> HIDE DEF r
<1>5. QED
  BY <1>1, <1>3, <1>4, Keeping

LEMMA Idling ==
  ASSUME TypeOK, NEW k \in Keeper, SaveLedger(k) \/ KeeperKilled(k)
  PROVE  /\ keep' \in [Keeper -> KeeperStage]
         /\ \A j \in Keeper \ {k} : keep'[j] = keep[j]
         /\ keep'[k].pc = "idle" /\ keep[k].pc = "save"
         /\ lock' = [a \in Agent |-> IF lock[a] = k THEN Free ELSE lock[a]]
<1>1. IdleKeeper \in KeeperStage /\ IdleKeeper.pc = "idle"
  BY DEF IdleKeeper, KeeperStage
<1>2. /\ keep' = [keep EXCEPT ![k] = IdleKeeper] /\ keep[k].pc = "save"
      /\ lock' = [a \in Agent |-> IF lock[a] = k THEN Free ELSE lock[a]]
  BY DEF SaveLedger, KeeperKilled
<1>3. QED
  BY <1>1, <1>2, Keeping

-----------------------------------------------------------------------------
(* Every step keeps every part of the invariant. *)

LEMMA StepType == TypeOK /\ Begun /\ Minted /\ [Next]_vars => TypeOK' /\ Begun'
<1> SUFFICES ASSUME TypeOK, Begun, Minted, [Next]_vars PROVE TypeOK' /\ Begun'
  OBVIOUS
<1> USE DEF Env, World, Files, Release, At, Fault
<1>1. ASSUME NEW s \in Sender, Preflight(s) PROVE TypeOK' /\ Begun'
  <2>1. UNCHANGED <<lock, keep, Env, Files>>
    BY <1>1 DEF Preflight
  <2>2. QED
    BY <1>1, <2>1, Preflighted DEF TypeOK, Begun
<1>2. ASSUME NEW s \in Sender, NEW ref \in Refs(s) \cup {Nobody}, Compose(s, ref)
      PROVE  TypeOK' /\ Begun'
  <2>1. UNCHANGED <<lock, keep, Env, Files>>
    BY <1>2 DEF Compose
  <2>2. QED
    BY <1>2, <2>1, Composed DEF TypeOK, Begun
<1>3. ASSUME NEW s \in Sender, Mint(s) PROVE TypeOK' /\ Begun'
  <2>1. /\ floor' = [floor EXCEPT ![From(s)] = Later(From(s))]
        /\ lock' = [lock EXCEPT ![From(s)] = Free] /\ send[s].pc = "minting"
        /\ UNCHANGED <<inbox, owed, spool, keep, Env>>
    BY <1>3 DEF Mint
  <2>2. /\ send' \in [Sender -> SendStage] /\ Later(From(s)) \in Stamp
        /\ \A t \in Sender \ {s} : send'[t] = send[t]
        /\ send'[s].at = send[s].at
    BY <1>3, MintedNow
  <2>3. /\ floor' \in [Agent -> Stamp \cup {0}]
        /\ lock' \in [Agent -> Sender \cup Keeper \cup {Free}]
    BY <2>1, <2>2 DEF TypeOK
  <2>4. Begun'
    BY <2>1, <2>2 DEF Begun
  <2>5. QED
    BY <2>1, <2>2, <2>3, <2>4 DEF TypeOK
<1>4. ASSUME NEW s \in Sender, Preserve(s) PROVE TypeOK' /\ Begun'
  <2>1. UNCHANGED <<lock, floor, inbox, owed, keep, Env>>
    BY <1>4 DEF Preserve
  <2>2. spool' \in [Agent -> [SpoolName -> Sender \cup {Nobody}]]
    <3>1. /\ Name(s) \in SpoolName
          /\ spool' = [spool EXCEPT ![From(s)][Name(s)] = s] \/ spool' = spool
      BY <1>4, PreservedNow
    <3>2. spool \in [Agent -> [SpoolName -> Sender \cup {Nobody}]] /\ From(s) \in Agent
      BY JobType DEF TypeOK
    <3>3. QED
      BY <3>1, <3>2
  <2>3. QED
    BY <1>4, <2>1, <2>2, PreservedNow DEF TypeOK, Begun
<1>5. ASSUME NEW s \in Sender, Link(s) PROVE TypeOK' /\ Begun'
  <2>1. [id |-> send[s].id, body |-> s, ref |-> send[s].ref] \in Message
    <3>1. send[s] \in SendStage /\ send[s].id \in Id
      BY <1>5 DEF Link, TypeOK, Minted
    <3>2. QED
      BY <3>1 DEF SendStage, Message
  <2>2. inbox' \subseteq Message
    BY <1>5, <2>1 DEF Link, TypeOK
  <2>3. Go(s, "sync") /\ UNCHANGED <<lock, floor, owed, spool, keep, Env>> /\ send[s].pc = "link"
    BY <1>5 DEF Link
  <2>4. "sync" \in Stage
    BY DEF Stage
  <2>5. QED
    BY <2>2, <2>3, <2>4, Going DEF TypeOK, Begun
<1>6. ASSUME NEW s \in Sender, Owe(s) PROVE TypeOK' /\ Begun'
  <2>1. [id |-> send[s].id, by |-> send[s].at + ReplyIn] \in Obligation
    <3>1. send[s] \in SendStage /\ send[s].id \in Id
      BY <1>6 DEF Owe, TypeOK, Minted
    <3>2. QED
      BY <3>1 DEF SendStage, Obligation
  <2>2. owed' \in [Agent -> SUBSET Obligation]
    BY <1>6, <2>1 DEF Owe, TypeOK
  <2>3. /\ Go(s, "sent") /\ lock' = [lock EXCEPT ![From(s)] = Free] /\ send[s].pc = "owing"
        /\ UNCHANGED <<floor, inbox, spool, keep, Env>>
    BY <1>6 DEF Owe
  <2>4. "sent" \in Stage
    BY DEF Stage
  <2>5. lock' \in [Agent -> Sender \cup Keeper \cup {Free}]
    BY <2>3 DEF TypeOK
  <2>6. send' \in [Sender -> SendStage] /\ Begun'
    BY <2>3, <2>4, Going DEF Begun
  <2>7. QED
    BY <2>2, <2>3, <2>5, <2>6 DEF TypeOK
<1>7. ASSUME NEW s \in Sender, MintLock(s) \/ DeliverLock(s) \/ OweLock(s) \/ Recheck(s)
               \/ SyncInbox(s) \/ TimesOut(s)
      PROVE  TypeOK' /\ Begun'
  <2>1. /\ \E p \in Stage : Go(s, p)
        /\ lock' \in [Agent -> Sender \cup Keeper \cup {Free}]
        /\ UNCHANGED <<keep, Env, Files>> /\ send[s].pc # "idle"
    <3>1. CASE MintLock(s) \/ DeliverLock(s) \/ OweLock(s)
      <4>1. PICK a \in Agent, next \in Stage : /\ lock' = [lock EXCEPT ![a] = s] /\ Go(s, next)
                                             /\ UNCHANGED <<keep, Env, Files>>
                                             /\ send[s].pc # "idle"
        <5>1. CASE MintLock(s)
          BY <5>1, JobType DEF MintLock, TakeLock, Stage
        <5>2. CASE DeliverLock(s)
          BY <5>2, JobType DEF DeliverLock, TakeLock, Stage
        <5>3. CASE OweLock(s)
          BY <5>3, JobType DEF OweLock, TakeLock, Stage
        <5>4. QED
          BY <3>1, <5>1, <5>2, <5>3
      <4>2. QED
        BY <4>1 DEF TypeOK
    <3>2. CASE Recheck(s)
      BY <3>2, JobType DEF Recheck, Stage, TypeOK
    <3>3. CASE SyncInbox(s)
      BY <3>3, JobType DEF SyncInbox, Stage, TypeOK
    <3>4. CASE TimesOut(s)
      BY <3>4 DEF TimesOut, Stage, TypeOK
    <3>5. QED
      BY <1>7, <3>1, <3>2, <3>3, <3>4
  <2>2. QED
    BY <2>1, Going DEF TypeOK, Begun
<1>8. ASSUME NEW s \in Sender,
             Killed(s) \/ MintFails(s) \/ LinkFails(s) \/ SyncFails(s) \/ OweFails(s)
      PROVE  TypeOK' /\ Begun'
  <2>1. /\ \E p \in Stage : Go(s, p)
        /\ lock' \in [Agent -> Sender \cup Keeper \cup {Free}]
        /\ UNCHANGED <<World, keep, Files>> /\ faults' = faults + 1 /\ send[s].pc # "idle"
    BY <1>8, JobType DEF Killed, MintFails, LinkFails, SyncFails, OweFails, Stage, TypeOK
  <2>2. QED
    BY <2>1, Going DEF TypeOK, Begun
<1>9. ASSUME NEW k \in Keeper, NEW m \in inbox, ClearLock(k, m) PROVE TypeOK' /\ Begun'
  <2>1. lock' = [lock EXCEPT ![m.id.to] = k] /\ UNCHANGED <<send, Env, Files>>
    BY <1>9 DEF ClearLock
  <2>2. QED
    BY <1>9, <2>1, Clearing DEF TypeOK, Begun
<1>10. ASSUME NEW k \in Keeper, NEW a \in Agent, PruneStart(k, a) PROVE TypeOK' /\ Begun'
  <2>1. UNCHANGED <<lock, send, Env, Files>>
    BY <1>10 DEF PruneStart
  <2>2. QED
    <3>1. TypeOK'
      BY <1>10, <2>1, Pruning DEF TypeOK
    <3>2. Begun'
      BY <1>10, <2>1, Pruning DEF Begun
    <3>3. QED
      BY <3>1, <3>2
<1>11. ASSUME NEW k \in Keeper, PruneLock(k) PROVE TypeOK' /\ Begun'
  <2>1. lock' = [lock EXCEPT ![keep[k].of] = k] /\ UNCHANGED <<send, Env, Files>>
    BY <1>11 DEF PruneLock
  <2>2. QED
    BY <1>11, <2>1, Pruned DEF TypeOK, Begun
<1>12. ASSUME NEW k \in Keeper, SaveLedger(k) PROVE TypeOK' /\ Begun'
  <2>1. keep[k].left \in SUBSET Obligation
    BY DEF TypeOK, KeeperStage
  <2>2. owed' \in [Agent -> SUBSET Obligation] /\ UNCHANGED <<floor, inbox, spool, send, Env>>
    BY <1>12, <2>1 DEF SaveLedger, TypeOK
  <2>3. QED
    BY <1>12, <2>2, Idling DEF TypeOK, Begun
<1>13. ASSUME NEW k \in Keeper, KeeperKilled(k) PROVE TypeOK' /\ Begun'
  <2>1. UNCHANGED <<World, send, Files>> /\ faults' = faults + 1
    BY <1>13 DEF KeeperKilled
  <2>2. QED
    BY <1>13, <2>1, Idling DEF TypeOK, Begun
<1>14. ASSUME NEW t \in Time, SetClock(t) PROVE TypeOK' /\ Begun'
  BY <1>14 DEF SetClock, TypeOK, Begun
<1>15. ASSUME NEW a \in Agent, RowBack(a) \/ RowAges(a) \/ RowTorn(a) \/ RowSwept(a)
       PROVE  TypeOK' /\ Begun'
  <2>1. PICK r \in {"fresh", "stale", "unreadable", "none"} : Sway(a, r)
    BY <1>15 DEF RowBack, RowAges, RowTorn, RowSwept
  <2>2. QED
    BY <2>1 DEF Sway, TypeOK, Begun
<1>16. CASE UNCHANGED vars
  BY <1>16 DEF vars, TypeOK, Begun
<1>17. QED
  <2> HIDE DEF Env, World, Files, Release, At, Fault
  <2> QED
    BY <1>1, <1>2, <1>3, <1>4, <1>5, <1>6, <1>7, <1>8, <1>9, <1>10, <1>11, <1>12, <1>13, <1>14, <1>15, <1>16
       DEF Next, Step

-----------------------------------------------------------------------------
(* What the steps that only move a send, or a discharge, have in common *)

\* A send moves on: from which stage, under which lock, and what it may touch.
Walk(s, p) ==
  /\ p \in Stage /\ Go(s, p)
  /\ p \in {"minting", "fail", "check", "link", "sync", "owe", "owing", "sent", "dead"}
  /\ p = "minting" => send[s].pc = "mint"
  /\ p = "fail" => send[s].pc \in {"mint", "minting", "deliver", "check", "link"}
  /\ p = "check" => send[s].pc = "deliver"
  /\ p = "link" => send[s].pc = "check" /\ row[To(s)] = "fresh"
  /\ p = "sync" => send[s].pc = "link"
  /\ p \in {"owe", "owing", "sent"} => send[s].pc \in {"sync", "owe", "owing"}
  /\ p \in {"minting", "owing"} => lock'[From(s)] = s
  /\ p \in {"check", "link", "sync"} => lock'[To(s)] = s
  /\ \A a \in Agent : lock[a] \notin {s, Free} => lock'[a] = lock[a]
  /\ inbox' = IF p # "sync" THEN inbox
              ELSE inbox \cup {[id |-> send[s].id, body |-> s, ref |-> send[s].ref]}
  /\ \A a \in Agent : owed[a] \subseteq owed'[a] /\ (owed'[a] # owed[a] => lock[a] = s)
  /\ UNCHANGED <<job, row, floor, spool, keep>>

\* A discharge moves on; it writes a ledger only under the lock of that agent.
Tend(k) ==
  /\ keep' \in [Keeper -> KeeperStage]
  /\ \A j \in Keeper \ {k} : keep'[j] = keep[j]
  /\ keep'[k].pc = "save" => /\ keep'[k].of \in Agent /\ lock'[keep'[k].of] = k
                             /\ \A o \in owed'[keep'[k].of] \ keep'[k].left : MayDrop(k, o)'
  /\ \A a \in Agent : /\ lock[a] \notin {k, Free} => lock'[a] = lock[a]
                      /\ owed'[a] # owed[a] => /\ keep[k].pc = "save" /\ keep[k].of = a
                                               /\ lock[a] = k /\ owed'[a] = keep[k].left
  /\ UNCHANGED <<job, row, floor, inbox, spool, send>>

LEMMA Walks ==
  ASSUME TypeOK, Holds, NEW s \in Sender,
         \/ MintLock(s) \/ DeliverLock(s) \/ OweLock(s) \/ Recheck(s) \/ Link(s)
         \/ SyncInbox(s) \/ Owe(s) \/ TimesOut(s) \/ Killed(s)
         \/ MintFails(s) \/ LinkFails(s) \/ SyncFails(s) \/ OweFails(s)
  PROVE  \E p \in Stage : Walk(s, p)
<1>1. From(s) \in Agent /\ To(s) \in Agent
  BY JobType
<1>2. lock \in [Agent -> Sender \cup Keeper \cup {Free}] /\ owed \in [Agent -> SUBSET Obligation]
  BY DEF TypeOK
<1> USE DEF Env, World, Files, Release, At, Stage
<1>3. CASE MintLock(s)
  <2>1. Walk(s, "minting")
    BY <1>1, <1>2, <1>3 DEF MintLock, TakeLock, Walk
  <2>2. QED
    BY <2>1
<1>4. CASE DeliverLock(s)
  <2>1. Walk(s, "check")
    BY <1>1, <1>2, <1>4 DEF DeliverLock, TakeLock, Walk
  <2>2. QED
    BY <2>1
<1>5. CASE OweLock(s)
  <2>1. Walk(s, "owing")
    BY <1>1, <1>2, <1>5 DEF OweLock, TakeLock, Walk
  <2>2. QED
    BY <2>1
<1>6. CASE Recheck(s)
  <2>1. lock[To(s)] = s
    BY <1>6 DEF Recheck, Holds
  <2>2. CASE row[To(s)] = "fresh"
    <3>1. Walk(s, "link")
      BY <1>1, <1>2, <1>6, <2>1, <2>2 DEF Recheck, Walk
    <3>2. QED
      BY <3>1
  <2>3. CASE row[To(s)] # "fresh"
    <3>1. Walk(s, "fail")
      BY <1>1, <1>2, <1>6, <2>1, <2>3 DEF Recheck, Walk
    <3>2. QED
      BY <3>1
  <2>4. QED
    BY <2>2, <2>3
<1>7. CASE Link(s)
  <2>1. lock[To(s)] = s
    BY <1>7 DEF Link, Holds
  <2>2. Walk(s, "sync")
    BY <1>1, <1>2, <1>7, <2>1 DEF Link, Walk
  <2>3. QED
    BY <2>2
<1>8. CASE SyncInbox(s) \/ SyncFails(s)
  <2>1. lock[To(s)] = s
    BY <1>8 DEF SyncInbox, SyncFails, Holds
  <2>2. PICK p \in {"owe", "sent"} : Go(s, p)
    BY <1>8 DEF SyncInbox, SyncFails
  <2>3. Walk(s, p)
    BY <1>1, <1>2, <1>8, <2>1, <2>2 DEF SyncInbox, SyncFails, Walk
  <2>4. QED
    BY <2>3
<1>9. CASE Owe(s)
  <2>1. lock[From(s)] = s
    BY <1>9 DEF Owe, Holds
  <2>2. \A a \in Agent : owed[a] \subseteq owed'[a] /\ (owed'[a] # owed[a] => lock[a] = s)
    BY <1>1, <1>2, <1>9, <2>1 DEF Owe
  <2>3. Walk(s, "sent")
    BY <1>1, <1>2, <1>9, <2>1, <2>2 DEF Owe, Walk
  <2>4. QED
    BY <2>3
<1>10. CASE OweFails(s) \/ MintFails(s)
  <2>1. lock[From(s)] = s
    BY <1>10 DEF OweFails, MintFails, Holds
  <2>2. Walk(s, "sent") \/ Walk(s, "fail")
    BY <1>1, <1>2, <1>10, <2>1 DEF OweFails, MintFails, Walk
  <2>3. QED
    BY <2>2
<1>11. CASE LinkFails(s)
  <2>1. lock[To(s)] = s
    BY <1>11 DEF LinkFails, Holds
  <2>2. Walk(s, "fail")
    BY <1>1, <1>2, <1>11, <2>1 DEF LinkFails, Walk
  <2>3. QED
    BY <2>2
<1>12. CASE TimesOut(s)
  <2>1. Walk(s, "sent") \/ Walk(s, "fail")
    BY <1>1, <1>2, <1>12 DEF TimesOut, Walk
  <2>2. QED
    BY <2>1
<1>13. CASE Killed(s)
  <2>1. Walk(s, "dead")
    BY <1>1, <1>2, <1>13 DEF Killed, Walk
  <2>2. QED
    BY <2>1
<1>14. QED
  <2> HIDE DEF Env, World, Files, Release, At, Stage
  <2> QED
    BY <1>3, <1>4, <1>5, <1>6, <1>7, <1>8, <1>9, <1>10, <1>11, <1>12, <1>13

LEMMA Tends ==
  ASSUME TypeOK, Begun, Holds, NEW k \in Keeper,
         \/ \E m \in inbox : ClearLock(k, m)
         \/ \E a \in Agent : PruneStart(k, a)
         \/ PruneLock(k) \/ SaveLedger(k) \/ KeeperKilled(k)
  PROVE  Tend(k)
<1>1. lock \in [Agent -> Sender \cup Keeper \cup {Free}] /\ owed \in [Agent -> SUBSET Obligation]
  BY DEF TypeOK
<1> USE DEF Env, World, Files
<1>2. ASSUME NEW m \in inbox, ClearLock(k, m) PROVE Tend(k)
  <2>1. /\ lock[m.id.to] = Free /\ lock' = [lock EXCEPT ![m.id.to] = k]
        /\ UNCHANGED <<send, Env, Files>>
    BY <1>2 DEF ClearLock
  <2>2. /\ keep'[k].pc = "save" /\ keep'[k].of = m.id.to /\ m.id.to \in Agent
        /\ keep'[k].left = {o \in owed[m.id.to] : o.id # m.ref}
        /\ keep' \in [Keeper -> KeeperStage] /\ \A j \in Keeper \ {k} : keep'[j] = keep[j]
    BY <1>2, Clearing
  <2>3. \A o \in owed'[m.id.to] \ keep'[k].left : MayDrop(k, o)'
    BY <1>2, <2>1, <2>2 DEF ClearLock, Answers, MayDrop
  <2>4. QED
    BY <1>1, <2>1, <2>2, <2>3 DEF Tend
<1>3. ASSUME NEW a \in Agent, PruneStart(k, a) PROVE Tend(k)
  <2>1. UNCHANGED <<lock, send, Env, Files>>
    BY <1>3 DEF PruneStart
  <2>2. QED
    BY <1>1, <1>3, <2>1, Pruning DEF Tend
<1>4. CASE PruneLock(k)
  <2>1. /\ lock[keep[k].of] = Free /\ lock' = [lock EXCEPT ![keep[k].of] = k]
        /\ UNCHANGED <<send, Env, Files>>
    BY <1>4 DEF PruneLock
  <2>2. /\ keep'[k].pc = "save" /\ keep'[k].of = keep[k].of /\ keep[k].of \in Agent
        /\ keep'[k].at = keep[k].at
        /\ keep'[k].left = {o \in owed[keep[k].of] : o.by >= keep[k].at}
        /\ keep' \in [Keeper -> KeeperStage] /\ \A j \in Keeper \ {k} : keep'[j] = keep[j]
    BY <1>4, Pruned
  <2>3. \A o \in owed'[keep'[k].of] \ keep'[k].left : MayDrop(k, o)'
    <3>1. \A o \in owed[keep[k].of] : o.by \in Nat
      BY <1>1, <2>2 DEF Obligation
    <3>2. keep[k].at \in Nat
      BY DEF TypeOK, KeeperStage
    <3>3. QED
      BY <2>1, <2>2, <3>1, <3>2 DEF MayDrop
  <2>4. QED
    BY <1>1, <2>1, <2>2, <2>3 DEF Tend
<1>5. CASE SaveLedger(k)
  <2>1. lock[keep[k].of] = k /\ owed' = [owed EXCEPT ![keep[k].of] = keep[k].left]
    BY <1>5 DEF SaveLedger, Holds
  <2>2. UNCHANGED <<floor, inbox, spool, send, Env>>
    BY <1>5 DEF SaveLedger
  <2>3. QED
    BY <1>1, <1>5, <2>1, <2>2, Idling DEF Tend
<1>6. CASE KeeperKilled(k)
  <2>1. UNCHANGED <<World, send, Files>>
    BY <1>6 DEF KeeperKilled
  <2>2. QED
    BY <1>1, <1>6, <2>1, Idling DEF Tend
<1>7. QED
  BY <1>2, <1>3, <1>4, <1>5, <1>6

\* Every step is one of these.
LEMMA Cases ==
  ASSUME TypeOK, Begun, Holds, [Next]_vars
  PROVE  \/ \E s \in Sender : \/ Preflight(s) \/ Mint(s) \/ Preserve(s)
                              \/ \E ref \in Refs(s) \cup {Nobody} : Compose(s, ref)
                              \/ \E p \in Stage : Walk(s, p)
         \/ \E k \in Keeper : Tend(k)
         \/ \E a \in Agent, r \in {"fresh", "stale", "unreadable", "none"} :
              Sway(a, r) /\ (r = "none" => lock[a] = Free)
         \/ UNCHANGED <<job, row, lock, floor, inbox, owed, spool, send, keep>>
<1>1. ASSUME NEW a \in Agent, RowBack(a) \/ RowAges(a) \/ RowTorn(a) \/ RowSwept(a)
      PROVE  \E r \in {"fresh", "stale", "unreadable", "none"} :
               Sway(a, r) /\ (r = "none" => lock[a] = Free)
  BY <1>1 DEF RowBack, RowAges, RowTorn, RowSwept
<1>2. ASSUME NEW t \in Time, SetClock(t)
      PROVE  UNCHANGED <<job, row, lock, floor, inbox, owed, spool, send, keep>>
  BY <1>2 DEF SetClock, Files
<1>3. CASE UNCHANGED vars
  BY <1>3 DEF vars
<1>4. ASSUME NEW s \in Sender,
             \/ Preflight(s) \/ Step(s) \/ Killed(s)
             \/ MintFails(s) \/ LinkFails(s) \/ SyncFails(s) \/ OweFails(s)
      PROVE  \/ Preflight(s) \/ Mint(s) \/ Preserve(s)
             \/ \E ref \in Refs(s) \cup {Nobody} : Compose(s, ref)
             \/ \E p \in Stage : Walk(s, p)
  BY <1>4, Walks DEF Step
<1>5. QED
  BY <1>1, <1>2, <1>3, <1>4, Tends DEF Next

LEMMA LockStep ==
  TypeOK /\ Begun /\ Holds /\ RowStands /\ [Next]_vars => Holds' /\ RowStands'
<1> SUFFICES ASSUME TypeOK, Begun, Holds, RowStands, [Next]_vars PROVE Holds' /\ RowStands'
  OBVIOUS
<1>1. ASSUME NEW s \in Sender, Preflight(s) PROVE Holds' /\ RowStands'
  <2>1. UNCHANGED <<job, row, lock, keep>>
    BY <1>1 DEF Preflight, Env, World
  <2>2. QED
    BY <1>1, <2>1, Preflighted DEF Holds, RowStands, From, To
<1>2. ASSUME NEW s \in Sender, NEW ref \in Refs(s) \cup {Nobody}, Compose(s, ref)
      PROVE  Holds' /\ RowStands'
  <2>1. UNCHANGED <<job, row, lock, keep>>
    BY <1>2 DEF Compose, Env, World
  <2>2. QED
    BY <1>2, <2>1, Composed DEF Holds, RowStands, From, To
<1>3. ASSUME NEW s \in Sender, Mint(s) PROVE Holds' /\ RowStands'
  <2>1. lock' = [lock EXCEPT ![From(s)] = Free] /\ lock[From(s)] = s /\ UNCHANGED <<job, row, keep>>
    BY <1>3 DEF Mint, Release, Env, World, Holds, At
  <2>2. \A a \in Agent : lock[a] # s => lock'[a] = lock[a]
    BY <2>1 DEF TypeOK
  <2>3. \A t \in Sender : From(t) \in Agent /\ To(t) \in Agent
    BY JobType
  <2>4. (\A t \in Sender \ {s} : send'[t] = send[t]) /\ send'[s].pc = "deliver"
    BY <1>3, MintedNow
  <2>5. Holds'
    BY <2>1, <2>2, <2>3, <2>4 DEF Holds, Begun, From, To
  <2>6. RowStands'
    BY <2>1, <2>4 DEF RowStands, To
  <2>7. QED
    BY <2>5, <2>6
<1>4. ASSUME NEW s \in Sender, Preserve(s) PROVE Holds' /\ RowStands'
  <2>1. UNCHANGED <<job, row, lock, keep>>
    BY <1>4 DEF Preserve, Env, World
  <2>2. (\A t \in Sender \ {s} : send'[t] = send[t]) /\ send'[s].pc = "failed"
    BY <1>4, PreservedNow
  <2>3. QED
    BY <2>1, <2>2 DEF Holds, RowStands, From, To
<1>5. ASSUME NEW s \in Sender, NEW p \in Stage, Walk(s, p) PROVE Holds' /\ RowStands'
  <2>1. \A t \in Sender : send'[t].pc = IF t = s THEN p ELSE send[t].pc
    BY <1>5, Going DEF Walk
  <2>2. \A t \in Sender : From(t) \in Agent /\ To(t) \in Agent
    BY JobType
  <2>3. QED
    BY <1>5, <2>1, <2>2 DEF Walk, Holds, RowStands, Begun, From, To
<1>6. ASSUME NEW k \in Keeper, Tend(k) PROVE Holds' /\ RowStands'
  <2>1. \A t \in Sender : From(t) \in Agent /\ To(t) \in Agent
    BY JobType
  <2>2. QED
    BY <1>6, <2>1 DEF Tend, Holds, RowStands, Begun, From, To
<1>7. ASSUME NEW a \in Agent, NEW r \in {"fresh", "stale", "unreadable", "none"},
             Sway(a, r), r = "none" => lock[a] = Free
      PROVE  Holds' /\ RowStands'
  <2>1. row' = [row EXCEPT ![a] = r] /\ UNCHANGED <<job, lock, send, keep>>
    BY <1>7 DEF Sway
  <2>2. \A t \in Sender : send[t].pc = "link" => To(t) \in Agent /\ lock[To(t)] # Free
    BY JobType DEF Holds
  <2>3. QED
    BY <1>7, <2>1, <2>2 DEF Holds, RowStands, TypeOK, From, To
<1>8. CASE UNCHANGED <<job, row, lock, floor, inbox, owed, spool, send, keep>>
  BY <1>8 DEF Holds, RowStands, From, To
<1>9. QED
  BY <1>1, <1>2, <1>3, <1>4, <1>5, <1>6, <1>7, <1>8, Cases

LEMMA FloorStep ==
  TypeOK /\ Begun /\ Holds /\ Minted /\ FloorHolds /\ SendOrder /\ [Next]_vars
    => Minted' /\ FloorHolds' /\ SendOrder'
<1> DEFINE P == Minted /\ FloorHolds /\ SendOrder
<1> SUFFICES ASSUME TypeOK, Begun, Holds, Minted, FloorHolds, SendOrder, [Next]_vars PROVE P'
  OBVIOUS
<1> USE DEF Minted, FloorHolds, SendOrder, From, To
<1>1. ASSUME NEW s \in Sender, Preflight(s) PROVE P'
  <2>1. UNCHANGED <<job, floor, inbox>>
    BY <1>1 DEF Preflight, Env, World, Files
  <2>2. \A x \in StampsOf(From(s)) : x <= floor[From(s)]
    BY DEF StampsOf
  <2>3. QED
    BY <1>1, <2>1, <2>2, Preflighted
<1>2. ASSUME NEW s \in Sender, NEW ref \in Refs(s) \cup {Nobody}, Compose(s, ref) PROVE P'
  <2>1. UNCHANGED <<job, floor, inbox>>
    BY <1>2 DEF Compose, Env, World, Files
  <2>2. QED
    BY <1>2, <2>1, Composed
<1>3. ASSUME NEW s \in Sender, Mint(s) PROVE P'
  <2> HIDE DEF Minted, FloorHolds, SendOrder, From, To
  <2> DEFINE a == From(s)
             new == Later(a)
  <2>1. floor' = [floor EXCEPT ![a] = new] /\ UNCHANGED <<job, inbox>>
    BY <1>3 DEF Mint, Env, World
  <2>2. /\ \A t \in Sender \ {s} : send'[t] = send[t]
        /\ send'[s].after = send[s].after
        /\ new \in Stamp /\ floor[a] < new
        /\ send'[s].id = [to |-> To(s), from |-> a, stamp |-> new] /\ send'[s].id \in Id
    BY <1>3, MintedNow
  <2>3. a \in Agent
    BY JobType
  <2> HIDE DEF a, new
  <2>4. /\ \A b \in Agent : floor[b] \in Nat /\ floor'[b] \in Nat /\ floor[b] <= floor'[b]
        /\ floor'[a] = new
    <3>1. floor \in [Agent -> Nat] /\ new \in Nat /\ floor[a] < new
      BY <2>2 DEF TypeOK, Stamp
    <3>2. QED
      BY <2>1, <2>3, <3>1
  <2>5. \A t \in Sender : From(t) \in Agent /\ From(t)' = From(t) /\ To(t)' = To(t)
    BY <2>1, JobType DEF From, To
  <2>6. send'[s].id.from = a /\ send'[s].id.to = To(s) /\ send'[s].id.stamp = new
    BY <2>2
  <2>7. a = From(s)
    BY DEF a
  <2>8. \A t \in Sender : \A x \in send[t].after : x \in Nat
    BY DEF TypeOK, SendStage, Stamp
  <2>9. Minted'
    <3>1. ASSUME NEW t \in Sender \ {s}, send[t].id \in Id, send[t].id.stamp <= floor[From(t)]
          PROVE  send[t].id.stamp <= floor'[From(t)]
      BY <2>4, <2>5, <3>1 DEF Id, Stamp
    <3>2. QED
      BY <2>2, <2>4, <2>5, <2>6, <2>7, <3>1 DEF Minted, Stamp
  <2>10. FloorHolds'
    <3>1. \A m \in inbox : m.id.from \in Agent /\ m.id.stamp \in Nat
      BY DEF TypeOK, Message, Id, Stamp
    <3>2. \A t \in Sender : send'[t].after = send[t].after
      BY <2>2
    <3>3. QED
      BY <2>1, <2>4, <2>5, <2>8, <3>1, <3>2 DEF FloorHolds
  <2>11. SendOrder'
    <3>1. \A x \in send'[s].after : x < send'[s].id.stamp
      BY <2>2, <2>3, <2>4, <2>6, <2>7, <2>8 DEF FloorHolds, Stamp
    <3>2. QED
      BY <2>2, <3>1 DEF SendOrder
  <2>12. QED
    BY <2>9, <2>10, <2>11
<1>4. ASSUME NEW s \in Sender, Preserve(s) PROVE P'
  <2> HIDE DEF Minted, FloorHolds, SendOrder, From, To
  <2>1. UNCHANGED <<job, floor, inbox>>
    BY <1>4 DEF Preserve, Env, World
  <2>2. /\ \A t \in Sender \ {s} : send'[t] = send[t]
        /\ send'[s].pc = "failed" /\ send'[s].id = send[s].id /\ send'[s].after = send[s].after
    BY <1>4, PreservedNow
  <2>3. QED
    BY <2>1, <2>2 DEF Minted, FloorHolds, SendOrder, From, To
<1>5. ASSUME NEW s \in Sender, NEW p \in Stage, Walk(s, p) PROVE P'
  <2>1. /\ Go(s, p) /\ UNCHANGED <<job, floor>>
        /\ p \in {"check", "link", "sync", "owe", "owing", "sent"}
             => send[s].pc \in {"deliver", "check", "link", "sync", "owe", "owing"}
        /\ p # "deliver"
    BY <1>5 DEF Walk
  <2>2. Minted' /\ SendOrder'
    BY <2>1, Going
  <2>3. FloorHolds'
    <3>1. \A m \in inbox' : m \in inbox \/ (m.id = send[s].id /\ send[s].pc = "link")
      BY <1>5 DEF Walk
    <3>2. QED
      BY <2>1, <3>1, Going
  <2>4. QED
    BY <2>2, <2>3
<1>6. ASSUME NEW k \in Keeper, Tend(k) PROVE P'
  BY <1>6 DEF Tend
<1>7. ASSUME NEW a \in Agent, NEW r \in {"fresh", "stale", "unreadable", "none"}, Sway(a, r)
      PROVE  P'
  BY <1>7 DEF Sway, Files
<1>8. CASE UNCHANGED <<job, row, lock, floor, inbox, owed, spool, send, keep>>
  BY <1>8
<1>9. QED
  <2> HIDE DEF P
  <2> QED
    BY <1>1, <1>2, <1>3, <1>4, <1>5, <1>6, <1>7, <1>8, Cases

LEMMA LandStep ==
  TypeOK /\ Begun /\ Holds /\ Known /\ Linked /\ Preserved /\ [Next]_vars
    => Known' /\ Linked' /\ Preserved'
<1> DEFINE P == Known /\ Linked /\ Preserved
<1> SUFFICES ASSUME TypeOK, Begun, Holds, Known, Linked, Preserved, [Next]_vars PROVE P'
  OBVIOUS
<1>0. \A m \in inbox : m.body \in Sender
  BY DEF TypeOK, Message
<1> USE DEF Known, Linked, Preserved, From
<1>1. ASSUME NEW s \in Sender, Preflight(s) PROVE P'
  <2>1. UNCHANGED <<job, inbox, spool>> /\ send[s].pc \in {"idle", "failed", "refused"}
    BY <1>1 DEF Preflight, Env, World, Files
  <2>2. QED
    BY <1>0, <1>1, <2>1, Preflighted
<1>2. ASSUME NEW s \in Sender, NEW ref \in Refs(s) \cup {Nobody}, Compose(s, ref) PROVE P'
  <2>1. UNCHANGED <<job, inbox, spool>>
    BY <1>2 DEF Compose, Env, World, Files
  <2>2. QED
    BY <1>0, <1>2, <2>1, Composed
<1>3. ASSUME NEW s \in Sender, Mint(s) PROVE P'
  <2>1. UNCHANGED <<job, inbox, spool>> /\ send[s].pc = "minting"
    BY <1>3 DEF Mint, Env, World, At
  <2>2. /\ \A t \in Sender \ {s} : send'[t] = send[t]
        /\ send'[s].pc = "deliver" /\ send'[s].kept = send[s].kept
    <3> HIDE DEF Known, Linked, Preserved, From
    <3> QED
      BY <1>3, MintedNow
  <2>3. QED
    BY <1>0, <2>1, <2>2
<1>4. ASSUME NEW s \in Sender, Preserve(s) PROVE P'
  <2> HIDE DEF Known, Linked, Preserved, From
  <2> DEFINE a == From(s)
  <2>1. UNCHANGED <<job, inbox>>
    BY <1>4 DEF Preserve, Env, World
  <2>2. /\ \A t \in Sender \ {s} : send'[t] = send[t]
        /\ send[s].pc = "fail" /\ send'[s].pc = "failed"
        /\ Name(s) \in SpoolName
        /\ \/ /\ spool[a][Name(s)] = Nobody
              /\ spool' = [spool EXCEPT ![a][Name(s)] = s]
              /\ send'[s].kept = Name(s)
           \/ spool' = spool /\ send'[s].kept = send[s].kept
    BY <1>4, PreservedNow
  <2>3. Known' /\ Linked'
    BY <1>0, <2>1, <2>2 DEF Known, Linked
  <2>4. /\ \A t \in Sender : From(t) \in Agent /\ From(t)' = From(t)
        /\ spool \in [Agent -> [SpoolName -> Sender \cup {Nobody}]]
        /\ \A t \in Sender : send[t].kept \in SpoolName \cup {Nobody}
    BY <2>1, JobType DEF TypeOK, SendStage, From
  <2>5. a = From(s)
    OBVIOUS
  <2> HIDE DEF a
  <2>6. \A b \in Agent, n \in SpoolName :
          spool'[b][n] = spool[b][n] \/ spool[b][n] = Nobody
    BY <2>2, <2>4, <2>5
  <2>7. \A t \in Sender : send[t].kept # Nobody => spool'[From(t)][send[t].kept] = t
    BY <2>4, <2>6 DEF Preserved
  <2>8. send'[s].kept # Nobody => spool'[From(s)][send'[s].kept] = s
    BY <2>2, <2>4, <2>5, <2>7
  <2>9. Preserved'
    BY <2>2, <2>4, <2>7, <2>8 DEF Preserved
  <2>10. QED
    BY <2>3, <2>9
<1>5. ASSUME NEW s \in Sender, NEW p \in Stage, Walk(s, p) PROVE P'
  <2> DEFINE mail == [id |-> send[s].id, body |-> s, ref |-> send[s].ref]
  <2>1. Go(s, p) /\ UNCHANGED <<job, spool>>
    BY <1>5 DEF Walk
  <2>2. Preserved'
    BY <2>1, Going
  <2>3. CASE p = "sync"
    <3>1. inbox' = inbox \cup {mail} /\ send[s].pc = "link"
      BY <1>5, <2>3 DEF Walk
    <3>2. mail.body = s /\ mail.id = send[s].id /\ mail.ref = send[s].ref
      OBVIOUS
    <3> HIDE DEF mail
    <3>3. Known'
      BY <1>0, <2>1, <2>3, <3>1, <3>2, Going
    <3>4. Linked'
      BY <2>1, <2>3, <3>1, <3>2, Going
    <3>5. QED
      BY <2>2, <3>3, <3>4
  <2>4. CASE p # "sync"
    <3>1. /\ inbox' = inbox
          /\ p \in {"owe", "owing", "sent"} => send[s].pc \in {"sync", "owe", "owing"}
          /\ p = "check" => send[s].pc = "deliver"
          /\ p = "fail" => send[s].pc \in {"mint", "minting", "deliver", "check", "link"}
          /\ p = "link" => send[s].pc = "check"
      BY <1>5, <2>4 DEF Walk
    <3>2. p \in {"minting", "fail", "check", "link", "owe", "owing", "sent", "dead"}
      BY <1>5, <2>4 DEF Walk
    <3>3. p = "minting" => send[s].pc = "mint"
      BY <1>5 DEF Walk
    <3>4. Known'
      BY <1>0, <2>1, <3>1, <3>2, <3>3, Going
    <3>5. Linked'
      BY <2>1, <3>1, <3>2, <3>3, Going
    <3>6. QED
      BY <2>2, <3>4, <3>5
  <2>5. QED
    BY <2>3, <2>4
<1>6. ASSUME NEW k \in Keeper, Tend(k) PROVE P'
  BY <1>6 DEF Tend
<1>7. ASSUME NEW a \in Agent, NEW r \in {"fresh", "stale", "unreadable", "none"}, Sway(a, r)
      PROVE  P'
  BY <1>7 DEF Sway, Files
<1>8. CASE UNCHANGED <<job, row, lock, floor, inbox, owed, spool, send, keep>>
  BY <1>8
<1>9. QED
  <2> HIDE DEF P
  <2> QED
    BY <1>1, <1>2, <1>3, <1>4, <1>5, <1>6, <1>7, <1>8, Cases

LEMMA DropStep ==
  TypeOK /\ Begun /\ Holds /\ Dropping /\ [Next]_vars => Dropping'
<1> SUFFICES ASSUME TypeOK, Begun, Holds, Dropping, [Next]_vars PROVE Dropping'
  OBVIOUS
<1>1. ASSUME NEW s \in Sender, Preflight(s) PROVE Dropping'
  BY <1>1 DEF Preflight, Files, Dropping, MayDrop
<1>2. ASSUME NEW s \in Sender, NEW ref \in Refs(s) \cup {Nobody}, Compose(s, ref) PROVE Dropping'
  BY <1>2 DEF Compose, Files, Dropping, MayDrop
<1>3. ASSUME NEW s \in Sender, Mint(s) PROVE Dropping'
  BY <1>3 DEF Mint, Dropping, MayDrop
<1>4. ASSUME NEW s \in Sender, Preserve(s) PROVE Dropping'
  BY <1>4 DEF Preserve, Dropping, MayDrop
<1>5. ASSUME NEW s \in Sender, NEW p \in Stage, Walk(s, p) PROVE Dropping'
  <2>1. /\ keep' = keep /\ inbox \subseteq inbox'
        /\ \A a \in Agent : owed'[a] # owed[a] => lock[a] = s
    BY <1>5 DEF Walk
  <2>2. \A k \in Keeper : keep[k].pc = "save" => owed'[keep[k].of] = owed[keep[k].of]
    BY <2>1 DEF Begun, Holds
  <2>3. QED
    BY <2>1, <2>2 DEF Dropping, MayDrop
<1>6. ASSUME NEW k \in Keeper, Tend(k) PROVE Dropping'
  <2>1. /\ inbox' = inbox /\ \A j \in Keeper \ {k} : keep'[j] = keep[j]
        /\ \A a \in Agent : owed'[a] # owed[a] => lock[a] = k
    BY <1>6 DEF Tend
  <2>2. \A j \in Keeper \ {k} : keep[j].pc = "save" => owed'[keep[j].of] = owed[keep[j].of]
    BY <2>1 DEF Begun, Holds
  <2>3. keep'[k].pc = "save" =>
          \A o \in owed'[keep'[k].of] \ keep'[k].left : MayDrop(k, o)'
    BY <1>6 DEF Tend
  <2>4. QED
    BY <2>1, <2>2, <2>3 DEF Dropping, MayDrop
<1>7. ASSUME NEW a \in Agent, NEW r \in {"fresh", "stale", "unreadable", "none"}, Sway(a, r)
      PROVE  Dropping'
  BY <1>7 DEF Sway, Files, Dropping, MayDrop
<1>8. CASE UNCHANGED <<job, row, lock, floor, inbox, owed, spool, send, keep>>
  BY <1>8 DEF Dropping, MayDrop
<1>9. QED
  BY <1>1, <1>2, <1>3, <1>4, <1>5, <1>6, <1>7, <1>8, Cases

LEMMA Inductive == Spec => []IInv
<1>1. Init => IInv
  BY InitInv
<1>2. IInv /\ [Next]_vars => IInv'
  BY StepType, LockStep, FloorStep, LandStep, DropStep DEF IInv
<1>3. QED
  BY <1>1, <1>2, PTL DEF Spec

-----------------------------------------------------------------------------
\* Every reachable state is well typed, for every set of agents and jobs.
THEOREM TypeCorrect == Spec => []TypeOK
<1>1. IInv => TypeOK
  BY DEF IInv
<1>2. QED
  BY <1>1, Inductive, PTL

\* A minted stamp is above every stamp that its sender had landed when the send
\* began (MintSendStamp's floor), whatever the clock and the other sends do.
THEOREM InOrder == Spec => []SendOrder
<1>1. IInv => SendOrder
  BY DEF IInv
<1>2. QED
  BY <1>1, Inductive, PTL

\* A send reported as failed delivered nothing, one reported as sent delivered
\* under its identity, no body lands twice, and the spool name of a report holds
\* the body of that report (sendWithReport and the spool of cli/send.go).
THEOREM Reported == Spec => []ReportTrue
<1>1. IInv => ReportTrue
  <2> SUFFICES ASSUME IInv PROVE ReportTrue
    OBVIOUS
  <2>1. ASSUME NEW m \in inbox, NEW n \in inbox, m.body = n.body PROVE m = n
    <3>1. m \in Message /\ n \in Message
      BY DEF IInv, TypeOK
    <3>2. m.id = n.id /\ m.ref = n.ref
      BY <2>1 DEF IInv, Known
    <3>3. QED
      BY <2>1, <3>1, <3>2 DEF Message
  <2>2. \A s \in Sender : send[s].pc = "failed" => \A m \in inbox : m.body # s
    BY DEF IInv, Known
  <2>3. \A s \in Sender : send[s].pc = "sent" => \E m \in inbox : m.body = s /\ m.id = send[s].id
    BY DEF IInv, Linked
  <2>4. QED
    BY <2>1, <2>2, <2>3 DEF ReportTrue, IInv, Preserved
<1>2. QED
  BY <1>1, Inductive, PTL

\* A message is linked only into the inbox of an agent that has a row: the
\* recipient's lock keeps the sweep away between the check and the link.
THEOREM Lands == Spec => LandsOnRow
<1> DEFINE OnRow == \A m \in inbox' \ inbox : row[m.id.to] # "none"
<1>1. IInv /\ [Next]_vars => [OnRow]_vars
  <2> SUFFICES ASSUME IInv, [Next]_vars, NEW m \in inbox' \ inbox PROVE row[m.id.to] # "none"
    OBVIOUS
  <2>1. TypeOK /\ Begun /\ Holds /\ RowStands /\ Minted
    BY DEF IInv
  <2>2. PICK s \in Sender, p \in Stage : Walk(s, p)
    BY <2>1, Cases DEF Preflight, Compose, Mint, Preserve, Tend, Sway, Files
  <2>3. send[s].pc = "link" /\ m.id = send[s].id
    BY <2>2 DEF Walk
  <2>4. QED
    BY <2>1, <2>3 DEF RowStands, Minted
<1>2. Spec => [][OnRow]_vars
  BY <1>1, Inductive, PTL DEF Spec
<1>3. QED
  BY <1>2 DEF LandsOnRow

\* An obligation leaves the ledger only for its answer or past its deadline:
\* every ledger is written by the holder of its lock, from what it read under it.
THEOREM AsksKept == Spec => AskKept
<1> DEFINE Kept == \A a \in Agent : \A o \in owed[a] \ owed'[a] :
                \/ \E m \in inbox : m.ref = o.id /\ m.id.from = o.id.to /\ m.id.to = a
                \/ \E k \in Keeper : keep[k].of = a /\ o.by < keep[k].at
<1>1. IInv /\ [Next]_vars => [Kept]_vars
  <2> SUFFICES ASSUME IInv, [Next]_vars, NEW a \in Agent, NEW o \in owed[a] \ owed'[a]
               PROVE  \/ \E m \in inbox : m.ref = o.id /\ m.id.from = o.id.to /\ m.id.to = a
                      \/ \E k \in Keeper : keep[k].of = a /\ o.by < keep[k].at
    OBVIOUS
  <2>1. TypeOK /\ Begun /\ Holds /\ Dropping
    BY DEF IInv
  <2>2. ~ \E s \in Sender, p \in Stage : Walk(s, p)
    BY DEF Walk
  <2>3. PICK k \in Keeper : Tend(k)
    BY <2>1, <2>2, Cases DEF Preflight, Compose, Mint, Preserve, Sway, Files
  <2>4. keep[k].pc = "save" /\ keep[k].of = a /\ owed'[a] = keep[k].left
    BY <2>3 DEF Tend
  <2>5. MayDrop(k, o)
    BY <2>1, <2>4 DEF Dropping
  <2>6. QED
    BY <2>4, <2>5 DEF MayDrop
<1>2. Spec => [][Kept]_vars
  BY <1>1, Inductive, PTL DEF Spec
<1>3. QED
  BY <1>2 DEF AskKept

=============================================================================
