---------------------------- MODULE TurnEndProofs ----------------------------
(***************************************************************************)
(* Theorems about TurnEnd for every set of messages, commands, sessions    *)
(* and turns. While a turn-end runs no check does, unless the turn ended   *)
(* over it: so what the turn-end listed is all that is claimed when it     *)
(* clears the latch, and a check that armed the latch still has it.        *)
(***************************************************************************)
EXTENDS TurnEnd, TLAPS

\* At most one turn-end runs, while the harness waits for it; a check that
\* runs beside it was left behind.
OneTurnEnd ==
  /\ \A c \in Cmd : cmd[c].op = "turnend" => phase = "stopping"
  /\ \A c, d \in Cmd : cmd[c].op = "turnend" /\ cmd[d].op = "turnend" => c = d
  /\ \A c \in Cmd : cmd[c].op = "check" => phase # "stopping" \/ overlap

\* A turn that goes on was started by a prompt.
Prompted == phase \in {"working", "stopping"} => turn # 0

\* A check that armed the latch still has it when it renders.
Armed ==
  /\ \A c \in Cmd : Running(c, "check", "show") => cmd[c].armed
  /\ \A c \in Cmd : cmd[c].op = "check" /\ cmd[c].armed /\ live \in guarded /\ ~overlap
                      => latch = live

\* What was rendered, or is about to be, has left the inbox.
Taken ==
  /\ \A m \in saw : place[m] \in {"claimed", "archived"}
  /\ \A c \in Cmd : cmd[c].op = "check" /\ cmd[c].step \in {"arm", "show"} =>
                      /\ cmd[c].msg \in Msg
                      /\ place[cmd[c].msg] \in {"claimed", "archived"}

\* A turn-end that commits has listed everything that is claimed; one that
\* does not commit found the latch of another session.
Covered ==
  \A c \in Cmd : cmd[c].op = "turnend" /\ ~overlap =>
    /\ cmd[c].step = "commit" => \A m \in Msg : place[m] = "claimed" => m \in cmd[c].olds
    /\ cmd[c].step = "clear" => latch # live

\* The record of a block of this turn is of a block that was returned.
Recorded ==
  /\ record.session <= live /\ record.turn <= turn
  /\ record.session = live /\ record.turn = turn => record.unread \in told

IInv == /\ TypeOK /\ OneTurnEnd /\ Prompted /\ Armed /\ Taken /\ Covered
        /\ Recorded /\ HoldingLatchedAlone

USE MsgAssumption, BoundAssumption DEF MsgAssumption, BoundAssumption

\* A step of one command leaves the others alone.
LEMMA SetCmd ==
  ASSUME TypeOK, NEW c \in Cmd, NEW r, Set(c, r)
  PROVE  /\ cmd'[c] = r
         /\ \A d \in Cmd : d # c => cmd'[d] = cmd[d]
         /\ r \in Command => cmd' \in [Cmd -> Command]
  BY DEF TypeOK, Set

LEMMA IdleType == Idle \in Command
  BY DEF Idle, Command

LEMMA InitInv == Init => IInv
<1> SUFFICES ASSUME Init PROVE IInv
  OBVIOUS
<1>1. TypeOK
  <2>1. place \in [Msg -> {"none", "inbox", "claimed", "archived"}]
    BY DEF Init
  <2>2. cmd \in [Cmd -> Command]
    BY IdleType DEF Init
  <2>3. live \in Session /\ guarded \subseteq Session
    BY DEF Init, Session
  <2>4. turn \in 0..MaxTurn /\ record \in Blocks \cup {NoRecord}
    BY DEF Init
  <2>5. saw \subseteq Msg /\ told \subseteq SUBSET Msg /\ latch \in guarded \cup {0}
    BY DEF Init
  <2>6. /\ hook \in {"retry", "noturn", "muse", "agy"}
        /\ phase \in {"idle", "failed", "working", "stopping"}
        /\ active \in BOOLEAN /\ overlap \in BOOLEAN
    BY DEF Init
  <2> QED BY <2>1, <2>2, <2>3, <2>4, <2>5, <2>6 DEF TypeOK
<1>2. \A c \in Cmd : cmd[c].op = "none" /\ cmd[c].armed = FALSE
  BY DEF Init, Idle
<1>3. OneTurnEnd /\ Prompted /\ Armed /\ Taken /\ Covered
  BY <1>2 DEF Init, OneTurnEnd, Prompted, Armed, Taken, Covered, Running
<1>4. Recorded /\ HoldingLatchedAlone
  BY DEF Init, Recorded, HoldingLatchedAlone, HoldingLatched, NoRecord
<1> QED BY <1>1, <1>3, <1>4 DEF IInv

\* The steps of check.
LEMMA CheckInv ==
  ASSUME IInv, NEW c \in Cmd, CheckStart(c) \/ CheckStep(c)
  PROVE  IInv'
<1> USE DEF IInv, mail, lane, stop
<1>1. CASE CheckStart(c)
  <2> DEFINE r == [Idle EXCEPT !.op = "check", !.step = "list", !.news = In("inbox")]
  <2>1. r \in Command /\ r.op = "check" /\ r.step = "list" /\ ~r.armed
    BY DEF Command, Idle, In
  <2>2. Set(c, r)
    BY <1>1 DEF CheckStart
  <2> HIDE DEF r
  <2>3. TypeOK'
    BY <1>1, <2>1, <2>2, SetCmd DEF CheckStart, TypeOK
  <2>4. (OneTurnEnd /\ Prompted /\ Armed /\ Taken /\ Covered)'
    BY <1>1, <2>1, <2>2, SetCmd
    DEF CheckStart, OneTurnEnd, Prompted, Armed, Taken, Covered, Running
  <2>5. (Recorded /\ HoldingLatchedAlone)'
    BY <1>1 DEF CheckStart, Recorded, HoldingLatchedAlone, HoldingLatched
  <2> QED BY <2>3, <2>4, <2>5
<1>2. CASE ListResidue(c)
  <2> DEFINE r == [cmd[c] EXCEPT !.step = "next", !.olds = In("claimed"),
                                 !.held = In("claimed") # {}]
  <2>1. r \in Command /\ r.op = "check" /\ r.step = "next" /\ r.armed = cmd[c].armed
    <3> DEFINE held == In("claimed") # {}
    <3>1. held \in BOOLEAN /\ In("claimed") \subseteq Msg
      BY DEF In
    <3>2. cmd[c] \in Command /\ cmd[c].op = "check"
      BY <1>2 DEF ListResidue, Running, TypeOK
    <3> HIDE DEF held
    <3> QED BY <3>1, <3>2 DEF Command
  <2>2. Set(c, r) /\ cmd[c].op = "check"
    BY <1>2 DEF ListResidue, Running
  <2> HIDE DEF r
  <2>3. TypeOK'
    BY <1>2, <2>1, <2>2, SetCmd DEF ListResidue, TypeOK
  <2>4. (OneTurnEnd /\ Prompted /\ Armed /\ Taken /\ Covered)'
    BY <1>2, <2>1, <2>2, SetCmd
    DEF ListResidue, OneTurnEnd, Prompted, Armed, Taken, Covered, Running
  <2>5. (Recorded /\ HoldingLatchedAlone)'
    BY <1>2 DEF ListResidue, Recorded, HoldingLatchedAlone, HoldingLatched
  <2> QED BY <2>3, <2>4, <2>5
<1>3. CASE NextOld(c)
  <2>1. PICK m \in cmd[c].olds : Set(c, IF place[m] = "claimed"
          THEN [cmd[c] EXCEPT !.step = "arm", !.msg = m, !.olds = @ \ {m}]
          ELSE Finish(cmd[c]))
    BY <1>3 DEF NextOld
  <2> DEFINE r == IF place[m] = "claimed"
                    THEN [cmd[c] EXCEPT !.step = "arm", !.msg = m, !.olds = @ \ {m}]
                    ELSE Finish(cmd[c])
  <2>2. cmd[c] \in Command /\ cmd[c].op = "check" /\ m \in Msg
    BY <1>3 DEF NextOld, Running, TypeOK, Command
  <2>3. /\ r \in Command /\ r.op = "check" /\ r.step \in {"arm", "end"}
        /\ r.armed = cmd[c].armed
        /\ r.step = "arm" => r.msg \in Msg /\ place[r.msg] = "claimed"
    BY <2>2 DEF Command, Finish, Idle
  <2>4. Set(c, r)
    BY <2>1
  <2> HIDE DEF r
  <2>5. TypeOK'
    BY <1>3, <2>3, <2>4, SetCmd DEF NextOld, TypeOK
  <2>6. (OneTurnEnd /\ Prompted /\ Armed /\ Taken /\ Covered)'
    BY <1>3, <2>2, <2>3, <2>4, SetCmd
    DEF NextOld, OneTurnEnd, Prompted, Armed, Taken, Covered, Running
  <2>7. (Recorded /\ HoldingLatchedAlone)'
    BY <1>3 DEF NextOld, Recorded, HoldingLatchedAlone, HoldingLatched
  <2> QED BY <2>5, <2>6, <2>7
<1>4. CASE NextNew(c)
  <2>1. PICK m \in cmd[c].news :
          \/ /\ place[m] \in {"inbox", "claimed"}
             /\ Move(m, "claimed")
             /\ Set(c, [cmd[c] EXCEPT !.step = "arm", !.msg = m, !.news = @ \ {m}, !.took = TRUE])
          \/ place[m] # "inbox" /\ Set(c, Finish(cmd[c])) /\ UNCHANGED place
    BY <1>4 DEF NextNew
  <2>2. cmd[c] \in Command /\ cmd[c].op = "check" /\ m \in Msg
    BY <1>4 DEF NextNew, Running, TypeOK, Command
  <2>3. CASE Move(m, "claimed") /\ place[m] \in {"inbox", "claimed"}
             /\ Set(c, [cmd[c] EXCEPT !.step = "arm", !.msg = m, !.news = @ \ {m}, !.took = TRUE])
    <3> DEFINE r == [cmd[c] EXCEPT !.step = "arm", !.msg = m, !.news = @ \ {m}, !.took = TRUE]
    <3>1. /\ r \in Command /\ r.op = "check" /\ r.step = "arm"
          /\ r.armed = cmd[c].armed /\ r.msg = m
      BY <2>2 DEF Command
    <3>2. Set(c, r)
      BY <2>3
    <3> HIDE DEF r
    <3>3. /\ place'[m] = "claimed" /\ \A n \in Msg : n # m => place'[n] = place[n]
          /\ place' \in [Msg -> {"none", "inbox", "claimed", "archived"}]
      BY <2>2, <2>3 DEF Move, TypeOK
    <3>4. TypeOK'
      BY <1>4, <3>1, <3>2, <3>3, SetCmd DEF NextNew, TypeOK
    <3>5. (OneTurnEnd /\ Prompted /\ Armed /\ Covered)'
      BY <1>4, <2>2, <3>1, <3>2, SetCmd
      DEF NextNew, OneTurnEnd, Prompted, Armed, Covered, Running
    <3>6. Taken'
      BY <1>4, <2>2, <3>1, <3>2, <3>3, SetCmd DEF NextNew, Taken, TypeOK
    <3>7. (Recorded /\ HoldingLatchedAlone)'
      BY <1>4, <2>2, <2>3, <3>3
      DEF NextNew, Recorded, HoldingLatchedAlone, HoldingLatched, Taken, TypeOK
    <3> QED BY <3>4, <3>5, <3>6, <3>7
  <2>4. CASE Set(c, Finish(cmd[c])) /\ UNCHANGED place
    <3> DEFINE r == Finish(cmd[c])
    <3>1. r \in Command /\ r.op = "check" /\ r.step = "end" /\ r.armed = cmd[c].armed
      BY <2>2 DEF Command, Finish, Idle
    <3>2. Set(c, r)
      BY <2>4
    <3> HIDE DEF r
    <3>3. TypeOK'
      BY <1>4, <2>4, <3>1, <3>2, SetCmd DEF NextNew, TypeOK
    <3>4. (OneTurnEnd /\ Prompted /\ Armed /\ Taken /\ Covered)'
      BY <1>4, <2>2, <2>4, <3>1, <3>2, SetCmd
      DEF NextNew, OneTurnEnd, Prompted, Armed, Taken, Covered, Running
    <3>5. (Recorded /\ HoldingLatchedAlone)'
      BY <1>4, <2>4 DEF NextNew, Recorded, HoldingLatchedAlone, HoldingLatched
    <3> QED BY <3>3, <3>4, <3>5
  <2> QED BY <2>1, <2>3, <2>4
<1>5. CASE Arm(c)
  <2> DEFINE r == [cmd[c] EXCEPT !.step = "show", !.armed = TRUE]
  <2>1. cmd[c] \in Command /\ cmd[c].op = "check" /\ cmd[c].step = "arm"
    BY <1>5 DEF Arm, Running, TypeOK
  <2>2. /\ r \in Command /\ r.op = "check" /\ r.step = "show" /\ r.armed
        /\ r.msg = cmd[c].msg
    BY <2>1 DEF Command
  <2>3. Set(c, r)
    BY <1>5 DEF Arm
  <2> HIDE DEF r
  <2>4. latch' \in guarded \cup {0} /\ latch' \in {latch, live}
        /\ (live \in guarded /\ ~overlap => latch' = live)
    BY <1>5, <2>1 DEF Arm, SetLatch, TypeOK, Armed
  <2>5. TypeOK'
    BY <1>5, <2>2, <2>3, <2>4, SetCmd DEF Arm, TypeOK
  <2>6. (OneTurnEnd /\ Prompted /\ Armed /\ Taken /\ Covered)'
    BY <1>5, <2>1, <2>2, <2>3, <2>4, SetCmd
    DEF Arm, OneTurnEnd, Prompted, Armed, Taken, Covered, Running
  <2>7. (Recorded /\ HoldingLatchedAlone)'
    BY <1>5, <2>4 DEF Arm, Recorded, HoldingLatchedAlone, HoldingLatched
  <2> QED BY <2>5, <2>6, <2>7
<1>6. CASE Show(c)
  <2> DEFINE r == [cmd[c] EXCEPT !.step = "next", !.msg = 0]
  <2>1. cmd[c] \in Command /\ cmd[c].op = "check" /\ cmd[c].step = "show"
    BY <1>6 DEF Show, Running, TypeOK
  <2>2. r \in Command /\ r.op = "check" /\ r.step = "next" /\ r.armed = cmd[c].armed
    BY <2>1 DEF Command
  <2>3. Set(c, r)
    BY <1>6 DEF Show
  <2> HIDE DEF r
  <2>4. /\ cmd[c].msg \in Msg /\ place[cmd[c].msg] \in {"claimed", "archived"}
        /\ (live \in guarded /\ ~overlap => latch = live)
    BY <2>1 DEF Taken, Armed, Running
  <2>5. TypeOK'
    BY <1>6, <2>2, <2>3, <2>4, SetCmd DEF Show, TypeOK
  <2>6. (OneTurnEnd /\ Prompted /\ Armed /\ Taken /\ Covered)'
    BY <1>6, <2>1, <2>2, <2>3, <2>4, SetCmd
    DEF Show, OneTurnEnd, Prompted, Armed, Taken, Covered, Running
  <2>7. (Recorded /\ HoldingLatchedAlone)'
    BY <1>6, <2>4 DEF Show, Recorded, HoldingLatchedAlone, HoldingLatched
  <2> QED BY <2>5, <2>6, <2>7
<1>7. CASE CheckStops(c)
  <2> DEFINE r == Finish(cmd[c])
  <2>1. cmd[c] \in Command /\ cmd[c].op = "check"
    BY <1>7 DEF CheckStops, Running, TypeOK
  <2>2. r \in Command /\ r.op = "check" /\ r.step = "end" /\ r.armed = cmd[c].armed
    BY <2>1 DEF Command, Finish, Idle
  <2>3. Set(c, r)
    BY <1>7 DEF CheckStops
  <2> HIDE DEF r
  <2>4. TypeOK'
    BY <1>7, <2>2, <2>3, SetCmd DEF CheckStops, TypeOK
  <2>5. (OneTurnEnd /\ Prompted /\ Armed /\ Taken /\ Covered)'
    BY <1>7, <2>1, <2>2, <2>3, SetCmd
    DEF CheckStops, OneTurnEnd, Prompted, Armed, Taken, Covered, Running
  <2>6. (Recorded /\ HoldingLatchedAlone)'
    BY <1>7 DEF CheckStops, Recorded, HoldingLatchedAlone, HoldingLatched
  <2> QED BY <2>4, <2>5, <2>6
<1>8. CASE CheckEnd(c)
  <2>1. cmd[c].op = "check" /\ Set(c, Idle)
    BY <1>8 DEF CheckEnd, Running
  <2>2. Idle.op = "none" /\ ~Idle.armed
    BY DEF Idle
  <2>3. latch' \in guarded \cup {0}
        /\ (live \in guarded => latch' \in {latch, live})
        /\ (live \notin guarded => latch' = latch)
    BY <1>8 DEF CheckEnd, SetLatch, TypeOK
  <2>4. TypeOK'
    BY <1>8, <2>1, <2>3, IdleType, SetCmd DEF CheckEnd, TypeOK
  <2>5. (OneTurnEnd /\ Prompted /\ Armed /\ Taken /\ Covered)'
    BY <1>8, <2>1, <2>2, <2>3, SetCmd
    DEF CheckEnd, OneTurnEnd, Prompted, Armed, Taken, Covered, Running
  <2>6. (Recorded /\ HoldingLatchedAlone)'
    BY <1>8, <2>3 DEF CheckEnd, Recorded, HoldingLatchedAlone, HoldingLatched
  <2> QED BY <2>4, <2>5, <2>6
<1> QED BY <1>1, <1>2, <1>3, <1>4, <1>5, <1>6, <1>7, <1>8 DEF CheckStep

\* The steps of ack, and of the turn-end while it commits.
LEMMA AckInv ==
  ASSUME IInv, NEW c \in Cmd, AckStart(c) \/ AckStep(c)
  PROVE  IInv'
<1> USE DEF IInv, mail, lane, stop
<1>1. CASE AckStart(c)
  <2> DEFINE r == [Idle EXCEPT !.op = "ack", !.step = "list"]
  <2>1. r \in Command /\ r.op = "ack" /\ r.step = "list"
    BY DEF Command, Idle
  <2>2. Set(c, r)
    BY <1>1 DEF AckStart
  <2> HIDE DEF r
  <2>3. TypeOK'
    BY <1>1, <2>1, <2>2, SetCmd DEF AckStart, TypeOK
  <2>4. (OneTurnEnd /\ Prompted /\ Armed /\ Taken /\ Covered)'
    BY <1>1, <2>1, <2>2, SetCmd
    DEF AckStart, OneTurnEnd, Prompted, Armed, Taken, Covered, Running
  <2>5. (Recorded /\ HoldingLatchedAlone)'
    BY <1>1 DEF AckStart, Recorded, HoldingLatchedAlone, HoldingLatched
  <2> QED BY <2>3, <2>4, <2>5
<1>2. CASE AckList(c)
  <2> DEFINE r == [cmd[c] EXCEPT !.step = "commit", !.olds = In("claimed")]
  <2>1. cmd[c] \in Command /\ cmd[c].op \in {"ack", "turnend"}
    BY <1>2 DEF AckList, TypeOK
  <2>2. /\ r \in Command /\ r.op = cmd[c].op /\ r.step = "commit"
        /\ \A m \in Msg : place[m] = "claimed" => m \in r.olds
    BY <2>1 DEF Command, In
  <2>3. Set(c, r)
    BY <1>2 DEF AckList
  <2> HIDE DEF r
  <2>4. TypeOK'
    BY <1>2, <2>2, <2>3, SetCmd DEF AckList, TypeOK
  <2>5. (OneTurnEnd /\ Prompted /\ Armed /\ Taken /\ Covered)'
    BY <1>2, <2>1, <2>2, <2>3, SetCmd
    DEF AckList, OneTurnEnd, Prompted, Armed, Taken, Covered, Running
  <2>6. (Recorded /\ HoldingLatchedAlone)'
    BY <1>2 DEF AckList, Recorded, HoldingLatchedAlone, HoldingLatched
  <2> QED BY <2>4, <2>5, <2>6
<1>3. CASE Commit(c)
  <2>1. PICK m \in cmd[c].olds :
          /\ place[m] \in {"claimed", "archived"}
          /\ Set(c, [cmd[c] EXCEPT !.olds = @ \ {m}])
          /\ Move(m, "archived")
    BY <1>3 DEF Commit
  <2> DEFINE r == [cmd[c] EXCEPT !.olds = @ \ {m}]
  <2>2. cmd[c] \in Command /\ m \in Msg
    BY TypeOK DEF TypeOK, Command
  <2>3. /\ r \in Command /\ r.op = cmd[c].op /\ r.step = "commit"
        /\ r.armed = cmd[c].armed /\ r.olds = cmd[c].olds \ {m}
    BY <1>3, <2>2 DEF Command, Commit
  <2>4. Set(c, r) /\ cmd[c].step = "commit"
    BY <1>3, <2>1 DEF Commit
  <2> HIDE DEF r
  <2>5. /\ place'[m] = "archived" /\ \A n \in Msg : n # m => place'[n] = place[n]
        /\ place' \in [Msg -> {"none", "inbox", "claimed", "archived"}]
    BY <2>1, <2>2 DEF Move, TypeOK
  <2>6. TypeOK'
    BY <1>3, <2>3, <2>4, <2>5, SetCmd DEF Commit, TypeOK
  <2>7. (OneTurnEnd /\ Prompted /\ Armed)'
    BY <1>3, <2>3, <2>4, SetCmd DEF Commit, OneTurnEnd, Prompted, Armed, Running
  <2>8. Taken'
    BY <1>3, <2>3, <2>4, <2>5, SetCmd DEF Commit, Taken, TypeOK
  <2>9. Covered'
    BY <1>3, <2>2, <2>3, <2>4, <2>5, SetCmd DEF Commit, Covered, OneTurnEnd
  <2>10. (Recorded /\ HoldingLatchedAlone)'
    BY <1>3, <2>5 DEF Commit, Recorded, HoldingLatchedAlone, HoldingLatched
  <2> QED BY <2>6, <2>7, <2>8, <2>9, <2>10
<1>4. CASE CommitGone(c)
  <2>1. TypeOK'
    BY <1>4, IdleType, SetCmd DEF CommitGone, TypeOK
  <2>2. Idle.op = "none" /\ Idle.armed = FALSE
    BY DEF Idle
  <2>3. (OneTurnEnd /\ Prompted /\ Armed /\ Taken /\ Covered)'
    BY <1>4, <2>2, SetCmd
    DEF CommitGone, OneTurnEnd, Prompted, Armed, Taken, Covered, Running
  <2>4. (Recorded /\ HoldingLatchedAlone)'
    BY <1>4 DEF CommitGone, Recorded, HoldingLatchedAlone, HoldingLatched
  <2> QED BY <2>1, <2>3, <2>4
<1>5. CASE AckDone(c)
  <2>1. TypeOK'
    BY <1>5, IdleType, SetCmd DEF AckDone, TypeOK
  <2>2. Idle.op = "none" /\ Idle.armed = FALSE
    BY DEF Idle
  <2>3. (OneTurnEnd /\ Prompted /\ Armed /\ Taken /\ Covered)'
    BY <1>5, <2>2, SetCmd
    DEF AckDone, OneTurnEnd, Prompted, Armed, Taken, Covered, Running
  <2>4. (Recorded /\ HoldingLatchedAlone)'
    BY <1>5 DEF AckDone, Recorded, HoldingLatchedAlone, HoldingLatched
  <2> QED BY <2>1, <2>3, <2>4
<1> QED BY <1>1, <1>2, <1>3, <1>4, <1>5 DEF AckStep

\* A verdict ends the only turn-end there is: whatever the phase becomes, no
\* command of the turn is left but those the turn ended over.
LEMMA VerdictInv ==
  ASSUME IInv, NEW c \in Cmd, Verdict(c), phase' \in {"idle", "working"}
  PROVE  (OneTurnEnd /\ Prompted /\ Armed /\ Taken /\ Covered /\ HoldingLatchedAlone)'
<1> USE DEF IInv, mail, lane
<1>1. Idle.op = "none" /\ Idle.armed = FALSE
  BY DEF Idle
<1>2. /\ Set(c, Idle) /\ cmd[c].op = "turnend"
      /\ UNCHANGED <<place, saw, live, guarded, hook, latch, turn, overlap>>
  BY DEF Verdict, Running
<1>3. (OneTurnEnd /\ Prompted)'
  BY <1>1, <1>2, SetCmd DEF OneTurnEnd, Prompted
<1>4. (Armed /\ Taken /\ Covered)'
  BY <1>1, <1>2, SetCmd DEF Armed, Taken, Covered, Running
<1>5. HoldingLatchedAlone'
  BY <1>2 DEF HoldingLatchedAlone, HoldingLatched
<1> QED BY <1>3, <1>4, <1>5

\* A block is well-formed, recorded or not, and what is recorded was told.
LEMMA VerdictType ==
  ASSUME IInv, NEW c \in Cmd, Verdict(c),
         record' \in Blocks \cup {NoRecord}, active' \in BOOLEAN,
         told' \subseteq SUBSET Msg, phase' \in {"idle", "working"}
  PROVE  TypeOK'
BY IdleType, SetCmd DEF IInv, mail, lane, Verdict, TypeOK

\* The record of a block names the running session and turn, and its mail.
LEMMA RecordType ==
  ASSUME IInv, NEW c \in Cmd, Verdict(c), cmd[c].news # {}
  PROVE  Record(c) \in Blocks /\ cmd[c].news \in SUBSET Msg
<1>1. cmd[c] \in Command /\ cmd[c].op = "turnend"
  BY DEF IInv, TypeOK, Verdict, Running
<1>2. turn \in 1..MaxTurn
  BY <1>1 DEF IInv, TypeOK, OneTurnEnd, Prompted
<1>3. cmd[c].news \in (SUBSET Msg) \ {{}}
  BY <1>1 DEF Command
<1>4. live \in Session
  BY DEF IInv, TypeOK
<1> QED BY <1>2, <1>3, <1>4 DEF Record, Blocks

\* The steps of the turn-end after it has committed.
LEMMA EndInv ==
  ASSUME IInv, NEW c \in Cmd, StopHook(c) \/ EndStep(c)
  PROVE  IInv'
<1> USE DEF IInv, mail, lane, stop
<1>1. CASE StopHook(c)
  <2> DEFINE r == [Idle EXCEPT !.op = "turnend", !.step = IF Keeps THEN "clear" ELSE "list"]
             beside == \E d \in Cmd : cmd[d].op = "check"
  <2>1. /\ r \in Command /\ r.op = "turnend" /\ r.step \in {"clear", "list"}
        /\ r.step = "clear" => latch # live
    BY DEF Command, Idle, Keeps
  <2>2. /\ Set(c, r) /\ overlap' = (overlap \/ beside) /\ phase = "working"
        /\ phase' = "stopping" /\ cmd[c] = Idle
        /\ UNCHANGED <<mail, lane, latch, turn, active, record, told>>
    BY <1>1 DEF StopHook
  <2> HIDE DEF r
  <2>3. \A d \in Cmd : cmd[d].op = "check" => overlap'
    BY <2>2
  <2>4. overlap' \in BOOLEAN /\ (overlap => overlap')
    BY <2>2 DEF TypeOK
  <2> HIDE DEF beside
  <2>5. TypeOK'
    BY <2>1, <2>2, <2>4, SetCmd DEF TypeOK
  <2>6. (OneTurnEnd /\ Prompted)'
    BY <2>1, <2>2, <2>3, SetCmd DEF OneTurnEnd, Prompted
  <2>7. (Armed /\ Taken /\ Covered)'
    BY <2>1, <2>2, <2>4, SetCmd
    DEF OneTurnEnd, Armed, Taken, Covered, Running
  <2>8. (Recorded /\ HoldingLatchedAlone)'
    BY <2>2, <2>4 DEF Recorded, HoldingLatchedAlone, HoldingLatched
  <2> QED BY <2>5, <2>6, <2>7, <2>8
<1>2. CASE ClearLatch(c)
  <2> DEFINE r == [cmd[c] EXCEPT !.step = "gate"]
  <2>1. /\ cmd[c] \in Command /\ cmd[c].op = "turnend"
        /\ cmd[c].step = "clear" \/ (cmd[c].step = "commit" /\ cmd[c].olds = {})
    BY <1>2 DEF ClearLatch, TypeOK
  <2>2. r \in Command /\ r.op = "turnend" /\ r.step = "gate"
    BY <2>1 DEF Command
  <2>3. Set(c, r)
    BY <1>2 DEF ClearLatch, Go
  <2> HIDE DEF r
  <2>4. ~overlap => /\ \A d \in Cmd : cmd[d].op # "check"
                    /\ latch' = latch \/ \A m \in Msg : place[m] # "claimed"
    BY <1>2, <2>1 DEF ClearLatch, OneTurnEnd, Covered
  <2>5. TypeOK'
    BY <1>2, <2>2, <2>3, SetCmd DEF ClearLatch, TypeOK
  <2>6. (OneTurnEnd /\ Prompted /\ Armed /\ Taken /\ Covered)'
    BY <1>2, <2>1, <2>2, <2>3, <2>4, SetCmd
    DEF ClearLatch, OneTurnEnd, Prompted, Armed, Taken, Covered, Running
  <2>7. (Recorded /\ HoldingLatchedAlone)'
    BY <1>2, <2>4 DEF ClearLatch, Recorded, HoldingLatchedAlone, HoldingLatched
  <2> QED BY <2>5, <2>6, <2>7
<1>3. CASE Gate(c)
  <2> DEFINE r == [cmd[c] EXCEPT !.step = "verdict", !.news = In("inbox")]
  <2>1. cmd[c] \in Command /\ cmd[c].op = "turnend"
    BY <1>3 DEF Gate, Running, TypeOK
  <2>2. r \in Command /\ r.op = "turnend" /\ r.step = "verdict"
    BY <2>1 DEF Command, In
  <2>3. Set(c, r)
    BY <1>3 DEF Gate
  <2> HIDE DEF r
  <2>4. TypeOK'
    BY <1>3, <2>2, <2>3, SetCmd DEF Gate, TypeOK
  <2>5. (OneTurnEnd /\ Prompted /\ Armed /\ Taken /\ Covered)'
    BY <1>3, <2>1, <2>2, <2>3, SetCmd
    DEF Gate, OneTurnEnd, Prompted, Armed, Taken, Covered, Running
  <2>6. (Recorded /\ HoldingLatchedAlone)'
    BY <1>3 DEF Gate, Recorded, HoldingLatchedAlone, HoldingLatched
  <2> QED BY <2>4, <2>5, <2>6
<1>4. CASE Clear(c)
  <2>1. /\ Verdict(c) /\ record' = NoRecord /\ phase' \in {"idle", "working"}
        /\ active' \in BOOLEAN /\ told' \subseteq SUBSET Msg
        /\ live' = live /\ turn' = turn
    BY <1>4 DEF Clear, LetEnd, Verdict, TypeOK
  <2>2. TypeOK'
    BY <2>1, VerdictType
  <2>3. Recorded'
    BY <2>1 DEF Recorded, NoRecord, TypeOK, Session
  <2> QED BY <2>1, <2>2, <2>3, VerdictInv
<1>5. CASE RetryHook(c)
  <2>1. /\ Verdict(c) /\ cmd[c].news # {} /\ live' = live /\ turn' = turn
        /\ \/ LetEnd /\ UNCHANGED record
           \/ record' = Record(c) /\ Block(cmd[c].news)
    BY <1>5 DEF RetryHook, Verdict
  <2>2. Record(c) \in Blocks /\ cmd[c].news \in SUBSET Msg
    BY <2>1, RecordType
  <2>3. /\ record' \in Blocks \cup {NoRecord} /\ phase' \in {"idle", "working"}
        /\ active' \in BOOLEAN /\ told' \subseteq SUBSET Msg
    BY <2>1, <2>2 DEF LetEnd, Block, TypeOK
  <2>4. TypeOK'
    BY <2>1, <2>3, VerdictType
  <2>5. Recorded'
    BY <2>1 DEF Recorded, Record, LetEnd, Block, TypeOK, Session
  <2> QED BY <2>1, <2>3, <2>4, <2>5, VerdictInv
<1>6. CASE NoTurnHook(c)
  <2>1. /\ Verdict(c) /\ cmd[c].news # {} /\ record' = NoRecord /\ Block(cmd[c].news)
        /\ live' = live /\ turn' = turn
    BY <1>6 DEF NoTurnHook, Verdict
  <2>2. cmd[c].news \in SUBSET Msg
    BY <2>1, RecordType
  <2>3. /\ phase' \in {"idle", "working"}
        /\ active' \in BOOLEAN /\ told' \subseteq SUBSET Msg
    BY <2>1, <2>2 DEF Block, TypeOK
  <2>4. TypeOK'
    BY <2>1, <2>3, VerdictType
  <2>5. Recorded'
    BY <2>1 DEF Recorded, NoRecord, TypeOK, Session
  <2> QED BY <2>1, <2>3, <2>4, <2>5, VerdictInv
<1>7. CASE OtherHook(c)
  <2>1. /\ Verdict(c) /\ cmd[c].news # {} /\ UNCHANGED record
        /\ live' = live /\ turn' = turn
        /\ LetEnd \/ Block(cmd[c].news)
    BY <1>7 DEF OtherHook, Verdict
  <2>2. cmd[c].news \in SUBSET Msg
    BY <2>1, RecordType
  <2>3. /\ record' \in Blocks \cup {NoRecord} /\ phase' \in {"idle", "working"}
        /\ active' \in BOOLEAN /\ told' \subseteq SUBSET Msg
    BY <2>1, <2>2 DEF LetEnd, Block, TypeOK
  <2>4. TypeOK'
    BY <2>1, <2>3, VerdictType
  <2>5. Recorded'
    BY <2>1 DEF Recorded, LetEnd, Block
  <2> QED BY <2>1, <2>3, <2>4, <2>5, VerdictInv
<1> QED BY <1>1, <1>2, <1>3, <1>4, <1>5, <1>6, <1>7 DEF EndStep

\* What happens around the lane, and a command that is killed.
LEMMA AroundInv ==
  ASSUME IInv, \/ \E c \in Cmd : Killed(c)
               \/ \E m \in Msg : Arrive(m)
               \/ Prompt \/ Relaunch
  PROVE  IInv'
<1> USE DEF IInv, mail, lane, stop
<1>1. ASSUME NEW c \in Cmd, Killed(c)
      PROVE  IInv'
  <2>1. Idle.op = "none" /\ Idle.armed = FALSE
    BY DEF Idle
  <2>2. TypeOK'
    BY <1>1, IdleType, SetCmd DEF Killed, TypeOK
  <2>3. (OneTurnEnd /\ Prompted /\ Armed /\ Taken /\ Covered)'
    BY <1>1, <2>1, SetCmd
    DEF Killed, OneTurnEnd, Prompted, Armed, Taken, Covered, Running
  <2>4. (Recorded /\ HoldingLatchedAlone)'
    BY <1>1 DEF Killed, Recorded, HoldingLatchedAlone, HoldingLatched
  <2> QED BY <2>2, <2>3, <2>4
<1>2. ASSUME NEW m \in Msg, Arrive(m)
      PROVE  IInv'
  <2>1. /\ place[m] = "none" /\ place'[m] = "inbox"
        /\ \A n \in Msg : n # m => place'[n] = place[n]
        /\ place' \in [Msg -> {"none", "inbox", "claimed", "archived"}]
    BY <1>2 DEF Arrive, Move, TypeOK
  <2>2. TypeOK'
    BY <1>2, <2>1 DEF Arrive, TypeOK
  <2>3. (OneTurnEnd /\ Prompted /\ Armed /\ Covered)'
    BY <1>2, <2>1 DEF Arrive, OneTurnEnd, Prompted, Armed, Covered, Running
  <2>4. Taken'
    BY <1>2, <2>1 DEF Arrive, Taken, TypeOK
  <2>5. (Recorded /\ HoldingLatchedAlone)'
    BY <1>2, <2>1 DEF Arrive, Recorded, HoldingLatchedAlone, HoldingLatched
  <2> QED BY <2>2, <2>3, <2>4, <2>5
<1>3. CASE Prompt
  <2>1. TypeOK'
    <3>1. turn' \in 0..MaxTurn
      BY <1>3 DEF Prompt, TypeOK
    <3>2. told' \subseteq SUBSET Msg /\ active' \in BOOLEAN /\ phase' = "working"
      BY <1>3 DEF Prompt
    <3> QED BY <1>3, <3>1, <3>2 DEF Prompt, TypeOK
  <2>2. (OneTurnEnd /\ Prompted /\ Armed /\ Taken /\ Covered)'
    BY <1>3 DEF Prompt, OneTurnEnd, Prompted, Armed, Taken, Covered, Running, TypeOK
  <2>3. record.turn \in Nat /\ turn \in Nat
    BY DEF TypeOK, Blocks, NoRecord
  <2>4. (Recorded /\ HoldingLatchedAlone)'
    BY <1>3, <2>3 DEF Prompt, Recorded, HoldingLatchedAlone, HoldingLatched
  <2> QED BY <2>1, <2>2, <2>4
<1>4. CASE Relaunch
  <2>1. \A c \in Cmd : cmd'[c] = Idle
    BY <1>4 DEF Relaunch
  <2>2. Idle.op = "none" /\ Idle.armed = FALSE
    BY DEF Idle
  <2>3. cmd' \in [Cmd -> Command]
    BY <1>4, IdleType DEF Relaunch
  <2>4. TypeOK'
    <3>1. live' \in Session
      BY <1>4 DEF Relaunch, TypeOK, Session
    <3>2. /\ saw' \subseteq Msg /\ told' \subseteq SUBSET Msg
          /\ active' \in BOOLEAN /\ overlap' \in BOOLEAN /\ phase' = "idle"
      BY <1>4 DEF Relaunch
    <3> QED BY <1>4, <2>3, <3>1, <3>2 DEF Relaunch, TypeOK
  <2>5. (OneTurnEnd /\ Prompted /\ Armed /\ Taken /\ Covered)'
    BY <1>4, <2>1, <2>2
    DEF Relaunch, OneTurnEnd, Prompted, Armed, Taken, Covered, Running
  <2>6. record.session \in Nat /\ live \in Nat
    BY DEF TypeOK, Blocks, NoRecord, Session
  <2>7. (Recorded /\ HoldingLatchedAlone)'
    BY <1>4, <2>6 DEF Relaunch, Recorded, HoldingLatchedAlone, HoldingLatched
  <2> QED BY <2>4, <2>5, <2>7
<1> QED BY <1>1, <1>2, <1>3, <1>4

\* Every step keeps the invariant.
LEMMA Inductive == IInv /\ [Next]_vars => IInv'
<1> SUFFICES ASSUME IInv, [Next]_vars PROVE IInv'
  OBVIOUS
<1>1. CASE Next
  BY <1>1, CheckInv, AckInv, EndInv, AroundInv DEF Next
<1>2. CASE UNCHANGED vars
  BY <1>2 DEF vars, mail, lane, stop, IInv, TypeOK, OneTurnEnd, Prompted, Armed, Taken,
              Covered, Recorded, HoldingLatchedAlone, HoldingLatched, Running
<1> QED BY <1>1, <1>2

\* The invariant of every behaviour, for any number of messages, commands,
\* sessions and turns.
THEOREM Invariance == Spec => []IInv
BY InitInv, Inductive, PTL DEF Spec

\* The state stays well-typed: the latch names a guarded session, the record
\* a turn that was blocked.
THEOREM TypeCorrect == Spec => []TypeOK
<1>1. IInv => TypeOK
  BY DEF IInv
<1> QED BY <1>1, Invariance, PTL

\* While no turn ended over a running check, a guarded session that was shown
\* mail it has not committed has the latch (loop/guard.go:11-15).
THEOREM LatchHeld == Spec => []HoldingLatchedAlone
<1>1. IInv => HoldingLatchedAlone
  BY DEF IInv
<1> QED BY <1>1, Invariance, PTL

\* A stop with unread mail is let through only after a block of the same turn
\* for the same mail, or by Muse's rule (cli/turn_end.go:224-268): the
\* record that the verdict compares was told in this turn.
THEOREM LetGoProven == Spec => RetryProven
<1> DEFINE Step == \A c \in Cmd :
                     /\ Running(c, "turnend", "verdict") /\ cmd[c].news # {}
                     /\ phase' = "idle" /\ live' = live
                     => \/ cmd[c].news \in told
                        \/ hook = "muse" /\ active
<1>1. ASSUME IInv, [Next]_vars PROVE [Step]_vars
  <2> SUFFICES ASSUME Next, NEW c \in Cmd,
                      Running(c, "turnend", "verdict"), cmd[c].news # {},
                      phase' = "idle", live' = live
               PROVE  cmd[c].news \in told \/ (hook = "muse" /\ active)
    BY <1>1
  <2>1. phase = "stopping"
    BY <1>1 DEF IInv, OneTurnEnd, Running
  <2>2. PICK d \in Cmd : Clear(d) \/ RetryHook(d) \/ OtherHook(d)
    BY <1>1, <2>1
    DEF Next, CheckStep, AckStep, EndStep, CheckStart, ListResidue, NextOld, NextNew, Arm,
        Show, CheckStops, CheckEnd, AckStart, AckList, Commit, CommitGone, AckDone,
        StopHook, ClearLatch, Gate, NoTurnHook, Block, Killed, Arrive, Prompt, Relaunch,
        stop, lane, IInv, TypeOK, Session
  <2>3. d = c
    BY <1>1, <2>2 DEF Clear, RetryHook, OtherHook, Verdict, Running, IInv, OneTurnEnd
  <2>4. CASE RetryHook(c)
    BY <1>1, <2>4 DEF RetryHook, Block, Record, IInv, Recorded
  <2>5. CASE OtherHook(c)
    BY <2>5 DEF OtherHook, Block
  <2> QED BY <2>2, <2>3, <2>4, <2>5 DEF Clear
<1>2. Spec => [][Step]_vars
  BY <1>1, Invariance, PTL DEF Spec
<1> QED BY <1>2 DEF RetryProven
=============================================================================
