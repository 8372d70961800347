------------------------------- MODULE TurnEnd -------------------------------
(***************************************************************************)
(* One lane's turns: `check` claims mail and arms the guard latch before   *)
(* it renders it (internal/cli/check.go, internal/loop/guard.go), the Stop *)
(* hook's `turn-end` commits the claimed mail, clears the latch and asks   *)
(* the finish gate whether the turn may end (internal/cli/turn_end.go,     *)
(* internal/op/gate.go). The agent may leave a check running when it       *)
(* stops, commands can be killed, and a crashed lane is relaunched as a    *)
(* new session over the same files. How a file moves is Mailbox's subject: *)
(* here a move is one step.                                                *)
(***************************************************************************)
EXTENDS Naturals, FiniteSets

CONSTANTS Msg,         \* messages, numbered in the listing's order
          Cmd,         \* slots for the lane's commands
          MaxSession,  \* bound: launches of the lane
          MaxTurn      \* bound: prompts over all its sessions

ASSUME MsgAssumption == Msg \subseteq Nat \ {0}
ASSUME BoundAssumption == MaxSession \in Nat \ {0} /\ MaxTurn \in Nat

VARIABLES place,    \* place[m]: where the message is
          saw,      \* the messages rendered to the live session
          live,     \* the running session (its serve token)
          guarded,  \* sessions with the guard armed (resolveGuardSession # "")
          latch,    \* the session in guard.latch, 0 without a file
          hook,     \* the harness's end-of-turn contract
          phase,    \* of the current turn; "failed" if it ended without a verdict
          turn,     \* the turn's identity
          active,   \* stop_hook_active: this stop follows our own block
          record,   \* turn-end.last-block
          told,     \* what the blocks returned in this turn named
          cmd,      \* cmd[c]: how far a command is
          overlap   \* a turn ended while one of its checks was running

mail == <<place, saw>>
lane == <<live, guarded, hook>>
stop == <<phase, turn, active, record, told, overlap>>
vars == <<mail, lane, latch, stop, cmd>>

Session == 1..MaxSession
NoRecord == [session |-> 0, turn |-> 0, unread |-> {}]
Idle == [op |-> "none", step |-> "next", msg |-> 0, news |-> {}, olds |-> {},
         took |-> FALSE, armed |-> FALSE, held |-> FALSE]

In(pl) == {m \in Msg : place[m] = pl}
First(S, m) == m \in S /\ \A n \in S : m <= n
Running(c, op, step) == cmd[c].op = op /\ cmd[c].step = step
Set(c, r) == cmd' = [cmd EXCEPT ![c] = r]
Go(c, step) == Set(c, [cmd[c] EXCEPT !.step = step])
\* A check that lists no further has only its deferred arming to do.
Finish(r) == [Idle EXCEPT !.op = "check", !.step = "end", !.armed = r.armed, !.held = r.held]
Move(m, pl) == place' = [place EXCEPT ![m] = pl]

\* SetGuardLatch overwrites whatever session is there; without the guard
\* there is no session to latch.
SetLatch == latch' = IF live \in guarded THEN live ELSE latch

-----------------------------------------------------------------------------
(* check *)

CheckStart(c) ==
  /\ phase = "working" /\ cmd[c] = Idle
  /\ Set(c, [Idle EXCEPT !.op = "check", !.step = "list", !.news = In("inbox")])
  /\ UNCHANGED <<mail, lane, latch, stop>>

ListResidue(c) ==
  /\ Running(c, "check", "list")
  /\ Set(c, [cmd[c] EXCEPT !.step = "next", !.olds = In("claimed"),
                           !.held = In("claimed") # {}])
  /\ UNCHANGED <<mail, lane, latch, stop>>

\* Residue first. What another command archived meanwhile cannot be read,
\* which ends the check.
NextOld(c) ==
  /\ Running(c, "check", "next")
  /\ \E m \in cmd[c].olds :
       /\ First(cmd[c].olds, m)
       /\ Set(c, IF place[m] = "claimed"
                   THEN [cmd[c] EXCEPT !.step = "arm", !.msg = m, !.olds = @ \ {m}]
                   ELSE Finish(cmd[c]))
  /\ UNCHANGED <<mail, lane, latch, stop>>

\* Then the new mail. A message that another command took after the listing
\* ends the check, unless it was read in time and the other one's claim stands.
NextNew(c) ==
  /\ Running(c, "check", "next") /\ cmd[c].olds = {}
  /\ \E m \in cmd[c].news :
       /\ First(cmd[c].news, m)
       /\ \/ /\ place[m] \in {"inbox", "claimed"}
             /\ Move(m, "claimed")
             /\ Set(c, [cmd[c] EXCEPT !.step = "arm", !.msg = m, !.news = @ \ {m}, !.took = TRUE])
          \/ place[m] # "inbox" /\ Set(c, Finish(cmd[c])) /\ UNCHANGED place
  /\ UNCHANGED <<saw, lane, latch, stop>>

\* Mutant of Arm: render first.
ArmLate(c) ==
  /\ Running(c, "check", "arm")
  /\ Go(c, "show")
  /\ UNCHANGED <<mail, lane, latch, stop>>

\* The emitter arms the latch before the first message is rendered.
Arm(c) ==
  /\ Running(c, "check", "arm")
  /\ IF cmd[c].armed THEN UNCHANGED latch ELSE SetLatch
  /\ Set(c, [cmd[c] EXCEPT !.step = "show", !.armed = TRUE])
  /\ UNCHANGED <<mail, lane, stop>>

Show(c) ==
  /\ Running(c, "check", "show")
  /\ saw' = saw \cup {cmd[c].msg}
  /\ Set(c, [cmd[c] EXCEPT !.step = "next", !.msg = 0])
  /\ UNCHANGED <<place, lane, latch, stop>>

\* The end of the listing, or a limit or byte budget reached after one new message.
CheckStops(c) ==
  /\ Running(c, "check", "next") /\ cmd[c].olds = {}
  /\ cmd[c].news = {} \/ cmd[c].took
  /\ Set(c, Finish(cmd[c]))
  /\ UNCHANGED <<mail, lane, latch, stop>>

\* Residue that exists arms the latch, rendered or not.
CheckEnd(c) ==
  /\ Running(c, "check", "end")
  /\ IF cmd[c].held /\ ~cmd[c].armed THEN SetLatch ELSE UNCHANGED latch
  /\ Set(c, Idle)
  /\ UNCHANGED <<mail, lane, stop>>

-----------------------------------------------------------------------------
(* ack, run by the agent *)

\* Refused while this session's own latch is set; a dead one stops nothing.
AckStart(c) ==
  /\ phase = "working" /\ cmd[c] = Idle
  /\ ~(live \in guarded /\ latch = live)
  /\ Set(c, [Idle EXCEPT !.op = "ack", !.step = "list"])
  /\ UNCHANGED <<mail, lane, latch, stop>>

AckList(c) ==
  /\ cmd[c].op \in {"ack", "turnend"} /\ cmd[c].step = "list"
  /\ Set(c, [cmd[c] EXCEPT !.step = "commit", !.olds = In("claimed")])
  /\ UNCHANGED <<mail, lane, latch, stop>>

\* What another ack archived meanwhile counts, if it stands under the name of
\* the same second.
Commit(c) ==
  /\ cmd[c].step = "commit"
  /\ \E m \in cmd[c].olds :
       /\ First(cmd[c].olds, m) /\ place[m] \in {"claimed", "archived"}
       /\ Set(c, [cmd[c] EXCEPT !.olds = @ \ {m}])
       /\ Move(m, "archived")
  /\ UNCHANGED <<saw, lane, latch, stop>>

\* Under another name the archived message is missing: this ack fails. A
\* turn-end that fails is no block: the harness lets the turn end.
CommitGone(c) ==
  /\ cmd[c].step = "commit"
  /\ \E m \in cmd[c].olds : First(cmd[c].olds, m) /\ place[m] # "claimed"
  /\ Set(c, Idle)
  /\ phase' = IF cmd[c].op = "turnend" THEN "failed" ELSE phase
  /\ UNCHANGED <<mail, lane, latch, turn, active, record, told, overlap>>

AckDone(c) ==
  /\ Running(c, "ack", "commit") /\ cmd[c].olds = {}
  /\ Set(c, Idle)
  /\ UNCHANGED <<mail, lane, latch, stop>>

-----------------------------------------------------------------------------
(* turn-end, run by the harness's Stop hook *)

\* Mail of a crashed session, whose latch is still there, is left for check
\* to show again; without the guard everything claimed is committed.
Keeps == live \in guarded /\ latch \notin {0, live}

StopHook(c) ==
  /\ phase = "working" /\ cmd[c] = Idle
  /\ phase' = "stopping"
  /\ overlap' = (overlap \/ \E d \in Cmd : cmd[d].op = "check")
  /\ Set(c, [Idle EXCEPT !.op = "turnend", !.step = IF Keeps THEN "clear" ELSE "list"])
  /\ UNCHANGED <<mail, lane, latch, turn, active, record, told>>

\* Mutant of ClearLatch: not for a stop that follows a block.
ClearFirstStop(c) ==
  /\ cmd[c].op = "turnend"
  /\ cmd[c].step = "clear" \/ (cmd[c].step = "commit" /\ cmd[c].olds = {})
  /\ latch' = IF latch = live /\ ~active THEN 0 ELSE latch
  /\ Go(c, "gate")
  /\ UNCHANGED <<mail, lane, stop>>

\* ClearGuardLatch releases this session's own hold and no other.
ClearLatch(c) ==
  /\ cmd[c].op = "turnend"
  /\ cmd[c].step = "clear" \/ (cmd[c].step = "commit" /\ cmd[c].olds = {})
  /\ latch' = IF live \in guarded /\ latch = live THEN 0 ELSE latch
  /\ Go(c, "gate")
  /\ UNCHANGED <<mail, lane, stop>>

\* The finish gate blocks on unread mail; the blocking set is the fingerprint.
Gate(c) ==
  /\ Running(c, "turnend", "gate")
  /\ Set(c, [cmd[c] EXCEPT !.step = "verdict", !.news = In("inbox")])
  /\ UNCHANGED <<mail, lane, latch, stop>>

Verdict(c) == Running(c, "turnend", "verdict") /\ Set(c, Idle)
              /\ UNCHANGED <<mail, lane, latch, turn, overlap>>

Block(unread) == /\ phase' = "working" /\ active' = TRUE
                 /\ told' = told \cup {unread}
LetEnd == phase' = "idle" /\ UNCHANGED <<active, told>>

Clear(c) ==
  /\ Verdict(c) /\ cmd[c].news = {}
  /\ record' = NoRecord
  /\ LetEnd

\* A record of the block; without a turn identity there is none.
Record(c) == [session |-> live, turn |-> turn, unread |-> cmd[c].news]

\* Mutant of RetryHook: the record counts the messages.
RetryByCount(c) ==
  /\ hook = "retry" /\ Verdict(c) /\ cmd[c].news # {}
  /\ IF active /\ record.session = live /\ record.turn = turn
          /\ Cardinality(record.unread) = Cardinality(cmd[c].news)
       THEN LetEnd /\ UNCHANGED record
       ELSE record' = Record(c) /\ Block(cmd[c].news)

\* Mutant of RetryHook: the record is kept only when there is none.
RetryFirstRecord(c) ==
  /\ hook = "retry" /\ Verdict(c) /\ cmd[c].news # {}
  /\ IF active /\ record = Record(c)
       THEN LetEnd /\ UNCHANGED record
       ELSE /\ record' = IF record = NoRecord THEN Record(c) ELSE record
            /\ Block(cmd[c].news)

\* Claude Code, codex and Gemini CLI: a stop that our block caused, and that
\* finds the same blockers in the same turn, is let through.
RetryHook(c) ==
  /\ hook = "retry" /\ Verdict(c) /\ cmd[c].news # {}
  /\ IF active /\ record = Record(c)
       THEN LetEnd /\ UNCHANGED record
       ELSE record' = Record(c) /\ Block(cmd[c].news)

\* The same harnesses without evidence of the turn, and remote lanes, whose
\* gate sends no fingerprint: never an exception.
NoTurnHook(c) ==
  /\ hook = "noturn" /\ Verdict(c) /\ cmd[c].news # {}
  /\ record' = NoRecord
  /\ Block(cmd[c].news)

\* Muse Code: one block for each stop. Antigravity: as many as there is mail for.
OtherHook(c) ==
  /\ hook \in {"muse", "agy"} /\ Verdict(c) /\ cmd[c].news # {}
  /\ IF hook = "muse" /\ active THEN LetEnd ELSE Block(cmd[c].news)
  /\ UNCHANGED record

-----------------------------------------------------------------------------
(* Around the lane *)

Arrive(m) ==
  /\ place[m] = "none"
  /\ Move(m, "inbox")
  /\ UNCHANGED <<saw, lane, latch, stop, cmd>>

\* The user, or the runner's cue, starts a turn.
Prompt ==
  /\ phase \in {"idle", "failed"} /\ turn < MaxTurn
  /\ phase' = "working" /\ turn' = turn + 1 /\ active' = FALSE /\ told' = {}
  /\ UNCHANGED <<mail, lane, latch, record, overlap, cmd>>

\* A tool call is stopped by its timeout, the Stop hook by its own: the
\* harness takes that for no block.
Killed(c) ==
  /\ cmd[c] # Idle
  /\ Set(c, Idle)
  /\ phase' = IF cmd[c].op = "turnend" THEN "failed" ELSE phase
  /\ UNCHANGED <<mail, lane, latch, turn, active, record, told, overlap>>

\* The lane crashes or ends and is launched again: a new session with the
\* same files. Its commands die with it.
Relaunch ==
  /\ live < MaxSession
  /\ live' = live + 1 /\ saw' = {}
  /\ phase' = "idle" /\ active' = FALSE /\ told' = {} /\ overlap' = FALSE
  /\ cmd' = [c \in Cmd |-> Idle]
  /\ UNCHANGED <<place, guarded, hook, latch, turn, record>>

-----------------------------------------------------------------------------
Init ==
  /\ place \in [Msg -> {"none", "inbox"}] /\ saw = {}
  /\ live = 1 /\ guarded \in SUBSET Session
  /\ latch = 0 /\ hook \in {"retry", "noturn", "muse", "agy"}
  /\ phase = "idle" /\ turn = 0 /\ active = FALSE
  /\ record = NoRecord /\ told = {} /\ overlap = FALSE
  /\ cmd = [c \in Cmd |-> Idle]

CheckStep(c) == \/ ListResidue(c) \/ NextOld(c) \/ NextNew(c) \/ Arm(c) \/ Show(c)
                \/ CheckStops(c) \/ CheckEnd(c)
AckStep(c) == AckList(c) \/ Commit(c) \/ CommitGone(c) \/ AckDone(c)
EndStep(c) == \/ ClearLatch(c) \/ Gate(c) \/ Clear(c) \/ RetryHook(c)
              \/ NoTurnHook(c) \/ OtherHook(c)

Next == \/ \E c \in Cmd : \/ CheckStart(c) \/ CheckStep(c) \/ AckStart(c) \/ AckStep(c)
                          \/ StopHook(c) \/ EndStep(c) \/ Killed(c)
        \/ \E m \in Msg : Arrive(m)
        \/ Prompt \/ Relaunch

Spec == Init /\ [][Next]_vars

\* Commands go on, and an agent that works stops in the end.
FairSpec == /\ Spec
            /\ \A c \in Cmd : WF_vars(CheckStep(c) \/ AckStep(c) \/ EndStep(c))
            /\ SF_vars(\E c \in Cmd : StopHook(c))

-----------------------------------------------------------------------------
Command == [op : {"none", "check", "ack", "turnend"},
            step : {"list", "next", "arm", "show", "end", "commit", "clear", "gate", "verdict"},
            msg : Msg \cup {0}, news : SUBSET Msg, olds : SUBSET Msg,
            took : BOOLEAN, armed : BOOLEAN, held : BOOLEAN]
Blocks == [session : Session, turn : 1..MaxTurn, unread : (SUBSET Msg) \ {{}}]

TypeOK ==
  /\ place \in [Msg -> {"none", "inbox", "claimed", "archived"}]
  /\ saw \subseteq Msg
  /\ live \in Session /\ guarded \subseteq Session /\ latch \in guarded \cup {0}
  /\ hook \in {"retry", "noturn", "muse", "agy"}
  /\ phase \in {"idle", "failed", "working", "stopping"} /\ turn \in 0..MaxTurn
  /\ active \in BOOLEAN /\ overlap \in BOOLEAN
  /\ record \in Blocks \cup {NoRecord} /\ told \subseteq SUBSET Msg
  /\ cmd \in [Cmd -> Command]

\* The latch is the durable fact that this session holds claimed-but-unacked
\* mail (loop/guard.go:11-15): it was set before the mail was shown, and the
\* mail is committed before it is cleared.
HoldingLatched ==
  live \in guarded =>
    \A m \in Msg : place[m] = "claimed" /\ m \in saw => latch = live

\* ... as long as no turn ends while one of its checks still runs.
HoldingLatchedAlone == ~overlap => HoldingLatched

\* A stop is let through with unread mail only when the harness was already
\* blocked in this very turn for these very messages, or by Muse's rule
\* (turn_end.go:224-268): a record of another turn, another session or other
\* messages proves nothing, however the turn, the mail and the lane go on.
RetryProven ==
  [][\A c \in Cmd :
       /\ Running(c, "turnend", "verdict") /\ cmd[c].news # {}
       /\ phase' = "idle" /\ live' = live
       => \/ cmd[c].news \in told
          \/ hook = "muse" /\ active]_vars

\* Nothing jams: the stop of an agent that never reads its mail is let through
\* in the end where the harness tells its turns apart (turn_end.go:235-242).
TurnsEnd ==
  (hook \in {"retry", "muse"} /\ phase = "working") ~> (phase \in {"idle", "failed"})

\* A session's latch is released by the end of its turn, blocked or not,
\* unless the hook itself dies (turn_end.go:200-206): what is held and what is
\* unread makes no difference.
LatchReleased ==
  (phase = "working" /\ latch = live) ~> (latch # live \/ phase = "failed")
=============================================================================
