-------------------------------- MODULE MCRoster --------------------------------
(***************************************************************************)
(* The rows of a pool and the processes that serve them, for TLC: the      *)
(* roster (Roster), or one life of serve (R, ServeRun). A behaviour is one *)
(* of the two.                                                             *)
(*                                                                         *)
(* In the roster: commands beside each other and beside a lane, two lanes  *)
(* of one id, and a lane that sweeps two ids nobody serves, of which one   *)
(* may have a broken lock.                                                 *)
(***************************************************************************)
EXTENDS Roster

CONSTANTS l1, l2, l3, c1, c2

MCHome == [l \in Lane |-> IF l = l3 THEN 3 ELSE 1]
Desk == [who |-> {c1, c2}, ids |-> {1}, poisoned |-> {}, faults |-> 1]
Visit == [who |-> {c1, l1}, ids |-> {1, 2}, poisoned |-> {}, faults |-> 0]
Rivals == [who |-> {l1, l2}, ids |-> {1}, poisoned |-> {}, faults |-> 1]
Quiet == [who |-> {l3, l2}, ids |-> {1, 2, 3}, poisoned |-> {1}, faults |-> 1]
Both == [who |-> {l3}, ids |-> {1, 2, 3}, poisoned |-> {}, faults |-> 0]
MCCasts == {Desk, Visit, Rivals, Quiet, Both}

VARIABLES side, remote, deaf, full, main, held, child, pty, status, ident, down, stop, lost,
          poll, inject, typist, killer
run == <<remote, deaf, full, main, held, child, pty, status, ident, down, stop, lost,
         poll, inject, typist, killer>>
all == <<vars, run, side>>

R == INSTANCE ServeRun WITH claim <- held

\* The side that is not played stands still in one initial state.
LaneInit == /\ Init /\ R!Init
            /\ \/ side = "roster" /\ ~remote /\ ~deaf /\ ~full
               \/ side = "run" /\ cast = Both /\ inbox = {}
Rows(A) == side = "roster" /\ A /\ UNCHANGED <<run, side>>
Runs(A) == side = "run" /\ A /\ UNCHANGED <<vars, side>>
LaneNext == Rows(Next) \/ Runs(R!Next)
LaneRuns == LaneInit /\ [][LaneNext]_all

\* Roster!FairSpec and ServeRun!FairSpec, each on its own side.
LaneSpec ==
  /\ LaneRuns
  /\ \A l \in Steady : /\ WF_all(Rows(Turn(l) \/ Publish(l) \/ Scan(l) \/ SweepEnds(l)))
                       /\ SF_all(Rows(Tick(l, TRUE))) /\ SF_all(Rows(SweepOne(l)))
                       /\ WF_all(Rows(SweepFails(l)))
  /\ \A c \in Cmd : WF_all(Rows(PublishRow(c)))
  /\ WF_all(Runs(R!Main)) /\ WF_all(Runs(R!PollLoop)) /\ WF_all(Runs(R!Killer))
  /\ WF_all(Runs(R!Must /\ R!ChildEnds))
  /\ WF_all(Runs(R!Returns /\ R!Typed)) /\ WF_all(Runs(R!Returns /\ R!Copy("type", "read")))
  /\ SF_all(Runs(R!Join))

\* The rows and the life of serve keep their types: a lane that ended, also on
\* a failed launch, holds neither the lease nor an identity nor a wrapper.
LaneTypeOK == TypeOK /\ R!TypeOK

\* While a lane's claim is live nobody removes or overwrites its row, and no
\* refresh of any row loses what its owner wrote in it.
RowKept == LiveRowMine /\ NotesKept

\* A sweep removes only an old row, and a clean-up, or a launch beside it,
\* leaves no row without an inbox.
SweptWhole == SweptIsOld /\ BareByBeat

\* The end of a lane is in order: the wrapper is gone before the lease is given
\* back, and the offline record is written after every poll.
EndOrder == R!ReleasedAfterChild /\ R!OfflineStays

\* A lane that lost its lease, or was asked to stop, ends, unless a write into a
\* wrapper that is deaf and does not read keeps the killer waiting
\* (ServeRun!LostEnds).
LostEnds == R!LostEnds

\* "We must stop injecting and shut down cleanly" (pollOnce): a lane whose claim
\* was taken ends (ServeRun!FencedEnds).
FencedEnds == R!FencedEnds
=============================================================================
