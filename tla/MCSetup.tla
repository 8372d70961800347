--------------------------------- MODULE MCSetup ---------------------------------
(***************************************************************************)
(* The commands that install and clean a host, for TLC: setup and update   *)
(* (Setup), or setup --wipe-state (W, Wipe). A behaviour is one of the two.*)
(*                                                                         *)
(* Setup is asked for no wrapper, or both: the first list drops what the   *)
(* second one wanted.                                                      *)
(***************************************************************************)
EXTENDS Setup

CONSTANTS Agent, Foreign, MaxStart,    \* of Wipe
          w1, w2, o1, l1, a1, a2

MCAsk == {[want |-> {}, stale |-> ""], [want |-> {w1, w2}, stale |-> "2h"]}

VARIABLES side, wlane, claim, row, box, state, rec, reused, poller, stray, w, renewed, late,
          starts, wfaults
wipe == <<wlane, claim, row, box, state, rec, reused, poller, stray, w, renewed, late, starts,
          wfaults>>
all == <<vars, wipe, side>>

W == INSTANCE Wipe WITH lane <- wlane, faults <- wfaults

\* No agent id is the name of a file of state/: an id has no dot (ValidateAgentID).
ASSUME WipeAssumption == W!Pool \notin Agent /\ MaxStart \in Nat

\* The side that is not played stands still in one initial state; setup meets at
\* most one thing of an older or another's making.
HostInit == /\ Init /\ W!Init /\ side \in {"setup", "wipe"}
            /\ side = "setup" => box = {} /\ (spec = 0 \/ disp = 0) /\ (legacy => spec = disp)
            /\ side = "wipe" => spec = 0 /\ disp = 0 /\ ~legacy
Installs(A) == side = "setup" /\ A /\ UNCHANGED <<wipe, side>>
Wipes(A) == side = "wipe" /\ A /\ UNCHANGED <<vars, side>>
\* Launches, registrations and faults beside a wipe are at most MaxStart together.
HostRuns == HostInit /\ [][Installs(Next) \/ Wipes(W!Next /\ starts' + wfaults' <= MaxStart)]_all

\* Setup!FairSpec and Wipe!FairSpec, each on its own side.
HostSpec ==
  /\ HostRuns
  /\ WF_all(Installs(Step)) /\ SF_all(Installs(StartSetup))
  /\ SF_all(Installs(\E v \in Wrapper : Mend(v)))
  /\ WF_all(Wipes(W!Start)) /\ WF_all(Wipes(W!Step))
  /\ \A i \in Agent : /\ WF_all(Wipes(wlane[i] = "none" /\ W!ClaimAges(i)))
                      /\ WF_all(Wipes(wlane[i] = "none" /\ W!RowAges(i)))

\* The files and the pool keep their types.
HostTypeOK == TypeOK /\ W!TypeOK

\* What people wrote, and what they chose, outlives every setup and update, but
\* for what an enrollment file held when its rewriting was cut short.
PeopleKept == []OwnKept /\ EnrolKept /\ ChoiceKept

\* A wipe spares what is alive, says so only when it is true, and removes no
\* file that took the place of one of its own.
WipeSpares == W!LiveSpared /\ W!GreenIsQuiet /\ W!StrayGuarded

\* What was interrupted heals when it is repeated: the hook files fit the binary
\* again (Setup!HooksHeal), and the wipe of a pool without lanes goes through, once
\* no recorded pid is alive
\* (Wipe!WipeInTheEnd).
RepeatHeals ==
  /\ HooksHeal
  /\ side = "wipe" => W!WipeInTheEnd

\* A fresh row, listed or not, refuses the wipe (Wipe!FreshRowRefuses).
FreshRowRefuses == W!FreshRowRefuses
=============================================================================
