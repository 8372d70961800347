------------------------------ MODULE MCTurnEnd ------------------------------
(***************************************************************************)
(* An instance of TurnEnd for TLC. A behaviour has either two commands at  *)
(* a time and the first message alone, or one command and both messages.   *)
(***************************************************************************)
EXTENDS TurnEnd

CONSTANTS c1, c2

VARIABLE cast

Present == IF cast = "race" THEN \A m \in Msg \ {1} : place[m] = "none"
                            ELSE cmd[c2] = Idle

all == <<vars, cast>>
Kept(A) == A /\ cast' = cast /\ Present'

CastInit == Init /\ cast \in {"race", "stops"} /\ Present

\* TurnEnd!FairSpec with the behaviours of one cast.
CastSpec ==
  /\ CastInit /\ [][Kept(Next)]_all
  /\ \A c \in Cmd : WF_all(Kept(CheckStep(c) \/ AckStep(c) \/ EndStep(c)))
  /\ SF_all(Kept(\E c \in Cmd : StopHook(c)))
=============================================================================
