----------------------------- MODULE MCMailbox -----------------------------
(***************************************************************************)
(* Instances of Mailbox for TLC: the messages 1, 2, ... with their kinds.  *)
(***************************************************************************)
EXTENDS Mailbox

CONSTANTS c1, c2

MCGood == [m \in Msg |-> "good"]
MCBigFirst == [m \in Msg |-> IF m = 1 THEN "toobig" ELSE "good"]
MCMixed == [m \in Msg |-> CASE m = 1 -> "badname" [] m = 2 -> "good" [] OTHER -> "badbody"]

MCOnce == [m \in Msg |-> 1]
MCSecondTwice == [m \in Msg |-> IF m = 2 THEN 2 ELSE 1]

\* Nothing was shown before, nobody acks, and power is cut while no command
\* runs: a crash between a check and its ack.
NotAcking == \A c \in Cmd : cmd[c].stage # "acking"
CutBetween == faults'["cut"] # faults["cut"] => \A c \in Cmd : cmd[c] = Idle
ChecksOnly == Init /\ shown = {} /\ [][Next /\ NotAcking' /\ CutBetween]_vars

\* What the comment of ClaimMessage says (inbox.go:316-320): a message that was
\* displayed and not committed survives a crash between check and ack, be it in
\* .claimed or still in the inbox.
ShownSurvives == \A m \in shown : \E pl \in Place : file[m][pl] # 0
=============================================================================
