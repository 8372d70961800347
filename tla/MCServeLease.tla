---------------------------- MODULE MCServeLease ----------------------------
(***************************************************************************)
(* An instance of ServeLease for TLC. Slots p1 and p2 are on host a, p3 is *)
(* on host b and has p1's pid; host b's clock runs one unit ahead. A       *)
(* behaviour is either about three lanes that reboot, and no command, or   *)
(* about two lanes, on one boot each, with a command and an update.        *)
(***************************************************************************)
EXTENDS ServeLease

CONSTANTS p1, p2, p3, c1, o1, a, b

MCHost == {a, b}
MCHostOf == [x \in Proc \cup Cmd \cup Oper |-> IF x = p3 THEN b ELSE a]
MCPidOf == [p \in Proc |-> IF p = p2 THEN 2 ELSE 1]
MCSkew == [h \in MCHost |-> IF h = a THEN 0 ELSE 1]

VARIABLE cast

Present ==
  IF cast = "lanes" THEN /\ \A c \in Cmd : cpc[c] = "idle"
                         /\ \A o \in Oper : opc[o] = "idle"
                    ELSE /\ pc[p2] = "down" /\ clock <= 1
                         /\ \A h \in Host : boot[h] = 1

CastInit == Init /\ cast \in {"lanes", "commands"} /\ Present
CastNext == Next /\ cast' = cast /\ Present'
CastSpec == CastInit /\ [][CastNext]_<<vars, cast>>
=============================================================================
