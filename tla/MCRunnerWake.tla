---------------------------- MODULE MCRunnerWake ----------------------------
(***************************************************************************)
(* Instances of RunnerWake for TLC. A fresh attempt is made only while none *)
(* is outstanding, and then only the inject loop can hold an old one: two   *)
(* attempts are ever referenced together, a third shows that more are not.  *)
(***************************************************************************)
EXTENDS RunnerWake

CONSTANTS a1, a2, a3
=============================================================================
