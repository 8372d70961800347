----------------------------- MODULE FencedOwner -----------------------------
(***************************************************************************)
(* What the serve lease of internal/loop/lease.go promises, with the claim *)
(* file, the agent lock, the clocks and the processes left out: an agent   *)
(* id has at most one owner token at a time, a token that lost the id      *)
(* never owns it again, and a fenced write is made under the token that    *)
(* owns the id at that moment.                                             *)
(***************************************************************************)
CONSTANTS Token,   \* the 128-bit serve tokens (mintServeToken)
          NoOne    \* "no token"

VARIABLES owner,   \* the token that owns the id, or NoOne
          spent,   \* the tokens that have owned the id and lost it
          wrote    \* the token under which the last fenced write was made

vars == <<owner, spent, wrote>>

Init == /\ owner \in Token \cup {NoOne}
        /\ spent = {}
        /\ wrote = NoOne

\* The id changes hands: a fresh acquire, a reclaim of a stale claim, a
\* release or an invalidation. The loser's token is spent for ever.
Transfer(t) == /\ owner # t
               /\ t \notin spent
               /\ owner' = t
               /\ spent' = spent \cup ({owner} \ {NoOne})
               /\ UNCHANGED wrote

\* A write that only the owner may make: a stamp, a heartbeat.
Write == /\ owner # NoOne
         /\ wrote' = owner
         /\ UNCHANGED <<owner, spent>>

Next == (\E t \in Token \cup {NoOne} : Transfer(t)) \/ Write

Spec == Init /\ [][Next]_vars
=============================================================================
