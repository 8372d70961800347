------------------------------- MODULE Delivery -------------------------------
(***************************************************************************)
(* What the two-phase consume of internal/loop/inbox.go promises for one   *)
(* recipient, with the directories, the processes and the faults left out: *)
(* a message is held from its delivery until it is settled (archived or    *)
(* quarantined), it is shown only while held or settled, and settled mail  *)
(* stays settled. Showing may repeat: delivery is at least once.           *)
(***************************************************************************)
CONSTANT Msg         \* the identities of the messages

VARIABLES held,      \* delivered, not settled yet
          settled,   \* archived or quarantined
          shown      \* rendered to the agent at least once

vars == <<held, settled, shown>>

Init == /\ held \subseteq Msg
        /\ settled = {}
        /\ shown \subseteq held

Deliver(m) == /\ m \notin held \cup settled
              /\ held' = held \cup {m}
              /\ UNCHANGED <<settled, shown>>

Show(m) == /\ m \in held \cup settled
           /\ shown' = shown \cup {m}
           /\ UNCHANGED <<held, settled>>

Settle(m) == /\ m \in held
             /\ held' = held \ {m}
             /\ settled' = settled \cup {m}
             /\ UNCHANGED shown

Next == \E m \in Msg : Deliver(m) \/ Show(m) \/ Settle(m)

Spec == Init /\ [][Next]_vars
=============================================================================
