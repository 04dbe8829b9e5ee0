------------------------------ MODULE Delivery ------------------------------
(***************************************************************************)
(* What the batch promises of the message to one friend in one occurrence  *)
(* of a task (batch_execution.py: "Durable per-recipient checkpoints").    *)
(* Nothing is sent before the friend is committed to.  A committed friend  *)
(* is withdrawn when it is known that nothing was sent, is sent to, or is  *)
(* lost: nobody knows, and nobody tries again.                             *)
(***************************************************************************)
VARIABLE outcome        \* "unsent", "committed", "sent" or "lost"

Init == outcome = "unsent"

Commit   == outcome = "unsent"    /\ outcome' = "committed"
Withdraw == outcome = "committed" /\ outcome' = "unsent"
Send     == outcome = "committed" /\ outcome' = "sent"
Lose     == outcome = "committed" /\ outcome' = "lost"

Next == Commit \/ Withdraw \/ Send \/ Lose

Spec == Init /\ [][Next]_outcome
=============================================================================
