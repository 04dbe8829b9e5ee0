---------------------------- MODULE MCSparkBatch ----------------------------
(* Small instances of SparkBatch for TLC.                                   *)
EXTENDS SparkBatch, TLC

MCOneFriend == {0}
MCTwoFriends == {0, 1}
MCAnyFault ==
    {"login_expired", "chat_ui_unavailable", "chat_load_failed", "target_not_found",
     "conversation_not_opened", "delivery_uncertain", "delivery_rejected"}
MCRetryable == {"conversation_not_opened"}
\* Instants are only compared for equality.
MCSymmetry == Permutations(Instant)
=============================================================================
