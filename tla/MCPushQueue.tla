---------------------------- MODULE MCPushQueue ----------------------------
(* Small instances of PushQueue for TLC.                                    *)
EXTENDS PushQueue, TLC

CONSTANTS c1, u1, e1, e2

\* One user with one channel.
MCKinds == e1 :> "failure" @@ e2 :> "test"
MCTwoEvents == e1 :> u1 @@ e2 :> u1
MCOwner == c1 :> u1
MCTests == e1 :> "test" @@ e2 :> "test"
MCAlways == {<<TRUE, Kind>>}
MCSymmetry == Permutations(Notifier)
=============================================================================
