--------------------------- MODULE MCEmailQueue ---------------------------
(* Two mails, one of them about a move, and two notifiers, one of which    *)
(* may go on without its lock.                                             *)
EXTENDS EmailQueue

CONSTANTS e1, e2

MCEvents == {e1, e2}

\* A bound: ids, which are drawn at random, are drawn in order, and the provider
\* forgets the key of one mail only.
MCBound ==
    /\ event[e1] = NoEvent => event[e2] = NoEvent
    /\ \E k \in DedupeKey : forgotten[k] = 0
=============================================================================
