-------------------------- MODULE MCMissedMessages --------------------------
(* Instances of MissedMessages.                                            *)
EXTENDS MissedMessages

CONSTANTS u1, m1, m2

Recipients == [m \in MessageIds |-> u1]

Bound(ch, st, fa) ==
    [changes |-> ch, starts |-> st, failures |-> fa]

\* A restart and two failures; a change of the period beside a failure
BoundsAll == { Bound(0, 2, 2), Bound(1, 1, 1) }

BoundsOneStart == { Bound(0, 1, 0) }
=============================================================================
