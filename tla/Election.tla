------------------------------ MODULE Election ------------------------------
(***************************************************************************)
(* What the vote of a group promises to the rest of the debate, and all    *)
(* that DebateEngine uses of it: the group is asked, it votes, and at most *)
(* seats of its members are elected, once and for all.  An election may    *)
(* also fail, without electing anybody.                                    *)
(***************************************************************************)
EXTENDS Integers, FiniteSets

CONSTANTS
    Members,
    NullRepresentant    \* the number of seats is not set

VARIABLES
    seats,      \* given once and for all
    stage,      \* "asking", "voting", "closed" or "failed"
    elected

vars == <<seats, stage, elected>>

Init ==
    /\ seats \in Nat \cup {NullRepresentant}
    /\ stage = "asking"
    /\ elected = {}

OpenPoll ==
    /\ stage = "asking"
    /\ stage' = "voting"
    /\ UNCHANGED <<seats, elected>>

Elect ==
    /\ stage = "voting"
    /\ seats # NullRepresentant
    /\ stage' = "closed"
    /\ elected' \in SUBSET Members
    /\ Cardinality(elected') <= seats
    /\ UNCHANGED seats

Fail ==
    /\ stage \in {"asking", "voting"}
    /\ stage' = "failed"
    /\ UNCHANGED <<seats, elected>>

Next == OpenPoll \/ Elect \/ Fail

Spec == Init /\ [][Next]_vars
=============================================================================
