----------------------------- MODULE MCVoteRound -----------------------------
EXTENDS VoteRound, TLC

CONSTANTS a, b, Null

DistinctNames == [m \in Members |-> m]
Homonyms == [m \in Members |-> "same name"]

OneSeat == {[full_name |-> DistinctNames, max_representant |-> 1]}
\* and two members of one name, with more seats than members
OneSeatOrHomonyms ==
    OneSeat \cup {[full_name |-> Homonyms, max_representant |-> 3]}
\* and no number of seats
AnySeats ==
    OneSeatOrHomonyms \cup {[full_name |-> DistinctNames, max_representant |-> Null]}
=============================================================================
