----------------------------- MODULE Tournament -----------------------------
(***************************************************************************)
(* The tournament that the tables of a debate record, whatever processes   *)
(* write them: rounds open in order, a group is opened only among the      *)
(* participants still in the debate and never shares one with another      *)
(* group of its round, and who is out stays out.                           *)
(***************************************************************************)
EXTENDS Integers, FiniteSets

CONSTANTS Debates, Users, MaxRound

VARIABLES
    joined,     \* [Debates -> SUBSET Users]
    alive,      \* [Debates -> SUBSET Users]: who is not eliminated
    floor       \* [Debates -> [1..MaxRound -> sets of users]]: the open groups

vars == <<joined, alive, floor>>

Init ==
    /\ joined \in [Debates -> SUBSET Users]
    /\ alive = joined
    /\ floor = [d \in Debates |-> [r \in 1..MaxRound |-> {}]]

Join(d, u) ==
    /\ u \notin joined[d]
    /\ joined' = [joined EXCEPT ![d] = @ \cup {u}]
    /\ alive' = [alive EXCEPT ![d] = @ \cup {u}]
    /\ UNCHANGED floor

OpenGroup(d, r, members) ==
    /\ members \subseteq alive[d]
    /\ \A other \in floor[d][r] : members \cap other = {}
    /\ r > 1 => floor[d][r - 1] # {}
    /\ \A later \in r + 1..MaxRound : floor[d][later] = {}
    /\ floor' = [floor EXCEPT ![d][r] = @ \cup {members}]
    /\ UNCHANGED <<joined, alive>>

\* the vote of a round decides who goes on
Eliminate(d, out) ==
    /\ alive' = [alive EXCEPT ![d] = @ \ out]
    /\ UNCHANGED <<joined, floor>>

Next == \E d \in Debates :
    \/ \E u \in Users : Join(d, u)
    \/ \E r \in 1..MaxRound, members \in SUBSET Users : OpenGroup(d, r, members)
    \/ \E out \in SUBSET Users : Eliminate(d, out)

Spec == Init /\ [][Next]_vars
=============================================================================
