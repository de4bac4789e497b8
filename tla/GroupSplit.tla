----------------------------- MODULE GroupSplit -----------------------------
(***************************************************************************)
(* The arithmetic of a debate: into how many groups n participants are     *)
(* divided, how large each group is, which divisions of a set of users the *)
(* shuffle can produce, and how the creator's parameters are simulated     *)
(* before they are accepted (zerver/lib/split_into_groups.py and           *)
(* split_into_group_db in zerver/lib/diapyr.py).                           *)
(***************************************************************************)
EXTENDS Integers, FiniteSets

\* mutant: n // max_per_group
NumGroupsFloor(n, maxPerGroup) == n \div maxPerGroup

\* math.ceil(n / max_per_group), for max_per_group > 0
NumGroups(n, maxPerGroup) == (n + maxPerGroup - 1) \div maxPerGroup

MinPerGroup(n, maxPerGroup) == n \div NumGroups(n, maxPerGroup)

\* the first n % num_groups groups have one participant more
GroupSize(n, maxPerGroup, i) ==
    LET r == n % NumGroups(n, maxPerGroup)
    IN  MinPerGroup(n, maxPerGroup) + (IF i <= r THEN 1 ELSE 0)

(***************************************************************************)
(* shuffle followed by the slicing loop, for n > max_per_group > 0: any    *)
(* division of the users into num_groups numbered groups of those sizes.   *)
(***************************************************************************)
Divisions(users, maxPerGroup) ==
    LET n == Cardinality(users)
        k == NumGroups(n, maxPerGroup)
        members(a, i) == {u \in users : a[u] = i}
    IN  {[i \in 1..k |-> members(a, i)] :
           a \in {b \in [users -> 1..k] :
                    \A i \in 1..k :
                       Cardinality(members(b, i)) = GroupSize(n, maxPerGroup, i)}}

-----------------------------------------------------------------------------
(***************************************************************************)
(* phase2_preparation: the debate is simulated on group sizes alone.       *)
(* MaxIterations is its security counter.                                  *)
(***************************************************************************)
MaxIterations == 30

\* split_into_groups and next_step_preparation both return one group only
OneGroup(n, maxPerGroup) == n <= maxPerGroup \/ n < 2

\* how many participants are left after i simulated rounds
Population(n, maxPerGroup, maxRepresentant) ==
    LET left[i \in 0..MaxIterations] ==
          IF i = 0 THEN n
          ELSE LET before == left[i - 1]
               IN  IF OneGroup(before, maxPerGroup) THEN before
                   ELSE maxRepresentant * NumGroups(before, maxPerGroup)
    IN  left

NumRounds(n, maxPerGroup, maxRepresentant) ==
    LET left == Population(n, maxPerGroup, maxRepresentant)
        done == {i \in 0..MaxIterations : OneGroup(left[i], maxPerGroup)}
    IN  IF done = {} THEN MaxIterations
        ELSE CHOOSE i \in done : \A j \in done : i <= j

\* the parameters the view accepts: no random.sample of the simulation asks
\* a group for more members than it has, and there is at least one round
Acceptable(n, maxPerGroup, maxRepresentant) ==
    LET left == Population(n, maxPerGroup, maxRepresentant)
    IN  /\ maxPerGroup > 0
        /\ maxRepresentant >= 0
        /\ n > maxPerGroup
        /\ \A i \in 0..NumRounds(n, maxPerGroup, maxRepresentant) - 1 :
              maxRepresentant <= MinPerGroup(left[i], maxPerGroup)
=============================================================================
