------------------------------ MODULE SplitLoop ------------------------------
(***************************************************************************)
(* The slicing loop of split_into_groups (zerver/lib/split_into_groups.py; *)
(* split_into_group_db of zerver/lib/diapyr.py has the same loop), one     *)
(* iteration per step.  The users are their positions 1..n in the shuffled *)
(* list, so that a group is a set of positions.                            *)
(***************************************************************************)
EXTENDS GroupSplit, Sequences

CONSTANTS
    Populations,   \* the numbers of participants considered
    Limits         \* the values of max_per_group considered

ASSUME SplitAssumption == Populations \subseteq Nat /\ Limits \subseteq Nat

VARIABLES
    n,             \* len(users)
    max_per_group,
    num_groups,
    i,             \* the number of groups cut so far
    start,         \* where the next slice begins
    groups,        \* the list being built
    pc             \* "begin", "loop" or "returned"

vars == <<n, max_per_group, num_groups, i, start, groups, pc>>

Init ==
    /\ n \in Populations
    /\ max_per_group \in Limits
    /\ num_groups = 0
    /\ i = 0
    /\ start = 0
    /\ groups = <<>>
    /\ pc = "begin"

\* n <= max_per_group: everybody in one group
ReturnAll ==
    /\ pc = "begin"
    /\ n <= max_per_group
    /\ groups' = <<1..n>>
    /\ pc' = "returned"
    /\ UNCHANGED <<n, max_per_group, num_groups, i, start>>

\* except ZeroDivisionError: return []
ReturnNothing ==
    /\ pc = "begin"
    /\ n > max_per_group
    /\ max_per_group = 0
    /\ pc' = "returned"
    /\ UNCHANGED <<n, max_per_group, num_groups, i, start, groups>>

Plan ==
    /\ pc = "begin"
    /\ n > max_per_group
    /\ max_per_group # 0
    /\ num_groups' = NumGroups(n, max_per_group)
    /\ pc' = "loop"
    /\ UNCHANGED <<n, max_per_group, i, start, groups>>

\* mutant: the remainder is forgotten
SliceSizeNoRemainder == n \div num_groups

\* mutant: the last groups, not the first, get one participant more
SliceSizeLastLarger ==
    n \div num_groups + (IF num_groups - i <= n % num_groups THEN 1 ELSE 0)

\* min_per_group + (1 if i < r else 0)
SliceSize == n \div num_groups + (IF i < n % num_groups THEN 1 ELSE 0)

\* mutant: the next slice begins where this one begins, minus its size
SliceBackwards ==
    /\ pc = "loop"
    /\ i < num_groups
    /\ groups' = Append(groups, (start + 1)..(start + SliceSize))
    /\ start' = start - SliceSize
    /\ i' = i + 1
    /\ UNCHANGED <<n, max_per_group, num_groups, pc>>

Slice ==
    /\ pc = "loop"
    /\ i < num_groups
    /\ groups' = Append(groups, (start + 1)..(start + SliceSize))
    /\ start' = start + SliceSize
    /\ i' = i + 1
    /\ UNCHANGED <<n, max_per_group, num_groups, pc>>

Return ==
    /\ pc = "loop"
    /\ i = num_groups
    /\ pc' = "returned"
    /\ UNCHANGED <<n, max_per_group, num_groups, i, start, groups>>

Next == ReturnAll \/ ReturnNothing \/ Plan \/ Slice \/ Return

Spec == Init /\ [][Next]_vars

-----------------------------------------------------------------------------
TypeOK ==
    /\ n \in Populations
    /\ max_per_group \in Limits
    /\ num_groups \in Nat
    /\ i \in Nat
    /\ start \in Nat
    /\ groups \in Seq(SUBSET Nat)
    /\ pc \in {"begin", "loop", "returned"}

\* the position where group j + 1 begins: the sum of the sizes before it
StartOf(j) ==
    LET r == n % num_groups
    IN  j * (n \div num_groups) + (IF j <= r THEN j ELSE r)

(***************************************************************************)
(* While the loop runs, the slices cut so far are exactly the consecutive  *)
(* blocks that begin at StartOf: `start` never drifts from the sum of the  *)
(* sizes of the groups appended.                                           *)
(***************************************************************************)
BlocksInv ==
    /\ i <= num_groups
    /\ Len(groups) = i
    /\ start = StartOf(i)
    /\ \A j \in 1..i : groups[j] = (StartOf(j - 1) + 1)..StartOf(j)

LoopInv ==
    /\ pc = "begin" => i = 0 /\ start = 0 /\ groups = <<>>
    /\ pc = "loop" =>
         /\ 0 < max_per_group /\ max_per_group < n
         /\ num_groups = NumGroups(n, max_per_group)
         /\ BlocksInv
    /\ pc = "returned" =>
         \/ n <= max_per_group /\ groups = <<1..n>>
         \/ max_per_group = 0 /\ groups = <<>>
         \/ /\ 0 < max_per_group /\ max_per_group < n
            /\ num_groups = NumGroups(n, max_per_group)
            /\ BlocksInv
            /\ i = num_groups

(***************************************************************************)
(* What the callers rely on: no participant is lost and none is in two     *)
(* groups, whatever the remainder of the division (l.34-44).               *)
(***************************************************************************)
EverybodyInOneGroup ==
    pc = "returned" /\ max_per_group > 0 =>
      \A p \in 1..n : \E j \in DOMAIN groups :
         /\ p \in groups[j]
         /\ \A k \in DOMAIN groups : p \in groups[k] => k = j

(***************************************************************************)
(* The promise of max_per_group: no group is larger, none is empty, and    *)
(* two groups differ by at most one participant (l.27-40).  A group is a   *)
(* block a..b, so its size is stated by its bounds.                        *)
(***************************************************************************)
BalancedAndBounded ==
    pc = "returned" /\ 0 < max_per_group /\ max_per_group < n =>
      \E small \in 1..max_per_group :
        \A j \in DOMAIN groups :
          \E size \in {small, small + 1} : \E a \in 0..n :
             /\ size <= max_per_group
             /\ groups[j] = (a + 1)..(a + size)

(***************************************************************************)
(* The sizes that the other modules take from GroupSplit are those of this *)
(* loop, group by group.                                                   *)
(***************************************************************************)
SizesAsGroupSplit ==
    pc = "returned" /\ 0 < max_per_group /\ max_per_group < n =>
      /\ Len(groups) = NumGroups(n, max_per_group)
      /\ \A j \in DOMAIN groups :
           Cardinality(groups[j]) = GroupSize(n, max_per_group, j)
=============================================================================
