-------------------------- MODULE SplitLoopProofs --------------------------
(***************************************************************************)
(* What the slicing loop of split_into_groups returns, for every number of *)
(* participants and every max_per_group.  The argument: before iteration i *)
(* the next slice begins at Begin(n, num_groups, i), a sum in closed form  *)
(* (LoopInv), and the slices cut so far cover everybody before it (Cover). *)
(***************************************************************************)
EXTENDS SplitLoop, FiniteSetTheorems, TLAPS

-----------------------------------------------------------------------------
(* The arithmetic of the loop.                                             *)

\* Python's // and % on naturals: quotient and remainder
LEMMA DivMod ==
    ASSUME NEW a \in Nat, NEW b \in Nat \ {0}
    PROVE  /\ a \div b \in Nat
           /\ a % b \in 0..b - 1
           /\ a = b * (a \div b) + (a % b)
OBVIOUS

\* ceil(a / m) groups are at most one per participant, and have enough seats
LEMMA EnoughGroups ==
    ASSUME NEW a \in Nat, NEW m \in Nat \ {0}, m < a
    PROVE  /\ NumGroups(a, m) \in Nat \ {0}
           /\ NumGroups(a, m) <= a
           /\ a <= m * NumGroups(a, m)
BY DEF NumGroups

\* a factor of a product that is larger is larger
LEMMA MulCancel ==
    ASSUME NEW a \in Nat \ {0}, NEW b \in Nat, NEW c \in Nat
    PROVE  /\ a * b <= c * a => b <= c
           /\ a * b < c * a => b < c
OBVIOUS

\* where the group after j groups begins, for a participants in g groups
Begin(a, g, j) ==
    j * (a \div g) + (IF j <= a % g THEN j ELSE a % g)

\* the size of the group after j groups
SizeAfter(a, g, j) == a \div g + (IF j < a % g THEN 1 ELSE 0)

\* the closed form is the running sum of the sizes, from nobody to everybody
LEMMA BeginSums ==
    ASSUME NEW a \in Nat, NEW g \in Nat \ {0}
    PROVE  /\ Begin(a, g, 0) = 0
           /\ Begin(a, g, g) = a
           /\ \A j \in Nat :
                /\ Begin(a, g, j) \in Nat
                /\ SizeAfter(a, g, j) \in Nat
                /\ Begin(a, g, j + 1) = Begin(a, g, j) + SizeAfter(a, g, j)
<1> DEFINE q == a \div g
           r == a % g
<1>1. q \in Nat /\ r \in 0..g - 1 /\ a = g * q + r
  BY DivMod
<1> HIDE DEF q, r
<1>2. Begin(a, g, 0) = 0 /\ Begin(a, g, g) = a
  <2>1. 0 * q + (IF 0 <= r THEN 0 ELSE r) = 0
    BY <1>1
  <2>2. g * q + (IF g <= r THEN g ELSE r) = a
    BY <1>1
  <2> QED  BY <2>1, <2>2 DEF Begin, q, r
<1>3. ASSUME NEW j \in Nat
      PROVE  /\ Begin(a, g, j) \in Nat
             /\ SizeAfter(a, g, j) \in Nat
             /\ Begin(a, g, j + 1) = Begin(a, g, j) + SizeAfter(a, g, j)
  <2>1. j * q \in Nat /\ (j + 1) * q = j * q + q
    BY <1>1
  <2>2. /\ j * q + (IF j <= r THEN j ELSE r) \in Nat
        /\ q + (IF j < r THEN 1 ELSE 0) \in Nat
        /\ (j + 1) * q + (IF j + 1 <= r THEN j + 1 ELSE r)
             = j * q + (IF j <= r THEN j ELSE r) + (q + (IF j < r THEN 1 ELSE 0))
    BY <1>1, <2>1
  <2> QED  BY <2>2 DEF Begin, SizeAfter, q, r
<1> QED  BY <1>2, <1>3

\* later groups begin later
LEMMA BeginMonotone ==
    ASSUME NEW a \in Nat, NEW g \in Nat \ {0},
           NEW j \in Nat, NEW k \in Nat, j <= k
    PROVE  Begin(a, g, j) <= Begin(a, g, k)
<1> DEFINE q == a \div g
           r == a % g
<1>1. q \in Nat /\ r \in Nat
  BY DivMod
<1> HIDE DEF q, r
<1>2. j * q \in Nat /\ k * q \in Nat /\ j * q <= k * q
  BY <1>1
<1>3. j * q + (IF j <= r THEN j ELSE r) <= k * q + (IF k <= r THEN k ELSE r)
  BY <1>1, <1>2
<1> QED  BY <1>3 DEF Begin, q, r

\* group j begins where group j - 1 ends, and among the a participants
LEMMA BlockBounds ==
    ASSUME NEW a \in Nat, NEW g \in Nat \ {0}, NEW j \in 1..g
    PROVE  /\ Begin(a, g, j - 1) \in 0..a
           /\ SizeAfter(a, g, j - 1) \in Nat
           /\ Begin(a, g, j) = Begin(a, g, j - 1) + SizeAfter(a, g, j - 1)
<1>1. j - 1 \in Nat /\ j - 1 <= g /\ (j - 1) + 1 = j
  OBVIOUS
<1>2. /\ Begin(a, g, j - 1) \in Nat
      /\ SizeAfter(a, g, j - 1) \in Nat
      /\ Begin(a, g, (j - 1) + 1) = Begin(a, g, j - 1) + SizeAfter(a, g, j - 1)
  BY <1>1, BeginSums
<1>3. Begin(a, g, j - 1) <= a
  BY <1>1, BeginMonotone, BeginSums
<1> QED  BY <1>1, <1>2, <1>3

\* every size is between 1 and max_per_group
LEMMA SizesBounded ==
    ASSUME NEW a \in Nat, NEW m \in Nat \ {0}, m < a
    PROVE  LET g == NumGroups(a, m)
           IN  /\ a \div g \in 1..m
               /\ \A j \in 0..g - 1 : SizeAfter(a, g, j) \in 1..m
<1> DEFINE g == NumGroups(a, m)
           q == a \div g
           r == a % g
<1>1. g \in Nat \ {0} /\ g <= a /\ a <= m * g
  BY EnoughGroups
<1> HIDE DEF g
<1>2. q \in Nat /\ r \in 0..g - 1 /\ a = g * q + r
  BY <1>1, DivMod
<1> HIDE DEF q, r
<1>3. q # 0
  BY <1>1, <1>2
<1>4. q <= m /\ (r # 0 => q < m)
  <2>1. g * q \in Nat /\ m * g \in Nat
    BY <1>1, <1>2
  <2>2. g * q <= m * g /\ (r # 0 => g * q < m * g)
    BY <1>1, <1>2, <2>1
  <2> QED  BY <1>1, <1>2, <2>2, MulCancel
<1>5. \A j \in 0..g - 1 : q + (IF j < r THEN 1 ELSE 0) \in 1..m
  BY <1>1, <1>2, <1>3, <1>4
<1> QED  BY <1>2, <1>3, <1>4, <1>5 DEF SizeAfter, g, q, r

-----------------------------------------------------------------------------
(* The loop itself.                                                        *)

\* the state's StartOf and SliceSize are the closed forms above
LEMMA StartOfIsBegin ==
    /\ \A j : StartOf(j) = Begin(n, num_groups, j)
    /\ SliceSize = SizeAfter(n, num_groups, i)
BY DEF StartOf, Begin, SliceSize, SizeAfter

\* the variables keep their types
THEOREM TypeCorrect == Spec => []TypeOK
<1>1. Init => TypeOK
  BY SplitAssumption DEF Init, TypeOK
<1>2. TypeOK /\ [Next]_vars => TypeOK'
  <2> SUFFICES ASSUME TypeOK, [Next]_vars PROVE TypeOK'
    OBVIOUS
  <2> USE SplitAssumption DEF TypeOK
  <2>1. CASE ReturnAll
    <3>1. 1..n \in SUBSET Nat
      OBVIOUS
    <3>2. <<1..n>> \in Seq(SUBSET Nat)
      BY <3>1
    <3> QED  BY <2>1, <3>2 DEF ReturnAll
  <2>2. CASE ReturnNothing
    BY <2>2 DEF ReturnNothing
  <2>3. CASE Plan
    <3>1. NumGroups(n, max_per_group) \in Nat
      BY <2>3, EnoughGroups DEF Plan
    <3> QED  BY <2>3, <3>1 DEF Plan
  <2>4. CASE Slice
    <3>1. num_groups \in Nat \ {0}
      BY <2>4 DEF Slice
    <3>2. SliceSize \in Nat
      BY <3>1, BeginSums, StartOfIsBegin
    <3>3. (start + 1)..(start + SliceSize) \in SUBSET Nat
      BY <3>2
    <3> QED  BY <2>4, <3>2, <3>3 DEF Slice
  <2>5. CASE Return
    BY <2>5 DEF Return
  <2>6. CASE UNCHANGED vars
    BY <2>6 DEF vars
  <2> QED  BY <2>1, <2>2, <2>3, <2>4, <2>5, <2>6 DEF Next
<1> QED  BY <1>1, <1>2, PTL DEF Spec

\* the slices cut so far hold everybody before the next one
Cover == \A p \in 1..start : \E j \in DOMAIN groups : p \in groups[j]

Inv == LoopInv /\ Cover

\* one iteration appends the block that begins where the last one ended
LEMMA SliceKeepsBlocks ==
    ASSUME TypeOK, BlocksInv, num_groups \in Nat \ {0}, Slice
    PROVE  BlocksInv'
<1> DEFINE g == num_groups
           block == (start + 1)..(start + SliceSize)
<1>1. /\ i' = i + 1 /\ i' <= num_groups' /\ n' = n /\ num_groups' = g
      /\ groups' = Append(groups, block) /\ start' = start + SliceSize
  BY DEF Slice, TypeOK
<1>2. /\ start = Begin(n, g, i)
      /\ SliceSize = SizeAfter(n, g, i)
      /\ Begin(n, g, i + 1) = start + SliceSize
  BY SplitAssumption, BeginSums, StartOfIsBegin DEF BlocksInv, TypeOK
<1>3. \A j : StartOf(j)' = Begin(n, g, j)
  BY <1>1 DEF StartOf, Begin
<1>4. Len(groups') = i' /\ start' = Begin(n, g, i')
  BY <1>1, <1>2 DEF BlocksInv, TypeOK
<1>5. ASSUME NEW j \in 1..i'
      PROVE  groups'[j] = (StartOf(j - 1)' + 1)..StartOf(j)'
  <2>1. CASE j \in 1..i
    <3>1. groups'[j] = groups[j]
      BY <1>1, <2>1 DEF BlocksInv, TypeOK
    <3>2. groups[j] = (Begin(n, g, j - 1) + 1)..Begin(n, g, j)
      BY <2>1, StartOfIsBegin DEF BlocksInv
    <3> QED  BY <1>3, <3>1, <3>2
  <2>2. CASE j = i + 1
    <3>1. groups'[j] = block
      BY <1>1, <2>2 DEF BlocksInv, TypeOK
    <3>2. j - 1 = i
      BY <2>2 DEF TypeOK
    <3> QED  BY <1>2, <1>3, <2>2, <3>1, <3>2
  <2>3. j \in 1..i \/ j = i + 1
    BY <1>1 DEF TypeOK
  <2> QED  BY <2>1, <2>2, <2>3
<1> QED  BY <1>1, <1>3, <1>4, <1>5 DEF BlocksInv

\* ... and leaves nobody behind
LEMMA SliceKeepsCover ==
    ASSUME TypeOK, Cover, num_groups \in Nat \ {0}, Slice
    PROVE  Cover'
<1>1. SliceSize \in Nat
  BY SplitAssumption, BeginSums, StartOfIsBegin DEF TypeOK
<1>2. SUFFICES ASSUME NEW p \in 1..start'
               PROVE  \E j \in DOMAIN groups' : p \in groups'[j]
  BY DEF Cover
<1>3. /\ DOMAIN groups' = 1..Len(groups) + 1
      /\ \A j \in 1..Len(groups) : groups'[j] = groups[j]
      /\ groups'[Len(groups) + 1] = (start + 1)..(start + SliceSize)
  BY DEF Slice, TypeOK
<1>4. CASE p <= start
  <2>1. PICK j \in DOMAIN groups : p \in groups[j]
    BY <1>4 DEF Cover, TypeOK
  <2>2. j \in 1..Len(groups)
    BY <2>1 DEF TypeOK
  <2> QED  BY <1>3, <2>1, <2>2 DEF TypeOK
<1>5. CASE p > start
  <2>1. p \in (start + 1)..(start + SliceSize)
    BY <1>1, <1>5 DEF Slice, TypeOK
  <2>2. Len(groups) + 1 \in DOMAIN groups'
    BY <1>3 DEF TypeOK
  <2> QED  BY <1>3, <2>1, <2>2
<1> QED  BY <1>4, <1>5 DEF TypeOK

\* every step keeps the inductive invariant
LEMMA InvStep ==
    ASSUME TypeOK, Inv, [Next]_vars
    PROVE  Inv'
<1> USE DEF Inv
<1>1. CASE ReturnAll
  BY <1>1 DEF ReturnAll, LoopInv, Cover, TypeOK
<1>2. CASE ReturnNothing
  BY <1>2 DEF ReturnNothing, LoopInv, Cover
<1>3. CASE Plan
  <2>1. /\ n \in Nat /\ max_per_group \in Nat \ {0} /\ max_per_group < n
        /\ i = 0 /\ start = 0 /\ groups = <<>>
    BY <1>3, SplitAssumption DEF Plan, LoopInv, TypeOK
  <2>2. num_groups' \in Nat \ {0} /\ num_groups' = NumGroups(n, max_per_group)
    BY <1>3, <2>1, EnoughGroups DEF Plan
  <2>3. StartOf(0)' = 0
    <3>1. StartOf(0)' = Begin(n, num_groups', 0)
      BY <1>3 DEF StartOf, Begin, Plan
    <3> QED  BY <2>1, <2>2, <3>1, BeginSums
  <2>4. BlocksInv'
    BY <1>3, <2>1, <2>2, <2>3 DEF BlocksInv, Plan
  <2> QED  BY <1>3, <2>1, <2>2, <2>4 DEF Plan, LoopInv, Cover
<1>4. CASE Slice
  <2>1. pc = "loop" /\ BlocksInv /\ num_groups \in Nat \ {0}
    BY <1>4 DEF Slice, LoopInv, TypeOK
  <2>2. BlocksInv' /\ Cover'
    BY <1>4, <2>1, SliceKeepsBlocks, SliceKeepsCover
  <2> QED  BY <1>4, <2>1, <2>2 DEF Slice, LoopInv
<1>5. CASE Return
  <2>1. BlocksInv => BlocksInv'
    BY <1>5 DEF Return, BlocksInv, StartOf
  <2> QED  BY <1>5, <2>1 DEF Return, LoopInv, Cover
<1>6. CASE UNCHANGED vars
  <2>1. BlocksInv => BlocksInv'
    BY <1>6 DEF vars, BlocksInv, StartOf
  <2> QED  BY <1>6, <2>1 DEF vars, LoopInv, Cover
<1> QED  BY <1>1, <1>2, <1>3, <1>4, <1>5, <1>6 DEF Next

\* while the loop runs and when it has returned, the slices are the blocks they
\* should be, and they hold everybody before the next one
THEOREM LoopCorrect == Spec => []LoopInv /\ []Cover
<1>1. Init => Inv
  BY DEF Init, Inv, LoopInv, Cover
<1>2. TypeOK /\ Inv /\ [Next]_vars => Inv'
  BY InvStep
<1>3. Inv => LoopInv /\ Cover
  BY DEF Inv
<1> QED  BY <1>1, <1>2, <1>3, TypeCorrect, PTL DEF Spec

-----------------------------------------------------------------------------
(* What the callers rely on.                                               *)

\* the state in which the loop has cut its last slice
Finished ==
    /\ n \in Nat /\ max_per_group \in Nat \ {0} /\ max_per_group < n
    /\ num_groups = NumGroups(n, max_per_group)
    /\ DOMAIN groups = 1..num_groups /\ Len(groups) = num_groups
    /\ start = n
    /\ \A j \in 1..num_groups :
         groups[j] = (Begin(n, num_groups, j - 1) + 1)..Begin(n, num_groups, j)

\* the loop returns only when it is finished
LEMMA ReturnsFinished ==
    ASSUME TypeOK, LoopInv, pc = "returned",
           0 < max_per_group, max_per_group < n
    PROVE  Finished
<1>1. n \in Nat /\ max_per_group \in Nat \ {0}
  BY SplitAssumption DEF TypeOK
<1>2. /\ num_groups = NumGroups(n, max_per_group)
      /\ BlocksInv /\ i = num_groups
  BY <1>1 DEF LoopInv
<1>3. num_groups \in Nat \ {0}
  BY <1>1, <1>2, EnoughGroups
<1>4. start = n
  BY <1>1, <1>2, <1>3, BeginSums, StartOfIsBegin DEF BlocksInv
<1>5. DOMAIN groups = 1..num_groups /\ Len(groups) = num_groups
  BY <1>2 DEF BlocksInv, TypeOK
<1>6. \A j \in 1..num_groups :
         groups[j] = (Begin(n, num_groups, j - 1) + 1)..Begin(n, num_groups, j)
  BY <1>2, StartOfIsBegin DEF BlocksInv
<1> QED  BY <1>1, <1>2, <1>4, <1>5, <1>6 DEF Finished

\* no participant is in two groups: the blocks follow one another
LEMMA BlocksDisjoint ==
    ASSUME Finished, NEW j \in DOMAIN groups, NEW k \in DOMAIN groups,
           NEW p, p \in groups[j], p \in groups[k]
    PROVE  ~ (k < j)
<1>1. num_groups \in Nat \ {0} /\ j \in 1..num_groups /\ k \in 1..num_groups
  BY EnoughGroups DEF Finished
<1>2. /\ p \in (Begin(n, num_groups, j - 1) + 1)..Begin(n, num_groups, j)
      /\ p \in (Begin(n, num_groups, k - 1) + 1)..Begin(n, num_groups, k)
  BY <1>1 DEF Finished
<1>3. SUFFICES ASSUME k < j PROVE FALSE
  OBVIOUS
<1>4. k \in Nat /\ j - 1 \in Nat /\ k <= j - 1
  BY <1>1, <1>3
<1>5. Begin(n, num_groups, k) <= Begin(n, num_groups, j - 1)
  BY <1>1, <1>4, BeginMonotone DEF Finished
<1>6. Begin(n, num_groups, k) \in Nat /\ Begin(n, num_groups, j - 1) \in Nat
  BY <1>1, <1>4, BeginSums DEF Finished
<1> QED  BY <1>2, <1>5, <1>6

\* l.34-44: no participant is lost and none is in two groups
THEOREM NobodyLostOrTwice == Spec => []EverybodyInOneGroup
<1>1. TypeOK /\ LoopInv /\ Cover => EverybodyInOneGroup
  <2> SUFFICES ASSUME TypeOK, LoopInv, Cover,
                      pc = "returned", max_per_group > 0, NEW p \in 1..n
               PROVE  \E j \in DOMAIN groups :
                         /\ p \in groups[j]
                         /\ \A k \in DOMAIN groups : p \in groups[k] => k = j
    BY DEF EverybodyInOneGroup
  <2>1. n \in Nat /\ max_per_group \in Nat
    BY SplitAssumption DEF TypeOK
  <2>2. CASE n <= max_per_group
    <3>1. groups = <<1..n>>
      BY <2>1, <2>2 DEF LoopInv
    <3>2. DOMAIN groups = {1} /\ groups[1] = 1..n
      BY <3>1
    <3> QED  BY <3>2
  <2>3. CASE max_per_group < n
    <3>1. Finished
      BY <2>3, ReturnsFinished, <2>1
    <3>2. PICK j \in DOMAIN groups : p \in groups[j]
      BY <3>1 DEF Cover, Finished
    <3>3. ASSUME NEW k \in DOMAIN groups, p \in groups[k] PROVE k = j
      <4>1. ~ (k < j) /\ ~ (j < k)
        BY <3>1, <3>2, <3>3, BlocksDisjoint
      <4>2. k \in Int /\ j \in Int
        BY DEF TypeOK
      <4> QED  BY <4>1, <4>2
    <3> QED  BY <3>2, <3>3
  <2> QED  BY <2>1, <2>2, <2>3
<1> QED  BY <1>1, TypeCorrect, LoopCorrect, PTL

\* l.27-40: no group is empty or above max_per_group, and sizes differ by one
THEOREM GroupsBalanced == Spec => []BalancedAndBounded
<1>1. TypeOK /\ LoopInv => BalancedAndBounded
  <2> DEFINE q == n \div num_groups
  <2> SUFFICES ASSUME TypeOK, LoopInv,
                      pc = "returned", 0 < max_per_group, max_per_group < n
               PROVE  \E small \in 1..max_per_group :
                        \A j \in DOMAIN groups :
                          \E size \in {small, small + 1} : \E a \in 0..n :
                             /\ size <= max_per_group
                             /\ groups[j] = (a + 1)..(a + size)
    BY DEF BalancedAndBounded
  <2>1. Finished
    BY ReturnsFinished
  <2>2. num_groups \in Nat \ {0} /\ n \in Nat /\ max_per_group \in Nat
    BY <2>1, EnoughGroups DEF Finished
  <2>3. /\ q \in 1..max_per_group
        /\ \A j \in 0..num_groups - 1 :
             SizeAfter(n, num_groups, j) \in 1..max_per_group
    BY <2>1, SizesBounded DEF Finished
  <2>4. ASSUME NEW j \in DOMAIN groups
        PROVE  \E size \in {q, q + 1} : \E a \in 0..n :
                  size <= max_per_group /\ groups[j] = (a + 1)..(a + size)
    <3> DEFINE a == Begin(n, num_groups, j - 1)
               size == SizeAfter(n, num_groups, j - 1)
    <3>1. j \in 1..num_groups /\ j - 1 \in 0..num_groups - 1
      BY <2>1, <2>2 DEF Finished
    <3>2. a \in 0..n /\ Begin(n, num_groups, j) = a + size
      BY <2>2, <3>1, BlockBounds
    <3>3. groups[j] = (a + 1)..(a + size)
      BY <2>1, <3>1, <3>2 DEF Finished
    <3>4. size \in {q, q + 1} /\ size <= max_per_group
      <4>1. size = q \/ size = q + 1
        BY <2>3 DEF SizeAfter
      <4>2. size \in 1..max_per_group
        BY <2>3, <3>1
      <4> HIDE DEF size, q
      <4> QED  BY <2>2, <4>1, <4>2
    <3> HIDE DEF a, size, q
    <3> QED  BY <3>2, <3>3, <3>4
  <2> QED  BY <2>3, <2>4
<1> QED  BY <1>1, TypeCorrect, LoopCorrect, PTL

\* the sizes DebateEngine and GroupSplit reckon with are those the loop cuts
THEOREM SizesAgree == Spec => []SizesAsGroupSplit
<1>1. TypeOK /\ LoopInv => SizesAsGroupSplit
  <2> SUFFICES ASSUME TypeOK, LoopInv,
                      pc = "returned", 0 < max_per_group, max_per_group < n
               PROVE  /\ Len(groups) = NumGroups(n, max_per_group)
                      /\ \A j \in DOMAIN groups :
                           Cardinality(groups[j]) = GroupSize(n, max_per_group, j)
    BY DEF SizesAsGroupSplit
  <2>1. Finished
    BY ReturnsFinished
  <2>2. num_groups \in Nat \ {0} /\ n \in Nat
    BY <2>1, EnoughGroups DEF Finished
  <2>3. ASSUME NEW j \in DOMAIN groups
        PROVE  Cardinality(groups[j]) = GroupSize(n, max_per_group, j)
    <3> DEFINE a == Begin(n, num_groups, j - 1)
               size == SizeAfter(n, num_groups, j - 1)
    <3>1. j \in 1..num_groups /\ j - 1 \in Nat /\ (j - 1) + 1 = j
      BY <2>1, <2>2 DEF Finished
    <3>2. a \in Nat /\ size \in Nat /\ Begin(n, num_groups, j) = a + size
      BY <2>2, <3>1, BlockBounds
    <3>3. groups[j] = (a + 1)..(a + size)
      BY <2>1, <3>1, <3>2 DEF Finished
    <3> HIDE DEF a
    <3>4. Cardinality(groups[j]) = size
      <4> HIDE DEF size
      <4> QED  BY <3>2, <3>3, FS_Interval
    <3>5. size = GroupSize(n, max_per_group, j)
      <4>1. n % num_groups \in Nat
        BY <2>2, DivMod
      <4>2. j - 1 < n % num_groups <=> j <= n % num_groups
        BY <3>1, <4>1
      <4> QED  BY <2>1, <4>2 DEF Finished, SizeAfter, GroupSize, MinPerGroup
    <3> QED  BY <3>4, <3>5
  <2> QED  BY <2>1, <2>3 DEF Finished
<1> QED  BY <1>1, TypeCorrect, LoopCorrect, PTL
=============================================================================
