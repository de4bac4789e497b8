------------------------ MODULE DebateEngineProofs ------------------------
(***************************************************************************)
(* Proofs about DebateEngine: its type invariant, that nobody is in two    *)
(* linked groups of a round, and that the channels of a round that was     *)
(* divided once have no subscriber in common, for any debates, users,      *)
(* parameters and bounds.                                                  *)
(***************************************************************************)
EXTENDS DebateEngine, FiniteSetTheorems, SequenceTheorems, TLAPS

-----------------------------------------------------------------------------
(* Arithmetic and finite sets.                                             *)

(***************************************************************************)
(* How many groups n participants are divided into is a natural number.    *)
(***************************************************************************)
LEMMA NumGroupsNat ==
    ASSUME NEW n \in Nat, NEW maxPerGroup \in Nat \ {0}
    PROVE  NumGroups(n, maxPerGroup) \in Nat
BY DEF NumGroups

(***************************************************************************)
(* The constants that the types are made of.                               *)
(***************************************************************************)
LEMMA ConstantTypes ==
    /\ Cardinality(Users) \in Nat
    /\ Limits \subseteq Nat \ {0}
    /\ Horizon \in Nat
    /\ MaxRound \in Nat
    /\ MaxRestarts \in Nat
    /\ \A users \in SUBSET Users : Cardinality(users) \in Nat
<1>1. Cardinality(Users) \in Nat
  BY EngineAssumption, FS_CardinalityType
<1>2. \A users \in SUBSET Users : Cardinality(users) \in Nat
  BY EngineAssumption, FS_Subset, FS_CardinalityType
<1> QED
  BY <1>1, <1>2, EngineAssumption DEF Limits

-----------------------------------------------------------------------------
(* What split_into_group_db creates.                                       *)

(***************************************************************************)
(* A batch of new groups: numbered from 1 on, all of one debate and round, *)
(* without a channel, and without a participant in common.                 *)
(***************************************************************************)
IsBatch(batch, d, round) ==
    /\ batch \in Seq(Group)
    /\ \A i \in DOMAIN batch :
         /\ batch[i].debat = d
         /\ batch[i].round = round
         /\ batch[i].number = i
         /\ ~batch[i].stream
    /\ \A i, j \in DOMAIN batch :
         i # j => batch[i].members \cap batch[j].members = {}

(***************************************************************************)
(* Whatever the shuffle gives split_into_group_db, what it creates is such *)
(* a batch.                                                                *)
(***************************************************************************)
LEMMA BatchesAreBatches ==
    ASSUME NEW d \in Debates, NEW round \in 1..MaxRound,
           NEW users \in SUBSET Users, NEW limit \in Limits,
           NEW batch \in Batches(d, round, users, limit)
    PROVE  IsBatch(batch, d, round)
<1> DEFINE group(i, members) ==
             [debat |-> d, round |-> round, number |-> i, members |-> members,
              stream |-> FALSE, archived |-> FALSE]
           n == Cardinality(users)
           k == NumGroups(n, limit)
<1>1. n \in Nat /\ limit \in Nat \ {0}
  BY ConstantTypes
<1>2. k \in Nat
  BY <1>1, NumGroupsNat
<1>3. \A i \in Nat, members \in SUBSET Users : group(i, members) \in Group
  BY DEF Group
<1>4. CASE batch = <<group(1, {})>>
  BY <1>3, <1>4 DEF IsBatch
<1>5. CASE \E division \in Divisions(users, limit) :
             batch = [i \in DOMAIN division |-> group(i, division[i])]
  <2>1. PICK division \in Divisions(users, limit) :
               batch = [i \in DOMAIN division |-> group(i, division[i])]
    BY <1>5
  <2>2. PICK a \in [users -> 1..k] :
               division = [i \in 1..k |-> {u \in users : a[u] = i}]
    BY <2>1 DEF Divisions
  <2>3. batch = [i \in 1..k |-> group(i, {u \in users : a[u] = i})]
    BY <2>1, <2>2
  <2>4. \A i \in 1..k : group(i, {u \in users : a[u] = i}) \in Group
    BY <1>3
  <2>5. batch \in Seq(Group) /\ DOMAIN batch = 1..k
    BY <1>2, <2>3, <2>4
  <2>6. \A i, j \in 1..k : i # j =>
            {u \in users : a[u] = i} \cap {u \in users : a[u] = j} = {}
    OBVIOUS
  <2> QED
    BY <2>3, <2>5, <2>6 DEF IsBatch
<1> QED
  BY <1>4, <1>5 DEF Batches

-----------------------------------------------------------------------------
(* Updates of sequences and records.                                       *)

(***************************************************************************)
(* Replacing an element of a sequence by another of its type.              *)
(***************************************************************************)
LEMMA UpdateSeq ==
    ASSUME NEW S, NEW s \in Seq(S), NEW i \in DOMAIN s, NEW e \in S
    PROVE  [s EXCEPT ![i] = e] \in Seq(S)
OBVIOUS

(***************************************************************************)
(* The updates of a thread that its steps make.                            *)
(***************************************************************************)
LEMMA ThreadUpdates ==
    ASSUME NEW thread \in Thread, NEW pc \in
             {"sleep", "asking", "voting", "eliminate", "open", "streams",
              "close", "done", "dead"}
    PROVE  /\ [thread EXCEPT !.pc = pc] \in Thread
           /\ \A users \in SUBSET Users :
                [thread EXCEPT !.pc = pc, !.users = users] \in Thread
           /\ \A polled \in SUBSET Nat :
                [thread EXCEPT !.pc = pc, !.polled = polled] \in Thread
           /\ \A elected \in SUBSET Users :
                [thread EXCEPT !.pc = pc, !.elected = elected] \in Thread
           /\ \A batch \in Seq(Nat) : [thread EXCEPT !.batch = batch] \in Thread
           /\ \A round \in 1..MaxRound, batch \in Seq(Nat) :
                [thread EXCEPT !.pc = pc, !.obj.round = round,
                               !.batch = batch] \in Thread
BY ZenonT(60) DEF Thread, Row

(***************************************************************************)
(* The updates of a row that the processes save.                           *)
(***************************************************************************)
LEMMA RowUpdates ==
    ASSUME NEW r \in Row
    PROVE  /\ [r EXCEPT !.step = 2] \in Row
           /\ [r EXCEPT !.step = 3] \in Row
           /\ \A round \in 1..MaxRound : [r EXCEPT !.round = round] \in Row
           /\ [r EXCEPT !.created = TRUE] \in Row
           /\ [r EXCEPT !.archived = TRUE] \in Row
           /\ [r EXCEPT !.vote_phase = TRUE] \in Row
           /\ [r EXCEPT !.vote_phase = FALSE] \in Row
           /\ [r EXCEPT !.archived = TRUE, !.step = 4] \in Row
           /\ \A limit \in Limits, representants \in Representants,
                 start \in 0..Horizon :
                [r EXCEPT !.max_per_group = limit,
                          !.max_representant = representants,
                          !.start = start] \in Row
<1>1. \A step \in 1..4 : [r EXCEPT !.step = step] \in Row
  BY DEF Row
<1>2. \A round \in 1..MaxRound : [r EXCEPT !.round = round] \in Row
  BY DEF Row
<1>3. [r EXCEPT !.created = TRUE] \in Row
  BY DEF Row
<1>4. [r EXCEPT !.archived = TRUE] \in Row
  BY DEF Row
<1>5. /\ [r EXCEPT !.vote_phase = TRUE] \in Row
      /\ [r EXCEPT !.vote_phase = FALSE] \in Row
  BY DEF Row
<1>6. [r EXCEPT !.archived = TRUE, !.step = 4] \in Row
  <2>1. \A step \in 1..4 : [r EXCEPT !.archived = TRUE, !.step = step] \in Row
    BY DEF Row
  <2> QED
    BY <2>1
<1>7. \A limit \in Limits, representants \in Representants,
         start \in 0..Horizon :
        [r EXCEPT !.max_per_group = limit,
                  !.max_representant = representants,
                  !.start = start] \in Row
  BY DEF Row
<1>8. [r EXCEPT !.step = 2] \in Row /\ [r EXCEPT !.step = 3] \in Row
  BY <1>1
<1> QED
  BY <1>2, <1>3, <1>4, <1>5, <1>6, <1>7, <1>8

(***************************************************************************)
(* The fields of a row that the proofs read.                               *)
(***************************************************************************)
LEMMA RowFields ==
    ASSUME NEW r \in Row
    PROVE  /\ r.max_per_group \in Limits
           /\ r.round \in 1..MaxRound
BY DEF Row

(***************************************************************************)
(* The fields of a thread that the proofs read.                            *)
(***************************************************************************)
LEMMA ThreadFields ==
    ASSUME NEW thread \in Thread
    PROVE  /\ thread.obj \in Row
           /\ thread.debat \in Debates
           /\ thread.batch \in Seq(Nat)
BY DEF Thread

(***************************************************************************)
(* The ids of a batch are natural numbers; the table stays a table.        *)
(***************************************************************************)
LEMMA IdsType ==
    ASSUME groups \in Seq(Group), NEW batch \in Seq(Group)
    PROVE  /\ IdsOf(batch) \in Seq(Nat)
           /\ groups \o batch \in Seq(Group)
BY DEF IdsOf

(***************************************************************************)
(* Archiving a group, or linking its channel, gives a group.               *)
(***************************************************************************)
LEMMA GroupUpdates ==
    ASSUME NEW group \in Group
    PROVE  /\ [group EXCEPT !.stream = TRUE] \in Group
           /\ [group EXCEPT !.archived = TRUE] \in Group
BY DEF Group

(***************************************************************************)
(* Linking a group leaves a table of groups.                               *)
(***************************************************************************)
LEMMA LinkType ==
    ASSUME NEW gs \in Seq(Group), NEW g \in DOMAIN gs
    PROVE  [gs EXCEPT ![g].stream = TRUE] \in Seq(Group)
<1>1. gs[g] \in Group
  OBVIOUS
<1>2. [gs[g] EXCEPT !.stream = TRUE] \in Group
  BY <1>1, GroupUpdates
<1> QED
  BY <1>2, UpdateSeq

(***************************************************************************)
(* archive_all_groups leaves a table of groups.                            *)
(***************************************************************************)
LEMMA ArchiveType ==
    ASSUME groups \in Seq(Group), NEW debates, ArchiveGroups(debates)
    PROVE  groups' \in Seq(Group)
<1> DEFINE new(g) == IF groups[g].debat \in debates /\ groups[g].stream
                     THEN [groups[g] EXCEPT !.archived = TRUE]
                     ELSE groups[g]
<1>1. groups' = [g \in DOMAIN groups |-> new(g)]
  BY DEF ArchiveGroups, GroupIds
<1>2. ASSUME NEW g \in DOMAIN groups
      PROVE  new(g) \in Group
  <2>1. groups[g] \in Group
    OBVIOUS
  <2> QED
    BY <2>1, GroupUpdates
<1> HIDE DEF new
<1> QED
  BY <1>1, <1>2

-----------------------------------------------------------------------------
(* The table of groups: it grows by a batch, a group is linked, groups are *)
(* archived.                                                               *)

Table(gs) == Numbered(gs) /\ NamesApart(gs) /\ DivisionsDisjoint(gs)

(***************************************************************************)
(* split_into_group_db adds a division to the table, ready to be linked.   *)
(***************************************************************************)
LEMMA AppendBatch ==
    ASSUME NEW gs \in Seq(Group), Table(gs),
           NEW d, NEW round, NEW batch, IsBatch(batch, d, round)
    PROVE  LET new == gs \o batch
               ids == [i \in DOMAIN batch |-> Len(gs) + i]
           IN  /\ Table(new)
               /\ \A old : InOrder(gs, old) => InOrder(new, old)
               /\ InOrder(new, ids)
<1> DEFINE new == gs \o batch
           ids == [i \in DOMAIN batch |-> Len(gs) + i]
<1>1. batch \in Seq(Group) /\ Len(gs) \in Nat
  BY DEF IsBatch
<1>2. /\ DOMAIN gs = 1..Len(gs)
      /\ DOMAIN batch = 1..Len(batch)
      /\ DOMAIN new = 1..(Len(gs) + Len(batch))
      /\ Len(batch) \in Nat
  BY <1>1
<1>3. \A g \in DOMAIN gs : g \in DOMAIN new /\ new[g] = gs[g]
  BY <1>1, <1>2
<1>4. \A i \in DOMAIN batch :
         Len(gs) + i \in DOMAIN new /\ new[Len(gs) + i] = batch[i]
  BY <1>1, <1>2
<1>5. \A g \in DOMAIN new \ DOMAIN gs :
         /\ g - Len(gs) \in DOMAIN batch
         /\ new[g] = batch[g - Len(gs)]
  BY <1>1, <1>2
<1> HIDE DEF new
<1>6. \A g \in DOMAIN gs : First(new, g) = First(gs, g) /\ First(gs, g) \in DOMAIN gs
  BY <1>3 DEF First, Table, Numbered
<1>7. \A g \in DOMAIN new \ DOMAIN gs :
         /\ First(new, g) = Len(gs) + 1
         /\ 1 \in DOMAIN batch
         /\ First(new, g) \in DOMAIN new
         /\ new[First(new, g)] = batch[1]
  <2> SUFFICES ASSUME NEW g \in DOMAIN new \ DOMAIN gs
               PROVE  /\ First(new, g) = Len(gs) + 1
                      /\ 1 \in DOMAIN batch
                      /\ First(new, g) \in DOMAIN new
                      /\ new[First(new, g)] = batch[1]
    OBVIOUS
  <2>1. new[g].number = g - Len(gs)
    BY <1>5 DEF IsBatch
  <2>2. First(new, g) = Len(gs) + 1
    BY <2>1, <1>1, <1>2 DEF First
  <2>3. 1 \in DOMAIN batch
    BY <1>2, <1>5
  <2> QED
    BY <2>2, <2>3, <1>4
<1>8. Numbered(new)
  <2> SUFFICES ASSUME NEW g \in DOMAIN new
               PROVE  LET f == First(new, g)
                      IN  /\ f \in DOMAIN new
                          /\ new[f].number = 1
                          /\ new[f].debat = new[g].debat
                          /\ new[f].round = new[g].round
                          /\ new[g].stream => new[f].stream
    BY DEF Numbered
  <2>1. CASE g \in DOMAIN gs
    BY <2>1, <1>3, <1>6 DEF Table, Numbered
  <2>2. CASE g \notin DOMAIN gs
    BY <2>2, <1>5, <1>7 DEF IsBatch
  <2> QED
    BY <2>1, <2>2
<1>9. NamesApart(new)
  <2> SUFFICES ASSUME NEW g \in DOMAIN new, NEW h \in DOMAIN new, g # h,
                      new[g].stream, new[h].stream
               PROVE  GroupName(new[g]) # GroupName(new[h])
    BY DEF NamesApart
  <2>1. g \in DOMAIN gs /\ h \in DOMAIN gs
    BY <1>5 DEF IsBatch
  <2> QED
    BY <2>1, <1>3 DEF Table, NamesApart
<1>10. DivisionsDisjoint(new)
  <2> SUFFICES ASSUME NEW g \in DOMAIN new, NEW h \in DOMAIN new, g # h,
                      First(new, g) = First(new, h)
               PROVE  new[g].members \cap new[h].members = {}
    BY DEF DivisionsDisjoint
  <2>1. CASE g \in DOMAIN gs /\ h \in DOMAIN gs
    BY <2>1, <1>3, <1>6 DEF Table, DivisionsDisjoint
  <2>2. CASE g \notin DOMAIN gs /\ h \notin DOMAIN gs
    <3>1. g - Len(gs) # h - Len(gs)
      BY <1>1, <1>2
    <3> QED
      BY <2>2, <3>1, <1>5 DEF IsBatch
  <2>3. g \in DOMAIN gs <=> h \in DOMAIN gs
    BY <1>1, <1>2, <1>6, <1>7
  <2> QED
    BY <2>1, <2>2, <2>3
<1>11. ASSUME NEW old, InOrder(gs, old)
       PROVE  InOrder(new, old)
  BY <1>11, <1>3, <1>6 DEF InOrder
<1>12. InOrder(new, ids)
  <2> SUFFICES ASSUME NEW i \in DOMAIN batch
               PROVE  ids[i] \in DOMAIN new /\ First(new, ids[i]) = ids[1]
    BY DEF InOrder
  <2>1. ids[i] = Len(gs) + i /\ ids[i] \in DOMAIN new \ DOMAIN gs
    BY <1>1, <1>2, <1>4
  <2>2. ids[1] = Len(gs) + 1
    BY <2>1, <1>7
  <2> QED
    BY <2>1, <2>2, <1>7
<1> QED
  BY <1>8, <1>9, <1>10, <1>11, <1>12 DEF Table, new

(***************************************************************************)
(* create_streams_for_groups_db_via_api links the first group of what is   *)
(* left of its batch, if the name is free.                                 *)
(***************************************************************************)
LEMMA LinkGroup ==
    ASSUME NEW gs \in Seq(Group), Table(gs),
           NEW batch \in Seq(Nat), batch # <<>>, InOrder(gs, batch),
           \A h \in DOMAIN gs : h # Head(batch) /\ gs[h].stream
              => GroupName(gs[h]) # GroupName(gs[Head(batch)])
    PROVE  LET new == [gs EXCEPT ![Head(batch)].stream = TRUE]
           IN  /\ Table(new)
               /\ \A other : InOrder(gs, other) => InOrder(new, other)
               /\ InOrder(new, Tail(batch))
<1> DEFINE x == Head(batch)
           new == [gs EXCEPT ![x].stream = TRUE]
<1>1. x = batch[1] /\ 1 \in DOMAIN batch
  OBVIOUS
<1>2. x \in DOMAIN gs
  BY <1>1 DEF InOrder
<1>3. /\ DOMAIN new = DOMAIN gs
      /\ \A g \in DOMAIN gs : /\ new[g].debat = gs[g].debat
                              /\ new[g].round = gs[g].round
                              /\ new[g].number = gs[g].number
                              /\ new[g].members = gs[g].members
  <2>1. \A g \in DOMAIN gs : gs[g] \in Group
    OBVIOUS
  <2> QED
    BY <2>1 DEF Group
<1>4. /\ new[x].stream
      /\ \A g \in DOMAIN gs : g # x => new[g] = gs[g]
      /\ \A g \in DOMAIN gs : gs[g].stream => new[g].stream
  <2>1. \A g \in DOMAIN gs : gs[g] \in Group
    OBVIOUS
  <2> QED
    BY <2>1, <1>2 DEF Group
<1>5. \A g \in DOMAIN gs : /\ First(new, g) = First(gs, g)
                           /\ GroupName(new[g]) = GroupName(gs[g])
  BY <1>3 DEF First, GroupName
<1> HIDE DEF new
<1>6. gs[First(gs, x)].stream \/ First(gs, x) = x
  BY <1>1 DEF InOrder
<1>7. Numbered(new)
  <2> SUFFICES ASSUME NEW g \in DOMAIN gs
               PROVE  LET f == First(gs, g)
                      IN  /\ f \in DOMAIN gs
                          /\ new[f].number = 1
                          /\ new[f].debat = new[g].debat
                          /\ new[f].round = new[g].round
                          /\ new[g].stream => new[f].stream
    BY <1>3, <1>5 DEF Numbered
  <2>1. LET f == First(gs, g)
        IN  /\ f \in DOMAIN gs
            /\ gs[f].number = 1
            /\ gs[f].debat = gs[g].debat
            /\ gs[f].round = gs[g].round
            /\ gs[g].stream => gs[f].stream
    BY DEF Table, Numbered
  <2>2. CASE g = x
    BY <2>1, <2>2, <1>3, <1>4, <1>6
  <2>3. CASE g # x
    BY <2>1, <2>3, <1>3, <1>4
  <2> QED
    BY <2>2, <2>3
<1>8. NamesApart(new)
  <2> SUFFICES ASSUME NEW g \in DOMAIN gs, NEW h \in DOMAIN gs, g # h,
                      new[g].stream, new[h].stream
               PROVE  GroupName(gs[g]) # GroupName(gs[h])
    BY <1>3, <1>5 DEF NamesApart
  <2>1. CASE g = x \/ h = x
    BY <2>1, <1>4
  <2>2. CASE g # x /\ h # x
    BY <2>2, <1>4 DEF Table, NamesApart
  <2> QED
    BY <2>1, <2>2
<1>9. DivisionsDisjoint(new)
  BY <1>3, <1>5 DEF Table, DivisionsDisjoint
<1>10. ASSUME NEW other, InOrder(gs, other)
       PROVE  InOrder(new, other)
  <2> SUFFICES ASSUME NEW i \in DOMAIN other
               PROVE  /\ other[i] \in DOMAIN gs
                      /\ \/ new[First(gs, other[i])].stream
                         \/ First(gs, other[i]) = other[1]
    BY <1>3, <1>5, <1>10 DEF InOrder
  <2>1. other[i] \in DOMAIN gs /\ First(gs, other[i]) \in DOMAIN gs
    BY <1>10 DEF InOrder, Table, Numbered
  <2> QED
    BY <2>1, <1>4, <1>10 DEF InOrder
<1>11. InOrder(new, Tail(batch))
  <2>1. \A i \in DOMAIN Tail(batch) :
           i + 1 \in DOMAIN batch /\ Tail(batch)[i] = batch[i + 1]
    OBVIOUS
  <2>2. \A i \in DOMAIN batch :
           /\ batch[i] \in DOMAIN gs
           /\ First(gs, batch[i]) \in DOMAIN gs
           /\ gs[First(gs, batch[i])].stream \/ First(gs, batch[i]) = x
    BY <1>1 DEF InOrder, Table, Numbered
  <2>3. \A i \in DOMAIN batch :
           batch[i] \in DOMAIN new /\ new[First(new, batch[i])].stream
    BY <2>2, <1>3, <1>4, <1>5
  <2> QED
    BY <2>1, <2>3 DEF InOrder
<1> QED
  BY <1>7, <1>8, <1>9, <1>10, <1>11 DEF Table, new

(***************************************************************************)
(* archive_all_groups changes neither divisions nor links.                 *)
(***************************************************************************)
LEMMA ArchiveTable ==
    ASSUME groups \in Seq(Group), Table(groups),
           NEW debates, ArchiveGroups(debates)
    PROVE  /\ Table(groups')
           /\ \A batch : InOrder(groups, batch) => InOrder(groups', batch)
<1>1. /\ DOMAIN groups' = DOMAIN groups
      /\ \A g \in DOMAIN groups : /\ groups'[g].debat = groups[g].debat
                                  /\ groups'[g].round = groups[g].round
                                  /\ groups'[g].number = groups[g].number
                                  /\ groups'[g].members = groups[g].members
                                  /\ groups'[g].stream <=> groups[g].stream
  <2>1. \A g \in DOMAIN groups : groups[g] \in Group
    OBVIOUS
  <2> QED
    BY <2>1 DEF Group, ArchiveGroups, GroupIds
<1>2. \A g \in DOMAIN groups : /\ First(groups', g) = First(groups, g)
                               /\ First(groups, g) \in DOMAIN groups
                               /\ GroupName(groups'[g]) = GroupName(groups[g])
  BY <1>1 DEF First, GroupName, Table, Numbered
<1>3. Numbered(groups')
  BY <1>1, <1>2 DEF Table, Numbered
<1>4. NamesApart(groups')
  BY <1>1, <1>2 DEF Table, NamesApart
<1>5. DivisionsDisjoint(groups')
  BY <1>1, <1>2 DEF Table, DivisionsDisjoint
<1>6. ASSUME NEW batch, InOrder(groups, batch)
      PROVE  InOrder(groups', batch)
  BY <1>1, <1>2, <1>6 DEF InOrder
<1> QED
  BY <1>3, <1>4, <1>5, <1>6 DEF Table

-----------------------------------------------------------------------------
(* The inductive invariant.                                                *)

\* a debate that is being prepared is the first of those still to visit
Visiting == main.pc \in {"prepared", "streams"} => main.todo # <<>>

EngineInv == EngineType /\ Visiting /\ GroupsInv

Visit == [debat : Debates, obj : Row]

(***************************************************************************)
(* The updates of the main loop's state.                                   *)
(***************************************************************************)
LEMMA MainUpdates ==
    ASSUME main \in MainType,
           NEW pc \in {"idle", "scan", "prepared", "streams", "down"}
    PROVE  /\ [main EXCEPT !.pc = pc] \in MainType
           /\ \A todo \in Seq(Visit) :
                /\ [main EXCEPT !.todo = todo] \in MainType
                /\ [main EXCEPT !.pc = pc, !.todo = todo] \in MainType
           /\ \A batch \in Seq(Nat) : [main EXCEPT !.batch = batch] \in MainType
           /\ \A todo \in Seq(Visit), batch \in Seq(Nat) :
                [main EXCEPT !.pc = pc, !.todo = todo, !.batch = batch] \in MainType
           /\ \A b \in BOOLEAN : Idle(b) \in MainType
<1>1. [main EXCEPT !.pc = pc] \in MainType
  BY DEF MainType
<1>2. ASSUME NEW todo \in Seq(Visit)
      PROVE  /\ [main EXCEPT !.todo = todo] \in MainType
             /\ [main EXCEPT !.pc = pc, !.todo = todo] \in MainType
  BY DEF MainType, Visit
<1>3. ASSUME NEW batch \in Seq(Nat)
      PROVE  [main EXCEPT !.batch = batch] \in MainType
  BY DEF MainType
<1>4. ASSUME NEW todo \in Seq(Visit), NEW batch \in Seq(Nat)
      PROVE  [main EXCEPT !.pc = pc, !.todo = todo, !.batch = batch] \in MainType
  BY DEF MainType, Visit
<1>5. \A b \in BOOLEAN : Idle(b) \in MainType
  BY DEF MainType, Idle
<1> QED
  BY <1>1, <1>2, <1>3, <1>4, <1>5

(***************************************************************************)
(* The fields of the main loop's state that the proofs read.               *)
(***************************************************************************)
LEMMA MainFields ==
    ASSUME main \in MainType
    PROVE  /\ main.pc \in {"idle", "scan", "prepared", "streams", "down"}
           /\ main.todo \in Seq(Visit)
           /\ main.batch \in Seq(Nat)
BY DEF MainType, Visit

(***************************************************************************)
(* The debate that is visited is the first one of the list.                *)
(***************************************************************************)
LEMMA VisitedType ==
    ASSUME main \in MainType, main.todo # <<>>
    PROVE  /\ Visited = main.todo[1]
           /\ Visited \in Visit
           /\ Visited.debat \in Debates
           /\ Visited.obj \in Row
           /\ Tail(main.todo) \in Seq(Visit)
<1>1. main.todo \in Seq(Visit)
  BY MainFields
<1>2. \A s \in Seq(Visit) : s # <<>> => /\ Head(s) = s[1]
                                         /\ s[1] \in Visit
                                         /\ Tail(s) \in Seq(Visit)
  OBVIOUS
<1>3. /\ Visited = main.todo[1]
      /\ Visited \in Visit
      /\ Tail(main.todo) \in Seq(Visit)
  BY <1>1, <1>2 DEF Visited
<1> QED
  BY <1>3 DEF Visit

(***************************************************************************)
(* A step keeps the invariant of the groups if it keeps the table and the  *)
(* order, and the batches it leaves are those of before or in order.       *)
(***************************************************************************)
LEMMA GroupsStep ==
    ASSUME GroupsInv,
           Table(groups'),
           \A batch : InOrder(groups, batch) => InOrder(groups', batch),
           main'.batch = main.batch \/ InOrder(groups', main'.batch),
           \A t \in DOMAIN threads' :
              \/ t \in DOMAIN threads /\ threads'[t].batch = threads[t].batch
              \/ InOrder(groups', threads'[t].batch)
    PROVE  GroupsInv'
<1>1. InOrder(groups', main'.batch)
  BY DEF GroupsInv
<1>2. \A t \in DOMAIN threads' : InOrder(groups', threads'[t].batch)
  BY DEF GroupsInv, ThreadIds
<1> QED
  BY <1>1, <1>2 DEF GroupsInv, Table, ThreadIds

(***************************************************************************)
(* A batch without groups is in order in any table.                        *)
(***************************************************************************)
LEMMA NothingPending ==
    ASSUME NEW gs
    PROVE  InOrder(gs, <<>>)
BY DEF InOrder

(***************************************************************************)
(* A step that leaves the table and the batches alone keeps GroupsInv.     *)
(***************************************************************************)
LEMMA GroupsUnchanged ==
    ASSUME GroupsInv, UNCHANGED groups,
           main'.batch = main.batch \/ main'.batch = <<>>,
           \A t \in DOMAIN threads' :
              \/ t \in DOMAIN threads /\ threads'[t].batch = threads[t].batch
              \/ threads'[t].batch = <<>>
    PROVE  GroupsInv'
<1>1. Table(groups') /\ \A batch : InOrder(groups, batch) => InOrder(groups', batch)
  BY DEF GroupsInv, Table
<1>2. InOrder(groups', <<>>)
  BY NothingPending
<1> QED
  BY <1>1, <1>2, GroupsStep

-----------------------------------------------------------------------------
(***************************************************************************)
(* The invariant holds when the model begins.                              *)
(***************************************************************************)
LEMMA InvInit == Init => EngineInv
<1> SUFFICES ASSUME Init PROVE EngineInv
  OBVIOUS
<1>1. main \in MainType
  BY DEF Init, Idle, MainType
<1>2. /\ clock \in 0..Horizon
      /\ restarts \in 0..MaxRestarts
  BY ConstantTypes DEF Init
<1>3. /\ row \in [Debates -> Row]
      /\ joined \in [Debates -> SUBSET Users]
      /\ active \in [Debates -> SUBSET Users]
      /\ representative \in [Debates -> SUBSET Users]
      /\ groups \in Seq(Group)
      /\ threads \in Seq(Thread)
      /\ requests \subseteq Request
  BY EngineAssumption DEF Init
<1>4. Visiting
  BY DEF Init, Idle, Visiting
<1>5. GroupsInv
  <2>1. groups = <<>> /\ main.batch = <<>> /\ threads = <<>>
    BY DEF Init, Idle
  <2>2. Table(groups)
    BY <2>1 DEF Table, Numbered, NamesApart, DivisionsDisjoint
  <2> QED
    BY <2>1, <2>2, NothingPending DEF GroupsInv, Table, ThreadIds
<1> QED
  BY <1>1, <1>2, <1>3, <1>4, <1>5 DEF EngineInv, EngineType

(***************************************************************************)
(* The steps of the clock and of the web server.                           *)
(***************************************************************************)
LEMMA InvWeb == EngineInv /\ (Tick \/ Web) => EngineInv'
<1> SUFFICES ASSUME EngineInv, Tick \/ Web PROVE EngineInv'
  OBVIOUS
<1> USE DEF EngineInv
<1>1. UNCHANGED <<groups, main, threads, restarts, representative>>
  BY DEF Tick, Web, Subscribe, CommitSubscription, RepeatSubscription,
         RejectSubscription, SubmitParameters, CommitParameters, database
<1>2. GroupsInv' /\ Visiting'
  BY <1>1, GroupsUnchanged DEF Visiting
<1>3. CASE Tick
  <2>1. clock' \in 0..Horizon
    BY <1>3, ConstantTypes DEF Tick, EngineType
  <2> QED
    BY <1>2, <1>3, <2>1 DEF Tick, EngineType, database
<1>4. ASSUME NEW d \in Debates, NEW u \in Users, Subscribe(d, u)
      PROVE  EngineType'
  <2>1. PICK w \in 1..MaxRequests :
          requests' = requests \cup
            {[worker |-> w, debat |-> d, user |-> u, row |-> row[d]]}
    BY <1>4 DEF Subscribe
  <2>2. [worker |-> w, debat |-> d, user |-> u, row |-> row[d]] \in Request
    BY DEF EngineType, Request
  <2> QED
    BY <1>4, <2>1, <2>2 DEF Subscribe, EngineType, database
<1>5. ASSUME NEW d \in Debates, NEW p \in Submitted, SubmitParameters(d, p)
      PROVE  EngineType'
  <2> DEFINE new == [row[d] EXCEPT !.max_per_group = p.max_per_group,
                                   !.max_representant = p.max_representant,
                                   !.start = p.start]
  <2>1. /\ p.max_per_group \in Limits
        /\ p.max_representant \in Representants
        /\ p.start \in 0..Horizon
    BY EngineAssumption
  <2>2. row[d] \in Row
    BY DEF EngineType
  <2>3. new \in Row
    BY <2>1, <2>2, RowUpdates
  <2> HIDE DEF new
  <2>4. PICK w \in 1..MaxRequests :
          requests' = requests \cup
            {[worker |-> w, debat |-> d, user |-> NoUser, row |-> new]}
    BY <1>5 DEF SubmitParameters, new
  <2>5. [worker |-> w, debat |-> d, user |-> NoUser, row |-> new] \in Request
    BY <2>3 DEF Request
  <2> QED
    BY <1>5, <2>4, <2>5 DEF SubmitParameters, EngineType, database
<1>6. ASSUME NEW q \in requests,
             \/ CommitSubscription(q) \/ RejectSubscription(q)
             \/ RepeatSubscription(q) \/ CommitParameters(q)
      PROVE  EngineType'
  <2>1. q.debat \in Debates /\ q.row \in Row /\ q.user \in Users \cup {NoUser}
    BY DEF EngineType, Request
  <2>2. [row EXCEPT ![q.debat] = q.row] \in [Debates -> Row]
    BY <2>1 DEF EngineType
  <2>3. CASE CommitSubscription(q)
    <3>1. q.user \in Users
      BY <2>1, <2>3 DEF CommitSubscription
    <3>2. /\ joined' \in [Debates -> SUBSET Users]
          /\ active' \in [Debates -> SUBSET Users]
      BY <2>1, <2>3, <3>1 DEF CommitSubscription, EngineType
    <3> QED
      BY <2>2, <2>3, <3>2 DEF CommitSubscription, EngineType
  <2>4. CASE RejectSubscription(q)
    BY <2>4 DEF RejectSubscription, EngineType, database
  <2>5. CASE RepeatSubscription(q) \/ CommitParameters(q)
    BY <2>2, <2>5 DEF RepeatSubscription, CommitParameters, EngineType
  <2> QED
    BY <1>6, <2>3, <2>4, <2>5
<1> QED
  BY <1>2, <1>3, <1>4, <1>5, <1>6 DEF Web

(***************************************************************************)
(* The steps of the main loop.                                             *)
(***************************************************************************)
LEMMA InvScan ==
    EngineInv /\ (BeginCheck \/ EndCheck \/ PassOver \/ NotYet \/ Prepare)
      => EngineInv'
<1> SUFFICES ASSUME EngineInv,
                    BeginCheck \/ EndCheck \/ PassOver \/ NotYet \/ Prepare
             PROVE  EngineInv'
  OBVIOUS
<1> USE DEF EngineInv
<1>0. main \in MainType
  BY DEF EngineType
<1>1. UNCHANGED <<clock, joined, active, representative, groups, threads,
                  restarts, requests>>
  BY DEF BeginCheck, EndCheck, PassOver, NotYet, Prepare, database
<1>2. /\ row' \in [Debates -> Row]
      /\ main' \in MainType
      /\ main'.batch = main.batch \/ main'.batch = <<>>
      /\ Visiting'
  <2>1. CASE BeginCheck
    <3> DEFINE todo == [i \in DOMAIN DebateOrder |->
                          [debat |-> DebateOrder[i], obj |-> row[DebateOrder[i]]]]
    <3>1. DebateOrder \in Seq(Debates)
      BY EngineAssumption
    <3>2. \A i \in DOMAIN DebateOrder :
             [debat |-> DebateOrder[i], obj |-> row[DebateOrder[i]]] \in Visit
      BY <3>1 DEF EngineType, Visit
    <3>3. todo \in Seq(Visit)
      BY <3>1, <3>2
    <3>4. main' = [main EXCEPT !.pc = "scan", !.todo = todo] /\ UNCHANGED row
      BY <2>1 DEF BeginCheck, database
    <3> HIDE DEF todo
    <3>5. main' \in MainType
      BY <1>0, <3>3, <3>4, MainUpdates
    <3>6. main'.pc = "scan" /\ main'.batch = main.batch
      BY <1>0, <3>4 DEF MainType
    <3> QED
      BY <3>4, <3>5, <3>6 DEF Visiting, EngineType
  <2>2. CASE EndCheck
    <3>1. main' = Idle(TRUE) /\ UNCHANGED row
      BY <2>2 DEF EndCheck, database
    <3>2. main' \in MainType
      BY <1>0, <3>1, MainUpdates
    <3> QED
      BY <3>1, <3>2 DEF Visiting, EngineType, Idle
  <2>3. CASE PassOver \/ NotYet
    <3>1. main.todo # <<>>
      BY <2>3 DEF PassOver, NotYet, Visiting
    <3>2. Tail(main.todo) \in Seq(Visit)
      BY <1>0, <3>1, VisitedType
    <3>3. /\ UNCHANGED row
          /\ \/ main' = [main EXCEPT !.todo = Tail(main.todo)] /\ main.pc = "scan"
             \/ main' = [main EXCEPT !.pc = "scan", !.todo = Tail(main.todo)]
      BY <2>3 DEF PassOver, NotYet, database
    <3>4. main' \in MainType
      BY <1>0, <3>2, <3>3, MainUpdates
    <3>5. main'.pc = "scan" /\ main'.batch = main.batch
      BY <1>0, <3>3 DEF MainType
    <3> QED
      BY <3>3, <3>4, <3>5 DEF Visiting, EngineType
  <2>4. CASE Prepare
    <3>1. main.todo # <<>>
      BY <2>4 DEF Prepare, RegistrationOver
    <3>2. Visited.obj \in Row
      BY <1>0, <3>1, VisitedType
    <3>3. [Visited.obj EXCEPT !.step = 2] \in Row
      BY <3>2, RowUpdates
    <3>4. row' \in [Debates -> Row]
      BY <2>4, <3>3 DEF Prepare, EngineType
    <3>5. main' = [main EXCEPT !.pc = "prepared"]
      BY <2>4 DEF Prepare
    <3>6. main' \in MainType
      BY <1>0, <3>5, MainUpdates
    <3>7. main'.todo = main.todo /\ main'.batch = main.batch
      BY <1>0, <3>5 DEF MainType
    <3> QED
      BY <3>1, <3>4, <3>6, <3>7 DEF Visiting
  <2> QED
    BY <2>1, <2>2, <2>3, <2>4
<1>3. GroupsInv'
  BY <1>1, <1>2, GroupsUnchanged
<1> QED
  BY <1>1, <1>2, <1>3 DEF EngineType

(***************************************************************************)
(* step 3 of check_and_create_channels: a division is appended to the      *)
(* table, and its batch is the main loop's.                                *)
(***************************************************************************)
LEMMA InvLaunch == EngineInv /\ Launch => EngineInv'
<1> SUFFICES ASSUME EngineInv, Launch PROVE EngineInv'
  OBVIOUS
<1> USE DEF EngineInv
<1> DEFINE d == Visited.debat
           obj == [Visited.obj EXCEPT !.step = 3]
<1>0. main \in MainType /\ main.todo # <<>>
  BY DEF EngineType, Launch, Visiting
<1>1. d \in Debates /\ Visited.obj \in Row /\ Visited = main.todo[1]
  BY <1>0, VisitedType
<1>2. obj \in Row
  BY <1>1, RowUpdates
<1> HIDE DEF obj
<1>3. obj.round \in 1..MaxRound /\ obj.max_per_group \in Limits
  BY <1>2, RowFields
<1>4. /\ row' = [row EXCEPT ![d] = obj]
      /\ UNCHANGED <<clock, joined, active, representative, threads, restarts,
                     requests>>
  BY DEF Launch, obj
<1>5. PICK batch \in Batches(d, obj.round, active[d], obj.max_per_group) :
         /\ groups' = groups \o batch
         /\ main' = IF Len(batch) = 1 THEN Idle(TRUE)
                    ELSE [main EXCEPT !.pc = "streams", !.todo[1].obj = obj,
                                      !.batch = IdsOf(batch)]
  BY DEF Launch, obj
<1>6. active[d] \in SUBSET Users
  BY <1>1 DEF EngineType
<1>7. IsBatch(batch, d, obj.round)
  BY <1>1, <1>3, <1>5, <1>6, BatchesAreBatches
<1>8. IdsOf(batch) \in Seq(Nat) /\ groups' \in Seq(Group)
  BY <1>5, <1>7, IdsType DEF IsBatch, EngineType
<1>9. /\ Table(groups')
      /\ \A old : InOrder(groups, old) => InOrder(groups', old)
      /\ InOrder(groups', IdsOf(batch))
  BY <1>5, <1>7, AppendBatch DEF GroupsInv, Table, EngineType, IdsOf
<1>10. CASE Len(batch) = 1
  <2>1. main' = Idle(TRUE)
    BY <1>5, <1>10
  <2>2. main' \in MainType
    BY <1>0, <2>1, MainUpdates
  <2>3. main'.pc = "idle" /\ InOrder(groups', main'.batch)
    BY <2>1, NothingPending DEF Idle
  <2>4. Visiting'
    BY <2>3 DEF Visiting
  <2>5. GroupsInv'
    BY <1>4, <1>9, <2>3, GroupsStep
  <2> QED
    BY <1>1, <1>2, <1>4, <1>8, <2>2, <2>4, <2>5 DEF EngineType
<1>11. CASE Len(batch) # 1
  <2> DEFINE todo == [main.todo EXCEPT ![1].obj = obj]
  <2>1. /\ main.todo \in Seq(Visit)
        /\ 1 \in DOMAIN main.todo
        /\ main.todo[1] \in Visit
    BY <1>0, MainFields
  <2>2. [main.todo[1] EXCEPT !.obj = obj] \in Visit
    BY <1>2, <2>1 DEF Visit
  <2>3. todo \in Seq(Visit) /\ todo # <<>>
    BY <2>1, <2>2, UpdateSeq
  <2>4. main' = [main EXCEPT !.pc = "streams", !.todo = todo, !.batch = IdsOf(batch)]
    BY <1>5, <1>11
  <2> HIDE DEF todo
  <2>5. main' \in MainType
    BY <1>0, <1>8, <2>3, <2>4, MainUpdates
  <2>6. main'.todo = todo /\ main'.batch = IdsOf(batch)
    BY <1>0, <2>4 DEF MainType
  <2>7. Visiting'
    BY <2>3, <2>6 DEF Visiting
  <2>8. GroupsInv'
    BY <1>4, <1>9, <2>6, GroupsStep
  <2> QED
    BY <1>1, <1>2, <1>4, <1>8, <2>5, <2>7, <2>8 DEF EngineType
<1> QED
  BY <1>10, <1>11

(***************************************************************************)
(* The main loop links the first group of its batch to a new channel.      *)
(***************************************************************************)
LEMMA InvMainLink == EngineInv /\ MainLink => EngineInv'
<1> SUFFICES ASSUME EngineInv, MainLink PROVE EngineInv'
  OBVIOUS
<1> USE DEF EngineInv
<1>1. main \in MainType /\ main.batch \in Seq(Nat) /\ main.batch # <<>>
  BY MainFields DEF EngineType, MainLink
<1>2. /\ InOrder(groups, main.batch)
      /\ Table(groups)
      /\ groups \in Seq(Group)
  BY DEF GroupsInv, Table, EngineType
<1>3. /\ groups' = [groups EXCEPT ![Head(main.batch)].stream = TRUE]
      /\ main' = [main EXCEPT !.batch = Tail(main.batch)]
      /\ UNCHANGED <<clock, row, joined, active, representative, threads,
                     restarts, requests>>
  BY DEF MainLink
<1>4. \A h \in DOMAIN groups : h # Head(main.batch) /\ groups[h].stream
         => GroupName(groups[h]) # GroupName(groups[Head(main.batch)])
  BY DEF MainLink, StreamTaken, GroupIds
<1>5. Head(main.batch) \in DOMAIN groups /\ Tail(main.batch) \in Seq(Nat)
  BY <1>1, <1>2 DEF InOrder
<1>6. groups' \in Seq(Group)
  BY <1>2, <1>3, <1>5, LinkType
<1>7. /\ Table(groups')
      /\ \A other : InOrder(groups, other) => InOrder(groups', other)
      /\ InOrder(groups', Tail(main.batch))
  BY <1>1, <1>2, <1>3, <1>4, LinkGroup
<1>8. main' \in MainType
  BY <1>1, <1>3, <1>5, MainUpdates
<1>9. /\ main'.batch = Tail(main.batch)
      /\ main'.pc = main.pc
      /\ main'.todo = main.todo
  BY <1>1, <1>3 DEF MainType
<1>10. GroupsInv'
  BY <1>3, <1>7, <1>9, GroupsStep
<1> QED
  BY <1>3, <1>6, <1>8, <1>9, <1>10 DEF EngineType, Visiting

(***************************************************************************)
(* sys.exit, SIGINT and a restart of the process forget the batches.       *)
(***************************************************************************)
LEMMA InvStops ==
    EngineInv /\ (MainLinkFails \/ Interrupt \/ Sigint \/ Restart) => EngineInv'
<1> SUFFICES ASSUME EngineInv,
                    MainLinkFails \/ Interrupt \/ Sigint \/ Restart
             PROVE  EngineInv'
  OBVIOUS
<1> USE DEF EngineInv
<1>0. main \in MainType /\ Table(groups) /\ groups \in Seq(Group)
  BY DEF EngineType, GroupsInv, Table
<1> DEFINE down == [main EXCEPT !.pc = "down", !.todo = <<>>, !.batch = <<>>]
<1>1. /\ down \in MainType
      /\ down.pc = "down"
      /\ down.batch = <<>>
  <2>1. <<>> \in Seq(Visit) /\ <<>> \in Seq(Nat)
    OBVIOUS
  <2>2. down \in MainType
    BY <1>0, <2>1, MainUpdates
  <2> QED
    BY <1>0, <2>2 DEF MainType
<1> HIDE DEF down
<1>2. CASE MainLinkFails \/ Interrupt
  <2>1. main' = down /\ UNCHANGED <<clock, database, threads, restarts, requests>>
    BY <1>2 DEF MainLinkFails, Interrupt, down
  <2>2. GroupsInv'
    BY <1>1, <2>1, GroupsUnchanged DEF database
  <2> QED
    BY <1>1, <2>1, <2>2 DEF EngineType, Visiting, database
<1>3. CASE Sigint
  <2> DEFINE stopped == {d \in Debates : ~row[d].archived /\ row[d].step = 3}
  <2>1. /\ ArchiveGroups(stopped)
        /\ row' = [d \in Debates |->
                     IF d \in stopped THEN [row[d] EXCEPT !.archived = TRUE]
                     ELSE row[d]]
        /\ main' = down
        /\ UNCHANGED <<clock, joined, active, representative, threads, restarts,
                       requests>>
    BY <1>3 DEF Sigint, down
  <2> HIDE DEF stopped
  <2>2. row' \in [Debates -> Row]
    <3>1. \A d \in Debates : row[d] \in Row /\ [row[d] EXCEPT !.archived = TRUE] \in Row
      BY RowUpdates DEF EngineType
    <3> QED
      BY <2>1, <3>1
  <2>3. /\ groups' \in Seq(Group)
        /\ Table(groups')
        /\ \A batch : InOrder(groups, batch) => InOrder(groups', batch)
    BY <1>0, <2>1, ArchiveType, ArchiveTable
  <2>4. GroupsInv'
    BY <1>1, <2>1, <2>3, NothingPending, GroupsStep
  <2> QED
    BY <1>1, <2>1, <2>2, <2>3, <2>4 DEF EngineType, Visiting
<1>4. CASE Restart
  <2>1. /\ main' = Idle(FALSE)
        /\ threads' = <<>>
        /\ restarts' = restarts + 1 /\ restarts < MaxRestarts
        /\ UNCHANGED <<clock, database, requests>>
    BY <1>4 DEF Restart
  <2>2. main' \in MainType /\ main'.pc = "idle" /\ main'.batch = <<>>
    BY <1>0, <2>1, MainUpdates DEF Idle
  <2>3. restarts' \in 0..MaxRestarts
    BY <2>1, ConstantTypes DEF EngineType
  <2>4. threads' \in Seq(Thread) /\ DOMAIN threads' = {}
    BY <2>1
  <2>5. UNCHANGED <<clock, groups, row, joined, active, representative, requests>>
    BY <2>1 DEF database
  <2>6. GroupsInv'
    BY <2>2, <2>4, <2>5, GroupsUnchanged
  <2> QED
    BY <2>2, <2>3, <2>4, <2>5, <2>6 DEF EngineType, Visiting
<1> QED
  BY <1>2, <1>3, <1>4

(***************************************************************************)
(* The debate is marked as created, and its thread begins without a batch. *)
(***************************************************************************)
LEMMA InvStartThread == EngineInv /\ StartThread => EngineInv'
<1> SUFFICES ASSUME EngineInv, StartThread PROVE EngineInv'
  OBVIOUS
<1> USE DEF EngineInv
<1> DEFINE d == Visited.debat
           obj == [Visited.obj EXCEPT !.created = TRUE]
           thread == [pc |-> "sleep", debat |-> d, obj |-> obj, users |-> {},
                      polled |-> {}, elected |-> {}, batch |-> <<>>]
<1>1. main \in MainType /\ main.todo # <<>>
  BY DEF EngineType, StartThread, Visiting
<1>2. /\ d \in Debates
      /\ Visited.obj \in Row
      /\ Tail(main.todo) \in Seq(Visit)
  BY <1>1, VisitedType
<1>3. obj \in Row
  BY <1>2, RowUpdates
<1>4. /\ row' = [row EXCEPT ![d].created = TRUE]
      /\ threads' = Append(threads, thread)
      /\ main' = [main EXCEPT !.pc = "scan", !.todo = Tail(main.todo)]
      /\ UNCHANGED <<clock, joined, active, representative, groups, restarts,
                     requests>>
  BY DEF StartThread
<1> HIDE DEF obj
<1>5. thread \in Thread /\ thread.batch = <<>>
  BY <1>2, <1>3 DEF Thread
<1> HIDE DEF thread, d
<1>6. /\ threads' \in Seq(Thread)
      /\ \A t \in DOMAIN threads' : \/ t \in DOMAIN threads /\ threads'[t] = threads[t]
                                    \/ threads'[t] = thread
  <2>1. threads \in Seq(Thread)
    BY DEF EngineType
  <2> QED
    BY <1>4, <1>5, <2>1
<1>7. row' \in [Debates -> Row]
  <2>1. [row[d] EXCEPT !.created = TRUE] \in Row
    BY <1>2, RowUpdates DEF EngineType
  <2> QED
    BY <1>4, <2>1 DEF EngineType
<1>8. main' \in MainType
  BY <1>1, <1>2, <1>4, MainUpdates
<1>9. main'.pc = "scan" /\ main'.batch = main.batch
  BY <1>1, <1>4 DEF MainType
<1>10. GroupsInv'
  BY <1>4, <1>5, <1>6, <1>9, GroupsUnchanged
<1> QED
  BY <1>4, <1>6, <1>7, <1>8, <1>9, <1>10 DEF EngineType, Visiting

(***************************************************************************)
(* The steps of a debate thread.                                           *)
(***************************************************************************)
LEMMA ThreadStep ==
    ASSUME threads \in Seq(Thread), NEW t \in ThreadIds,
           NEW new \in Thread, threads' = [threads EXCEPT ![t] = new]
    PROVE  /\ threads' \in Seq(Thread)
           /\ DOMAIN threads' = DOMAIN threads
           /\ threads'[t] = new
           /\ \A o \in DOMAIN threads : o # t => threads'[o] = threads[o]
BY UpdateSeq DEF ThreadIds

\* a thread's step that leaves its batch alone
LEMMA SameBatch ==
    ASSUME threads \in Seq(Thread), NEW t \in ThreadIds,
           NEW new \in Thread, threads' = [threads EXCEPT ![t] = new],
           new.batch = threads[t].batch
    PROVE  /\ threads' \in Seq(Thread)
           /\ \A o \in DOMAIN threads' :
                o \in DOMAIN threads /\ threads'[o].batch = threads[o].batch
BY ThreadStep DEF ThreadIds

(***************************************************************************)
(* A thread's step that only moves its pc.                                 *)
(***************************************************************************)
LEMMA GotoStep ==
    ASSUME threads \in Seq(Thread), NEW t \in ThreadIds,
           NEW pc \in {"sleep", "asking", "voting", "eliminate", "open",
                       "streams", "close", "done", "dead"},
           Goto(t, pc)
    PROVE  /\ threads' \in Seq(Thread)
           /\ \A o \in DOMAIN threads' :
                o \in DOMAIN threads /\ threads'[o].batch = threads[o].batch
<1> DEFINE new == [threads[t] EXCEPT !.pc = pc]
<1>1. threads[t] \in Thread
  BY DEF ThreadIds
<1>2. new \in Thread /\ new.batch = threads[t].batch
  <2>1. new \in Thread
    BY <1>1, ThreadUpdates
  <2> QED
    BY <1>1, <2>1 DEF Thread
<1>3. threads' = [threads EXCEPT ![t] = new]
  BY DEF Goto
<1> HIDE DEF new
<1> QED
  BY <1>2, <1>3, SameBatch

(***************************************************************************)
(* The steps of a thread that write nothing to the database.               *)
(***************************************************************************)
LEMMA InvQuiet ==
    ASSUME EngineInv, NEW t \in ThreadIds,
           \/ Finish(t) \/ SendPolls(t) \/ SendPollsFails(t)
           \/ ThreadLinkFails(t) \/ RoundOpened(t)
    PROVE  EngineInv'
<1> USE DEF EngineInv
<1>1. threads \in Seq(Thread) /\ threads[t] \in Thread
  BY DEF EngineType, ThreadIds
<1>2. UNCHANGED <<clock, database, main, restarts, requests>>
  BY DEF Finish, SendPolls, SendPollsFails, ThreadLinkFails, RoundOpened
<1>3. UNCHANGED <<clock, row, joined, active, representative, groups, main,
                  restarts, requests>>
  BY <1>2 DEF database
<1>4. /\ threads' \in Seq(Thread)
      /\ \A o \in DOMAIN threads' :
           o \in DOMAIN threads /\ threads'[o].batch = threads[o].batch
  <2>1. CASE SendPolls(t)
    <3> DEFINE polled == ActiveGroups(threads[t].debat)
               new == [threads[t] EXCEPT !.pc = "voting", !.polled = polled]
    <3>1. polled \in SUBSET Nat
      BY DEF ActiveGroups, GroupsOf, GroupIds, EngineType
    <3> HIDE DEF polled
    <3>2. new \in Thread
      BY <1>1, <3>1, ThreadUpdates
    <3>3. new.batch = threads[t].batch
      BY <1>1 DEF Thread
    <3>4. threads' = [threads EXCEPT ![t] = new]
      BY <2>1 DEF SendPolls, polled
    <3> HIDE DEF new
    <3> QED
      BY <1>1, <3>2, <3>3, <3>4, SameBatch
  <2>2. CASE \/ Finish(t) \/ SendPollsFails(t) \/ ThreadLinkFails(t)
             \/ RoundOpened(t)
    <3>1. \E pc \in {"sleep", "close", "dead"} : Goto(t, pc)
      BY <2>2 DEF Finish, SendPollsFails, ThreadLinkFails, RoundOpened
    <3> QED
      BY <1>1, <3>1, GotoStep
  <2> QED
    BY <2>1, <2>2
<1>5. GroupsInv'
  BY <1>3, <1>4, GroupsUnchanged
<1> QED
  BY <1>3, <1>4, <1>5 DEF EngineType, Visiting

(***************************************************************************)
(* Who a vote elects, and marks, are users.                                *)
(***************************************************************************)
LEMMA ElectionTypes ==
    ASSUME EngineType, NEW polled \in SUBSET DOMAIN groups, NEW limit,
           NEW elected \in Elections(polled, limit)
    PROVE  /\ elected \in SUBSET Users
           /\ Marked(elected) \in [Debates -> SUBSET Users]
<1>1. \A g \in polled : groups[g].members \in SUBSET Users
  <2>1. \A g \in DOMAIN groups : groups[g] \in Group
    BY DEF EngineType
  <2> QED
    BY <2>1 DEF Group
<1>2. elected \in SUBSET Users
  BY <1>1 DEF Elections
<1>3. \A d \in Debates : representative[d] \in SUBSET Users
  BY DEF EngineType
<1> QED
  BY <1>2, <1>3 DEF Marked

(***************************************************************************)
(* The steps of a thread that save the row or mark representatives.        *)
(***************************************************************************)
LEMMA InvVote ==
    ASSUME EngineInv, NEW t \in ThreadIds,
           \/ AskParticipants(t) \/ CountVotes(t) \/ CountVotesFails(t)
           \/ Close(t)
    PROVE  EngineInv'
<1> USE DEF EngineInv
<1> DEFINE d == threads[t].debat
<1>1. threads \in Seq(Thread) /\ threads[t] \in Thread
  BY DEF EngineType, ThreadIds
<1>2. d \in Debates /\ threads[t].obj \in Row
  BY <1>1, ThreadFields
<1>3. row[d] \in Row /\ active[d] \in SUBSET Users
  BY <1>2 DEF EngineType
<1> HIDE DEF d
<1>4. UNCHANGED <<clock, joined, active, groups, main, restarts, requests>>
  BY DEF AskParticipants, CountVotes, CountVotesFails, Close
<1>5. /\ row' \in [Debates -> Row]
      /\ representative' \in [Debates -> SUBSET Users]
      /\ threads' \in Seq(Thread)
      /\ \A o \in DOMAIN threads' :
           o \in DOMAIN threads /\ threads'[o].batch = threads[o].batch
  <2>1. CASE AskParticipants(t)
    <3> DEFINE new == [threads[t] EXCEPT !.pc = "asking", !.users = active[d]]
    <3>1. /\ row' = [row EXCEPT ![d].vote_phase = TRUE]
          /\ threads' = [threads EXCEPT ![t] = new]
          /\ UNCHANGED representative
      BY <2>1 DEF AskParticipants, d
    <3>2. new \in Thread
      BY <1>1, <1>3, ThreadUpdates
    <3>3. new.batch = threads[t].batch
      BY <1>1 DEF Thread
    <3> HIDE DEF new
    <3>4. row' \in [Debates -> Row]
      <4>1. [row[d] EXCEPT !.vote_phase = TRUE] \in Row
        BY <1>3, RowUpdates
      <4> QED
        BY <3>1, <4>1 DEF EngineType
    <3> QED
      BY <1>1, <3>1, <3>2, <3>3, <3>4, SameBatch DEF EngineType
  <2>2. CASE CountVotes(t)
    <3> DEFINE polled == ActiveGroups(d)
               limit == threads[t].obj.max_representant
    <3>1. PICK elected \in Elections(polled, limit) :
             /\ representative' = Marked(elected)
             /\ threads' = [threads EXCEPT ![t].pc = "eliminate",
                                           ![t].elected = elected]
      BY <2>2 DEF CountVotes, d
    <3> DEFINE new == [threads[t] EXCEPT !.pc = "eliminate", !.elected = elected]
    <3>2. polled \in SUBSET DOMAIN groups
      BY DEF ActiveGroups, GroupsOf, GroupIds
    <3> HIDE DEF polled, limit
    <3>3. /\ elected \in SUBSET Users
          /\ Marked(elected) \in [Debates -> SUBSET Users]
      BY <3>2, ElectionTypes
    <3>4. new \in Thread
      BY <1>1, <3>3, ThreadUpdates
    <3>5. new.batch = threads[t].batch
      BY <1>1 DEF Thread
    <3>6. threads' = [threads EXCEPT ![t] = new]
      BY <3>1
    <3> HIDE DEF new
    <3>7. row' \in [Debates -> Row]
      <4>1. row' = [row EXCEPT ![d].vote_phase = FALSE]
        BY <2>2 DEF CountVotes, d
      <4>2. [row[d] EXCEPT !.vote_phase = FALSE] \in Row
        BY <1>3, RowUpdates
      <4> QED
        BY <4>1, <4>2 DEF EngineType
    <3>8. representative' \in [Debates -> SUBSET Users]
      BY <3>1, <3>3
    <3> QED
      BY <1>1, <3>4, <3>5, <3>6, <3>7, <3>8, SameBatch
  <2>3. CASE Close(t)
    <3> DEFINE obj == [threads[t].obj EXCEPT !.archived = TRUE, !.step = 4]
    <3>1. obj \in Row
      BY <1>2, RowUpdates
    <3>2. row' = [row EXCEPT ![d] = obj] /\ Goto(t, "done") /\ UNCHANGED representative
      BY <2>3 DEF Close, d
    <3> HIDE DEF obj
    <3> QED
      BY <1>1, <1>2, <3>1, <3>2, GotoStep DEF EngineType
  <2>4. CASE CountVotesFails(t)
    <3> DEFINE polled == ActiveGroups(d) \cap threads[t].polled
               limit == threads[t].obj.max_representant
    <3>1. polled \in SUBSET DOMAIN groups
      BY DEF ActiveGroups, GroupsOf, GroupIds
    <3>2. \/ UNCHANGED representative
          \/ \E elected \in Elections(polled, limit) :
                representative' = Marked(elected)
      BY <2>4 DEF CountVotesFails, d
    <3> HIDE DEF polled, limit
    <3>3. representative' \in [Debates -> SUBSET Users]
      <4>1. CASE UNCHANGED representative
        BY <4>1 DEF EngineType
      <4>2. ASSUME NEW elected \in Elections(polled, limit),
                   representative' = Marked(elected)
            PROVE  representative' \in [Debates -> SUBSET Users]
        BY <3>1, <4>2, ElectionTypes
      <4> QED
        BY <3>2, <4>1, <4>2
    <3>4. Goto(t, "dead") /\ UNCHANGED row
      BY <2>4 DEF CountVotesFails
    <3> QED
      BY <1>1, <3>3, <3>4, GotoStep DEF EngineType
  <2> QED
    BY <2>1, <2>2, <2>3, <2>4
<1>6. GroupsInv'
  BY <1>4, <1>5, GroupsUnchanged
<1> QED
  BY <1>4, <1>5, <1>6 DEF EngineType, Visiting

(***************************************************************************)
(* Whoever is not a representative is made inactive, the groups are        *)
(* archived.                                                               *)
(***************************************************************************)
LEMMA InvEliminate ==
    ASSUME EngineInv, NEW t \in ThreadIds, Eliminate(t)
    PROVE  EngineInv'
<1> USE DEF EngineInv
<1> DEFINE d == threads[t].debat
<1>1. /\ threads \in Seq(Thread)
      /\ Table(groups)
      /\ groups \in Seq(Group)
  BY DEF EngineType, GroupsInv, Table
<1>2. d \in Debates
  BY <1>1, ThreadFields DEF ThreadIds
<1> HIDE DEF d
<1>3. /\ active' = [active EXCEPT ![d] = active[d] \cap representative[d]]
      /\ ArchiveGroups({d})
      /\ \E pc \in {"close", "open"} : Goto(t, pc)
      /\ UNCHANGED <<clock, row, joined, representative, main, restarts, requests>>
  BY DEF Eliminate, d
<1>4. active' \in [Debates -> SUBSET Users]
  BY <1>2, <1>3 DEF EngineType
<1>5. /\ groups' \in Seq(Group)
      /\ Table(groups')
      /\ \A batch : InOrder(groups, batch) => InOrder(groups', batch)
  BY <1>1, <1>3, ArchiveType, ArchiveTable
<1>6. /\ threads' \in Seq(Thread)
      /\ \A o \in DOMAIN threads' :
           o \in DOMAIN threads /\ threads'[o].batch = threads[o].batch
  BY <1>1, <1>3, GotoStep
<1>7. GroupsInv'
  BY <1>3, <1>5, <1>6, GroupsStep
<1> QED
  BY <1>3, <1>4, <1>5, <1>6, <1>7 DEF EngineType, Visiting

(***************************************************************************)
(* A division of the survivors is appended to the table, and its batch is  *)
(* the thread's.                                                           *)
(***************************************************************************)
LEMMA InvOpenRound ==
    ASSUME EngineInv, NEW t \in ThreadIds, OpenRound(t)
    PROVE  EngineInv'
<1> USE DEF EngineInv
<1> DEFINE d == threads[t].debat
           round == threads[t].obj.round + 1
           limit == threads[t].obj.max_per_group
<1>1. threads \in Seq(Thread) /\ threads[t] \in Thread
  BY DEF EngineType, ThreadIds
<1>2. d \in Debates /\ threads[t].obj \in Row
  BY <1>1, ThreadFields
<1>3. round \in 1..MaxRound /\ limit \in Limits
  <2>1. round <= MaxRound
    BY DEF OpenRound
  <2> QED
    BY <1>2, <2>1, RowFields, ConstantTypes
<1>4. active[d] \in SUBSET Users /\ row[d] \in Row
  BY <1>2 DEF EngineType
<1>5. PICK batch \in Batches(d, round, active[d], limit) :
         /\ groups' = groups \o batch
         /\ threads' = [threads EXCEPT ![t].pc = "streams", ![t].obj.round = round,
                                       ![t].batch = IdsOf(batch)]
  BY DEF OpenRound
<1>6. /\ row' = [row EXCEPT ![d].round = round]
      /\ UNCHANGED <<clock, joined, active, representative, main, restarts,
                     requests>>
  BY DEF OpenRound
<1> DEFINE new == [threads[t] EXCEPT !.pc = "streams", !.obj.round = round,
                                     !.batch = IdsOf(batch)]
<1>7. threads' = [threads EXCEPT ![t] = new]
  BY <1>5
<1> HIDE DEF d, round, limit
<1>8. IsBatch(batch, d, round)
  BY <1>2, <1>3, <1>4, <1>5, BatchesAreBatches
<1>9. IdsOf(batch) \in Seq(Nat) /\ groups' \in Seq(Group)
  BY <1>5, <1>8, IdsType DEF IsBatch, EngineType
<1>10. /\ Table(groups')
       /\ \A old : InOrder(groups, old) => InOrder(groups', old)
       /\ InOrder(groups', IdsOf(batch))
  BY <1>5, <1>8, AppendBatch DEF GroupsInv, Table, EngineType, IdsOf
<1>11. new \in Thread
  BY <1>1, <1>3, <1>9, ThreadUpdates
<1>12. new.batch = IdsOf(batch)
  BY <1>1 DEF Thread
<1> HIDE DEF new
<1>13. /\ threads' \in Seq(Thread)
       /\ \A o \in DOMAIN threads' :
            \/ o \in DOMAIN threads /\ threads'[o].batch = threads[o].batch
            \/ threads'[o].batch = IdsOf(batch)
  BY <1>1, <1>7, <1>11, <1>12, ThreadStep
<1>14. row' \in [Debates -> Row]
  <2>1. [row[d] EXCEPT !.round = round] \in Row
    BY <1>3, <1>4, RowUpdates
  <2> QED
    BY <1>6, <2>1 DEF EngineType
<1>15. GroupsInv'
  BY <1>6, <1>10, <1>13, GroupsStep
<1> QED
  BY <1>6, <1>9, <1>13, <1>14, <1>15 DEF EngineType, Visiting

(***************************************************************************)
(* A thread links the first group of its batch to a new channel.           *)
(***************************************************************************)
LEMMA InvThreadLink ==
    ASSUME EngineInv, NEW t \in ThreadIds, ThreadLink(t)
    PROVE  EngineInv'
<1> USE DEF EngineInv
<1> DEFINE batch == threads[t].batch
           new == [threads[t] EXCEPT !.batch = Tail(batch)]
<1>1. threads \in Seq(Thread) /\ threads[t] \in Thread
  BY DEF EngineType, ThreadIds
<1>2. /\ InOrder(groups, batch)
      /\ Table(groups)
      /\ groups \in Seq(Group)
  BY DEF GroupsInv, Table, EngineType
<1>3. /\ groups' = [groups EXCEPT ![Head(batch)].stream = TRUE]
      /\ threads' = [threads EXCEPT ![t] = new]
      /\ batch # <<>>
      /\ UNCHANGED <<clock, row, joined, active, representative, main, restarts,
                     requests>>
  BY DEF ThreadLink
<1>4. \A h \in DOMAIN groups : h # Head(batch) /\ groups[h].stream
         => GroupName(groups[h]) # GroupName(groups[Head(batch)])
  BY DEF ThreadLink, StreamTaken, GroupIds
<1>5. batch \in Seq(Nat)
  BY <1>1, ThreadFields
<1> HIDE DEF batch
<1>6. Head(batch) \in DOMAIN groups /\ Tail(batch) \in Seq(Nat)
  BY <1>2, <1>3, <1>5 DEF InOrder
<1>7. groups' \in Seq(Group)
  BY <1>2, <1>3, <1>6, LinkType
<1>8. /\ Table(groups')
      /\ \A other : InOrder(groups, other) => InOrder(groups', other)
      /\ InOrder(groups', Tail(batch))
  BY <1>2, <1>3, <1>4, <1>5, LinkGroup
<1>9. new \in Thread
  BY <1>1, <1>6, ThreadUpdates
<1>10. new.batch = Tail(batch)
  BY <1>1 DEF Thread
<1> HIDE DEF new
<1>11. /\ threads' \in Seq(Thread)
       /\ \A o \in DOMAIN threads' :
            \/ o \in DOMAIN threads /\ threads'[o].batch = threads[o].batch
            \/ threads'[o].batch = Tail(batch)
  BY <1>1, <1>3, <1>9, <1>10, ThreadStep
<1>12. GroupsInv'
  BY <1>3, <1>8, <1>11, GroupsStep
<1> QED
  BY <1>3, <1>7, <1>11, <1>12 DEF EngineType, Visiting

(***************************************************************************)
(* The steps that leave the tables, the processes and the requests alone.  *)
(***************************************************************************)
LEMMA InvSame ==
    ASSUME EngineInv, UNCHANGED <<clock, database, main, threads, restarts, requests>>
    PROVE  EngineInv'
<1>1. UNCHANGED <<clock, row, joined, active, representative, groups, main,
                  threads, restarts, requests>>
  BY DEF database
<1>2. GroupsInv'
  BY <1>1, GroupsUnchanged DEF EngineInv
<1> QED
  BY <1>1, <1>2 DEF EngineInv, EngineType, Visiting

(***************************************************************************)
(* Every step keeps the inductive invariant.                               *)
(***************************************************************************)
LEMMA InvNext == EngineInv /\ [Next]_vars => EngineInv'
<1> SUFFICES ASSUME EngineInv, [Next]_vars PROVE EngineInv'
  OBVIOUS
<1>1. CASE Tick \/ Web
  BY <1>1, InvWeb
<1>2. CASE MainLoop
  <2>1. CASE MainSubscribe
    BY <2>1, InvSame DEF MainSubscribe
  <2> QED
    BY <1>2, <2>1, InvScan, InvLaunch, InvMainLink, InvStops, InvStartThread
    DEF MainLoop
<1>3. CASE Sigint \/ Interrupt \/ Restart
  BY <1>3, InvStops
<1>4. ASSUME NEW t \in ThreadIds, RunSteps(t)
      PROVE  EngineInv'
  <2>1. CASE ThreadSubscribe(t)
    BY <2>1, InvSame DEF ThreadSubscribe
  <2> QED
    BY <1>4, <2>1, InvQuiet, InvVote, InvEliminate, InvOpenRound, InvThreadLink
    DEF RunSteps
<1>5. CASE UNCHANGED vars
  BY <1>5, InvSame DEF vars
<1> QED
  BY <1>1, <1>2, <1>3, <1>4, <1>5 DEF Next

-----------------------------------------------------------------------------
(* The theorems.                                                           *)

(***************************************************************************)
(* The strengthening that the theorems rest on is an invariant.            *)
(***************************************************************************)
LEMMA EngineInvariant == Spec => []EngineInv
BY InvInit, InvNext, PTL DEF Spec

(***************************************************************************)
(* The divisions of the table of groups (the inductive invariant).         *)
(***************************************************************************)
THEOREM GroupsCorrect == Spec => []GroupsInv
BY EngineInvariant, PTL DEF EngineInv

(***************************************************************************)
(* Nobody is in two groups of one round that are linked to their channels. *)
(***************************************************************************)
THEOREM LinkedDisjoint == Spec => []LinkedGroupsDisjoint
<1>1. ASSUME GroupsInv
      PROVE  LinkedGroupsDisjoint
  <2> SUFFICES ASSUME NEW g \in DOMAIN groups, NEW h \in DOMAIN groups, g # h,
                      groups[g].stream, groups[h].stream,
                      groups[g].debat = groups[h].debat,
                      groups[g].round = groups[h].round
               PROVE  groups[g].members \cap groups[h].members = {}
    BY DEF LinkedGroupsDisjoint, GroupIds
  <2> DEFINE f == First(groups, g)
             e == First(groups, h)
  <2>1. /\ f \in DOMAIN groups /\ e \in DOMAIN groups
        /\ groups[f].stream /\ groups[e].stream
        /\ groups[f].debat = groups[e].debat
        /\ groups[f].round = groups[e].round
        /\ groups[f].number = groups[e].number
    BY <1>1 DEF GroupsInv, Numbered
  <2>2. GroupName(groups[f]) = GroupName(groups[e])
    BY <2>1 DEF GroupName
  <2>3. f = e
    BY <1>1, <2>1, <2>2 DEF GroupsInv, NamesApart
  <2> QED
    BY <1>1, <2>3 DEF GroupsInv, DivisionsDisjoint
<1> QED
  BY <1>1, EngineInvariant, PTL DEF EngineInv

(***************************************************************************)
(* Nobody who is out of a debate comes back, a subscription aside.         *)
(***************************************************************************)
THEOREM OutIsOut == Spec => EliminatedStayOut
<1> DEFINE StayOut == \A d \in Debates :
                        active'[d] \ active[d] \subseteq joined'[d] \ joined[d]
<1>1. EngineInv /\ [Next]_vars => [StayOut]_vars
  <2> SUFFICES ASSUME EngineInv, Next PROVE StayOut
    OBVIOUS
  <2>1. ASSUME NEW q \in requests, CommitSubscription(q)
        PROVE  StayOut
    BY <2>1 DEF CommitSubscription, EngineInv, EngineType, Request
  <2>2. ASSUME NEW t \in ThreadIds, Eliminate(t)
        PROVE  StayOut
    BY <2>2 DEF Eliminate, EngineInv, EngineType
  <2>3. CASE UNCHANGED active
    BY <2>3
  <2>4. ASSUME ~(\E q \in requests : CommitSubscription(q)),
               ~(\E t \in ThreadIds : Eliminate(t))
        PROVE  UNCHANGED active
    BY <2>4 DEF Next, Tick, Web, Subscribe, RepeatSubscription,
         RejectSubscription, SubmitParameters, CommitParameters, MainLoop,
         BeginCheck, EndCheck, PassOver, Prepare, NotYet, Launch, MainSubscribe,
         MainLink, MainLinkFails, StartThread, Sigint, Interrupt, Restart,
         RunSteps, Finish, AskParticipants, SendPolls, SendPollsFails,
         CountVotes, CountVotesFails, OpenRound, ThreadSubscribe, ThreadLink,
         ThreadLinkFails, RoundOpened, Close, database
  <2> QED
    BY <2>1, <2>2, <2>3, <2>4
<1> QED
  BY <1>1, EngineInvariant, PTL DEF Spec, EliminatedStayOut

-----------------------------------------------------------------------------
(* The subscribers of the channels.                                        *)

\* a table that keeps the seats of its groups, and may have got new ones
SeatsKept(gs) == \A g \in DOMAIN groups :
    /\ g \in DOMAIN gs
    /\ GroupName(gs[g]) = GroupName(groups[g])
    /\ gs[g].members = groups[g].members

(***************************************************************************)
(* No step takes a group from the table, renames it or changes who is in   *)
(* it.                                                                     *)
(***************************************************************************)
LEMMA SeatsStay == EngineInv /\ [Next]_vars => SeatsKept(groups')
<1> SUFFICES ASSUME EngineInv, [Next]_vars PROVE SeatsKept(groups')
  OBVIOUS
<1>1. groups \in Seq(Group)
  BY DEF EngineInv, EngineType
<1>2. ASSUME NEW batch, batch \in Seq(Group), groups' = groups \o batch
      PROVE  SeatsKept(groups')
  BY <1>1, <1>2 DEF SeatsKept
<1>3. ASSUME NEW g, groups' = [groups EXCEPT ![g].stream = TRUE]
      PROVE  SeatsKept(groups')
  BY <1>1, <1>3 DEF SeatsKept, GroupName, Group
<1>4. ASSUME NEW debates, ArchiveGroups(debates)
      PROVE  SeatsKept(groups')
  BY <1>1, <1>4 DEF ArchiveGroups, GroupIds, SeatsKept, GroupName, Group
<1>5. CASE UNCHANGED groups
  BY <1>5 DEF SeatsKept
<1>6. CASE Launch
  <2> DEFINE obj == [Visited.obj EXCEPT !.step = 3]
  <2>1. /\ Visited.debat \in Debates
        /\ Visited.obj \in Row
    BY <1>6, VisitedType DEF Launch, EngineInv, EngineType, Visiting
  <2>2. obj \in Row
    BY <2>1, RowUpdates
  <2> HIDE DEF obj
  <2>3. /\ obj.round \in 1..MaxRound /\ obj.max_per_group \in Limits
        /\ active[Visited.debat] \in SUBSET Users
    BY <2>1, <2>2, RowFields DEF EngineInv, EngineType
  <2>4. PICK batch \in Batches(Visited.debat, obj.round, active[Visited.debat],
                               obj.max_per_group) : groups' = groups \o batch
    BY <1>6 DEF Launch, obj
  <2>5. IsBatch(batch, Visited.debat, obj.round)
    BY <2>1, <2>3, <2>4, BatchesAreBatches
  <2> QED
    BY <1>2, <2>4, <2>5 DEF IsBatch
<1>7. ASSUME NEW t \in ThreadIds, OpenRound(t)
      PROVE  SeatsKept(groups')
  <2> DEFINE d == threads[t].debat
             round == threads[t].obj.round + 1
             limit == threads[t].obj.max_per_group
  <2>1. threads[t] \in Thread
    BY DEF EngineInv, EngineType, ThreadIds
  <2>2. /\ d \in Debates
        /\ threads[t].obj \in Row
    BY <2>1, ThreadFields
  <2>3. /\ round \in 1..MaxRound /\ limit \in Limits
        /\ active[d] \in SUBSET Users
    <3>1. threads[t].obj.round \in 1..MaxRound /\ limit \in Limits
      BY <2>2, RowFields
    <3>2. round <= MaxRound
      BY <1>7 DEF OpenRound
    <3>3. round \in 1..MaxRound
      BY <3>1, <3>2, ConstantTypes
    <3> QED
      BY <2>2, <3>1, <3>3 DEF EngineInv, EngineType
  <2>4. PICK batch \in Batches(d, round, active[d], limit) :
          groups' = groups \o batch
    BY <1>7 DEF OpenRound
  <2> HIDE DEF d, round, limit
  <2>5. IsBatch(batch, d, round)
    BY <2>2, <2>3, <2>4, BatchesAreBatches
  <2> QED
    BY <1>2, <2>4, <2>5 DEF IsBatch
<1>8. CASE Sigint \/ \E t \in ThreadIds : Eliminate(t)
  BY <1>4, <1>8 DEF Sigint, Eliminate
<1>9. CASE MainLink \/ \E t \in ThreadIds : ThreadLink(t)
  BY <1>3, <1>9 DEF MainLink, ThreadLink
<1>10. ASSUME ~Launch, ~(\E t \in ThreadIds : OpenRound(t)),
              ~Sigint, ~(\E t \in ThreadIds : Eliminate(t)),
              ~MainLink, ~(\E t \in ThreadIds : ThreadLink(t))
       PROVE  UNCHANGED groups
  BY <1>10 DEF Next, Tick, Web, Subscribe, CommitSubscription,
       RepeatSubscription, RejectSubscription, SubmitParameters,
       CommitParameters, MainLoop, BeginCheck, EndCheck, PassOver, Prepare,
       NotYet, MainSubscribe, MainLinkFails, StartThread, Interrupt, Restart,
       RunSteps, Finish, AskParticipants, SendPolls, SendPollsFails, CountVotes,
       CountVotesFails, ThreadSubscribe, ThreadLinkFails, RoundOpened, Close,
       database, vars
<1> QED
  BY <1>5, <1>6, <1>7, <1>8, <1>9, <1>10

(***************************************************************************)
(* Nobody is subscribed but for a seat in a group of the table.            *)
(***************************************************************************)
LEMMA SeatsNext == EngineInv /\ SeatsInv /\ [Next]_vars => SeatsInv'
<1> SUFFICES ASSUME EngineInv, SeatsInv, [Next]_vars PROVE SeatsInv'
  OBVIOUS
<1>1. SeatsKept(groups')
  BY SeatsStay
<1>2. \A g \in GroupIds : g \in GroupIds' /\ Seats(g)' = Seats(g)
  BY <1>1 DEF SeatsKept, GroupIds, Seats
<1>3. ASSUME NEW batch \in Seq(Nat), batch # <<>>, InOrder(groups, batch),
             subscribed' = subscribed \cup Seats(Head(batch))
      PROVE  SeatsInv'
  <2>1. Head(batch) \in GroupIds
    BY <1>3 DEF InOrder, GroupIds
  <2> QED
    BY <1>2, <1>3, <2>1 DEF SeatsInv
<1>4. CASE UNCHANGED subscribed
  BY <1>2, <1>4 DEF SeatsInv
<1>5. CASE MainSubscribe
  <2>1. main.batch \in Seq(Nat) /\ InOrder(groups, main.batch)
    BY MainFields DEF EngineInv, EngineType, GroupsInv
  <2> QED
    BY <1>3, <1>5, <2>1 DEF MainSubscribe
<1>6. ASSUME NEW t \in ThreadIds, ThreadSubscribe(t)
      PROVE  SeatsInv'
  <2>1. threads[t] \in Thread
    BY DEF EngineInv, EngineType, ThreadIds
  <2>2. threads[t].batch \in Seq(Nat) /\ InOrder(groups, threads[t].batch)
    BY <2>1, ThreadFields DEF EngineInv, GroupsInv
  <2> QED
    BY <1>3, <1>6, <2>2 DEF ThreadSubscribe
<1>7. ASSUME ~MainSubscribe, ~(\E t \in ThreadIds : ThreadSubscribe(t))
      PROVE  UNCHANGED subscribed
  BY <1>7 DEF Next, Tick, Web, Subscribe, CommitSubscription,
       RepeatSubscription, RejectSubscription, SubmitParameters,
       CommitParameters, MainLoop, BeginCheck, EndCheck, PassOver, Prepare,
       NotYet, Launch, MainLink, MainLinkFails, StartThread, Sigint, Interrupt,
       Restart, RunSteps, Finish, AskParticipants, SendPolls, SendPollsFails,
       CountVotes, CountVotesFails, Eliminate, OpenRound, ThreadLink,
       ThreadLinkFails, RoundOpened, Close, vars
<1> QED
  BY <1>4, <1>5, <1>6, <1>7

(***************************************************************************)
(* The seats that the subscriptions were asked for are an invariant.       *)
(***************************************************************************)
LEMMA SeatsInvariant == Spec => [](EngineInv /\ SeatsInv)
<1>1. Init => SeatsInv
  BY DEF Init, SeatsInv
<1> QED
  BY <1>1, EngineInvariant, SeatsNext, PTL DEF Spec

(***************************************************************************)
(* Every row, group, thread, request and subscription keeps its type,      *)
(* whatever the processes write back.                                      *)
(***************************************************************************)
THEOREM TypeCorrect == Spec => []TypeOK
<1>1. ASSUME EngineInv, SeatsInv
      PROVE  TypeOK
  <2>1. ASSUME NEW seat \in subscribed
        PROVE  seat \in ChannelNames \X Users
    <3>1. PICK g \in GroupIds : seat \in Seats(g)
      BY <1>1 DEF SeatsInv
    <3>2. groups[g] \in Group
      BY <1>1, <3>1 DEF EngineInv, EngineType, GroupIds
    <3>3. GroupName(groups[g]) \in ChannelNames /\ groups[g].members \subseteq Users
      BY <3>2 DEF Group, GroupName, ChannelNames
    <3> QED
      BY <3>1, <3>3 DEF Seats
  <2> QED
    BY <1>1, <2>1 DEF EngineInv, TypeOK
<1> QED
  BY <1>1, SeatsInvariant, PTL

(***************************************************************************)
(* The channels of a round that was divided once share no subscriber.      *)
(***************************************************************************)
THEOREM SubscribersApart == Spec => []ChannelsApart
<1>1. ASSUME EngineInv, SeatsInv
      PROVE  ChannelsApart
  <2>1. Numbered(groups) /\ DivisionsDisjoint(groups) /\ groups \in Seq(Group)
    BY <1>1 DEF EngineInv, EngineType, GroupsInv
  <2>2. ASSUME NEW g \in GroupIds, DividedOnce(g),
               NEW k \in GroupIds, GroupName(groups[k])[1] = Title[groups[g].debat],
               groups[k].round = groups[g].round
        PROVE  First(groups, k) = First(groups, g)
    <3> DEFINE f == First(groups, g)
               e == First(groups, k)
    <3>1. /\ f \in GroupIds /\ e \in GroupIds
          /\ groups[f].number = 1 /\ groups[e].number = 1
          /\ groups[f].debat = groups[g].debat /\ groups[e].debat = groups[k].debat
          /\ groups[f].round = groups[g].round /\ groups[e].round = groups[k].round
      BY <2>1 DEF Numbered, GroupIds
    <3>2. /\ GroupName(groups[f]) = <<Title[groups[g].debat], groups[g].round, 1>>
          /\ GroupName(groups[e]) = GroupName(groups[f])
      BY <2>2, <3>1 DEF GroupName
    <3> QED
      BY <2>2, <3>1, <3>2 DEF DividedOnce
  <2>3. ASSUME NEW g \in GroupIds, DividedOnce(g), NEW h \in GroupIds,
               groups[h].debat = groups[g].debat, groups[h].round = groups[g].round,
               NEW u \in Subscribers(h)
        PROVE  u \in groups[h].members
    <3>1. PICK k \in GroupIds : <<GroupName(groups[h]), u>> \in Seats(k)
      BY <1>1 DEF Subscribers, SeatsInv
    <3>2. GroupName(groups[k]) = GroupName(groups[h]) /\ u \in groups[k].members
      BY <3>1 DEF Seats
    <3>3. /\ Title[groups[k].debat] = Title[groups[g].debat]
          /\ groups[k].round = groups[g].round
          /\ groups[k].number = groups[h].number
      BY <2>3, <3>2 DEF GroupName
    <3>4. /\ First(groups, k) = First(groups, g)
          /\ First(groups, h) = First(groups, g)
      BY <2>2, <2>3, <3>3 DEF GroupName
    <3>5. /\ k \in Nat /\ h \in Nat
          /\ groups[k].number \in Nat /\ groups[h].number \in Nat
      <4>1. k \in Nat /\ h \in Nat /\ groups[k] \in Group /\ groups[h] \in Group
        BY <2>1 DEF GroupIds
      <4> QED
        BY <4>1 DEF Group
    <3>6. k = h
      BY <3>3, <3>4, <3>5 DEF First
    <3> QED
      BY <3>2, <3>6
  <2>4. ASSUME NEW g \in GroupIds, NEW h \in GroupIds, g # h,
               groups[g].debat = groups[h].debat,
               groups[g].round = groups[h].round, DividedOnce(g)
        PROVE  Subscribers(g) \cap Subscribers(h) = {}
    <3>1. First(groups, g) = First(groups, h)
      BY <2>2, <2>4 DEF GroupName
    <3>2. groups[g].members \cap groups[h].members = {}
      BY <2>1, <2>4, <3>1 DEF DivisionsDisjoint, GroupIds
    <3>3. /\ Subscribers(g) \subseteq groups[g].members
          /\ Subscribers(h) \subseteq groups[h].members
      BY <2>3, <2>4
    <3> QED
      BY <3>2, <3>3
  <2> QED
    BY <2>4 DEF ChannelsApart
<1> QED
  BY <1>1, SeatsInvariant, PTL
=============================================================================
