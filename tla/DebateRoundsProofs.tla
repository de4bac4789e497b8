------------------------ MODULE DebateRoundsProofs ------------------------
(***************************************************************************)
(* Who works on which round of a debate, and what follows: at most one     *)
(* thread of a debate is in a round, one round is open at a time, and the  *)
(* groups whose rows are linked to a channel are those of a tournament.    *)
(***************************************************************************)
EXTENDS DebateEngineProofs

-----------------------------------------------------------------------------
(* The rounds of a debate: who opens them, and which are open.             *)

\* a round of the debate that the database, or a copy of its row, holds
Known(d, c) ==
    \/ row[d].round = c
    \/ \E q \in requests : q.debat = d /\ q.row.round = c
    \/ \E i \in DOMAIN main.todo : main.todo[i].debat = d /\ main.todo[i].obj.round = c
    \/ \E t \in ThreadIds : threads[t].debat = d /\ threads[t].obj.round = c
    \/ \E g \in GroupsOf(d) : groups[g].round = c

\* a round one group of which got its channel, archived since or not
Opened(d, r) == \E g \in GroupsOf(d) : groups[g].stream /\ groups[g].round = r

\* no group of the debate can be used
Closed(d) == \A g \in ActiveGroups(d) : ~groups[g].stream

(***************************************************************************)
(* The processes that work on a round of a debate: the main loop (0) that  *)
(* links its first groups, and the threads that link, or wait in, a round; *)
(* with the groups each has still to link.                                 *)
(***************************************************************************)
Busy(thread) ==
    thread.pc \in {"sleep", "asking", "voting", "eliminate", "open", "streams"}

Works(d, a) ==
    \/ a = 0 /\ main.pc = "streams" /\ Visited.debat = d
    \/ a \in ThreadIds /\ threads[a].debat = d /\ Busy(threads[a])

RoundOf(a) == IF a = 0 THEN Visited.obj.round ELSE threads[a].obj.round

Pending(thread) == IF thread.pc = "streams" THEN thread.batch ELSE <<>>
PendingOf(a) == IF a = 0 THEN main.batch ELSE Pending(threads[a])

\* the division it belongs to has got past its first group
Live(gs, batch) == batch = <<>> \/ gs[First(gs, batch[1])].stream

\* who works on a round that is open: the owner of the debate
Owns(d, a) == Works(d, a) /\ Live(groups, PendingOf(a))

Opening(d) == \E t \in ThreadIds : threads[t].debat = d /\ threads[t].pc = "open"

-----------------------------------------------------------------------------
(* The inductive invariant.                                                *)

\* every round before one that is known was open
EarlierOpened(d) ==
    \A c \in 1..MaxRound : Known(d, c) => \A r \in 1..c - 1 : Opened(d, r)

\* until a round that is known opens, the groups of the round before it are
\* archived
ClosedBetween(d) ==
    (\E c \in 1..MaxRound : Known(d, c) /\ ~Opened(d, c)) => Closed(d)

\* ... and who was put in its groups is in the debate
UnopenedAlive(d) ==
    \A g \in GroupsOf(d) :
      ~Opened(d, groups[g].round) => groups[g].members \subseteq active[d]

\* a thread goes on to the next round when the groups are archived
ClosedForOpening(d) == Opening(d) => Closed(d)

\* the groups that a process has to link are those of its debate and round
OwnBatch(d) ==
    \A a \in Nat : Works(d, a) =>
      \A i \in DOMAIN PendingOf(a) :
        /\ PendingOf(a)[i] \in GroupsOf(d)
        /\ groups[PendingOf(a)[i]].round = RoundOf(a)

\* no group is for two of them to link
BatchesApart(d) ==
    \A a, b \in Nat : Works(d, a) /\ Works(d, b) /\ a # b =>
      \A i \in DOMAIN PendingOf(a), j \in DOMAIN PendingOf(b) :
        PendingOf(a)[i] # PendingOf(b)[j]

\* one process at most owns a debate; its round is the last one, the only one
\* that is not archived, and who is in the groups it links is in the debate
OneOwner(d) ==
    \A a \in Nat : Owns(d, a) =>
      /\ \A b \in Nat : Owns(d, b) => b = a
      /\ Opened(d, RoundOf(a))
      /\ \A c \in 1..MaxRound : Known(d, c) => c <= RoundOf(a)
      /\ \A g \in ActiveGroups(d) :
           groups[g].stream => groups[g].round = RoundOf(a)
      /\ \A i \in DOMAIN PendingOf(a) :
           groups[PendingOf(a)[i]].members \subseteq active[d]

TableOk(d) ==
    /\ EarlierOpened(d)
    /\ ClosedBetween(d)
    /\ UnopenedAlive(d)
    /\ ClosedForOpening(d)

WorkersOk(d) == OwnBatch(d) /\ BatchesApart(d) /\ OneOwner(d)

RoundsInv == \A d \in Debates : TableOk(d) /\ WorkersOk(d)

-----------------------------------------------------------------------------
(* Steps that open no round.                                               *)

\* the groups of the debate are archived at most
SameGroups(d) ==
    /\ GroupsOf(d)' = GroupsOf(d)
    /\ \A g \in GroupsOf(d) : /\ groups'[g].round = groups[g].round
                              /\ groups'[g].number = groups[g].number
                              /\ groups'[g].members = groups[g].members
                              /\ groups'[g].stream <=> groups[g].stream
                              /\ groups[g].archived => groups'[g].archived

(***************************************************************************)
(* What is said of the groups of the debate stays true.                    *)
(***************************************************************************)
LEMMA SameGroupsOf ==
    ASSUME NEW d, SameGroups(d)
    PROVE  /\ \A r : Opened(d, r)' <=> Opened(d, r)
           /\ ActiveGroups(d)' \subseteq ActiveGroups(d)
           /\ Closed(d) => Closed(d)'
           /\ \A g \in GroupsOf(d) : First(groups', g) = First(groups, g)
<1>1. \A r : Opened(d, r)' <=> Opened(d, r)
  BY DEF SameGroups, Opened
<1>2. ActiveGroups(d)' \subseteq ActiveGroups(d)
  BY DEF SameGroups, ActiveGroups
<1>3. Closed(d) => Closed(d)'
  BY <1>2 DEF SameGroups, Closed, ActiveGroups
<1>4. \A g \in GroupsOf(d) : First(groups', g) = First(groups, g)
  BY DEF SameGroups, First
<1> QED
  BY <1>1, <1>2, <1>3, <1>4

(***************************************************************************)
(* A step that opens no round, and makes no round known, keeps the table   *)
(* of the debate right; who is in an unopened group stays active, unless   *)
(* there is no such group.                                                 *)
(***************************************************************************)
LEMMA QuietTable ==
    ASSUME NEW d \in Debates, TableOk(d), SameGroups(d),
           \A c \in 1..MaxRound : Known(d, c)' => Known(d, c),
           groups \in Seq(Group),
           \/ active[d] \subseteq active'[d]
           \/ \A c \in 1..MaxRound : Known(d, c) => Opened(d, c),
           Opening(d)' => Opening(d) \/ Closed(d)'
    PROVE  TableOk(d)'
<1> USE DEF TableOk
<1>1. /\ GroupsOf(d)' = GroupsOf(d)
      /\ \A r : Opened(d, r)' <=> Opened(d, r)
      /\ Closed(d) => Closed(d)'
  BY SameGroupsOf DEF SameGroups
<1>2. EarlierOpened(d)'
  BY <1>1 DEF EarlierOpened
<1>3. ClosedBetween(d)'
  BY <1>1 DEF ClosedBetween
<1>4. UnopenedAlive(d)'
  <2> SUFFICES ASSUME NEW g \in GroupsOf(d), ~Opened(d, groups[g].round)
               PROVE  groups[g].members \subseteq active'[d]
    BY <1>1 DEF UnopenedAlive, SameGroups, GroupsOf, GroupIds
  <2>1. groups[g].members \subseteq active[d]
    BY DEF UnopenedAlive
  <2>2. g \in DOMAIN groups /\ groups[g] \in Group
    BY DEF GroupsOf, GroupIds
  <2>3. groups[g].round \in 1..MaxRound /\ Known(d, groups[g].round)
    BY <2>2 DEF Known, Group
  <2> QED
    BY <2>1, <2>3
<1>5. ClosedForOpening(d)'
  BY <1>1 DEF ClosedForOpening
<1> QED
  BY <1>2, <1>3, <1>4, <1>5

(***************************************************************************)
(* The types of what a process works on.                                   *)
(***************************************************************************)
LEMMA WorkerTypes ==
    ASSUME EngineInv, NEW d \in Debates, NEW a \in Nat, Works(d, a)
    PROVE  /\ RoundOf(a) \in 1..MaxRound
           /\ Known(d, RoundOf(a))
           /\ PendingOf(a) \in Seq(Nat)
           /\ InOrder(groups, PendingOf(a))
<1> USE DEF EngineInv
<1>1. CASE a = 0 /\ main.pc = "streams" /\ Visited.debat = d
  <2>1. main \in MainType /\ main.todo # <<>>
    BY <1>1 DEF EngineType, Visiting
  <2>2. /\ Visited.obj \in Row
        /\ Visited = main.todo[1]
        /\ main.todo \in Seq(Visit)
        /\ main.batch \in Seq(Nat)
    BY <2>1, VisitedType, MainFields
  <2>3. 1 \in DOMAIN main.todo
    BY <2>1, <2>2
  <2>4. RoundOf(a) = Visited.obj.round /\ PendingOf(a) = main.batch
    BY <1>1 DEF RoundOf, PendingOf
  <2>5. Known(d, RoundOf(a))
    BY <1>1, <2>2, <2>3, <2>4 DEF Known
  <2> QED
    BY <2>2, <2>4, <2>5, RowFields DEF GroupsInv
<1>2. CASE a \in ThreadIds /\ threads[a].debat = d /\ Busy(threads[a])
  <2>1. a # 0 /\ threads[a] \in Thread
    BY <1>2 DEF EngineType, ThreadIds
  <2>2. threads[a].obj \in Row /\ threads[a].batch \in Seq(Nat)
    BY <2>1, ThreadFields
  <2>3. RoundOf(a) = threads[a].obj.round /\ PendingOf(a) = Pending(threads[a])
    BY <2>1 DEF RoundOf, PendingOf
  <2>4. RoundOf(a) \in 1..MaxRound /\ Known(d, RoundOf(a))
    BY <1>2, <2>2, <2>3, RowFields DEF Known
  <2>5. PendingOf(a) = threads[a].batch \/ PendingOf(a) = <<>>
    BY <2>3 DEF Pending
  <2>6. InOrder(groups, threads[a].batch)
    BY <1>2 DEF GroupsInv
  <2>7. PendingOf(a) \in Seq(Nat)
    <3>1. <<>> \in Seq(Nat)
      OBVIOUS
    <3> QED
      BY <2>2, <2>5, <3>1
  <2>8. InOrder(groups, PendingOf(a))
    BY <2>5, <2>6, NothingPending
  <2> QED
    BY <2>4, <2>7, <2>8
<1> QED
  BY <1>1, <1>2 DEF Works

(***************************************************************************)
(* ... and so are its processes, if each worked on the round before.       *)
(***************************************************************************)
LEMMA QuietWorkers ==
    ASSUME EngineInv, NEW d \in Debates, WorkersOk(d), SameGroups(d),
           \A c \in 1..MaxRound : Known(d, c)' => Known(d, c),
           \A a \in Nat : Works(d, a)' => /\ Works(d, a)
                                          /\ RoundOf(a)' = RoundOf(a)
                                          /\ PendingOf(a)' = PendingOf(a),
           \/ active[d] \subseteq active'[d]
           \/ \A a \in Nat : Owns(d, a) /\ Works(d, a)' => PendingOf(a) = <<>>
    PROVE  WorkersOk(d)'
<1> USE DEF WorkersOk
<1>1. /\ GroupsOf(d)' = GroupsOf(d)
      /\ \A r : Opened(d, r)' <=> Opened(d, r)
      /\ ActiveGroups(d)' \subseteq ActiveGroups(d)
      /\ ActiveGroups(d) \subseteq GroupsOf(d)
  BY SameGroupsOf DEF SameGroups, GroupsOf, ActiveGroups, GroupIds
<1>2. \A g \in GroupsOf(d) :
         /\ First(groups', g) = First(groups, g)
         /\ First(groups, g) \in GroupsOf(d)
  BY SameGroupsOf DEF EngineInv, GroupsInv, Numbered, GroupsOf, GroupIds
<1>3. ASSUME NEW a \in Nat, Works(d, a)'
      PROVE  /\ Works(d, a)
             /\ RoundOf(a)' = RoundOf(a)
             /\ PendingOf(a)' = PendingOf(a)
             /\ PendingOf(a) \in Seq(Nat)
             /\ \A i \in DOMAIN PendingOf(a) :
                  /\ PendingOf(a)[i] \in GroupsOf(d)
                  /\ groups[PendingOf(a)[i]].round = RoundOf(a)
  BY <1>3, WorkerTypes DEF OwnBatch
<1>4. OwnBatch(d)'
  <2> SUFFICES ASSUME NEW a \in Nat, Works(d, a)', NEW i \in DOMAIN PendingOf(a)
               PROVE  /\ PendingOf(a)[i] \in GroupsOf(d)
                      /\ groups'[PendingOf(a)[i]].round = RoundOf(a)
    BY <1>1, <1>3 DEF OwnBatch
  <2> QED
    BY <1>1, <1>3 DEF SameGroups
<1>5. ASSUME NEW a \in Nat, Owns(d, a)'
      PROVE  Owns(d, a)
  <2>1. Works(d, a)'
    BY <1>5 DEF Owns
  <2> DEFINE pending == PendingOf(a)
  <2>2. pending \in Seq(Nat) /\ \A i \in DOMAIN pending : pending[i] \in GroupsOf(d)
    BY <1>1, <1>3, <2>1
  <2>3. Live(groups', pending)
    BY <1>3, <1>5, <2>1 DEF Owns
  <2> HIDE DEF pending
  <2>4. pending = <<>> \/ pending[1] \in GroupsOf(d)
    BY <2>2
  <2>5. Live(groups, pending)
    BY <2>3, <2>4, <1>2 DEF Live, SameGroups
  <2> QED
    BY <1>3, <2>1, <2>5 DEF Owns, pending
<1>6. OneOwner(d)'
  <2> SUFFICES ASSUME NEW a \in Nat, Owns(d, a)'
               PROVE  /\ \A b \in Nat : Owns(d, b)' => b = a
                      /\ Opened(d, RoundOf(a))'
                      /\ \A c \in 1..MaxRound : Known(d, c)' => c <= RoundOf(a)'
                      /\ \A g \in ActiveGroups(d)' :
                           groups'[g].stream => groups'[g].round = RoundOf(a)'
                      /\ \A i \in DOMAIN PendingOf(a)' :
                           groups'[PendingOf(a)'[i]].members \subseteq active'[d]
    BY DEF OneOwner
  <2>1. Owns(d, a) /\ Works(d, a)' /\ \A b \in Nat : Owns(d, b)' => Owns(d, b)
    BY <1>5 DEF Owns
  <2>2. RoundOf(a)' = RoundOf(a) /\ PendingOf(a)' = PendingOf(a)
    BY <1>3, <2>1
  <2> DEFINE pending == PendingOf(a)
             round == RoundOf(a)
  <2>3. /\ \A b \in Nat : Owns(d, b) => b = a
        /\ Opened(d, round)
        /\ \A c \in 1..MaxRound : Known(d, c) => c <= round
        /\ \A g \in ActiveGroups(d) : groups[g].stream => groups[g].round = round
        /\ \A i \in DOMAIN pending : groups[pending[i]].members \subseteq active[d]
    BY <2>1 DEF OneOwner
  <2>4. \A i \in DOMAIN pending : pending[i] \in GroupsOf(d)
    BY <1>1, <1>3, <2>1
  <2>5. \A i \in DOMAIN pending : groups'[pending[i]].members \subseteq active'[d]
    <3>1. CASE active[d] \subseteq active'[d]
      BY <2>3, <2>4, <3>1 DEF SameGroups
    <3>2. CASE pending = <<>>
      BY <3>2
    <3> QED
      BY <2>1, <3>1, <3>2
  <2>6. Opened(d, round)'
    <3> HIDE DEF round
    <3> QED
      BY <1>1, <2>3, <2>2 DEF round
  <2>7. \A g \in ActiveGroups(d)' : groups'[g].stream => groups'[g].round = round
    BY <1>1, <2>3 DEF SameGroups
  <2> QED
    BY <2>1, <2>2, <2>3, <2>5, <2>6, <2>7
<1>7. BatchesApart(d)'
  BY <1>3 DEF BatchesApart
<1> QED
  BY <1>4, <1>6, <1>7
-----------------------------------------------------------------------------
(* Linking a group.                                                        *)

(***************************************************************************)
(* Who may link a group owns the debate, or is about to: nobody else does, *)
(* its round is the last one, and no group of another round can be used.   *)
(* A first group can be linked only if its round is not open: otherwise    *)
(* the name of its channel is taken, by the first group of that round.     *)
(***************************************************************************)
LEMMA LinkerIsOwner ==
    ASSUME EngineInv, RoundsInv, NEW d \in Debates, NEW a \in Nat, Works(d, a),
           PendingOf(a) # <<>>, ~StreamTaken(Head(PendingOf(a)))
    PROVE  /\ Head(PendingOf(a)) = PendingOf(a)[1]
           /\ Head(PendingOf(a)) \in GroupsOf(d)
           /\ groups[Head(PendingOf(a))].round = RoundOf(a)
           /\ \A b \in Nat : Owns(d, b) => b = a
           /\ \A c \in 1..MaxRound : Known(d, c) => c <= RoundOf(a)
           /\ \A c \in 1..RoundOf(a) - 1 : Opened(d, c)
           /\ \A g \in ActiveGroups(d) :
                groups[g].stream => groups[g].round = RoundOf(a)
           /\ \A i \in DOMAIN PendingOf(a) :
                groups[PendingOf(a)[i]].members \subseteq active[d]
           /\ ~Opening(d)
<1> DEFINE batch == PendingOf(a)
           x == Head(batch)
           round == RoundOf(a)
<1>1. /\ round \in 1..MaxRound
      /\ Known(d, round)
      /\ batch \in Seq(Nat)
      /\ InOrder(groups, batch)
  BY WorkerTypes
<1>2. x = batch[1] /\ 1 \in DOMAIN batch
  BY <1>1
<1>3. \A i \in DOMAIN batch : batch[i] \in GroupsOf(d) /\ groups[batch[i]].round = round
  BY DEF RoundsInv, WorkersOk, OwnBatch
<1>4. x \in GroupsOf(d) /\ groups[x].round = round
  BY <1>2, <1>3
<1>5. \A c \in 1..round - 1 : Opened(d, c)
  <2> HIDE DEF round
  <2> QED
    BY <1>1 DEF RoundsInv, TableOk, EarlierOpened
<1> HIDE DEF batch, x, round
<1>6. /\ \A b \in Nat : Owns(d, b) => b = a
      /\ \A c \in 1..MaxRound : Known(d, c) => c <= round
      /\ \A g \in ActiveGroups(d) : groups[g].stream => groups[g].round = round
      /\ \A i \in DOMAIN batch : groups[batch[i]].members \subseteq active[d]
  <2>1. CASE Owns(d, a)
    BY <2>1 DEF RoundsInv, WorkersOk, OneOwner, round, batch
  <2>2. CASE ~Owns(d, a)
    <3>1. ~groups[First(groups, x)].stream /\ First(groups, x) = x
      BY <1>1, <1>2, <2>2 DEF Owns, Live, InOrder, batch
    <3>2. ~Opened(d, round)
      <4> SUFFICES ASSUME NEW g \in GroupsOf(d), groups[g].stream, groups[g].round = round
                   PROVE  FALSE
        BY DEF Opened
      <4> DEFINE f == First(groups, g)
      <4>1. /\ f \in DOMAIN groups
            /\ groups[f].stream
            /\ groups[f].number = 1
            /\ groups[f].debat = d
            /\ groups[f].round = round
        BY DEF EngineInv, GroupsInv, Numbered, GroupsOf, GroupIds
      <4>2. groups[x].number = 1 /\ groups[x].debat = d
        BY <1>4, <3>1 DEF EngineInv, GroupsInv, Numbered, GroupsOf, GroupIds
      <4>3. GroupName(groups[f]) = GroupName(groups[x])
        BY <1>4, <4>1, <4>2 DEF GroupName
      <4>4. f # x
        BY <3>1, <4>1
      <4> QED
        BY <4>1, <4>3, <4>4 DEF StreamTaken, GroupIds, x, batch
    <3>3. \A c \in 1..MaxRound : Known(d, c) => c <= round
      <4> SUFFICES ASSUME NEW c \in 1..MaxRound, Known(d, c), c > round
                   PROVE  FALSE
        BY <1>1
      <4>1. round \in 1..c - 1
        BY <1>1
      <4> QED
        BY <3>2, <4>1 DEF RoundsInv, TableOk, EarlierOpened
    <3>4. \A b \in Nat : ~Owns(d, b)
      <4> SUFFICES ASSUME NEW b \in Nat, Owns(d, b) PROVE FALSE
        OBVIOUS
      <4> DEFINE last == RoundOf(b)
      <4>1. last \in 1..MaxRound /\ Known(d, last)
        BY WorkerTypes DEF Owns
      <4>2. Opened(d, last) /\ round <= last
        BY <1>1 DEF RoundsInv, WorkersOk, OneOwner
      <4> HIDE DEF last
      <4>3. last = round
        BY <1>1, <3>3, <4>1, <4>2
      <4> QED
        BY <3>2, <4>2, <4>3
    <3>5. \A g \in ActiveGroups(d) : ~groups[g].stream
      BY <1>1, <3>2 DEF RoundsInv, TableOk, ClosedBetween, Closed
    <3>6. \A i \in DOMAIN batch : groups[batch[i]].members \subseteq active[d]
      BY <1>3, <3>2 DEF RoundsInv, TableOk, UnopenedAlive
    <3> QED
      BY <3>3, <3>4, <3>5, <3>6
  <2> QED
    BY <2>1, <2>2
<1>7. ~Opening(d)
  <2> SUFFICES ASSUME NEW t \in ThreadIds,
                      threads[t].debat = d, threads[t].pc = "open"
               PROVE  FALSE
    BY DEF Opening
  <2>1. t \in Nat /\ t # 0 /\ Pending(threads[t]) = <<>> /\ PendingOf(t) = <<>>
    BY DEF EngineInv, EngineType, ThreadIds, Pending, PendingOf
  <2>2. Owns(d, t)
    BY <2>1 DEF Owns, Works, Busy, Live
  <2>3. t = a
    BY <1>6, <2>1, <2>2
  <2> QED
    BY <2>1, <2>3
<1> QED
  BY <1>2, <1>4, <1>5, <1>6, <1>7 DEF batch, x, round
(***************************************************************************)
(* A process works on one debate.                                          *)
(***************************************************************************)
LEMMA OneDebate ==
    ASSUME EngineInv, NEW d, NEW e, NEW a \in Nat, Works(d, a), Works(e, a)
    PROVE  d = e
<1>1. 0 \notin ThreadIds
  BY DEF EngineInv, EngineType, ThreadIds
<1> QED
  BY <1>1 DEF Works

(***************************************************************************)
(* Linking the next group of a process leaves it the one owner.            *)
(***************************************************************************)
LEMMA LinkRounds ==
    ASSUME EngineInv, RoundsInv, NEW e \in Debates, NEW a \in Nat, Works(e, a),
           PendingOf(a) # <<>>, ~StreamTaken(Head(PendingOf(a))),
           groups' = [groups EXCEPT ![Head(PendingOf(a))].stream = TRUE],
           UNCHANGED active,
           \A d \in Debates : /\ \A c \in 1..MaxRound : Known(d, c)' => Known(d, c)
                              /\ Opening(d)' => Opening(d),
           \A d \in Debates, b \in Nat : Works(d, b)' =>
             /\ Works(d, b)
             /\ RoundOf(b)' = RoundOf(b)
             /\ PendingOf(b)' = IF b = a THEN Tail(PendingOf(a)) ELSE PendingOf(b)
    PROVE  RoundsInv'
<1> DEFINE batch == PendingOf(a)
           x == Head(batch)
<1>0. PICK round \in 1..MaxRound : round = RoundOf(a) /\ Known(e, RoundOf(a))
  BY WorkerTypes
<1>1. /\ x = batch[1]
      /\ x \in GroupsOf(e)
      /\ groups[x].round = round
      /\ \A b \in Nat : Owns(e, b) => b = a
      /\ \A c \in 1..MaxRound : Known(e, c) => c <= round
      /\ \A c \in 1..round - 1 : Opened(e, c)
      /\ \A g \in ActiveGroups(e) : groups[g].stream => groups[g].round = round
      /\ \A i \in DOMAIN batch : groups[batch[i]].members \subseteq active[e]
      /\ ~Opening(e)
  BY <1>0, LinkerIsOwner
<1>2. batch \in Seq(Nat) /\ batch # <<>>
  BY WorkerTypes
<1>3. groups' = [groups EXCEPT ![x].stream = TRUE]
  OBVIOUS
<1>4. \A b \in Nat : Works(e, b)' =>
         /\ Works(e, b)
         /\ RoundOf(b)' = RoundOf(b)
         /\ PendingOf(b)' = IF b = a THEN Tail(batch) ELSE PendingOf(b)
  OBVIOUS
<1>5. x \in DOMAIN groups /\ \A g \in DOMAIN groups : groups[g] \in Group
  BY <1>1 DEF EngineInv, EngineType, GroupsOf, GroupIds
<1> HIDE DEF batch, x
<1>6. /\ DOMAIN groups' = DOMAIN groups
      /\ groups'[x].stream
      /\ \A g \in DOMAIN groups : /\ g # x => groups'[g] = groups[g]
                                  /\ groups'[g].debat = groups[g].debat
                                  /\ groups'[g].round = groups[g].round
                                  /\ groups'[g].number = groups[g].number
                                  /\ groups'[g].members = groups[g].members
                                  /\ groups'[g].archived = groups[g].archived
  BY <1>3, <1>5 DEF Group
<1>7. \A d \in Debates : GroupsOf(d)' = GroupsOf(d) /\ ActiveGroups(d)' = ActiveGroups(d)
  BY <1>6 DEF GroupsOf, ActiveGroups, GroupIds
<1>8. ASSUME NEW d \in Debates, d # e
      PROVE  TableOk(d)' /\ WorkersOk(d)'
  <2>0. x \notin GroupsOf(d) /\ GroupsOf(d) \subseteq DOMAIN groups
    BY <1>1, <1>8 DEF GroupsOf, GroupIds
  <2>1. SameGroups(d)
    BY <1>6, <1>7, <2>0 DEF SameGroups
  <2>2. \A b \in Nat : Works(d, b)' => /\ Works(d, b)
                                       /\ RoundOf(b)' = RoundOf(b)
                                       /\ PendingOf(b)' = PendingOf(b)
    BY <1>8, OneDebate
  <2>3. TableOk(d) /\ WorkersOk(d)
    BY DEF RoundsInv
  <2>4. TableOk(d)'
    BY <2>1, <2>3, QuietTable DEF EngineInv, EngineType
  <2>5. WorkersOk(d)'
    BY <2>1, <2>2, <2>3, QuietWorkers
  <2> QED
    BY <2>4, <2>5
<1>9. \A c : Opened(e, c)' <=> (Opened(e, c) \/ c = round)
  <2>1. GroupsOf(e)' = GroupsOf(e) /\ GroupsOf(e) \subseteq DOMAIN groups
    BY <1>7 DEF GroupsOf, GroupIds
  <2>2. /\ x \in GroupsOf(e)
        /\ groups'[x].stream /\ groups'[x].round = round
        /\ \A g \in GroupsOf(e) : g # x => groups'[g] = groups[g]
        /\ groups[x].round = round
    BY <1>1, <1>5, <1>6, <2>1
  <2> QED
    BY <2>1, <2>2 DEF Opened
<1>10. TableOk(e)'
  <2> USE DEF RoundsInv, TableOk
  <2>1. EarlierOpened(e)'
    BY <1>9 DEF EarlierOpened
  <2>2. ClosedBetween(e)'
    <3>1. \A c \in 1..MaxRound : Known(e, c)' => c = round \/ c \in 1..round - 1
      BY <1>1, <1>2
    <3> QED
      BY <1>1, <1>9, <3>1 DEF ClosedBetween
  <2>3. UnopenedAlive(e)'
    BY <1>6, <1>7, <1>9 DEF UnopenedAlive, GroupsOf, GroupIds
  <2>4. ClosedForOpening(e)'
    BY <1>1 DEF ClosedForOpening
  <2> QED
    BY <2>1, <2>2, <2>3, <2>4
<1>11. \A i \in DOMAIN Tail(batch) : i + 1 \in DOMAIN batch /\ Tail(batch)[i] = batch[i + 1]
  BY <1>2
<1>12. \A b \in Nat : Works(e, b) =>
          /\ PendingOf(b) \in Seq(Nat)
          /\ InOrder(groups, PendingOf(b))
          /\ \A i \in DOMAIN PendingOf(b) :
               /\ PendingOf(b)[i] \in GroupsOf(e)
               /\ groups[PendingOf(b)[i]].round = RoundOf(b)
  BY WorkerTypes DEF RoundsInv, WorkersOk, OwnBatch
<1>13. OwnBatch(e)'
  <2> SUFFICES ASSUME NEW b \in Nat, Works(e, b)', NEW i \in DOMAIN PendingOf(b)'
               PROVE  /\ PendingOf(b)'[i] \in GroupsOf(e)
                      /\ groups'[PendingOf(b)'[i]].round = RoundOf(b)
    BY <1>4, <1>7 DEF OwnBatch
  <2>1. \E j \in DOMAIN PendingOf(b) : PendingOf(b)'[i] = PendingOf(b)[j]
    BY <1>4, <1>11 DEF batch
  <2> QED
    BY <2>1, <1>4, <1>6, <1>12 DEF GroupsOf, GroupIds
<1>14. BatchesApart(e)'
  <2>1. \A b \in Nat : Works(e, b)' =>
           \A i \in DOMAIN PendingOf(b)' :
             \E j \in DOMAIN PendingOf(b) : PendingOf(b)'[i] = PendingOf(b)[j]
    BY <1>4, <1>11 DEF batch
  <2>2. BatchesApart(e)
    BY DEF RoundsInv, WorkersOk
  <2> QED
    BY <1>4, <2>1, <2>2 DEF BatchesApart
<1>15. OneOwner(e)'
  <2>1. ASSUME NEW b \in Nat, Owns(e, b)', b # a
        PROVE  FALSE
    <3> DEFINE other == PendingOf(b)
               f == First(groups, other[1])
    <3>1. Works(e, b) /\ PendingOf(b)' = other
      BY <1>4, <2>1 DEF Owns
    <3>2. other # <<>> /\ ~groups[f].stream
      BY <1>1, <2>1, <3>1 DEF Owns, Live
    <3>3. other \in Seq(Nat) /\ 1 \in DOMAIN other /\ other[1] \in DOMAIN groups
      BY <1>12, <3>1, <3>2 DEF GroupsOf, GroupIds
    <3>4. f = other[1]
      BY <1>12, <3>1, <3>2, <3>3 DEF InOrder
    <3>5. Live(groups', other)
      BY <2>1, <3>1 DEF Owns
    <3>6. groups'[f].stream
      BY <1>6, <3>2, <3>3, <3>5 DEF Live, First
    <3>7. f = x
      BY ZenonT(60), <1>6, <3>2, <3>3, <3>4, <3>6
    <3>8. 1 \in DOMAIN batch /\ x = batch[1]
      BY <1>1, <1>2
    <3>9. BatchesApart(e)
      BY DEF RoundsInv, WorkersOk
    <3> QED
      BY <2>1, <3>1, <3>3, <3>4, <3>7, <3>8, <3>9 DEF BatchesApart, batch
  <2>2. \A g \in ActiveGroups(e)' : groups'[g].stream => groups'[g].round = round
    <3>1. /\ ActiveGroups(e)' = ActiveGroups(e)
          /\ ActiveGroups(e) \subseteq DOMAIN groups
      BY <1>7 DEF ActiveGroups, GroupsOf, GroupIds
    <3> SUFFICES ASSUME NEW g \in ActiveGroups(e), groups'[g].stream
                 PROVE  groups'[g].round = round
      BY <3>1
    <3>2. CASE g = x
      BY <3>2, <1>1, <1>5, <1>6
    <3>3. CASE g # x
      <4>1. groups'[g] = groups[g]
        BY <3>1, <3>3, <1>6
      <4> QED
        BY <4>1, <1>1
    <3> QED
      BY <3>2, <3>3
  <2>3. \A i \in DOMAIN Tail(batch) : groups'[Tail(batch)[i]].members \subseteq active[e]
    BY <1>1, <1>6, <1>11, <1>12 DEF batch, GroupsOf, GroupIds
  <2>4. Opened(e, round)'
    BY <1>9
  <2> SUFFICES ASSUME Owns(e, a)'
               PROVE  /\ Opened(e, RoundOf(a))'
                      /\ \A c \in 1..MaxRound : Known(e, c)' => c <= RoundOf(a)'
                      /\ \A g \in ActiveGroups(e)' :
                           groups'[g].stream => groups'[g].round = RoundOf(a)'
                      /\ \A i \in DOMAIN PendingOf(a)' :
                           groups'[PendingOf(a)'[i]].members \subseteq active'[e]
    BY <2>1 DEF OneOwner
  <2>5. RoundOf(a)' = round /\ PendingOf(a)' = Tail(batch)
    BY <1>0, <1>4 DEF Owns
  <2> QED
    BY <1>1, <2>2, <2>3, <2>4, <2>5
<1> QED
  BY <1>8, <1>10, <1>13, <1>14, <1>15 DEF RoundsInv, WorkersOk
-----------------------------------------------------------------------------
(* Dividing the participants.                                              *)

(***************************************************************************)
(* More participants than fit in a group make a group at least.            *)
(***************************************************************************)
LEMMA SomeGroups ==
    ASSUME NEW n \in Nat, NEW m \in Nat \ {0}, n > m
    PROVE  NumGroups(n, m) \in Nat /\ NumGroups(n, m) # 0
<1>1. n + m - 1 \in Nat /\ n + m - 1 >= m
  OBVIOUS
<1>2. \A a \in Nat : a >= m => a \div m \in Nat /\ a \div m # 0
  OBVIOUS
<1> QED
  BY <1>1, <1>2 DEF NumGroups

(***************************************************************************)
(* split_into_group_db creates one group at least, of the users it is      *)
(* given.                                                                  *)
(***************************************************************************)
LEMMA BatchesAmong ==
    ASSUME NEW d \in Debates, NEW round \in 1..MaxRound,
           NEW users \in SUBSET Users, NEW limit \in Limits,
           NEW batch \in Batches(d, round, users, limit)
    PROVE  /\ batch # <<>>
           /\ \A i \in DOMAIN batch : batch[i].members \subseteq users
<1> DEFINE group(i, members) ==
             [debat |-> d, round |-> round, number |-> i, members |-> members,
              stream |-> FALSE, archived |-> FALSE]
           n == Cardinality(users)
           k == NumGroups(n, limit)
<1>1. n \in Nat /\ limit \in Nat \ {0}
  BY ConstantTypes
<1>2. CASE batch = <<group(1, {})>>
  BY <1>2
<1>3. CASE n > limit /\ \E division \in Divisions(users, limit) :
             batch = [i \in DOMAIN division |-> group(i, division[i])]
  <2>1. PICK division \in Divisions(users, limit) :
               batch = [i \in DOMAIN division |-> group(i, division[i])]
    BY <1>3
  <2>2. PICK a \in [users -> 1..k] :
               division = [i \in 1..k |-> {u \in users : a[u] = i}]
    BY <2>1 DEF Divisions
  <2>3. batch = [i \in 1..k |-> group(i, {u \in users : a[u] = i})]
    BY <2>1, <2>2
  <2>4. k \in Nat /\ k # 0
    <3> HIDE DEF n
    <3> QED
      BY <1>1, <1>3, SomeGroups
  <2> HIDE DEF k
  <2>5. 1 \in DOMAIN batch
    BY <2>3, <2>4
  <2> QED
    BY <2>3, <2>5
<1> QED
  BY <1>1, <1>2, <1>3 DEF Batches

(***************************************************************************)
(* A batch is divided either for a round that is known already, or by the  *)
(* owner of the debate, for the round after its own.  No group of it can   *)
(* be used yet, so nobody owns the debate by it.                           *)
(***************************************************************************)
LEMMA AppendRounds ==
    ASSUME EngineInv, RoundsInv, NEW e \in Debates, NEW a \in Nat,
           NEW round \in 1..MaxRound, NEW batch, IsBatch(batch, e, round),
           batch # <<>>,
           \A i \in DOMAIN batch : batch[i].members \subseteq active[e],
           groups' = groups \o batch,
           UNCHANGED active,
           \A d \in Debates :
             /\ \A c \in 1..MaxRound :
                  Known(d, c)' => Known(d, c) \/ (d = e /\ c = round)
             /\ Opening(d)' => Opening(d),
           \A d \in Debates, b \in Nat : Works(d, b)' =>
             \/ /\ b # a
                /\ Works(d, b)
                /\ RoundOf(b)' = RoundOf(b)
                /\ PendingOf(b)' = PendingOf(b)
             \/ /\ b = a /\ d = e
                /\ RoundOf(b)' = round
                /\ PendingOf(b)' = IdsOf(batch),
           \/ Known(e, round)
           \/ /\ \A c \in 1..round - 1 : Opened(e, c)
              /\ Closed(e)
              /\ \A b \in Nat : Owns(e, b) => b = a
    PROVE  RoundsInv'
<1>1. /\ batch \in Seq(Group) /\ Len(batch) \in Nat
      /\ groups \in Seq(Group) /\ Len(groups) \in Nat
      /\ \A i \in DOMAIN batch : batch[i].debat = e /\ batch[i].round = round
                                 /\ batch[i].number = i /\ ~batch[i].stream
  BY DEF IsBatch, EngineInv, EngineType
<1>2. /\ DOMAIN groups = 1..Len(groups)
      /\ DOMAIN batch = 1..Len(batch)
      /\ DOMAIN groups' = 1..(Len(groups) + Len(batch))
  BY <1>1
<1>3. \A g \in DOMAIN groups : g \in DOMAIN groups' /\ groups'[g] = groups[g]
  BY <1>1, <1>2
<1>4. \A g \in DOMAIN groups' \ DOMAIN groups :
         /\ g - Len(groups) \in DOMAIN batch
         /\ groups'[g] = batch[g - Len(groups)]
  BY <1>1, <1>2
<1>5. /\ \A g \in DOMAIN groups' \ DOMAIN groups :
            /\ groups'[g].debat = e
            /\ groups'[g].round = round
            /\ ~groups'[g].stream
            /\ groups'[g].members \subseteq active[e]
  BY <1>1, <1>4
<1>6. \A d \in Debates : /\ GroupsOf(d) \subseteq DOMAIN groups
                         /\ GroupsOf(d) \subseteq GroupsOf(d)'
                         /\ \A g \in GroupsOf(d)' :
                              g \in GroupsOf(d) \/ (d = e /\ g \notin DOMAIN groups)
                         /\ GroupsOf(d)' \subseteq DOMAIN groups'
  BY <1>3, <1>5 DEF GroupsOf, GroupIds
<1>7. \A d \in Debates : \A c : Opened(d, c)' <=> Opened(d, c)
  <2> SUFFICES ASSUME NEW d \in Debates, NEW c
               PROVE  Opened(d, c)' <=> Opened(d, c)
    OBVIOUS
  <2>1. Opened(d, c) => Opened(d, c)'
    BY <1>3, <1>6 DEF Opened
  <2>2. \A g \in GroupsOf(d)' : groups'[g].stream => /\ g \in GroupsOf(d)
                                                     /\ groups'[g] = groups[g]
    BY <1>3, <1>5, <1>6
  <2> QED
    BY <2>1, <2>2 DEF Opened
<1>8. \A d \in Debates : Closed(d) => Closed(d)'
  <2> SUFFICES ASSUME NEW d \in Debates, Closed(d),
                      NEW g \in GroupsOf(d)', groups'[g].stream, ~groups'[g].archived
               PROVE  FALSE
    BY DEF Closed, ActiveGroups
  <2>1. g \in GroupsOf(d) /\ groups'[g] = groups[g]
    BY <1>3, <1>5, <1>6
  <2> QED
    BY <2>1 DEF Closed, ActiveGroups
<1>9. ASSUME NEW d \in Debates, d # e
      PROVE  TableOk(d)' /\ WorkersOk(d)'
  <2>1. SameGroups(d)
    <3>1. GroupsOf(d)' = GroupsOf(d)
      BY <1>6, <1>9
    <3> QED
      BY <3>1, <1>3, <1>6 DEF SameGroups
  <2>2. \A b \in Nat : Works(d, b)' => /\ Works(d, b)
                                       /\ RoundOf(b)' = RoundOf(b)
                                       /\ PendingOf(b)' = PendingOf(b)
    BY <1>9
  <2>3. TableOk(d) /\ WorkersOk(d)
    BY DEF RoundsInv
  <2>4. \A c \in 1..MaxRound : Known(d, c)' => Known(d, c)
    BY <1>9
  <2>5. TableOk(d)'
    BY <1>1, <2>1, <2>3, <2>4, QuietTable
  <2>6. WorkersOk(d)'
    BY <2>1, <2>2, <2>3, <2>4, QuietWorkers
  <2> QED
    BY <2>5, <2>6
<1>10. TableOk(e)'
  <2> USE DEF RoundsInv, TableOk
  <2>1. EarlierOpened(e)'
    BY <1>7 DEF EarlierOpened
  <2>2. ClosedBetween(e)'
    BY <1>7, <1>8 DEF ClosedBetween
  <2>3. UnopenedAlive(e)'
    <3> SUFFICES ASSUME NEW g \in GroupsOf(e)', ~Opened(e, groups'[g].round)
                 PROVE  groups'[g].members \subseteq active[e]
      BY <1>7 DEF UnopenedAlive
    <3>1. CASE g \in GroupsOf(e)
      BY <3>1, <1>3, <1>6 DEF UnopenedAlive
    <3>2. CASE g \notin DOMAIN groups
      BY <3>2, <1>5, <1>6
    <3> QED
      BY <3>1, <3>2, <1>6
  <2>4. ClosedForOpening(e)'
    BY <1>8 DEF ClosedForOpening
  <2> QED
    BY <2>1, <2>2, <2>3, <2>4
<1>11. /\ \A i \in DOMAIN IdsOf(batch) : /\ IdsOf(batch)[i] \in GroupsOf(e)'
                                         /\ IdsOf(batch)[i] \notin DOMAIN groups
                                         /\ groups'[IdsOf(batch)[i]].round = round
       /\ IdsOf(batch) # <<>>
       /\ ~groups'[First(groups', IdsOf(batch)[1])].stream
  <2>1. /\ DOMAIN IdsOf(batch) = DOMAIN batch
        /\ \A i \in DOMAIN batch : IdsOf(batch)[i] = Len(groups) + i
    BY <1>1 DEF IdsOf
  <2>2. 1 \in DOMAIN batch
    BY <1>1
  <2>3. \A i \in DOMAIN batch : /\ Len(groups) + i \in DOMAIN groups' \ DOMAIN groups
                                /\ groups'[Len(groups) + i] = batch[i]
    BY <1>1, <1>2
  <2>4. \A i \in DOMAIN batch : Len(groups) + i \in GroupsOf(e)'
    BY <1>1, <2>3 DEF GroupsOf, GroupIds
  <2>5. First(groups', Len(groups) + 1) = Len(groups) + 1
    BY <1>1, <2>2, <2>3 DEF First
  <2>6. IdsOf(batch) # <<>> /\ IdsOf(batch)[1] = Len(groups) + 1
    BY <2>1, <2>2
  <2> QED
    BY <1>1, <2>1, <2>2, <2>3, <2>4, <2>5, <2>6
<1>12. \A b \in Nat : Works(e, b) =>
          /\ PendingOf(b) \in Seq(Nat)
          /\ \A i \in DOMAIN PendingOf(b) :
               /\ PendingOf(b)[i] \in GroupsOf(e)
               /\ groups[PendingOf(b)[i]].round = RoundOf(b)
  BY WorkerTypes DEF RoundsInv, WorkersOk, OwnBatch
<1>13. \A b \in Nat : Works(e, b)' =>
         \/ /\ b # a
            /\ Works(e, b)
            /\ RoundOf(b)' = RoundOf(b)
            /\ PendingOf(b)' = PendingOf(b)
         \/ /\ b = a
            /\ RoundOf(b)' = round
            /\ PendingOf(b)' = IdsOf(batch)
  OBVIOUS
<1>14. OwnBatch(e)'
  <2> SUFFICES ASSUME NEW b \in Nat, Works(e, b)', NEW i \in DOMAIN PendingOf(b)'
               PROVE  /\ PendingOf(b)'[i] \in GroupsOf(e)'
                      /\ groups'[PendingOf(b)'[i]].round = RoundOf(b)'
    BY DEF OwnBatch
  <2>1. CASE b = a
    BY <2>1, <1>11, <1>13
  <2>2. CASE b # a
    BY <2>2, <1>3, <1>6, <1>12, <1>13
  <2> QED
    BY <2>1, <2>2
<1>15. BatchesApart(e)'
  <2>1. \A b \in Nat : Works(e, b)' /\ b # a =>
           /\ Works(e, b)
           /\ PendingOf(b)' = PendingOf(b)
           /\ \A i \in DOMAIN PendingOf(b) : PendingOf(b)[i] \in DOMAIN groups
    BY <1>6, <1>12, <1>13
  <2>2. Works(e, a)' => \A i \in DOMAIN PendingOf(a)' : PendingOf(a)'[i] \notin DOMAIN groups
    BY <1>11, <1>13
  <2>3. BatchesApart(e)
    BY DEF RoundsInv, WorkersOk
  <2> SUFFICES ASSUME NEW b \in Nat, NEW o \in Nat, b # o, Works(e, b)', Works(e, o)',
                      NEW i \in DOMAIN PendingOf(b)', NEW j \in DOMAIN PendingOf(o)'
               PROVE  PendingOf(b)'[i] # PendingOf(o)'[j]
    BY DEF BatchesApart
  <2>4. CASE b # a /\ o # a
    BY <2>1, <2>3, <2>4 DEF BatchesApart
  <2>5. CASE b = a \/ o = a
    BY <2>1, <2>2, <2>5
  <2> QED
    BY <2>4, <2>5
<1>16. OneOwner(e)'
  <2>1. ASSUME NEW b \in Nat, Owns(e, b)'
        PROVE  /\ b # a
               /\ Owns(e, b)
               /\ RoundOf(b)' = RoundOf(b)
               /\ PendingOf(b)' = PendingOf(b)
    <3>1. Works(e, b)' /\ Live(groups', PendingOf(b)')
      BY <2>1 DEF Owns
    <3>2. b # a
      BY <1>11, <1>13, <3>1 DEF Live
    <3>3. Works(e, b) /\ RoundOf(b)' = RoundOf(b) /\ PendingOf(b)' = PendingOf(b)
      BY <1>13, <3>1, <3>2
    <3> DEFINE pending == PendingOf(b)
    <3>4. /\ pending \in Seq(Nat)
          /\ \A i \in DOMAIN pending : pending[i] \in DOMAIN groups
      BY <1>6, <1>12, <3>3
    <3>5. Live(groups', pending)
      BY <3>1, <3>3
    <3> HIDE DEF pending
    <3>6. Live(groups, pending)
      <4>1. pending = <<>> \/ pending[1] \in DOMAIN groups
        BY <3>4
      <4>2. \A g \in DOMAIN groups : /\ First(groups', g) = First(groups, g)
                                     /\ First(groups, g) \in DOMAIN groups
        BY <1>3 DEF First, EngineInv, GroupsInv, Numbered
      <4> QED
        BY <1>3, <3>5, <4>1, <4>2 DEF Live
    <3> QED
      BY <3>2, <3>3, <3>6 DEF Owns, pending
  <2> SUFFICES ASSUME NEW b \in Nat, Owns(e, b)'
               PROVE  /\ \A o \in Nat : Owns(e, o)' => o = b
                      /\ Opened(e, RoundOf(b))'
                      /\ \A c \in 1..MaxRound : Known(e, c)' => c <= RoundOf(b)'
                      /\ \A g \in ActiveGroups(e)' :
                           groups'[g].stream => groups'[g].round = RoundOf(b)'
                      /\ \A i \in DOMAIN PendingOf(b)' :
                           groups'[PendingOf(b)'[i]].members \subseteq active'[e]
    BY DEF OneOwner
  <2>2. /\ b # a
        /\ Owns(e, b)
        /\ RoundOf(b)' = RoundOf(b)
        /\ PendingOf(b)' = PendingOf(b)
        /\ Works(e, b)
    BY <2>1 DEF Owns
  <2>3. PICK last \in 1..MaxRound : last = RoundOf(b)
    BY <2>2, WorkerTypes
  <2>4. /\ \A o \in Nat : Owns(e, o) => o = b
        /\ Opened(e, last)
        /\ \A c \in 1..MaxRound : Known(e, c) => c <= last
        /\ \A g \in ActiveGroups(e) : groups[g].stream => groups[g].round = last
        /\ \A i \in DOMAIN PendingOf(b) : groups[PendingOf(b)[i]].members \subseteq active[e]
    BY <2>2, <2>3 DEF RoundsInv, WorkersOk, OneOwner
  <2>5. \A o \in Nat : Owns(e, o)' => o = b
    BY <2>1, <2>4
  <2>6. Opened(e, last)'
    BY <1>7, <2>4
  <2>7. \A c \in 1..MaxRound : Known(e, c)' => c <= last
    BY <2>2, <2>4
  <2>8. \A g \in ActiveGroups(e)' : groups'[g].stream => groups'[g].round = last
    <3> SUFFICES ASSUME NEW g \in GroupsOf(e)', ~groups'[g].archived, groups'[g].stream
                 PROVE  groups'[g].round = last
      BY DEF ActiveGroups
    <3>1. g \in GroupsOf(e) /\ groups'[g] = groups[g]
      BY <1>3, <1>5, <1>6
    <3> QED
      BY <2>4, <3>1 DEF ActiveGroups
  <2>9. \A i \in DOMAIN PendingOf(b) : groups'[PendingOf(b)[i]].members \subseteq active[e]
    BY <1>3, <1>6, <1>12, <2>2, <2>4
  <2> QED
    BY <2>2, <2>3, <2>5, <2>6, <2>7, <2>8, <2>9
<1> QED
  BY <1>9, <1>10, <1>14, <1>15, <1>16 DEF RoundsInv, WorkersOk
(***************************************************************************)
(* The groups that a batch adds are those of its debate and round.         *)
(***************************************************************************)
LEMMA AppendedGroups ==
    ASSUME groups \in Seq(Group), NEW d, NEW round, NEW batch,
           IsBatch(batch, d, round), groups' = groups \o batch
    PROVE  \A o \in Debates : \A g \in GroupsOf(o)' :
             \/ g \in GroupsOf(o) /\ groups'[g].round = groups[g].round
             \/ o = d /\ groups'[g].round = round
<1>1. /\ batch \in Seq(Group)
      /\ \A i \in DOMAIN batch : batch[i].debat = d /\ batch[i].round = round
  BY DEF IsBatch
<1>2. \A g \in DOMAIN groups' : \/ g \in DOMAIN groups /\ groups'[g] = groups[g]
                                \/ groups'[g].debat = d /\ groups'[g].round = round
  BY <1>1
<1> QED
  BY <1>2 DEF GroupsOf, GroupIds

-----------------------------------------------------------------------------
(* The steps of a thread.                                                  *)

(***************************************************************************)
(* A thread's step leaves the other processes where they were.             *)
(***************************************************************************)
LEMMA ThreadWorks ==
    ASSUME EngineInv, NEW t \in ThreadIds, NEW new \in Thread,
           threads' = [threads EXCEPT ![t] = new], UNCHANGED main,
           new.debat = threads[t].debat
    PROVE  /\ \A d \in Debates, a \in Nat : Works(d, a)' =>
                \/ /\ a # t
                   /\ Works(d, a)
                   /\ RoundOf(a)' = RoundOf(a)
                   /\ PendingOf(a)' = PendingOf(a)
                \/ /\ a = t /\ d = threads[t].debat /\ Busy(new)
                   /\ RoundOf(a)' = new.obj.round
                   /\ PendingOf(a)' = Pending(new)
           /\ \A d : Opening(d)' =>
                Opening(d) \/ (d = threads[t].debat /\ new.pc = "open")
           /\ t \in Nat /\ t # 0
<1>1. threads \in Seq(Thread) /\ t \in Nat /\ t # 0 /\ 0 \notin ThreadIds
  BY DEF EngineInv, EngineType, ThreadIds
<1>2. /\ DOMAIN threads' = ThreadIds
      /\ threads'[t] = new
      /\ \A o \in ThreadIds : o # t => threads'[o] = threads[o]
  BY <1>1, ThreadStep DEF ThreadIds
<1>3. ASSUME NEW d \in Debates, NEW a \in Nat, Works(d, a)'
      PROVE  \/ /\ a # t
                /\ Works(d, a)
                /\ RoundOf(a)' = RoundOf(a)
                /\ PendingOf(a)' = PendingOf(a)
             \/ /\ a = t /\ d = threads[t].debat /\ Busy(new)
                /\ RoundOf(a)' = new.obj.round
                /\ PendingOf(a)' = Pending(new)
  <2>1. CASE a = 0
    <3>1. main'.pc = "streams" /\ Visited'.debat = d
      BY <1>1, <1>2, <1>3, <2>1 DEF Works, ThreadIds
    <3>2. Visited' = Visited
      BY DEF Visited
    <3> QED
      BY <1>1, <2>1, <3>1, <3>2 DEF Works, RoundOf, PendingOf
  <2>2. CASE a # 0
    <3>1. a \in ThreadIds /\ threads'[a].debat = d /\ Busy(threads'[a])
      BY <1>2, <1>3, <2>2 DEF Works, ThreadIds
    <3>2. /\ RoundOf(a)' = threads'[a].obj.round
          /\ PendingOf(a)' = Pending(threads'[a])
          /\ RoundOf(a) = threads[a].obj.round
          /\ PendingOf(a) = Pending(threads[a])
      BY <2>2 DEF RoundOf, PendingOf
    <3> QED
      BY <1>2, <3>1, <3>2 DEF Works
  <2> QED
    BY <2>1, <2>2
<1>4. \A d : Opening(d)' => Opening(d) \/ (d = threads[t].debat /\ new.pc = "open")
  BY <1>2 DEF Opening, ThreadIds
<1> QED
  BY <1>1, <1>3, <1>4

(***************************************************************************)
(* What a thread's step makes known is the round of its own copy.          *)
(***************************************************************************)
LEMMA ThreadKnows ==
    ASSUME EngineInv, NEW t \in ThreadIds, NEW new \in Thread,
           threads' = [threads EXCEPT ![t] = new], UNCHANGED <<main, requests>>,
           new.debat = threads[t].debat,
           \A d \in Debates :
              \/ row'[d].round = row[d].round
              \/ d = new.debat /\ row'[d].round = new.obj.round,
           \A d \in Debates : \A g \in GroupsOf(d)' :
              \/ g \in GroupsOf(d) /\ groups'[g].round = groups[g].round
              \/ d = new.debat /\ groups'[g].round = new.obj.round
    PROVE  \A d \in Debates, c \in 1..MaxRound :
             Known(d, c)' => Known(d, c) \/ (d = new.debat /\ c = new.obj.round)
<1>1. threads \in Seq(Thread)
  BY DEF EngineInv, EngineType
<1>2. /\ DOMAIN threads' = ThreadIds
      /\ threads'[t] = new
      /\ \A o \in ThreadIds : o # t => threads'[o] = threads[o]
  BY <1>1, ThreadStep DEF ThreadIds
<1> SUFFICES ASSUME NEW d \in Debates, NEW c \in 1..MaxRound, Known(d, c)',
                    ~(d = new.debat /\ c = new.obj.round)
             PROVE  Known(d, c)
  OBVIOUS
<1>3. CASE row'[d].round = c
  BY <1>3 DEF Known
<1>4. CASE \E q \in requests' : q.debat = d /\ q.row.round = c
  BY <1>4 DEF Known
<1>5. CASE \E i \in DOMAIN main'.todo : main'.todo[i].debat = d /\ main'.todo[i].obj.round = c
  BY <1>5 DEF Known
<1>6. CASE \E o \in ThreadIds' : threads'[o].debat = d /\ threads'[o].obj.round = c
  BY <1>2, <1>6 DEF Known, ThreadIds
<1>7. CASE \E g \in GroupsOf(d)' : groups'[g].round = c
  BY <1>7 DEF Known
<1> QED
  BY <1>3, <1>4, <1>5, <1>6, <1>7 DEF Known

(***************************************************************************)
(* A thread that stays in its round, or ends, keeps the invariant.         *)
(***************************************************************************)
LEMMA QuietThread ==
    ASSUME EngineInv, RoundsInv, NEW t \in ThreadIds, NEW new \in Thread,
           threads' = [threads EXCEPT ![t] = new],
           UNCHANGED <<main, requests, groups, active>>,
           new.debat = threads[t].debat,
           new.obj.round = threads[t].obj.round,
           new.pc # "open",
           Busy(new) => Busy(threads[t]) /\ Pending(new) = Pending(threads[t]),
           \A d \in Debates :
              \/ row'[d].round = row[d].round
              \/ d = new.debat /\ row'[d].round = new.obj.round
    PROVE  RoundsInv'
<1>1. /\ \A d \in Debates, a \in Nat : Works(d, a)' =>
           \/ /\ a # t
              /\ Works(d, a)
              /\ RoundOf(a)' = RoundOf(a)
              /\ PendingOf(a)' = PendingOf(a)
           \/ /\ a = t /\ d = threads[t].debat /\ Busy(new)
              /\ RoundOf(a)' = new.obj.round
              /\ PendingOf(a)' = Pending(new)
      /\ \A d : Opening(d)' => Opening(d)
      /\ t \in Nat /\ t # 0
  BY ThreadWorks
<1>2. \A d \in Debates, a \in Nat : Works(d, a)' => /\ Works(d, a)
                                        /\ RoundOf(a)' = RoundOf(a)
                                        /\ PendingOf(a)' = PendingOf(a)
  BY <1>1 DEF Works, RoundOf, PendingOf
<1>3. \A d : GroupsOf(d)' = GroupsOf(d)
  BY DEF GroupsOf, GroupIds
<1>4. \A d \in Debates, c \in 1..MaxRound : Known(d, c)' => Known(d, c)
  <2>1. \A d \in Debates, c \in 1..MaxRound :
          Known(d, c)' => Known(d, c) \/ (d = new.debat /\ c = new.obj.round)
    BY <1>3, ThreadKnows
  <2>2. Known(threads[t].debat, threads[t].obj.round)
    BY DEF Known
  <2> QED
    BY <2>1, <2>2
<1>5. \A d \in Debates : SameGroups(d)
  BY <1>3 DEF SameGroups
<1> SUFFICES ASSUME NEW d \in Debates
             PROVE  TableOk(d)' /\ WorkersOk(d)'
  BY DEF RoundsInv
<1>6. TableOk(d) /\ WorkersOk(d) /\ groups \in Seq(Group)
  BY DEF RoundsInv, EngineInv, EngineType
<1>7. TableOk(d)'
  BY <1>1, <1>4, <1>5, <1>6, QuietTable
<1>8. active[d] \subseteq active'[d]
  OBVIOUS
<1>9. WorkersOk(d)'
  BY <1>2, <1>4, <1>5, <1>6, <1>8, QuietWorkers
<1> QED
  BY <1>7, <1>9
(***************************************************************************)
(* What Goto does to the thread.                                           *)
(***************************************************************************)
LEMMA GotoFields ==
    ASSUME EngineInv, NEW t \in ThreadIds,
           NEW pc \in {"sleep", "asking", "voting", "eliminate", "open",
                       "streams", "close", "done", "dead"},
           Goto(t, pc)
    PROVE  \E new \in Thread : /\ threads' = [threads EXCEPT ![t] = new]
                               /\ new.pc = pc
                               /\ new.debat = threads[t].debat
                               /\ new.obj = threads[t].obj
                               /\ new.batch = threads[t].batch
<1> DEFINE new == [threads[t] EXCEPT !.pc = pc]
<1>1. threads[t] \in Thread
  BY DEF EngineInv, EngineType, ThreadIds
<1>2. new \in Thread
  BY <1>1, ThreadUpdates
<1>3. /\ new.pc = pc
      /\ new.debat = threads[t].debat
      /\ new.obj = threads[t].obj
      /\ new.batch = threads[t].batch
  BY <1>1 DEF Thread
<1>4. threads' = [threads EXCEPT ![t] = new]
  BY DEF Goto
<1> HIDE DEF new
<1> QED
  BY <1>2, <1>3, <1>4

(***************************************************************************)
(* The votes, the ends and the failures of a thread.                       *)
(***************************************************************************)
LEMMA ThreadRounds ==
    ASSUME EngineInv, RoundsInv, NEW t \in ThreadIds,
           \/ Finish(t) \/ AskParticipants(t) \/ SendPolls(t) \/ SendPollsFails(t)
           \/ CountVotes(t) \/ CountVotesFails(t) \/ ThreadLinkFails(t)
           \/ RoundOpened(t) \/ Close(t)
    PROVE  RoundsInv'
<1> DEFINE d == threads[t].debat
<1>1. threads[t] \in Thread /\ d \in Debates /\ threads[t].obj \in Row /\ row[d] \in Row
  <2>1. threads[t] \in Thread
    BY DEF EngineInv, EngineType, ThreadIds
  <2> QED
    BY <2>1, ThreadFields DEF EngineInv, EngineType
<1> HIDE DEF d
<1>2. UNCHANGED <<main, requests, groups, active>>
  BY DEF Finish, AskParticipants, SendPolls, SendPollsFails, CountVotes,
         CountVotesFails, ThreadLinkFails, RoundOpened, Close, database
<1>3. \A o \in Debates : \/ row'[o].round = row[o].round
                         \/ o = d /\ row'[o].round = threads[t].obj.round
  <2>1. CASE AskParticipants(t)
    <3>1. row' = [row EXCEPT ![d].vote_phase = TRUE]
      BY <2>1 DEF AskParticipants, d
    <3> QED
      BY <1>1, <3>1 DEF EngineInv, EngineType, Row
  <2>2. CASE CountVotes(t)
    <3>1. row' = [row EXCEPT ![d].vote_phase = FALSE]
      BY <2>2 DEF CountVotes, d
    <3> QED
      BY <1>1, <3>1 DEF EngineInv, EngineType, Row
  <2>3. CASE Close(t)
    <3>1. row' = [row EXCEPT ![d] = [threads[t].obj EXCEPT !.archived = TRUE, !.step = 4]]
      BY <2>3 DEF Close, d
    <3> DEFINE obj == [threads[t].obj EXCEPT !.archived = TRUE, !.step = 4]
    <3>2. obj.round = threads[t].obj.round
      BY <1>1 DEF Row
    <3>3. row' = [row EXCEPT ![d] = obj]
      BY <3>1
    <3> HIDE DEF obj
    <3> QED
      BY <1>1, <3>2, <3>3 DEF EngineInv, EngineType
  <2>4. CASE UNCHANGED row
    BY <2>4
  <2> QED
    BY <2>1, <2>2, <2>3, <2>4 DEF Finish, SendPolls, SendPollsFails,
       CountVotesFails, ThreadLinkFails, RoundOpened, database
<1>4. \E new \in Thread :
         /\ threads' = [threads EXCEPT ![t] = new]
         /\ new.debat = d
         /\ new.obj = threads[t].obj
         /\ new.pc # "open"
         /\ Busy(new) => Busy(threads[t]) /\ Pending(new) = Pending(threads[t])
  <2>1. ASSUME NEW pc \in {"sleep", "close", "done", "dead"}, Goto(t, pc),
               pc = "sleep" => threads[t].pc = "streams" /\ threads[t].batch = <<>>
        PROVE  \E new \in Thread :
                 /\ threads' = [threads EXCEPT ![t] = new]
                 /\ new.debat = d
                 /\ new.obj = threads[t].obj
                 /\ new.pc # "open"
                 /\ Busy(new) => Busy(threads[t]) /\ Pending(new) = Pending(threads[t])
    <3>1. PICK new \in Thread : /\ threads' = [threads EXCEPT ![t] = new]
                                /\ new.pc = pc
                                /\ new.debat = d
                                /\ new.obj = threads[t].obj
                                /\ new.batch = threads[t].batch
      BY <2>1, GotoFields DEF d
    <3>2. Busy(new) => Busy(threads[t]) /\ Pending(new) = Pending(threads[t])
      BY <2>1, <3>1 DEF Busy, Pending
    <3> QED
      BY <2>1, <3>1, <3>2
  <2>2. CASE AskParticipants(t)
    <3> DEFINE new == [threads[t] EXCEPT !.pc = "asking", !.users = active[d]]
    <3>1. threads' = [threads EXCEPT ![t] = new] /\ threads[t].pc = "sleep"
      BY <2>2 DEF AskParticipants, d
    <3>2. new \in Thread
      BY <1>1, ThreadUpdates DEF EngineInv, EngineType
    <3>3. new.debat = d /\ new.obj = threads[t].obj /\ new.pc = "asking"
      BY <1>1 DEF Thread, d
    <3> HIDE DEF new
    <3>4. Busy(threads[t]) /\ Pending(new) = Pending(threads[t])
      BY <3>1, <3>3 DEF Busy, Pending
    <3> QED
      BY <3>1, <3>2, <3>3, <3>4
  <2>3. CASE SendPolls(t)
    <3> DEFINE polled == ActiveGroups(d)
               new == [threads[t] EXCEPT !.pc = "voting", !.polled = polled]
    <3>1. threads' = [threads EXCEPT ![t] = new] /\ threads[t].pc = "asking"
      BY <2>3 DEF SendPolls, d
    <3>2. polled \in SUBSET Nat
      BY DEF ActiveGroups, GroupsOf, GroupIds, EngineInv, EngineType
    <3> HIDE DEF polled
    <3>3. new \in Thread
      BY <1>1, <3>2, ThreadUpdates
    <3>4. new.debat = d /\ new.obj = threads[t].obj /\ new.pc = "voting"
      BY <1>1 DEF Thread, d
    <3> HIDE DEF new
    <3>5. Busy(threads[t]) /\ Pending(new) = Pending(threads[t])
      BY <3>1, <3>4 DEF Busy, Pending
    <3> QED
      BY <3>1, <3>3, <3>4, <3>5
  <2>4. CASE CountVotes(t)
    <3> DEFINE polled == ActiveGroups(d)
               limit == threads[t].obj.max_representant
    <3>1. /\ threads[t].pc = "voting"
          /\ \E elected \in Elections(polled, limit) :
               threads' = [threads EXCEPT ![t].pc = "eliminate", ![t].elected = elected]
      BY <2>4 DEF CountVotes, d
    <3>2. PICK elected \in Elections(polled, limit) :
            threads' = [threads EXCEPT ![t].pc = "eliminate", ![t].elected = elected]
      BY <3>1
    <3> DEFINE new == [threads[t] EXCEPT !.pc = "eliminate", !.elected = elected]
    <3>3. polled \in SUBSET DOMAIN groups
      BY DEF ActiveGroups, GroupsOf, GroupIds
    <3> HIDE DEF polled, limit
    <3>4. elected \in SUBSET Users
      BY <3>3, ElectionTypes DEF EngineInv
    <3>5. new \in Thread
      BY <1>1, <3>4, ThreadUpdates
    <3>6. new.debat = d /\ new.obj = threads[t].obj /\ new.pc = "eliminate"
      BY <1>1 DEF Thread, d
    <3>7. threads' = [threads EXCEPT ![t] = new]
      BY <3>2
    <3> HIDE DEF new
    <3>8. Busy(threads[t]) /\ Pending(new) = Pending(threads[t])
      BY <3>1, <3>6 DEF Busy, Pending
    <3> QED
      BY <3>5, <3>6, <3>7, <3>8
  <2>5. CASE \/ Finish(t) \/ SendPollsFails(t) \/ CountVotesFails(t)
             \/ ThreadLinkFails(t) \/ RoundOpened(t) \/ Close(t)
    <3>1. \E pc \in {"sleep", "close", "done", "dead"} :
             /\ Goto(t, pc)
             /\ pc = "sleep" => threads[t].pc = "streams" /\ threads[t].batch = <<>>
      BY <2>5 DEF Finish, SendPollsFails, CountVotesFails, ThreadLinkFails,
         RoundOpened, Close
    <3> QED
      BY <2>1, <3>1
  <2> QED
    BY <2>2, <2>3, <2>4, <2>5
<1>5. PICK new \in Thread :
         /\ threads' = [threads EXCEPT ![t] = new]
         /\ new.debat = d
         /\ new.obj = threads[t].obj
         /\ new.pc # "open"
         /\ Busy(new) => Busy(threads[t]) /\ Pending(new) = Pending(threads[t])
  BY <1>4
<1> QED
  BY <1>2, <1>3, <1>5, QuietThread DEF d
(***************************************************************************)
(* archive_all_groups changes no group otherwise, and closes its debates.  *)
(***************************************************************************)
LEMMA ArchiveRounds ==
    ASSUME groups \in Seq(Group), NEW debates, ArchiveGroups(debates)
    PROVE  /\ \A d \in Debates : SameGroups(d)
           /\ \A d \in debates : Closed(d)'
<1>1. /\ DOMAIN groups' = DOMAIN groups
      /\ \A g \in DOMAIN groups : /\ groups'[g].debat = groups[g].debat
                                  /\ groups'[g].round = groups[g].round
                                  /\ groups'[g].number = groups[g].number
                                  /\ groups'[g].members = groups[g].members
                                  /\ groups'[g].stream <=> groups[g].stream
                                  /\ groups[g].archived => groups'[g].archived
                                  /\ groups[g].debat \in debates /\ groups[g].stream
                                       => groups'[g].archived
  <2>1. \A g \in DOMAIN groups : groups[g] \in Group
    OBVIOUS
  <2> QED
    BY <2>1 DEF Group, ArchiveGroups, GroupIds
<1>2. \A d : GroupsOf(d)' = GroupsOf(d) /\ GroupsOf(d) \subseteq DOMAIN groups
  BY <1>1 DEF GroupsOf, GroupIds
<1>3. \A d \in Debates : SameGroups(d)
  BY <1>1, <1>2 DEF SameGroups
<1>4. \A d \in debates : Closed(d)'
  BY <1>1 DEF Closed, ActiveGroups, GroupsOf, GroupIds
<1> QED
  BY <1>3, <1>4

(***************************************************************************)
(* A thread that waits in a round owns the debate: all that is known of    *)
(* the debate is that round, and the rounds before, and all were opened.   *)
(***************************************************************************)
LEMMA WaitingOwns ==
    ASSUME EngineInv, RoundsInv, NEW t \in ThreadIds, InARound(t)
    PROVE  /\ t \in Nat /\ t # 0
           /\ PendingOf(t) = <<>>
           /\ RoundOf(t) = threads[t].obj.round
           /\ Owns(threads[t].debat, t)
           /\ \A b \in Nat : Owns(threads[t].debat, b) => b = t
           /\ \A c \in 1..MaxRound : Known(threads[t].debat, c)
                => c <= threads[t].obj.round /\ Opened(threads[t].debat, c)
<1> DEFINE d == threads[t].debat
           round == threads[t].obj.round
<1>1. threads[t] \in Thread /\ t \in Nat /\ t # 0
  BY DEF EngineInv, EngineType, ThreadIds
<1>2. d \in Debates /\ round \in 1..MaxRound
  BY <1>1, ThreadFields, RowFields
<1>3. PendingOf(t) = <<>> /\ RoundOf(t) = round /\ Owns(d, t)
  BY <1>1 DEF PendingOf, Pending, RoundOf, Owns, Works, Busy, Live, InARound
<1>4. /\ \A b \in Nat : Owns(d, b) => b = t
      /\ Opened(d, round)
      /\ \A c \in 1..MaxRound : Known(d, c) => c <= round
  BY <1>1, <1>2, <1>3 DEF RoundsInv, WorkersOk, OneOwner
<1>5. Known(d, round)
  BY DEF Known
<1> HIDE DEF round
<1>6. ASSUME NEW c \in 1..MaxRound, Known(d, c)
      PROVE  Opened(d, c)
  <2>1. c = round \/ c \in 1..round - 1
    BY <1>2, <1>4, <1>6
  <2> QED
    BY <1>2, <1>4, <1>5, <2>1 DEF RoundsInv, TableOk, EarlierOpened
<1> QED
  BY <1>1, <1>3, <1>4, <1>6 DEF round

(***************************************************************************)
(* Nobody is in a group that is not open yet when the thread eliminates.   *)
(***************************************************************************)
LEMMA EliminateRounds ==
    ASSUME EngineInv, RoundsInv, NEW t \in ThreadIds, Eliminate(t)
    PROVE  RoundsInv'
<1>0. PICK d \in Debates : d = threads[t].debat
  <2>1. threads[t] \in Thread
    BY DEF EngineInv, EngineType, ThreadIds
  <2> QED
    BY <2>1, ThreadFields
<1>1. /\ threads[t].pc = "eliminate"
      /\ active' = [active EXCEPT ![d] = active[d] \cap representative[d]]
      /\ ArchiveGroups({d})
      /\ UNCHANGED <<row, main, requests>>
      /\ \E pc \in {"close", "open"} : Goto(t, pc)
  BY <1>0 DEF Eliminate
<1>2. /\ t \in Nat /\ t # 0
      /\ PendingOf(t) = <<>>
      /\ Owns(d, t)
      /\ \A b \in Nat : Owns(d, b) => b = t
      /\ \A c \in 1..MaxRound : Known(d, c) => Opened(d, c)
  BY <1>0, <1>1, WaitingOwns DEF InARound
<1>3. PICK new \in Thread : /\ threads' = [threads EXCEPT ![t] = new]
                            /\ new.pc \in {"close", "open"}
                            /\ new.debat = d
                            /\ new.obj = threads[t].obj
  BY <1>0, <1>1, GotoFields
<1>4. Busy(threads[t]) /\ Pending(threads[t]) = <<>> /\ Pending(new) = <<>>
  BY <1>1, <1>3 DEF Busy, Pending
<1>5. groups \in Seq(Group)
  BY DEF EngineInv, EngineType
<1>6. (\A o \in Debates : SameGroups(o)) /\ Closed(d)'
  BY <1>1, <1>5, ArchiveRounds
<1>7. /\ \A o \in Debates, a \in Nat : Works(o, a)' =>
           \/ /\ a # t
              /\ Works(o, a)
              /\ RoundOf(a)' = RoundOf(a)
              /\ PendingOf(a)' = PendingOf(a)
           \/ /\ a = t /\ o = d /\ Busy(new)
              /\ RoundOf(a)' = new.obj.round
              /\ PendingOf(a)' = Pending(new)
      /\ \A o : Opening(o)' => Opening(o) \/ o = d
  <2>1. UNCHANGED main /\ new.debat = threads[t].debat
    BY <1>0, <1>1, <1>3
  <2> QED
    BY ZenonT(60), <1>0, <1>3, <2>1, ThreadWorks
<1>8. \A o \in Debates, a \in Nat : Works(o, a)' => /\ Works(o, a)
                                                    /\ RoundOf(a)' = RoundOf(a)
                                                    /\ PendingOf(a)' = PendingOf(a)
  BY <1>2, <1>3, <1>4, <1>7 DEF Owns, RoundOf
<1>9. \A o \in Debates, c \in 1..MaxRound : Known(o, c)' => Known(o, c)
  <2>1. \A o \in Debates : \A g \in GroupsOf(o)' :
          g \in GroupsOf(o) /\ groups'[g].round = groups[g].round
    BY <1>6 DEF SameGroups
  <2>2. \A o \in Debates, c \in 1..MaxRound :
          Known(o, c)' => Known(o, c) \/ (o = d /\ c = new.obj.round)
    BY <1>0, <1>1, <1>3, <2>1, ThreadKnows
  <2>3. Known(d, new.obj.round)
    BY <1>0, <1>3 DEF Known
  <2> QED
    BY <2>2, <2>3
<1> SUFFICES ASSUME NEW o \in Debates
             PROVE  TableOk(o)' /\ WorkersOk(o)'
  BY DEF RoundsInv
<1>10. \/ active[o] \subseteq active'[o]
       \/ o = d
  BY <1>1 DEF EngineInv, EngineType
<1>11. TableOk(o) /\ WorkersOk(o) /\ SameGroups(o)
  BY <1>6 DEF RoundsInv
<1>12. /\ active[o] \subseteq active'[o] \/ \A c \in 1..MaxRound : Known(o, c) => Opened(o, c)
       /\ active[o] \subseteq active'[o]
            \/ \A a \in Nat : Owns(o, a) /\ Works(o, a)' => PendingOf(a) = <<>>
       /\ Opening(o)' => Opening(o) \/ Closed(o)'
  <2>1. CASE active[o] \subseteq active'[o] /\ o # d
    BY <1>7, <2>1
  <2>2. CASE o = d
    BY <1>2, <1>6, <2>2
  <2> QED
    BY <1>10, <2>1, <2>2
<1>13. TableOk(o)'
  BY <1>5, <1>9, <1>11, <1>12, QuietTable
<1>14. WorkersOk(o)'
  BY <1>8, <1>9, <1>11, <1>12, QuietWorkers
<1> QED
  BY <1>13, <1>14

(***************************************************************************)
(* The next round is divided by the owner of the debate, whose round is    *)
(* closed.                                                                 *)
(***************************************************************************)
LEMMA OpenRounds ==
    ASSUME EngineInv, RoundsInv, NEW t \in ThreadIds, OpenRound(t)
    PROVE  RoundsInv'
<1>1. /\ threads[t] \in Thread
      /\ threads[t].pc = "open"
      /\ threads[t].obj.round + 1 <= MaxRound
  BY DEF OpenRound, EngineInv, EngineType, ThreadIds
<1>2. /\ threads[t].debat \in Debates /\ threads[t].obj \in Row
      /\ threads[t].obj.round \in 1..MaxRound
      /\ threads[t].obj.max_per_group \in Limits
  BY <1>1, ThreadFields, RowFields
<1>3. PICK d \in Debates, round \in 1..MaxRound, limit \in Limits :
         /\ d = threads[t].debat
         /\ round = threads[t].obj.round + 1
         /\ limit = threads[t].obj.max_per_group
  <2>1. threads[t].obj.round + 1 \in 1..MaxRound
    BY <1>1, <1>2, ConstantTypes
  <2> QED
    BY <1>2, <2>1
<1>4. active[d] \in SUBSET Users /\ row[d] \in Row
  BY DEF EngineInv, EngineType
<1>5. PICK batch \in Batches(d, round, active[d], limit) :
         /\ groups' = groups \o batch
         /\ threads' = [threads EXCEPT ![t].pc = "streams", ![t].obj.round = round,
                                       ![t].batch = IdsOf(batch)]
  BY <1>3 DEF OpenRound
<1>6. row' = [row EXCEPT ![d].round = round] /\ UNCHANGED active /\ UNCHANGED main
      /\ UNCHANGED <<main, requests>>
  BY <1>3 DEF OpenRound
<1>7. /\ t \in Nat /\ t # 0
      /\ \A b \in Nat : Owns(d, b) => b = t
      /\ \A c \in 1..MaxRound : Known(d, c) => Opened(d, c)
  BY <1>1, <1>3, WaitingOwns DEF InARound
<1>8. \A c \in 1..round - 1 : Opened(d, c)
  <2>1. Known(d, threads[t].obj.round)
    BY <1>3 DEF Known
  <2>2. \A c \in 1..threads[t].obj.round - 1 : Opened(d, c)
    BY <1>2, <1>3, <2>1 DEF RoundsInv, TableOk, EarlierOpened
  <2>3. \A c \in 1..round - 1 : c = threads[t].obj.round \/ c \in 1..threads[t].obj.round - 1
    BY <1>2, <1>3
  <2> QED
    BY <1>2, <1>7, <2>1, <2>2, <2>3
<1>9. Closed(d)
  BY <1>1, <1>3 DEF RoundsInv, TableOk, ClosedForOpening, Opening
<1> DEFINE new == [threads[t] EXCEPT !.pc = "streams", !.obj.round = round,
                                     !.batch = IdsOf(batch)]
<1>10. threads' = [threads EXCEPT ![t] = new]
  BY <1>5
<1>11. IsBatch(batch, d, round)
  BY <1>2, <1>3, <1>4, <1>5, BatchesAreBatches
<1>12. batch # <<>> /\ \A i \in DOMAIN batch : batch[i].members \subseteq active[d]
  <2> DEFINE users == active[d]
  <2>1. users \in SUBSET Users /\ batch \in Batches(d, round, users, limit)
    BY <1>4, <1>5
  <2> HIDE DEF users
  <2>2. batch # <<>>
    BY <2>1, BatchesAmong
  <2>3. \A i \in DOMAIN batch : batch[i].members \subseteq users
    BY <2>1, BatchesAmong
  <2> QED
    BY <2>2, <2>3 DEF users
<1>13. IdsOf(batch) \in Seq(Nat)
  BY <1>11, IdsType DEF IsBatch, EngineInv, EngineType
<1>14. new \in Thread
  BY <1>1, <1>3, <1>13, ThreadUpdates
<1>15. new.debat = d /\ new.pc = "streams" /\ new.batch = IdsOf(batch) /\ new.obj.round = round
  BY <1>1, <1>2, <1>3 DEF Thread, Row
<1> HIDE DEF new
<1>16. threads[t].debat = d /\ Pending(new) = IdsOf(batch)
  BY <1>3, <1>15 DEF Pending
<1>17. /\ \A o \in Debates, a \in Nat : Works(o, a)' =>
            \/ /\ a # t
               /\ Works(o, a)
               /\ RoundOf(a)' = RoundOf(a)
               /\ PendingOf(a)' = PendingOf(a)
            \/ /\ a = t /\ o = d /\ Busy(new)
               /\ RoundOf(a)' = new.obj.round
               /\ PendingOf(a)' = Pending(new)
       /\ \A o : Opening(o)' => Opening(o) \/ (o = d /\ new.pc = "open")
  <2>1. new.debat = threads[t].debat
    BY <1>15, <1>16
  <2> QED
    BY ZenonT(60), <1>6, <1>10, <1>14, <1>16, <2>1, ThreadWorks
<1>18. \A o \in Debates, c \in 1..MaxRound :
          Known(o, c)' => Known(o, c) \/ (o = d /\ c = round)
  <2>1. \A o \in Debates : \A g \in GroupsOf(o)' :
          \/ g \in GroupsOf(o) /\ groups'[g].round = groups[g].round
          \/ o = d /\ groups'[g].round = round
    BY <1>5, <1>11, AppendedGroups DEF EngineInv, EngineType
  <2>2. \A o \in Debates : \/ row'[o].round = row[o].round
                           \/ o = d /\ row'[o].round = round
    BY <1>2, <1>4, <1>6 DEF EngineInv, EngineType, Row
  <2>3. /\ new.debat = threads[t].debat
        /\ \A o \in Debates :
             \/ row'[o].round = row[o].round
             \/ o = new.debat /\ row'[o].round = new.obj.round
        /\ \A o \in Debates : \A g \in GroupsOf(o)' :
             \/ g \in GroupsOf(o) /\ groups'[g].round = groups[g].round
             \/ o = new.debat /\ groups'[g].round = new.obj.round
    BY <1>15, <1>16, <2>1, <2>2
  <2>4. \A o \in Debates, c \in 1..MaxRound :
          Known(o, c)' => Known(o, c) \/ (o = new.debat /\ c = new.obj.round)
    BY <1>6, <1>10, <1>14, <2>3, ThreadKnows
  <2> QED
    BY <1>15, <2>4
<1>19. \A o \in Debates, b \in Nat : Works(o, b)' =>
          \/ /\ b # t
             /\ Works(o, b)
             /\ RoundOf(b)' = RoundOf(b)
             /\ PendingOf(b)' = PendingOf(b)
          \/ /\ b = t /\ o = d
             /\ RoundOf(b)' = round
             /\ PendingOf(b)' = IdsOf(batch)
  BY <1>15, <1>16, <1>17
<1>20. \A o \in Debates : /\ \A c \in 1..MaxRound :
                               Known(o, c)' => Known(o, c) \/ (o = d /\ c = round)
                          /\ Opening(o)' => Opening(o)
  BY <1>15, <1>17, <1>18
<1>21. groups' = groups \o batch /\ UNCHANGED active
  BY <1>5, <1>6
<1> QED
  BY <1>2, <1>3, <1>7, <1>8, <1>9, <1>11, <1>12, <1>19, <1>20, <1>21, AppendRounds
(***************************************************************************)
(* A thread links the first group of its batch.                            *)
(***************************************************************************)
LEMMA ThreadLinkRounds ==
    ASSUME EngineInv, RoundsInv, NEW t \in ThreadIds, ThreadLink(t)
    PROVE  /\ RoundsInv'
           /\ t \in Nat
           /\ threads[t].debat \in Debates
           /\ Works(threads[t].debat, t)
           /\ PendingOf(t) = threads[t].batch
<1>1. /\ threads[t].pc = "streams"
      /\ threads[t].batch # <<>>
      /\ ~StreamTaken(Head(threads[t].batch))
      /\ groups' = [groups EXCEPT ![Head(threads[t].batch)].stream = TRUE]
      /\ threads' = [threads EXCEPT ![t].batch = Tail(threads[t].batch)]
      /\ UNCHANGED row /\ UNCHANGED active /\ UNCHANGED main
      /\ UNCHANGED <<main, requests>>
  BY DEF ThreadLink
<1>2. threads[t] \in Thread /\ t \in Nat /\ t # 0
  BY DEF EngineInv, EngineType, ThreadIds
<1>3. PICK d \in Debates : d = threads[t].debat
  BY <1>2, ThreadFields
<1>4. threads[t].batch \in Seq(Nat) /\ InOrder(groups, threads[t].batch)
  BY <1>2, ThreadFields DEF EngineInv, GroupsInv
<1>5. Works(d, t) /\ PendingOf(t) = threads[t].batch /\ RoundOf(t) = threads[t].obj.round
  BY <1>1, <1>2, <1>3 DEF Works, Busy, PendingOf, Pending, RoundOf
<1> DEFINE new == [threads[t] EXCEPT !.batch = Tail(threads[t].batch)]
<1>6. Tail(threads[t].batch) \in Seq(Nat)
  BY <1>1, <1>4
<1>7. new \in Thread /\ threads' = [threads EXCEPT ![t] = new]
  BY <1>1, <1>2, <1>6, ThreadUpdates
<1>8. new.debat = d /\ new.pc = "streams" /\ new.obj = threads[t].obj
      /\ new.batch = Tail(threads[t].batch)
  BY <1>1, <1>2, <1>3 DEF Thread
<1> HIDE DEF new
<1>9. /\ \A o \in Debates, a \in Nat : Works(o, a)' =>
            \/ /\ a # t
               /\ Works(o, a)
               /\ RoundOf(a)' = RoundOf(a)
               /\ PendingOf(a)' = PendingOf(a)
            \/ /\ a = t /\ o = d /\ Busy(new)
               /\ RoundOf(a)' = new.obj.round
               /\ PendingOf(a)' = Pending(new)
      /\ \A o : Opening(o)' => Opening(o) \/ (o = d /\ new.pc = "open")
  <2>1. new.debat = threads[t].debat /\ UNCHANGED main
    BY <1>1, <1>3, <1>8
  <2> QED
    BY ZenonT(60), <1>3, <1>7, <2>1, ThreadWorks
<1>10. \A o \in Debates, b \in Nat : Works(o, b)' =>
         /\ Works(o, b)
         /\ RoundOf(b)' = RoundOf(b)
         /\ PendingOf(b)' = IF b = t THEN Tail(PendingOf(t)) ELSE PendingOf(b)
  <2>1. Pending(new) = Tail(PendingOf(t)) /\ new.obj.round = RoundOf(t)
    BY <1>5, <1>8 DEF Pending
  <2> QED
    BY <1>5, <1>9, <2>1
<1>11. \A o \in Debates : \A g \in GroupsOf(o)' :
          g \in GroupsOf(o) /\ groups'[g].round = groups[g].round
  <2>1. \A g \in DOMAIN groups : groups[g] \in Group
    BY DEF EngineInv, EngineType
  <2>2. /\ DOMAIN groups' = DOMAIN groups
        /\ \A g \in DOMAIN groups : /\ groups'[g].debat = groups[g].debat
                                    /\ groups'[g].round = groups[g].round
    BY <1>1, <2>1 DEF Group
  <2> QED
    BY <2>2 DEF GroupsOf, GroupIds
<1>12. \A o \in Debates, c \in 1..MaxRound : Known(o, c)' => Known(o, c)
  <2>1. /\ new.debat = threads[t].debat
        /\ UNCHANGED <<main, requests>>
        /\ \A o \in Debates : row'[o].round = row[o].round
    BY <1>1, <1>3, <1>8
  <2>2. \A o \in Debates, c \in 1..MaxRound :
          Known(o, c)' => Known(o, c) \/ (o = new.debat /\ c = new.obj.round)
    BY <1>7, <1>11, <2>1, ThreadKnows
  <2>3. Known(new.debat, new.obj.round)
    BY <1>8, <2>1 DEF Known
  <2> QED
    BY <2>2, <2>3
<1>13. \A o \in Debates : /\ \A c \in 1..MaxRound : Known(o, c)' => Known(o, c)
                          /\ Opening(o)' => Opening(o)
  BY <1>8, <1>9, <1>12
<1>14. RoundsInv'
  <2>1. /\ PendingOf(t) # <<>>
        /\ ~StreamTaken(Head(PendingOf(t)))
        /\ groups' = [groups EXCEPT ![Head(PendingOf(t))].stream = TRUE]
    BY <1>1, <1>5
  <2> QED
    BY <1>1, <1>2, <1>5, <1>10, <1>13, <2>1, LinkRounds
<1> QED
  BY <1>2, <1>3, <1>5, <1>14

-----------------------------------------------------------------------------
(* The steps of the other processes.                                       *)

(***************************************************************************)
(* What every process holds is known.                                      *)
(***************************************************************************)
LEMMA KnownNow ==
    /\ \A d \in Debates : Known(d, row[d].round)
    /\ \A q \in requests : Known(q.debat, q.row.round)
    /\ \A i \in DOMAIN main.todo : Known(main.todo[i].debat, main.todo[i].obj.round)
    /\ \A t \in ThreadIds : Known(threads[t].debat, threads[t].obj.round)
    /\ \A d \in Debates : \A g \in GroupsOf(d) : Known(d, groups[g].round)
BY DEF Known

(***************************************************************************)
(* A step that gives the processes and the tables rounds that were known   *)
(* makes no round known.                                                   *)
(***************************************************************************)
LEMMA KnownStep ==
    ASSUME \A d \in Debates : Known(d, row'[d].round),
           \A q \in requests' : Known(q.debat, q.row.round),
           \A i \in DOMAIN main'.todo : Known(main'.todo[i].debat, main'.todo[i].obj.round),
           \A t \in DOMAIN threads' : Known(threads'[t].debat, threads'[t].obj.round),
           \A d \in Debates : \A g \in GroupsOf(d)' : Known(d, groups'[g].round)
    PROVE  \A d \in Debates, c \in 1..MaxRound : Known(d, c)' => Known(d, c)
<1> SUFFICES ASSUME NEW d \in Debates, NEW c \in 1..MaxRound, Known(d, c)'
             PROVE  Known(d, c)
  OBVIOUS
<1>1. CASE row'[d].round = c
  BY <1>1
<1>2. CASE \E q \in requests' : q.debat = d /\ q.row.round = c
  BY <1>2
<1>3. CASE \E i \in DOMAIN main'.todo : main'.todo[i].debat = d /\ main'.todo[i].obj.round = c
  BY <1>3
<1>4. CASE \E t \in ThreadIds' : threads'[t].debat = d /\ threads'[t].obj.round = c
  BY <1>4 DEF ThreadIds
<1>5. CASE \E g \in GroupsOf(d)' : groups'[g].round = c
  BY <1>5
<1> QED
  BY <1>1, <1>2, <1>3, <1>4, <1>5 DEF Known

(***************************************************************************)
(* A step of the main loop leaves the threads where they were.             *)
(***************************************************************************)
LEMMA MainWorks ==
    ASSUME EngineInv, UNCHANGED threads
    PROVE  /\ \A d \in Debates, a \in Nat : Works(d, a)' =>
                \/ /\ a # 0
                   /\ Works(d, a)
                   /\ RoundOf(a)' = RoundOf(a)
                   /\ PendingOf(a)' = PendingOf(a)
                \/ /\ a = 0 /\ main'.pc = "streams" /\ Visited'.debat = d
                   /\ RoundOf(a)' = Visited'.obj.round
                   /\ PendingOf(a)' = main'.batch
           /\ \A d : Opening(d)' <=> Opening(d)
<1>1. 0 \notin ThreadIds /\ ThreadIds' = ThreadIds
  BY DEF EngineInv, EngineType, ThreadIds
<1>2. ASSUME NEW d \in Debates, NEW a \in Nat, Works(d, a)'
      PROVE  \/ /\ a # 0
                /\ Works(d, a)
                /\ RoundOf(a)' = RoundOf(a)
                /\ PendingOf(a)' = PendingOf(a)
             \/ /\ a = 0 /\ main'.pc = "streams" /\ Visited'.debat = d
                /\ RoundOf(a)' = Visited'.obj.round
                /\ PendingOf(a)' = main'.batch
  <2>1. CASE a = 0
    BY <1>1, <1>2, <2>1 DEF Works, RoundOf, PendingOf
  <2>2. CASE a # 0
    BY <1>1, <1>2, <2>2 DEF Works, RoundOf, PendingOf
  <2> QED
    BY <2>1, <2>2
<1>3. \A d : Opening(d)' <=> Opening(d)
  BY <1>1 DEF Opening
<1> QED
  BY <1>2, <1>3

(***************************************************************************)
(* A step of the main loop or of the web server that divides and links     *)
(* nothing.                                                                *)
(***************************************************************************)
LEMMA QuietMain ==
    ASSUME EngineInv, RoundsInv, UNCHANGED threads,
           \A d \in Debates : SameGroups(d) /\ active[d] \subseteq active'[d],
           \A d \in Debates, c \in 1..MaxRound : Known(d, c)' => Known(d, c),
           main'.pc = "streams" => UNCHANGED main
    PROVE  RoundsInv'
<1>1. /\ \A d \in Debates, a \in Nat : Works(d, a)' =>
           \/ /\ a # 0
              /\ Works(d, a)
              /\ RoundOf(a)' = RoundOf(a)
              /\ PendingOf(a)' = PendingOf(a)
           \/ /\ a = 0 /\ main'.pc = "streams" /\ Visited'.debat = d
              /\ RoundOf(a)' = Visited'.obj.round
              /\ PendingOf(a)' = main'.batch
      /\ \A d : Opening(d)' <=> Opening(d)
  BY MainWorks
<1>2. \A d \in Debates, a \in Nat : Works(d, a)' => /\ Works(d, a)
                                                    /\ RoundOf(a)' = RoundOf(a)
                                                    /\ PendingOf(a)' = PendingOf(a)
  BY <1>1 DEF Works, RoundOf, PendingOf, Visited
<1> SUFFICES ASSUME NEW d \in Debates
             PROVE  TableOk(d)' /\ WorkersOk(d)'
  BY DEF RoundsInv
<1>3. /\ TableOk(d) /\ WorkersOk(d) /\ SameGroups(d)
      /\ active[d] \subseteq active'[d]
      /\ groups \in Seq(Group)
  BY DEF RoundsInv, EngineInv, EngineType
<1>4. TableOk(d)'
  BY <1>1, <1>3, QuietTable
<1>5. WorkersOk(d)'
  BY <1>2, <1>3, QuietWorkers
<1> QED
  BY <1>4, <1>5

(***************************************************************************)
(* A table that is left alone.                                             *)
(***************************************************************************)
LEMMA GroupsLeft ==
    ASSUME UNCHANGED groups
    PROVE  /\ \A d \in Debates : SameGroups(d)
           /\ \A d \in Debates : \A g \in GroupsOf(d)' : Known(d, groups'[g].round)
<1>1. \A d : GroupsOf(d)' = GroupsOf(d)
  BY DEF GroupsOf, GroupIds
<1> QED
  BY <1>1, KnownNow DEF SameGroups
(***************************************************************************)
(* The clock, and the requests: what they write back was known.            *)
(***************************************************************************)
LEMMA WebRounds ==
    ASSUME EngineInv, RoundsInv, Tick \/ Web
    PROVE  RoundsInv'
<1>1. UNCHANGED groups /\ UNCHANGED main /\ UNCHANGED threads
  BY DEF Tick, Web, Subscribe, CommitSubscription, RepeatSubscription,
         RejectSubscription, SubmitParameters, CommitParameters, database
<1>2. /\ row \in [Debates -> Row]
      /\ active \in [Debates -> SUBSET Users]
      /\ requests \subseteq Request
  BY DEF EngineInv, EngineType
<1>3. /\ \A d \in Debates : Known(d, row'[d].round)
      /\ \A q \in requests' : Known(q.debat, q.row.round)
      /\ \A d \in Debates : active[d] \subseteq active'[d]
  <2>1. CASE UNCHANGED <<row, active>> /\ requests' \subseteq requests
    BY <2>1, KnownNow
  <2>2. ASSUME NEW q \in requests, requests' = requests \ {q},
               row' = [row EXCEPT ![q.debat] = q.row],
               \/ UNCHANGED active
               \/ active' = [active EXCEPT ![q.debat] = active[q.debat] \cup {q.user}]
        PROVE  /\ \A d \in Debates : Known(d, row'[d].round)
               /\ \A p \in requests' : Known(p.debat, p.row.round)
               /\ \A d \in Debates : active[d] \subseteq active'[d]
    <3>1. q.debat \in Debates
      BY <1>2 DEF Request
    <3>2. \A d \in Debates : row'[d] = row[d] \/ (d = q.debat /\ row'[d] = q.row)
      BY <1>2, <2>2
    <3>3. \A d \in Debates : Known(d, row'[d].round)
      BY <3>2, KnownNow
    <3>4. \A p \in requests' : Known(p.debat, p.row.round)
      BY <2>2, KnownNow
    <3>5. \A d \in Debates : active[d] \subseteq active'[d]
      BY <1>2, <2>2
    <3> QED
      BY <3>3, <3>4, <3>5
  <2>3. ASSUME NEW d \in Debates, NEW q, UNCHANGED <<row, active>>,
               requests' = requests \cup {q}, q.debat = d, q.row.round = row[d].round
        PROVE  /\ \A o \in Debates : Known(o, row'[o].round)
               /\ \A p \in requests' : Known(p.debat, p.row.round)
               /\ \A o \in Debates : active[o] \subseteq active'[o]
    BY <2>3, KnownNow
  <2>4. CASE Tick
    BY <2>1, <2>4 DEF Tick, database
  <2>5. ASSUME NEW d \in Debates, NEW u \in Users, Subscribe(d, u)
        PROVE  \E q : /\ requests' = requests \cup {q}
                      /\ q.debat = d
                      /\ q.row.round = row[d].round
    <3>1. PICK w \in 1..MaxRequests :
            requests' = requests \cup
              {[worker |-> w, debat |-> d, user |-> u, row |-> row[d]]}
      BY <2>5 DEF Subscribe
    <3> DEFINE q == [worker |-> w, debat |-> d, user |-> u, row |-> row[d]]
    <3>2. q.debat = d /\ q.row = row[d]
      OBVIOUS
    <3> HIDE DEF q
    <3> QED
      BY <3>1, <3>2 DEF q
  <2>6. ASSUME NEW d \in Debates, NEW p \in Submitted, SubmitParameters(d, p)
        PROVE  \E q : /\ requests' = requests \cup {q}
                      /\ q.debat = d
                      /\ q.row.round = row[d].round
    <3> DEFINE new == [row[d] EXCEPT !.max_per_group = p.max_per_group,
                                     !.max_representant = p.max_representant,
                                     !.start = p.start]
    <3>1. PICK w \in 1..MaxRequests :
            requests' = requests \cup
              {[worker |-> w, debat |-> d, user |-> NoUser, row |-> new]}
      BY <2>6 DEF SubmitParameters
    <3>2. new.round = row[d].round
      BY <1>2 DEF Row
    <3> HIDE DEF new
    <3> DEFINE q == [worker |-> w, debat |-> d, user |-> NoUser, row |-> new]
    <3>3. q.debat = d /\ q.row = new
      OBVIOUS
    <3> HIDE DEF q
    <3> QED
      BY <3>1, <3>2, <3>3 DEF q
  <2>7. ASSUME NEW d \in Debates, NEW u \in Users, Subscribe(d, u)
        PROVE  UNCHANGED <<row, active>>
    BY <2>7 DEF Subscribe, database
  <2>8. ASSUME NEW d \in Debates, NEW p \in Submitted, SubmitParameters(d, p)
        PROVE  UNCHANGED <<row, active>>
    BY <2>8 DEF SubmitParameters, database
  <2>9. ASSUME NEW q \in requests,
               CommitSubscription(q) \/ RepeatSubscription(q) \/ CommitParameters(q)
        PROVE  /\ requests' = requests \ {q}
               /\ row' = [row EXCEPT ![q.debat] = q.row]
               /\ \/ UNCHANGED active
                  \/ active' = [active EXCEPT ![q.debat] = active[q.debat] \cup {q.user}]
    BY <2>9 DEF CommitSubscription, RepeatSubscription, CommitParameters
  <2>10. ASSUME NEW q \in requests, RejectSubscription(q)
         PROVE  UNCHANGED <<row, active>> /\ requests' \subseteq requests
    BY <2>10 DEF RejectSubscription, database
  <2> QED
    BY <2>1, <2>2, <2>3, <2>4, <2>5, <2>6, <2>7, <2>8, <2>9, <2>10 DEF Web
<1>4. \A d \in Debates, c \in 1..MaxRound : Known(d, c)' => Known(d, c)
  BY <1>1, <1>3, KnownNow, KnownStep, GroupsLeft DEF ThreadIds
<1> QED
  BY <1>1, <1>3, <1>4, GroupsLeft, QuietMain

(***************************************************************************)
(* The main loop reads the rows, passes on, or saves a copy it has read.   *)
(***************************************************************************)
LEMMA ScanRounds ==
    ASSUME EngineInv, RoundsInv,
           \/ BeginCheck \/ EndCheck \/ PassOver \/ NotYet \/ Prepare
           \/ MainLinkFails \/ Interrupt
    PROVE  RoundsInv'
<1>1. UNCHANGED groups /\ UNCHANGED threads /\ UNCHANGED requests /\ UNCHANGED active
  BY DEF BeginCheck, EndCheck, PassOver, NotYet, Prepare, MainLinkFails,
         Interrupt, database
<1>2. main \in MainType /\ main.todo \in Seq(Visit) /\ row \in [Debates -> Row]
  BY MainFields DEF EngineInv, EngineType
<1>3. /\ \A d \in Debates : Known(d, row'[d].round)
      /\ \A i \in DOMAIN main'.todo : Known(main'.todo[i].debat, main'.todo[i].obj.round)
      /\ main'.pc # "streams"
  <2>1. CASE BeginCheck
    <3> DEFINE todo == [i \in DOMAIN DebateOrder |->
                          [debat |-> DebateOrder[i], obj |-> row[DebateOrder[i]]]]
    <3>1. main' = [main EXCEPT !.pc = "scan", !.todo = todo] /\ UNCHANGED row
      BY <2>1 DEF BeginCheck, database
    <3>2. \A i \in DOMAIN todo : Known(todo[i].debat, todo[i].obj.round)
      BY EngineAssumption, KnownNow
    <3> HIDE DEF todo
    <3>3. main'.pc = "scan" /\ main'.todo = todo
      BY <1>2, <3>1 DEF MainType
    <3> QED
      BY <3>1, <3>2, <3>3, KnownNow
  <2>2. CASE EndCheck
    <3>1. main' = Idle(TRUE) /\ UNCHANGED row
      BY <2>2 DEF EndCheck, database
    <3>2. main'.pc = "idle" /\ main'.todo = <<>>
      BY <3>1 DEF Idle
    <3>3. \A i \in DOMAIN main'.todo : Known(main'.todo[i].debat, main'.todo[i].obj.round)
      BY <3>2
    <3>4. \A d \in Debates : Known(d, row'[d].round)
      BY <3>1, KnownNow
    <3> QED
      BY <3>2, <3>3, <3>4
  <2>3. CASE PassOver \/ NotYet
    <3>1. /\ main.todo # <<>>
          /\ UNCHANGED row
          /\ \/ main' = [main EXCEPT !.todo = Tail(main.todo)] /\ main.pc = "scan"
             \/ main' = [main EXCEPT !.pc = "scan", !.todo = Tail(main.todo)]
      BY <2>3 DEF PassOver, NotYet, Visiting, EngineInv, database
    <3>2. main'.pc = "scan" /\ main'.todo = Tail(main.todo)
      BY <1>2, <3>1 DEF MainType
    <3>3. \A i \in DOMAIN Tail(main.todo) :
             i + 1 \in DOMAIN main.todo /\ Tail(main.todo)[i] = main.todo[i + 1]
      BY <1>2, <3>1
    <3> QED
      BY <3>1, <3>2, <3>3, KnownNow
  <2>4. CASE Prepare
    <3>1. /\ main.todo # <<>>
          /\ row' = [row EXCEPT ![Visited.debat] = [Visited.obj EXCEPT !.step = 2]]
          /\ main' = [main EXCEPT !.pc = "prepared"]
      BY <2>4 DEF Prepare, RegistrationOver
    <3>2. main'.pc = "prepared" /\ main'.todo = main.todo
      BY <1>2, <3>1 DEF MainType
    <3>3. /\ Visited = main.todo[1] /\ Visited.debat \in Debates /\ Visited.obj \in Row
          /\ 1 \in DOMAIN main.todo
      BY <1>2, <3>1, VisitedType
    <3> DEFINE obj == [Visited.obj EXCEPT !.step = 2]
    <3>4. obj.round = Visited.obj.round
      BY <3>3 DEF Row
    <3>5. row' = [row EXCEPT ![Visited.debat] = obj]
      BY <3>1
    <3> HIDE DEF obj
    <3>6. \A d \in Debates : row'[d] = row[d] \/ (d = Visited.debat /\ row'[d] = obj)
      BY <1>2, <3>5
    <3>7. Known(Visited.debat, obj.round)
      BY <3>3, <3>4, KnownNow
    <3> QED
      BY <3>2, <3>6, <3>7, KnownNow
  <2>5. CASE MainLinkFails \/ Interrupt
    <3>1. /\ main' = [main EXCEPT !.pc = "down", !.todo = <<>>, !.batch = <<>>]
          /\ UNCHANGED row
      BY <2>5 DEF MainLinkFails, Interrupt, database
    <3>2. main'.pc = "down" /\ main'.todo = <<>>
      BY <1>2, <3>1 DEF MainType
    <3>3. \A i \in DOMAIN main'.todo : Known(main'.todo[i].debat, main'.todo[i].obj.round)
      BY <3>2
    <3>4. \A d \in Debates : Known(d, row'[d].round)
      BY <3>1, KnownNow
    <3> QED
      BY <3>2, <3>3, <3>4
  <2> QED
    BY <2>1, <2>2, <2>3, <2>4, <2>5
<1>4. \A d \in Debates, c \in 1..MaxRound : Known(d, c)' => Known(d, c)
  BY <1>1, <1>3, KnownNow, KnownStep, GroupsLeft DEF ThreadIds
<1>5. \A d \in Debates : active[d] \subseteq active'[d]
  BY <1>1
<1> QED
  BY <1>1, <1>3, <1>4, <1>5, GroupsLeft, QuietMain

(***************************************************************************)
(* SIGINT archives groups; a process that is killed works on nothing.      *)
(***************************************************************************)
LEMMA StopRounds ==
    ASSUME EngineInv, RoundsInv, Sigint \/ Restart
    PROVE  RoundsInv'
<1>1. /\ main \in MainType
      /\ row \in [Debates -> Row]
      /\ groups \in Seq(Group)
  BY DEF EngineInv, EngineType
<1>2. CASE Sigint
  <2> DEFINE stopped == {d \in Debates : ~row[d].archived /\ row[d].step = 3}
  <2>1. /\ ArchiveGroups(stopped)
        /\ row' = [d \in Debates |->
                     IF d \in stopped THEN [row[d] EXCEPT !.archived = TRUE]
                     ELSE row[d]]
        /\ main' = [main EXCEPT !.pc = "down", !.todo = <<>>, !.batch = <<>>]
        /\ UNCHANGED active /\ UNCHANGED threads /\ UNCHANGED requests
    BY <1>2 DEF Sigint
  <2> HIDE DEF stopped
  <2>2. \A d \in Debates : row'[d].round = row[d].round
    BY <1>1, <2>1 DEF Row
  <2>3. main'.pc = "down" /\ main'.todo = <<>>
    BY <1>1, <2>1 DEF MainType
  <2>4. \A d \in Debates : SameGroups(d)
    BY <1>1, <2>1, ArchiveRounds
  <2>5. \A d \in Debates : \A g \in GroupsOf(d)' : Known(d, groups'[g].round)
    BY <2>4, KnownNow DEF SameGroups
  <2>6. \A d \in Debates : Known(d, row'[d].round)
    BY <2>2, KnownNow
  <2>7. \A d \in Debates, c \in 1..MaxRound : Known(d, c)' => Known(d, c)
    BY <2>1, <2>3, <2>5, <2>6, KnownNow, KnownStep DEF ThreadIds
  <2> QED
    BY <2>1, <2>3, <2>4, <2>7, QuietMain
<1>3. CASE Restart
  <2>1. /\ main' = Idle(FALSE)
        /\ threads' = <<>>
        /\ UNCHANGED row /\ UNCHANGED active /\ UNCHANGED groups /\ UNCHANGED requests
    BY <1>3 DEF Restart, database
  <2>2. main'.pc = "idle" /\ main'.todo = <<>> /\ DOMAIN threads' = {}
    BY <2>1 DEF Idle
  <2>3. \A d \in Debates, c \in 1..MaxRound : Known(d, c)' => Known(d, c)
    BY <2>1, <2>2, KnownNow, KnownStep, GroupsLeft
  <2>4. \A d \in Debates, a \in Nat : ~Works(d, a)'
    BY <2>2 DEF Works, ThreadIds
  <2>5. \A d \in Debates : ~Opening(d)'
    BY <2>2 DEF Opening, ThreadIds
  <2> SUFFICES ASSUME NEW d \in Debates
               PROVE  TableOk(d)' /\ WorkersOk(d)'
    BY DEF RoundsInv
  <2>6. /\ TableOk(d) /\ WorkersOk(d) /\ SameGroups(d)
        /\ active[d] \subseteq active'[d]
    BY <2>1, GroupsLeft DEF RoundsInv
  <2>7. TableOk(d)'
    BY <1>1, <2>3, <2>5, <2>6, QuietTable
  <2>8. WorkersOk(d)'
    BY <2>3, <2>4, <2>6, QuietWorkers
  <2> QED
    BY <2>7, <2>8
<1> QED
  BY <1>2, <1>3

(***************************************************************************)
(* The main loop divides the participants of a debate for the round of its *)
(* copy, again perhaps.                                                    *)
(***************************************************************************)
LEMMA LaunchRounds ==
    ASSUME EngineInv, RoundsInv, Launch
    PROVE  RoundsInv'
<1> DEFINE copy == [Visited.obj EXCEPT !.step = 3]
<1>0. main \in MainType /\ main.todo # <<>> /\ main.todo \in Seq(Visit)
  BY MainFields DEF EngineInv, EngineType, Launch, Visiting
<1>1. /\ Visited.debat \in Debates /\ Visited.obj \in Row
      /\ Visited = main.todo[1] /\ 1 \in DOMAIN main.todo
  BY <1>0, VisitedType
<1>2. copy \in Row /\ copy.round = Visited.obj.round
  <2>1. copy \in Row
    BY <1>1, RowUpdates
  <2>2. copy.round = Visited.obj.round
    BY <1>1 DEF Row
  <2> QED
    BY <2>1, <2>2
<1>3. copy.round \in 1..MaxRound /\ copy.max_per_group \in Limits
  BY <1>2, RowFields
<1>4. PICK d \in Debates, round \in 1..MaxRound, obj \in Row :
         /\ d = Visited.debat /\ obj = copy /\ round = obj.round
         /\ obj.max_per_group \in Limits
  BY <1>1, <1>2, <1>3
<1>5. Known(d, round) /\ round = main.todo[1].obj.round /\ main.todo[1].debat = d
  BY <1>1, <1>2, <1>4, KnownNow
<1>6. PICK batch \in Batches(d, round, active[d], obj.max_per_group) :
         /\ groups' = groups \o batch
         /\ main' = IF Len(batch) = 1 THEN Idle(TRUE)
                    ELSE [main EXCEPT !.pc = "streams", !.todo[1].obj = obj,
                                      !.batch = IdsOf(batch)]
  BY <1>4 DEF Launch
<1>7. row' = [row EXCEPT ![d] = obj] /\ UNCHANGED active
      /\ UNCHANGED threads /\ UNCHANGED requests
  BY <1>4 DEF Launch
<1> HIDE DEF copy
<1>8. /\ active[d] \in SUBSET Users
      /\ groups \in Seq(Group)
      /\ row \in [Debates -> Row]
  BY DEF EngineInv, EngineType
<1>9. IsBatch(batch, d, round)
  BY <1>4, <1>6, <1>8, BatchesAreBatches
<1>10. batch # <<>> /\ \A i \in DOMAIN batch : batch[i].members \subseteq active[d]
  <2> DEFINE users == active[d]
             limit == obj.max_per_group
  <2>1. users \in SUBSET Users /\ limit \in Limits /\ batch \in Batches(d, round, users, limit)
    BY <1>4, <1>6, <1>8
  <2> HIDE DEF users, limit
  <2>2. batch # <<>>
    BY <2>1, BatchesAmong
  <2>3. \A i \in DOMAIN batch : batch[i].members \subseteq users
    BY <2>1, BatchesAmong
  <2> QED
    BY <2>2, <2>3 DEF users
<1>11. /\ \/ main'.pc = "idle" /\ main'.todo = <<>>
          \/ /\ main'.batch = IdsOf(batch)
             /\ DOMAIN main'.todo = DOMAIN main.todo
             /\ \A i \in DOMAIN main.todo :
                  /\ main'.todo[i].debat = main.todo[i].debat
                  /\ main'.todo[i].obj.round = main.todo[i].obj.round
             /\ Visited'.debat = d /\ Visited'.obj.round = round
  <2>1. CASE Len(batch) = 1
    BY <1>6, <2>1 DEF Idle
  <2>2. CASE Len(batch) # 1
    <3> DEFINE todo == [main.todo EXCEPT ![1].obj = obj]
    <3>0. main.todo[1] \in Visit
      BY <1>0, <1>1
    <3>1. [main.todo[1] EXCEPT !.obj = obj] \in Visit
      BY <3>0 DEF Visit
    <3>2. todo \in Seq(Visit) /\ todo # <<>> /\ DOMAIN todo = DOMAIN main.todo
      BY <1>0, <1>1, <3>1, UpdateSeq
    <3>4. todo[1].debat = d /\ todo[1].obj = obj
      BY <1>0, <1>1, <1>5, <3>0 DEF Visit
    <3>5. \A i \in DOMAIN main.todo : i # 1 => todo[i] = main.todo[i]
      BY <1>0, <1>1
    <3>6. main' = [main EXCEPT !.pc = "streams", !.todo = todo, !.batch = IdsOf(batch)]
      BY <1>6, <2>2
    <3> HIDE DEF todo
    <3>7. main'.todo = todo /\ main'.batch = IdsOf(batch)
      BY <1>0, <3>6 DEF MainType
    <3>8. Head(todo) = todo[1]
      BY <3>2
    <3>9. Visited' = todo[1]
      BY <3>7, <3>8 DEF Visited
    <3>10. \A i \in DOMAIN main.todo : /\ todo[i].debat = main.todo[i].debat
                                       /\ todo[i].obj.round = main.todo[i].obj.round
      BY <1>4, <1>5, <3>4, <3>5
    <3> QED
      BY <1>4, <3>2, <3>4, <3>7, <3>9, <3>10
  <2> QED
    BY <2>1, <2>2
<1>12. /\ \A o \in Debates, b \in Nat : Works(o, b)' =>
            \/ /\ b # 0
               /\ Works(o, b)
               /\ RoundOf(b)' = RoundOf(b)
               /\ PendingOf(b)' = PendingOf(b)
            \/ /\ b = 0 /\ o = d
               /\ RoundOf(b)' = round
               /\ PendingOf(b)' = IdsOf(batch)
       /\ \A o : Opening(o)' => Opening(o)
  <2>1. /\ \A o \in Debates, a \in Nat : Works(o, a)' =>
             \/ /\ a # 0
                /\ Works(o, a)
                /\ RoundOf(a)' = RoundOf(a)
                /\ PendingOf(a)' = PendingOf(a)
             \/ /\ a = 0 /\ main'.pc = "streams" /\ Visited'.debat = o
                /\ RoundOf(a)' = Visited'.obj.round
                /\ PendingOf(a)' = main'.batch
        /\ \A o : Opening(o)' <=> Opening(o)
    BY <1>7, MainWorks
  <2> QED
    BY <1>11, <2>1
<1>13. \A o \in Debates, c \in 1..MaxRound : Known(o, c)' => Known(o, c)
  <2>1. \A o \in Debates : row'[o] = row[o] \/ (o = d /\ row'[o] = obj)
    BY <1>7, <1>8
  <2>2. \A o \in Debates : Known(o, row'[o].round)
    BY <1>4, <1>5, <2>1, KnownNow
  <2>3. \A i \in DOMAIN main'.todo : Known(main'.todo[i].debat, main'.todo[i].obj.round)
    <3>1. CASE main'.todo = <<>>
      BY <3>1
    <3>2. CASE main'.todo # <<>>
      BY <1>11, <3>2, KnownNow
    <3> QED
      BY <3>1, <3>2
  <2>4. \A o \in Debates : \A g \in GroupsOf(o)' : Known(o, groups'[g].round)
    <3>1. \A o \in Debates : \A g \in GroupsOf(o)' :
             \/ g \in GroupsOf(o) /\ groups'[g].round = groups[g].round
             \/ o = d /\ groups'[g].round = round
      BY <1>6, <1>8, <1>9, AppendedGroups
    <3> QED
      BY <1>5, <3>1, KnownNow
  <2>5. /\ \A q \in requests' : Known(q.debat, q.row.round)
        /\ \A t \in DOMAIN threads' : Known(threads'[t].debat, threads'[t].obj.round)
    BY <1>7, KnownNow DEF ThreadIds
  <2> QED
    BY <2>2, <2>3, <2>4, <2>5, KnownStep
<1>14. \A o \in Debates : /\ \A c \in 1..MaxRound :
                               Known(o, c)' => Known(o, c) \/ (o = d /\ c = round)
                          /\ Opening(o)' => Opening(o)
  BY <1>12, <1>13
<1>15. groups' = groups \o batch /\ UNCHANGED active /\ 0 \in Nat
  BY <1>6, <1>7
<1>16. \A o \in Debates, b \in Nat : Works(o, b)' =>
         \/ /\ b # 0
            /\ Works(o, b)
            /\ RoundOf(b)' = RoundOf(b)
            /\ PendingOf(b)' = PendingOf(b)
         \/ /\ b = 0 /\ o = d
            /\ RoundOf(b)' = round
            /\ PendingOf(b)' = IdsOf(batch)
  BY <1>12
<1> QED
  BY <1>5, <1>9, <1>10, <1>14, <1>15, <1>16, AppendRounds

(***************************************************************************)
(* The main loop links the first group of its batch.                       *)
(***************************************************************************)
LEMMA MainLinkRounds ==
    ASSUME EngineInv, RoundsInv, MainLink
    PROVE  /\ RoundsInv'
           /\ Visited.debat \in Debates
           /\ Works(Visited.debat, 0)
           /\ PendingOf(0) = main.batch
<1>1. /\ main.pc = "streams"
      /\ main.batch # <<>>
      /\ ~StreamTaken(Head(main.batch))
      /\ groups' = [groups EXCEPT ![Head(main.batch)].stream = TRUE]
      /\ main' = [main EXCEPT !.batch = Tail(main.batch)]
      /\ UNCHANGED row /\ UNCHANGED active /\ UNCHANGED threads /\ UNCHANGED requests
  BY DEF MainLink
<1>2. main \in MainType /\ main.todo # <<>>
  BY <1>1 DEF EngineInv, EngineType, Visiting
<1>3. PICK d \in Debates : d = Visited.debat
  BY <1>2, VisitedType
<1>4. Works(d, 0) /\ PendingOf(0) = main.batch /\ RoundOf(0) = Visited.obj.round
  BY <1>1, <1>3 DEF Works, PendingOf, RoundOf
<1>5. main'.todo = main.todo /\ main'.batch = Tail(main.batch) /\ main'.pc = "streams"
  BY <1>1, <1>2 DEF MainType
<1>6. Visited' = Visited
  BY <1>5 DEF Visited
<1>7. /\ \A o \in Debates, a \in Nat : Works(o, a)' =>
           \/ /\ a # 0
              /\ Works(o, a)
              /\ RoundOf(a)' = RoundOf(a)
              /\ PendingOf(a)' = PendingOf(a)
           \/ /\ a = 0 /\ main'.pc = "streams" /\ Visited'.debat = o
              /\ RoundOf(a)' = Visited'.obj.round
              /\ PendingOf(a)' = main'.batch
      /\ \A o : Opening(o)' <=> Opening(o)
  BY <1>1, MainWorks
<1>8. \A o \in Debates, b \in Nat : Works(o, b)' =>
         /\ Works(o, b)
         /\ RoundOf(b)' = RoundOf(b)
         /\ PendingOf(b)' = IF b = 0 THEN Tail(PendingOf(0)) ELSE PendingOf(b)
  BY <1>3, <1>4, <1>5, <1>6, <1>7
<1>9. \A o \in Debates : \A g \in GroupsOf(o)' :
         g \in GroupsOf(o) /\ groups'[g].round = groups[g].round
  <2>1. \A g \in DOMAIN groups : groups[g] \in Group
    BY DEF EngineInv, EngineType
  <2>2. /\ DOMAIN groups' = DOMAIN groups
        /\ \A g \in DOMAIN groups : /\ groups'[g].debat = groups[g].debat
                                    /\ groups'[g].round = groups[g].round
    BY <1>1, <2>1 DEF Group
  <2> QED
    BY <2>2 DEF GroupsOf, GroupIds
<1>10. \A o \in Debates, c \in 1..MaxRound : Known(o, c)' => Known(o, c)
  <2>1. \A o \in Debates : Known(o, row'[o].round)
    BY <1>1, KnownNow
  <2>2. /\ \A q \in requests' : Known(q.debat, q.row.round)
        /\ \A t \in DOMAIN threads' : Known(threads'[t].debat, threads'[t].obj.round)
        /\ \A i \in DOMAIN main'.todo : Known(main'.todo[i].debat, main'.todo[i].obj.round)
    BY <1>1, <1>5, KnownNow DEF ThreadIds
  <2>3. \A o \in Debates : \A g \in GroupsOf(o)' : Known(o, groups'[g].round)
    BY <1>9, KnownNow
  <2> QED
    BY <2>1, <2>2, <2>3, KnownStep
<1>11. \A o \in Debates : /\ \A c \in 1..MaxRound : Known(o, c)' => Known(o, c)
                          /\ Opening(o)' => Opening(o)
  BY <1>7, <1>10
<1>12. RoundsInv'
  <2>1. /\ PendingOf(0) # <<>>
        /\ ~StreamTaken(Head(PendingOf(0)))
        /\ groups' = [groups EXCEPT ![Head(PendingOf(0))].stream = TRUE]
        /\ 0 \in Nat
    BY <1>1, <1>4
  <2> QED
    BY <1>1, <1>4, <1>8, <1>11, <2>1, LinkRounds
<1> QED
  BY <1>3, <1>4, <1>12

(***************************************************************************)
(* The thread that the main loop starts takes its place as the owner.      *)
(***************************************************************************)
LEMMA StartRounds ==
    ASSUME EngineInv, RoundsInv, StartThread
    PROVE  RoundsInv'
<1> DEFINE copy == [Visited.obj EXCEPT !.created = TRUE]
<1>0. /\ main \in MainType /\ main.todo # <<>> /\ main.todo \in Seq(Visit)
      /\ main.pc = "streams" /\ main.batch = <<>>
      /\ groups \in Seq(Group) /\ threads \in Seq(Thread) /\ row \in [Debates -> Row]
  BY MainFields DEF EngineInv, EngineType, StartThread, Visiting
<1>1. /\ Visited.debat \in Debates /\ Visited.obj \in Row
      /\ Visited = main.todo[1] /\ 1 \in DOMAIN main.todo
  BY <1>0, VisitedType
<1>2. copy \in Row /\ copy.round = Visited.obj.round
  <2>1. copy \in Row
    BY <1>1, RowUpdates
  <2>2. copy.round = Visited.obj.round
    BY <1>1 DEF Row
  <2> QED
    BY <2>1, <2>2
<1>3. PICK d \in Debates, obj \in Row, round \in 1..MaxRound :
         d = Visited.debat /\ obj = copy /\ round = obj.round
  BY <1>1, <1>2, RowFields
<1> DEFINE new == [pc |-> "sleep", debat |-> d, obj |-> obj, users |-> {},
                   polled |-> {}, elected |-> {}, batch |-> <<>>]
<1>4. /\ row' = [row EXCEPT ![d].created = TRUE]
      /\ threads' = Append(threads, new)
      /\ main' = [main EXCEPT !.pc = "scan", !.todo = Tail(main.todo)]
      /\ UNCHANGED active /\ UNCHANGED groups /\ UNCHANGED requests
  BY <1>3 DEF StartThread
<1>5. new.debat = d /\ new.pc = "sleep" /\ new.obj = obj
  OBVIOUS
<1> HIDE DEF copy, new
<1>6. Works(d, 0) /\ PendingOf(0) = <<>> /\ RoundOf(0) = round
  BY <1>0, <1>2, <1>3 DEF Works, PendingOf, RoundOf
<1>7. /\ \A b \in Nat : Owns(d, b) => b = 0
      /\ Opened(d, round)
      /\ \A c \in 1..MaxRound : Known(d, c) => c <= round
      /\ \A g \in ActiveGroups(d) : groups[g].stream => groups[g].round = round
  <2>1. Owns(d, 0)
    BY <1>6 DEF Owns, Live
  <2> QED
    BY <1>6, <2>1 DEF RoundsInv, WorkersOk, OneOwner
<1>8. PICK n \in Nat :
      /\ n # 0 /\ 0 \notin DOMAIN threads
      /\ n \notin DOMAIN threads
      /\ DOMAIN threads' = DOMAIN threads \cup {n}
      /\ threads'[n] = new
      /\ \A t \in DOMAIN threads : threads'[t] = threads[t]
  <2>1. Len(threads) + 1 \in Nat
    BY <1>0
  <2> QED
    BY SMTT(30), <1>0, <1>4, <2>1
<1>9. main'.pc = "scan" /\ main'.todo = Tail(main.todo)
  BY <1>0, <1>4 DEF MainType
<1>10. \A o \in Debates, b \in Nat : Works(o, b)' =>
         \/ /\ b # 0
            /\ Works(o, b)
            /\ RoundOf(b)' = RoundOf(b)
            /\ PendingOf(b)' = PendingOf(b)
         \/ /\ b = n /\ o = d
            /\ RoundOf(b)' = round
            /\ PendingOf(b)' = <<>>
  <2> SUFFICES ASSUME NEW o \in Debates, NEW b \in Nat, Works(o, b)'
               PROVE  \/ /\ b # 0
                         /\ Works(o, b)
                         /\ RoundOf(b)' = RoundOf(b)
                         /\ PendingOf(b)' = PendingOf(b)
                      \/ /\ b = n /\ o = d
                         /\ RoundOf(b)' = round
                         /\ PendingOf(b)' = <<>>
    OBVIOUS
  <2>1. b \in DOMAIN threads' /\ threads'[b].debat = o /\ Busy(threads'[b])
    BY <1>9 DEF Works, ThreadIds
  <2>2. b # 0
    BY <1>8, <2>1
  <2>3. RoundOf(b)' = threads'[b].obj.round /\ PendingOf(b)' = Pending(threads'[b])
    BY <2>2 DEF RoundOf, PendingOf
  <2>4. CASE b = n
    BY <1>3, <1>5, <1>8, <2>1, <2>3, <2>4 DEF Pending
  <2>5. CASE b \in DOMAIN threads
    <3>1. RoundOf(b) = threads[b].obj.round /\ PendingOf(b) = Pending(threads[b])
      BY <2>2 DEF RoundOf, PendingOf
    <3> QED
      BY <1>8, <2>1, <2>2, <2>3, <2>5, <3>1 DEF Works, ThreadIds
  <2> QED
    BY <1>8, <2>1, <2>4, <2>5
<1>11. \A o \in Debates, c \in 1..MaxRound : Known(o, c)' => Known(o, c)
  <2>1. \A o \in Debates : Known(o, row'[o].round)
    <3>1. \A o \in Debates : row'[o].round = row[o].round
      BY <1>0, <1>4 DEF Row
    <3> QED
      BY <3>1, KnownNow
  <2>2. \A t \in DOMAIN threads' : Known(threads'[t].debat, threads'[t].obj.round)
    <3>1. Known(d, round)
      BY <1>1, <1>2, <1>3, KnownNow
    <3>2. Known(new.debat, new.obj.round)
      BY <1>3, <1>5, <3>1
    <3> QED
      BY <1>8, <3>2, KnownNow DEF ThreadIds
  <2>3. \A i \in DOMAIN main'.todo : Known(main'.todo[i].debat, main'.todo[i].obj.round)
    <3>1. \A i \in DOMAIN Tail(main.todo) :
             i + 1 \in DOMAIN main.todo /\ Tail(main.todo)[i] = main.todo[i + 1]
      BY <1>0
    <3> QED
      BY <1>9, <3>1, KnownNow
  <2>4. /\ \A q \in requests' : Known(q.debat, q.row.round)
        /\ \A o \in Debates : \A g \in GroupsOf(o)' : Known(o, groups'[g].round)
    BY <1>4, KnownNow, GroupsLeft
  <2> QED
    BY <2>1, <2>2, <2>3, <2>4, KnownStep
<1>12. \A o \in Debates : Opening(o)' => Opening(o)
  BY <1>5, <1>8 DEF Opening, ThreadIds
<1> SUFFICES ASSUME NEW e \in Debates
             PROVE  TableOk(e)' /\ WorkersOk(e)'
  BY DEF RoundsInv
<1>13. TableOk(e) /\ WorkersOk(e) /\ SameGroups(e) /\ active[e] \subseteq active'[e]
  BY <1>4, GroupsLeft DEF RoundsInv
<1>14. TableOk(e)'
  BY <1>0, <1>11, <1>12, <1>13, QuietTable
<1>15. CASE e # d
  <2>1. \A b \in Nat : Works(e, b)' => /\ Works(e, b)
                                       /\ RoundOf(b)' = RoundOf(b)
                                       /\ PendingOf(b)' = PendingOf(b)
    BY <1>10, <1>15
  <2>2. WorkersOk(e)'
    BY <1>11, <1>13, <2>1, QuietWorkers
  <2> QED
    BY <1>14, <2>2
<1>16. CASE e = d
  <2>1. \A o \in Debates : GroupsOf(o)' = GroupsOf(o) /\ ActiveGroups(o)' = ActiveGroups(o)
    BY <1>4 DEF GroupsOf, ActiveGroups, GroupIds
  <2>2. OwnBatch(d)'
    <3> SUFFICES ASSUME NEW b \in Nat, Works(d, b)', NEW i \in DOMAIN PendingOf(b)'
                 PROVE  /\ PendingOf(b)'[i] \in GroupsOf(d)
                        /\ groups'[PendingOf(b)'[i]].round = RoundOf(b)'
      BY <2>1 DEF OwnBatch
    <3>1. /\ Works(d, b)
          /\ RoundOf(b)' = RoundOf(b)
          /\ PendingOf(b)' = PendingOf(b)
      BY <1>10
    <3> QED
      BY <1>4, <1>13, <1>16, <3>1 DEF WorkersOk, OwnBatch
  <2>3. BatchesApart(d)'
    <3> SUFFICES ASSUME NEW b \in Nat, NEW c \in Nat, Works(d, b)', Works(d, c)', b # c,
                        NEW i \in DOMAIN PendingOf(b)', NEW j \in DOMAIN PendingOf(c)'
                 PROVE  PendingOf(b)'[i] # PendingOf(c)'[j]
      BY DEF BatchesApart
    <3>1. /\ Works(d, b) /\ PendingOf(b)' = PendingOf(b)
          /\ Works(d, c) /\ PendingOf(c)' = PendingOf(c)
      BY <1>10
    <3> QED
      BY <1>13, <1>16, <3>1 DEF WorkersOk, BatchesApart
  <2>4. \A b \in Nat : Owns(d, b)' => b = n
    <3> SUFFICES ASSUME NEW b \in Nat, Owns(d, b)', b # n
                 PROVE  FALSE
      OBVIOUS
    <3>1. /\ Works(d, b)
          /\ b # 0
          /\ PendingOf(b)' = PendingOf(b)
      BY <1>10 DEF Owns
    <3>2. Owns(d, b)
      BY <1>4, <3>1 DEF Owns
    <3> QED
      BY <1>7, <3>1, <3>2
  <2>5. OneOwner(d)'
    <3> SUFFICES ASSUME Owns(d, n)'
                 PROVE  /\ Opened(d, RoundOf(n))'
                        /\ \A c \in 1..MaxRound : Known(d, c)' => c <= RoundOf(n)'
                        /\ \A g \in ActiveGroups(d)' :
                             groups'[g].stream => groups'[g].round = RoundOf(n)'
                        /\ \A i \in DOMAIN PendingOf(n)' :
                             groups'[PendingOf(n)'[i]].members \subseteq active'[d]
      BY <1>8, <2>4 DEF OneOwner
    <3>1. ~Works(d, n)
      BY <1>8 DEF Works, ThreadIds
    <3>2. RoundOf(n)' = round /\ PendingOf(n)' = <<>>
      BY <1>8, <1>10, <3>1 DEF Owns
    <3>3. Opened(d, round)'
      BY <1>4, <1>7, <2>1 DEF Opened
    <3> QED
      BY <1>4, <1>7, <1>11, <2>1, <3>2, <3>3
  <2> QED
    BY <1>14, <1>16, <2>2, <2>3, <2>5 DEF WorkersOk
<1> QED
  BY <1>15, <1>16

-----------------------------------------------------------------------------
(* The invariant of the rounds.                                            *)

(***************************************************************************)
(* No group exists yet, and every debate is in its first round.            *)
(***************************************************************************)
LEMMA InitRounds == Init => RoundsInv
<1> SUFFICES ASSUME Init, NEW d \in Debates
             PROVE  TableOk(d) /\ WorkersOk(d)
  BY DEF RoundsInv
<1>1. /\ DOMAIN groups = {} /\ DOMAIN threads = {} /\ DOMAIN main.todo = {}
      /\ requests = {} /\ row = InitialRow /\ main.pc = "idle"
  BY DEF Init, Idle
<1>2. GroupsOf(d) = {} /\ ActiveGroups(d) = {} /\ ThreadIds = {}
  BY <1>1 DEF GroupsOf, ActiveGroups, GroupIds, ThreadIds
<1>3. \A c : Known(d, c) => c = 1
  BY <1>1, <1>2, FreshAssumption DEF Known
<1>4. \A a \in Nat : ~Works(d, a)
  BY <1>1, <1>2 DEF Works
<1>5. WorkersOk(d)
  BY <1>4 DEF WorkersOk, OwnBatch, BatchesApart, OneOwner, Owns
<1>6. EarlierOpened(d)
  <2> SUFFICES ASSUME NEW c \in 1..MaxRound, Known(d, c), NEW r \in 1..c - 1
               PROVE  FALSE
    BY DEF EarlierOpened
  <2>1. c = 1
    BY <1>3
  <2> QED
    BY <2>1
<1>7. ClosedBetween(d) /\ UnopenedAlive(d) /\ ClosedForOpening(d)
  BY <1>2 DEF ClosedBetween, UnopenedAlive, ClosedForOpening, Closed
<1> QED
  BY <1>5, <1>6, <1>7 DEF TableOk

(***************************************************************************)
(* The steps that leave the tables, the processes and the requests alone.  *)
(***************************************************************************)
LEMMA SameRounds ==
    ASSUME EngineInv, RoundsInv,
           UNCHANGED <<clock, database, main, threads, restarts, requests>>
    PROVE  RoundsInv'
<1>1. UNCHANGED <<row, active, groups, main, threads, requests>>
  BY DEF database
<1>2. \A d \in Debates, c \in 1..MaxRound : Known(d, c)' => Known(d, c)
  BY <1>1, KnownNow, KnownStep, GroupsLeft DEF ThreadIds
<1>3. /\ UNCHANGED threads /\ UNCHANGED main
      /\ \A d \in Debates : SameGroups(d) /\ active[d] \subseteq active'[d]
  BY <1>1, GroupsLeft
<1> QED
  BY <1>2, <1>3, QuietMain

(***************************************************************************)
(* Every step keeps the invariant of the rounds.                           *)
(***************************************************************************)
LEMMA RoundsNext == EngineInv /\ RoundsInv /\ [Next]_vars => RoundsInv'
<1> SUFFICES ASSUME EngineInv, RoundsInv, [Next]_vars PROVE RoundsInv'
  OBVIOUS
<1>1. CASE Tick \/ Web
  BY <1>1, WebRounds
<1>2. CASE MainLoop
  <2>1. CASE MainSubscribe
    BY <2>1, SameRounds DEF MainSubscribe
  <2> QED
    BY <1>2, <2>1, ScanRounds, LaunchRounds, MainLinkRounds, StartRounds
    DEF MainLoop
<1>3. CASE Sigint \/ Interrupt \/ Restart
  BY <1>3, StopRounds, ScanRounds
<1>4. ASSUME NEW t \in ThreadIds, RunSteps(t)
      PROVE  RoundsInv'
  <2>1. CASE ThreadSubscribe(t)
    BY <2>1, SameRounds DEF ThreadSubscribe
  <2> QED
    BY <1>4, <2>1, ThreadRounds, EliminateRounds, OpenRounds, ThreadLinkRounds
    DEF RunSteps
<1>5. CASE UNCHANGED vars
  BY <1>5, SameRounds DEF vars
<1> QED
  BY <1>1, <1>2, <1>3, <1>4, <1>5 DEF Next

(***************************************************************************)
(* The rounds of every debate are those of one owner.                      *)
(***************************************************************************)
LEMMA RoundsInvariant == Spec => [](EngineInv /\ RoundsInv)
BY InvInit, InvNext, InitRounds, RoundsNext, PTL DEF Spec

(***************************************************************************)
(* Of the threads of a debate, at most one is past the opening of its      *)
(* round: whoever is, owns the debate.                                     *)
(***************************************************************************)
THEOREM OneThread == Spec => []OneThreadInARound
<1>1. ASSUME EngineInv, RoundsInv
      PROVE  OneThreadInARound
  <2> SUFFICES ASSUME NEW t \in ThreadIds, NEW o \in ThreadIds,
                      threads[t].debat = threads[o].debat,
                      InARound(t), InARound(o)
               PROVE  t = o
    BY DEF OneThreadInARound
  <2> QED
    BY <1>1, WaitingOwns
<1> QED
  BY <1>1, RoundsInvariant, PTL

(***************************************************************************)
(* While a thread waits in a round, the groups that have their channel and *)
(* are not archived are those of its round.                                *)
(***************************************************************************)
THEOREM OneRoundOpen == Spec => []OnlyCurrentRoundOpen
<1>1. ASSUME EngineInv, RoundsInv
      PROVE  OnlyCurrentRoundOpen
  <2> SUFFICES ASSUME NEW t \in ThreadIds,
                      threads[t].pc \in {"sleep", "asking", "voting"},
                      NEW g \in ActiveGroups(threads[t].debat), groups[g].stream
               PROVE  groups[g].round = threads[t].obj.round
    BY DEF OnlyCurrentRoundOpen
  <2>1. threads[t].debat \in Debates
    BY <1>1, ThreadFields DEF EngineInv, EngineType, ThreadIds
  <2>2. t \in Nat /\ RoundOf(t) = threads[t].obj.round /\ Owns(threads[t].debat, t)
    BY <1>1, WaitingOwns DEF InARound
  <2> QED
    BY <1>1, <2>1, <2>2 DEF RoundsInv, WorkersOk, OneOwner
<1> QED
  BY <1>1, RoundsInvariant, PTL

-----------------------------------------------------------------------------
(* A debate is a tournament.                                               *)

\* the groups of a debate that got their channel
Linked(d) == {g \in GroupsOf(d) : groups[g].stream}

FloorOf(d, r) == {groups[g].members : g \in {h \in Linked(d) : groups[h].round = r}}

(***************************************************************************)
(* What the floor of a round is made of.                                   *)
(***************************************************************************)
LEMMA FloorFields ==
    /\ Floor = [d \in Debates |-> [r \in 1..MaxRound |-> FloorOf(d, r)]]
    /\ Floor' = [d \in Debates |-> [r \in 1..MaxRound |-> FloorOf(d, r)']]
    /\ \A d \in Debates, r \in 1..MaxRound : Opened(d, r) <=> FloorOf(d, r) # {}
<1>1. \A d, r : FloorOf(d, r) = {groups[g].members : g \in {h \in GroupsOf(d) :
                                   groups[h].round = r /\ groups[h].stream}}
  BY DEF FloorOf, Linked
<1>2. Floor = [d \in Debates |-> [r \in 1..MaxRound |-> FloorOf(d, r)]]
  BY <1>1 DEF Floor
<1>3. \A d \in Debates, r \in 1..MaxRound : Opened(d, r) <=> FloorOf(d, r) # {}
  BY DEF Opened, FloorOf, Linked
<1>4. \A d, r : FloorOf(d, r)' = {groups'[g].members : g \in {h \in GroupsOf(d)' :
                                    groups'[h].round = r /\ groups'[h].stream}}
  BY DEF FloorOf, Linked
<1>5. Floor' = [d \in Debates |-> [r \in 1..MaxRound |-> FloorOf(d, r)']]
  BY <1>4 DEF Floor
<1> QED
  BY <1>2, <1>3, <1>5

(***************************************************************************)
(* A step that links nothing leaves the floor as it is.                    *)
(***************************************************************************)
LEMMA FloorKept ==
    ASSUME \A d \in Debates : /\ Linked(d)' = Linked(d)
                              /\ \A g \in Linked(d) :
                                   /\ groups'[g].round = groups[g].round
                                   /\ groups'[g].members = groups[g].members
    PROVE  Floor' = Floor
<1>1. ASSUME NEW d \in Debates, NEW r \in 1..MaxRound
      PROVE  FloorOf(d, r)' = FloorOf(d, r)
  BY DEF FloorOf
<1>2. Floor' = [d \in Debates |-> [r \in 1..MaxRound |-> FloorOf(d, r)']]
  BY FloorFields
<1> QED
  BY <1>1, <1>2, FloorFields

(***************************************************************************)
(* Archiving, or appending groups that have no channel yet, links nothing. *)
(***************************************************************************)
LEMMA FloorQuiet ==
    ASSUME groups \in Seq(Group),
           \/ \A d \in Debates : SameGroups(d)
           \/ \E d, round, batch : IsBatch(batch, d, round) /\ groups' = groups \o batch
    PROVE  Floor' = Floor
<1>1. CASE \A d \in Debates : SameGroups(d)
  <2>1. \A d \in Debates : /\ Linked(d)' = Linked(d)
                           /\ \A g \in Linked(d) :
                                /\ groups'[g].round = groups[g].round
                                /\ groups'[g].members = groups[g].members
    BY <1>1 DEF SameGroups, Linked
  <2> QED
    BY <2>1, FloorKept
<1>2. ASSUME NEW e, NEW round, NEW batch, IsBatch(batch, e, round),
             groups' = groups \o batch
      PROVE  Floor' = Floor
  <2>1. batch \in Seq(Group) /\ \A i \in DOMAIN batch : ~batch[i].stream
    BY <1>2 DEF IsBatch
  <2>2. \A g \in DOMAIN groups : g \in DOMAIN groups' /\ groups'[g] = groups[g]
    BY <1>2, <2>1
  <2>3. \A g \in DOMAIN groups' : g \in DOMAIN groups \/ ~groups'[g].stream
    BY <1>2, <2>1
  <2>4. \A d \in Debates : /\ Linked(d)' = Linked(d)
                           /\ \A g \in Linked(d) : groups'[g] = groups[g]
    BY <2>2, <2>3 DEF Linked, GroupsOf, GroupIds
  <2> QED
    BY <2>4, FloorKept
<1> QED
  BY <1>1, <1>2

(***************************************************************************)
(* The group that a process links is one that the tournament may open, or  *)
(* was open already.                                                       *)
(***************************************************************************)
LEMMA LinkOpens ==
    ASSUME EngineInv, RoundsInv, LinkedGroupsDisjoint', NEW e \in Debates,
           NEW a \in Nat, Works(e, a), PendingOf(a) # <<>>,
           ~StreamTaken(Head(PendingOf(a))),
           groups' = [groups EXCEPT ![Head(PendingOf(a))].stream = TRUE],
           UNCHANGED <<joined, active>>
    PROVE  [Abstract!Next]_(Abstract!vars)
<1>0. PICK round \in 1..MaxRound, x \in GroupsOf(e) :
         /\ round = RoundOf(a)
         /\ x = Head(PendingOf(a))
  BY WorkerTypes, LinkerIsOwner
<1>1. /\ groups[x].round = round
      /\ \A c \in 1..MaxRound : Known(e, c) => c <= round
      /\ \A c \in 1..round - 1 : Opened(e, c)
      /\ groups[x].members \subseteq active[e]
  <2>1. /\ x = PendingOf(a)[1]
        /\ groups[x].round = round
        /\ \A c \in 1..MaxRound : Known(e, c) => c <= round
        /\ \A c \in 1..round - 1 : Opened(e, c)
        /\ \A i \in DOMAIN PendingOf(a) :
             groups[PendingOf(a)[i]].members \subseteq active[e]
    BY <1>0, LinkerIsOwner
  <2>2. 1 \in DOMAIN PendingOf(a)
    BY WorkerTypes
  <2> QED
    BY <2>1, <2>2
<1>2. groups' = [groups EXCEPT ![x].stream = TRUE]
  BY <1>0
<1>3. /\ \A g \in DOMAIN groups : groups[g] \in Group
      /\ x \in DOMAIN groups
      /\ groups[x].debat = e
      /\ active \in [Debates -> SUBSET Users]
  BY DEF EngineInv, EngineType, GroupsOf, GroupIds
<1>4. /\ DOMAIN groups' = DOMAIN groups
      /\ groups'[x].stream
      /\ \A g \in DOMAIN groups : /\ g # x => groups'[g] = groups[g]
                                  /\ groups'[g].debat = groups[g].debat
                                  /\ groups'[g].round = groups[g].round
                                  /\ groups'[g].members = groups[g].members
  BY <1>2, <1>3 DEF Group
<1>5. \A d \in Debates : /\ GroupsOf(d)' = GroupsOf(d)
                         /\ GroupsOf(d) \subseteq DOMAIN groups
                         /\ Linked(d) \subseteq GroupsOf(d)
                         /\ d # e => x \notin GroupsOf(d)
  BY <1>3, <1>4 DEF GroupsOf, GroupIds, Linked
<1>6. CASE groups[x].stream
  <2>1. \A d \in Debates : Linked(d)' = Linked(d)
    BY <1>4, <1>5, <1>6 DEF Linked
  <2>2. Floor' = Floor
    BY <1>4, <1>5, <2>1, FloorKept
  <2> QED
    BY <2>2 DEF Abstract!vars
<1>7. CASE ~groups[x].stream
  <2> DEFINE members == groups[x].members
  <2>1. \A d \in Debates : Linked(d)' = IF d = e THEN Linked(e) \cup {x} ELSE Linked(d)
    <3>1. ASSUME NEW d \in Debates, d # e
          PROVE  Linked(d)' = Linked(d)
      <4>1. GroupsOf(d)' = GroupsOf(d)
        BY <1>5
      <4>2. \A g \in GroupsOf(d) : g \in DOMAIN groups /\ g # x
        BY <1>5, <3>1
      <4>3. \A g \in GroupsOf(d) : groups'[g] = groups[g]
        BY <1>4, <4>2
      <4>4. Linked(d)' = {g \in GroupsOf(d)' : groups'[g].stream}
        BY DEF Linked
      <4> QED
        BY <4>1, <4>3, <4>4 DEF Linked
    <3>2. Linked(e)' = Linked(e) \cup {x}
      BY <1>4, <1>5 DEF Linked
    <3> QED
      BY <3>1, <3>2
  <2>2. \A d \in Debates, r \in 1..MaxRound :
          FloorOf(d, r)' = IF d = e /\ r = round THEN FloorOf(d, r) \cup {members}
                           ELSE FloorOf(d, r)
    <3> SUFFICES ASSUME NEW d \in Debates, NEW r \in 1..MaxRound
                 PROVE  FloorOf(d, r)' = IF d = e /\ r = round
                                         THEN FloorOf(d, r) \cup {members}
                                         ELSE FloorOf(d, r)
      OBVIOUS
    <3>1. \A g \in Linked(d) \cup {x} : /\ groups'[g].round = groups[g].round
                                        /\ groups'[g].members = groups[g].members
      BY <1>4, <1>5
    <3>2. CASE d = e /\ r = round
      BY <1>1, <2>1, <3>1, <3>2 DEF FloorOf
    <3>3. CASE d = e /\ r # round
      BY <1>1, <2>1, <3>1, <3>3 DEF FloorOf
    <3>4. CASE d # e
      BY <2>1, <3>1, <3>4 DEF FloorOf
    <3> QED
      BY <3>2, <3>3, <3>4
  <2>3. Floor' = [Floor EXCEPT ![e][round] = FloorOf(e, round) \cup {members}]
    <3>1. Floor' = [d \in Debates |-> [r \in 1..MaxRound |-> FloorOf(d, r)']]
      BY FloorFields
    <3> DEFINE opened == FloorOf(e, round) \cup {members}
    <3>2. Floor' = [d \in Debates |-> [r \in 1..MaxRound |->
                      IF d = e /\ r = round THEN opened ELSE FloorOf(d, r)]]
      BY <2>2, <3>1
    <3> HIDE DEF opened
    <3>3. [Floor EXCEPT ![e][round] = opened]
            = [d \in Debates |-> [r \in 1..MaxRound |->
                 IF d = e /\ r = round THEN opened ELSE FloorOf(d, r)]]
      BY FloorFields
    <3> QED
      BY <3>2, <3>3 DEF opened
  <2>4. Floor[e] = [r \in 1..MaxRound |-> FloorOf(e, r)]
    BY FloorFields
  <2>5. members \in SUBSET Users /\ members \subseteq active[e]
    BY <1>1, <1>3 DEF Group
  <2>6. \A other \in FloorOf(e, round) : members \cap other = {}
    <3> SUFFICES ASSUME NEW h \in Linked(e), groups[h].round = round
                 PROVE  members \cap groups[h].members = {}
      BY DEF FloorOf
    <3>1. h \in DOMAIN groups /\ groups[h].stream /\ groups[h].debat = e
      BY <1>5 DEF Linked, GroupsOf
    <3>2. /\ h \in DOMAIN groups' /\ groups'[h].stream /\ groups'[h].debat = e
          /\ groups'[h].round = round /\ groups'[h].members = groups[h].members
          /\ h # x
      BY <1>4, <1>7, <3>1
    <3>3. /\ x \in DOMAIN groups' /\ groups'[x].debat = e
          /\ groups'[x].round = round /\ groups'[x].members = members
      BY <1>1, <1>3, <1>4
    <3> QED
      BY <1>4, <3>2, <3>3 DEF LinkedGroupsDisjoint, GroupIds
  <2>7. round > 1 => Floor[e][round - 1] # {}
    <3> SUFFICES ASSUME round > 1
                 PROVE  FloorOf(e, round - 1) # {} /\ round - 1 \in 1..MaxRound
      BY <2>4
    <3>1. round - 1 \in 1..round - 1 /\ round - 1 \in 1..MaxRound
      BY ConstantTypes
    <3> QED
      BY <1>1, <3>1, FloorFields
  <2>8. \A later \in round + 1..MaxRound : Floor[e][later] = {}
    <3> SUFFICES ASSUME NEW later \in round + 1..MaxRound
                 PROVE  ~Opened(e, later) /\ later \in 1..MaxRound
      BY <2>4, FloorFields
    <3>1. later \in 1..MaxRound /\ ~(later <= round)
      BY ConstantTypes
    <3> QED
      BY <1>1, <3>1 DEF Opened, Known
  <2>9. Abstract!OpenGroup(e, round, members)
    BY <2>3, <2>4, <2>5, <2>6, <2>7, <2>8 DEF Abstract!OpenGroup
  <2> QED
    BY <2>5, <2>9 DEF Abstract!Next
<1> QED
  BY <1>6, <1>7

(***************************************************************************)
(* What a division appends to the table is a batch.                        *)
(***************************************************************************)
LEMMA DivisionAppends ==
    ASSUME EngineInv, Launch \/ \E t \in ThreadIds : OpenRound(t)
    PROVE  /\ \E d, round, batch : IsBatch(batch, d, round) /\ groups' = groups \o batch
           /\ UNCHANGED <<joined, active>>
<1>1. active \in [Debates -> SUBSET Users]
  BY DEF EngineInv, EngineType
<1>2. CASE Launch
  <2> DEFINE copy == [Visited.obj EXCEPT !.step = 3]
  <2>1. main \in MainType /\ main.todo # <<>>
    BY <1>2 DEF EngineInv, EngineType, Launch, Visiting
  <2>2. Visited.debat \in Debates /\ copy \in Row
    BY <2>1, VisitedType, RowUpdates
  <2>3. PICK d \in Debates, obj \in Row : d = Visited.debat /\ obj = copy
    BY <2>2
  <2>4. PICK batch \in Batches(d, obj.round, active[d], obj.max_per_group) :
           groups' = groups \o batch
    BY <1>2, <2>3 DEF Launch
  <2>5. IsBatch(batch, d, obj.round)
    BY <1>1, <2>4, RowFields, BatchesAreBatches
  <2>6. UNCHANGED <<joined, active>>
    BY <1>2 DEF Launch
  <2> QED
    BY <2>4, <2>5, <2>6
<1>3. ASSUME NEW t \in ThreadIds, OpenRound(t)
      PROVE  /\ \E d, round, batch :
                  IsBatch(batch, d, round) /\ groups' = groups \o batch
             /\ UNCHANGED <<joined, active>>
  <2>1. threads[t] \in Thread
    BY DEF EngineInv, EngineType, ThreadIds
  <2>2. /\ threads[t].debat \in Debates
        /\ threads[t].obj.max_per_group \in Limits
        /\ threads[t].obj.round + 1 \in 1..MaxRound
    <3>1. /\ threads[t].debat \in Debates /\ threads[t].obj \in Row
          /\ threads[t].obj.round \in 1..MaxRound
          /\ threads[t].obj.max_per_group \in Limits
      BY <2>1, ThreadFields, RowFields
    <3>2. threads[t].obj.round + 1 <= MaxRound
      BY <1>3 DEF OpenRound
    <3>3. threads[t].obj.round + 1 \in 1..MaxRound
      BY <3>1, <3>2, ConstantTypes
    <3> QED
      BY <3>1, <3>3
  <2>3. PICK d \in Debates, round \in 1..MaxRound, limit \in Limits :
           /\ d = threads[t].debat
           /\ round = threads[t].obj.round + 1
           /\ limit = threads[t].obj.max_per_group
    BY <2>2
  <2>4. PICK batch \in Batches(d, round, active[d], limit) : groups' = groups \o batch
    BY <1>3, <2>3 DEF OpenRound
  <2>5. IsBatch(batch, d, round)
    BY <1>1, <2>4, BatchesAreBatches
  <2>6. UNCHANGED <<joined, active>>
    BY <1>3 DEF OpenRound
  <2> QED
    BY <2>4, <2>5, <2>6
<1> QED
  BY <1>2, <1>3

(***************************************************************************)
(* Every step of the processes is a step of the tournament, or none.       *)
(***************************************************************************)
LEMMA StepRefines ==
    ASSUME EngineInv, RoundsInv, LinkedGroupsDisjoint', [Next]_vars
    PROVE  [Abstract!Next]_(Abstract!vars)
<1>1. /\ joined \in [Debates -> SUBSET Users]
      /\ active \in [Debates -> SUBSET Users]
      /\ representative \in [Debates -> SUBSET Users]
      /\ groups \in Seq(Group)
      /\ requests \subseteq Request
  BY DEF EngineInv, EngineType
<1>2. CASE UNCHANGED <<joined, active>> /\ UNCHANGED groups
  <2>1. Floor' = Floor
    BY <1>1, <1>2, FloorQuiet, GroupsLeft
  <2> QED
    BY <1>2, <2>1 DEF Abstract!vars
<1>3. ASSUME NEW q \in requests, CommitSubscription(q)
      PROVE  Abstract!Next
  <2>1. q.debat \in Debates /\ q.user \in Users
    BY <1>1, <1>3 DEF CommitSubscription, Request
  <2>2. /\ q.user \notin joined[q.debat]
        /\ joined' = [joined EXCEPT ![q.debat] = joined[q.debat] \cup {q.user}]
        /\ active' = [active EXCEPT ![q.debat] = active[q.debat] \cup {q.user}]
        /\ UNCHANGED groups
    BY <1>3 DEF CommitSubscription
  <2>3. Floor' = Floor
    BY <1>1, <2>2, FloorQuiet, GroupsLeft
  <2>4. Abstract!Join(q.debat, q.user)
    BY <2>2, <2>3 DEF Abstract!Join
  <2> QED
    BY <2>1, <2>4 DEF Abstract!Next
<1>4. CASE MainLink
  <2>1. /\ Visited.debat \in Debates
        /\ Works(Visited.debat, 0)
        /\ PendingOf(0) = main.batch
    BY <1>4, MainLinkRounds
  <2>2. PICK d \in Debates : d = Visited.debat
    BY <2>1
  <2>3. /\ Works(d, 0)
        /\ PendingOf(0) # <<>>
        /\ ~StreamTaken(Head(PendingOf(0)))
        /\ groups' = [groups EXCEPT ![Head(PendingOf(0))].stream = TRUE]
        /\ UNCHANGED <<joined, active>>
        /\ 0 \in Nat
    BY <1>4, <2>1, <2>2 DEF MainLink
  <2> QED
    BY <2>3, LinkOpens
<1>5. ASSUME NEW t \in ThreadIds, ThreadLink(t)
      PROVE  [Abstract!Next]_(Abstract!vars)
  <2>1. /\ t \in Nat
        /\ threads[t].debat \in Debates
        /\ Works(threads[t].debat, t)
        /\ PendingOf(t) = threads[t].batch
    BY <1>5, ThreadLinkRounds
  <2>2. PICK d \in Debates : d = threads[t].debat
    BY <2>1
  <2>3. /\ Works(d, t)
        /\ PendingOf(t) # <<>>
        /\ ~StreamTaken(Head(PendingOf(t)))
        /\ groups' = [groups EXCEPT ![Head(PendingOf(t))].stream = TRUE]
        /\ UNCHANGED <<joined, active>>
    BY <1>5, <2>1, <2>2 DEF ThreadLink
  <2> QED
    BY <2>1, <2>3, LinkOpens
<1>6. ASSUME NEW t \in ThreadIds, Eliminate(t)
      PROVE  Abstract!Next
  <2>1. PICK d \in Debates : d = threads[t].debat
    BY ThreadFields DEF EngineInv, EngineType, ThreadIds
  <2>2. /\ active' = [active EXCEPT ![d] = active[d] \cap representative[d]]
        /\ ArchiveGroups({d})
        /\ UNCHANGED joined
    BY <1>6, <2>1 DEF Eliminate
  <2>3. Floor' = Floor
    BY <1>1, <2>2, ArchiveRounds, FloorQuiet
  <2> DEFINE out == active[d] \ representative[d]
  <2>4. out \in SUBSET Users /\ active[d] \cap representative[d] = active[d] \ out
    BY <1>1
  <2>5. Abstract!Eliminate(d, out)
    BY <2>2, <2>3, <2>4 DEF Abstract!Eliminate
  <2> QED
    BY <2>4, <2>5 DEF Abstract!Next
<1>7. CASE Sigint
  <2>1. Floor' = Floor
    BY <1>1, <1>7, ArchiveRounds, FloorQuiet DEF Sigint
  <2> QED
    BY <1>7, <2>1 DEF Sigint, Abstract!vars
<1>8. CASE Launch \/ \E t \in ThreadIds : OpenRound(t)
  <2>1. Floor' = Floor /\ UNCHANGED <<joined, active>>
    BY <1>1, <1>8, DivisionAppends, FloorQuiet
  <2> QED
    BY <2>1 DEF Abstract!vars
<1>9. ASSUME ~(\E q \in requests : CommitSubscription(q)), ~MainLink,
             ~(\E t \in ThreadIds : ThreadLink(t) \/ Eliminate(t)), ~Sigint,
             ~(Launch \/ \E t \in ThreadIds : OpenRound(t))
      PROVE  UNCHANGED <<joined, active>> /\ UNCHANGED groups
  BY <1>9 DEF Next, Tick, Web, Subscribe, RepeatSubscription,
     RejectSubscription, SubmitParameters, CommitParameters, MainLoop, BeginCheck,
     EndCheck, PassOver, Prepare, NotYet, MainSubscribe, MainLinkFails,
     StartThread, Interrupt, Restart, RunSteps, Finish, AskParticipants,
     SendPolls, SendPollsFails, CountVotes, CountVotesFails, ThreadSubscribe,
     ThreadLinkFails, RoundOpened, Close, database, vars
<1> QED
  BY <1>2, <1>3, <1>4, <1>5, <1>6, <1>7, <1>8, <1>9

(***************************************************************************)
(* The tables implement the tournament: the groups whose rows are linked to*)
(* a channel, which the bot polls and counts, are disjoint, in the order of*)
(* the rounds, and of those still active.                                  *)
(***************************************************************************)
THEOREM DebatesImplementTournament == Spec => IsATournament
<1>1. Init => Abstract!Init
  <2> SUFFICES ASSUME Init PROVE Abstract!Init
    OBVIOUS
  <2>1. joined \in [Debates -> SUBSET Users] /\ active = joined
    BY EngineAssumption DEF Init
  <2>2. \A d, r : FloorOf(d, r) = {}
    BY DEF Init, FloorOf, Linked, GroupsOf, GroupIds
  <2>3. Floor = [d \in Debates |-> [r \in 1..MaxRound |-> {}]]
    BY <2>2, FloorFields
  <2> QED
    BY <2>1, <2>3 DEF Abstract!Init
<1>2. EngineInv /\ RoundsInv /\ LinkedGroupsDisjoint' /\ [Next]_vars
        => [Abstract!Next]_(Abstract!vars)
  BY StepRefines
<1> QED
  BY <1>1, <1>2, RoundsInvariant, LinkedDisjoint, PTL
     DEF Spec, IsATournament, Abstract!Spec
=============================================================================
