-------------------------- MODULE EventQueueProofs --------------------------
(***************************************************************************)
(* What the operations of EventQueue do to a queue, for any notices: they  *)
(* keep its type and the order of its ids, prune from the head only, and   *)
(* lose no event.  The proofs about Tornado cite these lemmas and look     *)
(* into no queue themselves.                                               *)
(***************************************************************************)
EXTENDS EventQueue, FiniteSetTheorems, SequenceTheorems, TLAPS

-----------------------------------------------------------------------------
(* Numbers and sequences.                                                  *)

(***************************************************************************)
(* A set of natural numbers that is not empty has a least element.         *)
(***************************************************************************)
LEMMA LeastNatural ==
    ASSUME NEW S \in SUBSET Nat, S # {}
    PROVE  \E i \in S : \A j \in S : i <= j
<1>1. PICK i \in S : \A j \in S : ~(<<j, i>> \in OpToRel(<, Nat))
  BY NatLessThanWellFounded, WFMin
<1>2. \A j \in S : ~(j < i)
  BY <1>1 DEF OpToRel
<1> QED
  BY <1>2

(***************************************************************************)
(* A set of numbers up to n that is not empty has a greatest element.      *)
(***************************************************************************)
LEMMA GreatestNatural ==
    ASSUME NEW n \in Nat, NEW S \in SUBSET (0..n), S # {}
    PROVE  \E i \in S : \A j \in S : j <= i
<1> DEFINE T == {k \in 0..n : n - k \in S}
<1>1. T \in SUBSET Nat
  OBVIOUS
<1>2. T # {}
  <2>1. PICK s \in S : TRUE
    OBVIOUS
  <2>2. n - s \in 0..n /\ n - (n - s) = s
    OBVIOUS
  <2> QED
    BY <2>2
<1>3. PICK k \in T : \A j \in T : k <= j
  BY <1>1, <1>2, LeastNatural
<1>4. \A j \in S : n - j \in T
  OBVIOUS
<1>5. \A j \in S : j <= n - k
  BY <1>3, <1>4
<1> QED
  BY <1>3, <1>5

(***************************************************************************)
(* The numbers of a finite set have a greatest one.                        *)
(***************************************************************************)
LEMMA GreatestOfFinite ==
    ASSUME NEW S \in SUBSET Int, IsFiniteSet(S), S # {}
    PROVE  \E i \in S : \A j \in S : j <= i
<1> DEFINE HasGreatest(T) == \E i \in T : \A j \in T : j <= i
           Bad == {n \in Nat : \E T \in SUBSET Int :
                      IsFiniteSet(T) /\ Cardinality(T) = n /\ T # {} /\ ~HasGreatest(T)}
<1>1. SUFFICES ASSUME ~HasGreatest(S) PROVE FALSE
  OBVIOUS
<1>2. Bad # {} /\ Bad \in SUBSET Nat
  BY <1>1, FS_CardinalityType
<1>3. PICK n \in Bad : \A m \in Bad : n <= m
  BY <1>2, LeastNatural
<1>4. PICK T \in SUBSET Int :
         IsFiniteSet(T) /\ Cardinality(T) = n /\ T # {} /\ ~HasGreatest(T)
  BY <1>3
<1>5. PICK e \in T : TRUE
  BY <1>4
<1>6. IsFiniteSet(T \ {e}) /\ Cardinality(T \ {e}) = n - 1
  BY <1>4, <1>5, FS_RemoveElement
<1>7. n - 1 \in Nat
  BY <1>6, FS_CardinalityType
<1>8. CASE T \ {e} = {}
  BY <1>4, <1>5, <1>8
<1>9. CASE T \ {e} # {}
  <2>1. HasGreatest(T \ {e})
    <3>1. n - 1 \notin Bad
      BY <1>3, <1>7
    <3> QED
      BY <3>1, <1>6, <1>7, <1>9
  <2>2. PICK i \in T \ {e} : \A j \in T \ {e} : j <= i
    BY <2>1
  <2>3. CASE i <= e
    BY <2>2, <2>3, <1>4, <1>5
  <2>4. CASE e <= i
    BY <2>2, <2>4, <1>4, <1>5
  <2> QED
    BY <2>3, <2>4
<1> QED
  BY <1>8, <1>9

(***************************************************************************)
(* What is in a sequence.                                                  *)
(***************************************************************************)
LEMMA ToSetProperties ==
    ASSUME NEW S, NEW s \in Seq(S)
    PROVE  /\ ToSet(s) \subseteq S
           /\ IsFiniteSet(ToSet(s))
           /\ ToSet(<<>>) = {}
           /\ \A e \in S : ToSet(Append(s, e)) = ToSet(s) \cup {e}
<1>1. Len(s) \in Nat /\ DOMAIN s = 1..Len(s) /\ \A i \in 1..Len(s) : s[i] \in S
  OBVIOUS
<1>2. IsFiniteSet(ToSet(s))
  <2>1. IsFiniteSet(1..Len(s))
    BY <1>1, FS_Interval
  <2>2. s \in Surjection(1..Len(s), ToSet(s))
    BY <1>1 DEF Surjection, ToSet
  <2> QED
    BY <2>1, <2>2, FS_Surjection
<1>3. ASSUME NEW e \in S
      PROVE  ToSet(Append(s, e)) = ToSet(s) \cup {e}
  <2>1. /\ DOMAIN Append(s, e) = 1..(Len(s) + 1)
        /\ \A i \in 1..Len(s) : Append(s, e)[i] = s[i]
        /\ Append(s, e)[Len(s) + 1] = e
    BY <1>1
  <2>2. 1..(Len(s) + 1) = 1..Len(s) \cup {Len(s) + 1}
    BY <1>1
  <2> QED
    BY <1>1, <2>1, <2>2 DEF ToSet
<1> QED
  BY <1>1, <1>2, <1>3 DEF ToSet

(***************************************************************************)
(* What is in two sequences, one after the other.                          *)
(***************************************************************************)
LEMMA ToSetConcat ==
    ASSUME NEW S, NEW s \in Seq(S), NEW t \in Seq(S)
    PROVE  ToSet(s \o t) = ToSet(s) \cup ToSet(t)
<1>1. /\ Len(s) \in Nat /\ Len(t) \in Nat
      /\ DOMAIN s = 1..Len(s) /\ DOMAIN t = 1..Len(t)
      /\ DOMAIN (s \o t) = 1..(Len(s) + Len(t))
      /\ \A i \in 1..Len(s) : (s \o t)[i] = s[i]
      /\ \A i \in 1..(Len(s) + Len(t)) : i > Len(s) => (s \o t)[i] = t[i - Len(s)]
  OBVIOUS
<1>2. \A i \in 1..Len(t) :
         Len(s) + i \in DOMAIN (s \o t) /\ (s \o t)[Len(s) + i] = t[i]
  BY <1>1
<1>3. \A i \in 1..Len(s) : i \in DOMAIN (s \o t)
  BY <1>1
<1>4. \A i \in DOMAIN (s \o t) :
         i \in 1..Len(s) \/ i - Len(s) \in 1..Len(t)
  BY <1>1
<1> HIDE DEF ToSet
<1>5. ASSUME NEW x \in ToSet(s \o t)
      PROVE  x \in ToSet(s) \cup ToSet(t)
  <2>1. PICK i \in DOMAIN (s \o t) : x = (s \o t)[i]
    BY DEF ToSet
  <2>2. CASE i \in 1..Len(s)
    BY <1>1, <2>1, <2>2 DEF ToSet
  <2>3. CASE i - Len(s) \in 1..Len(t)
    BY <1>1, <1>2, <2>1, <2>3 DEF ToSet
  <2> QED
    BY <1>4, <2>2, <2>3
<1>6. ASSUME NEW x \in ToSet(s) \cup ToSet(t)
      PROVE  x \in ToSet(s \o t)
  <2>1. CASE x \in ToSet(s)
    <3>1. PICK i \in 1..Len(s) : x = s[i]
      BY <1>1, <2>1 DEF ToSet
    <3> QED
      BY <1>1, <1>3, <3>1 DEF ToSet
  <2>2. CASE x \in ToSet(t)
    <3>1. PICK i \in 1..Len(t) : x = t[i]
      BY <1>1, <2>2 DEF ToSet
    <3> QED
      BY <1>2, <3>1 DEF ToSet
  <2> QED
    BY <1>6, <2>1, <2>2
<1> QED
  BY <1>5, <1>6

-----------------------------------------------------------------------------
(* The order of the ids.                                                   *)

\* Ids are natural numbers, and no two events have the same
DistinctIds(events) ==
    /\ \A e \in events : e.id \in Nat
    /\ \A e, f \in events : e.id = f.id => e = f

(***************************************************************************)
(* InIdOrder puts each of the events at one place, in the order of the ids.*)
(***************************************************************************)
LEMMA InIdOrderSorts ==
    ASSUME NEW events, IsFiniteSet(events), DistinctIds(events)
    PROVE  LET s == InIdOrder(events)
           IN  /\ s \in Seq(events)
               /\ ToSet(s) = events
               /\ \A i, j \in DOMAIN s : i < j => s[i].id < s[j].id
<1> DEFINE n == Cardinality(events)
           before(e) == {f \in events : f.id < e.id}
           rank(e) == Cardinality(before(e))
           s == InIdOrder(events)
<1>1. n \in Nat
  BY FS_CardinalityType
<1>2. \A e \in events : IsFiniteSet(before(e)) /\ rank(e) \in Nat
  <2> SUFFICES ASSUME NEW e \in events
               PROVE  IsFiniteSet(before(e)) /\ rank(e) \in Nat
    OBVIOUS
  <2>1. before(e) \in SUBSET events
    OBVIOUS
  <2> HIDE DEF before
  <2> QED
    BY <2>1, FS_Subset, FS_CardinalityType
<1>3. ASSUME NEW e \in events, NEW f \in events, e.id < f.id
      PROVE  rank(e) < rank(f)
  <2>1. e \notin before(e)
    BY DEF DistinctIds
  <2>2. before(e) \cup {e} \in SUBSET before(f)
    BY <1>3 DEF DistinctIds
  <2> HIDE DEF before
  <2>3. Cardinality(before(e) \cup {e}) = rank(e) + 1
    BY <1>2, <2>1, FS_AddElement
  <2>4. rank(e) + 1 <= rank(f)
    BY <1>2, <2>2, <2>3, FS_Subset
  <2> QED
    BY <1>2, <2>4
<1>4. \A e \in events : rank(e) \in 0..(n - 1)
  <2> SUFFICES ASSUME NEW e \in events
               PROVE  rank(e) \in 0..(n - 1)
    OBVIOUS
  <2>1. before(e) \in SUBSET (events \ {e})
    BY DEF DistinctIds
  <2>2. IsFiniteSet(events \ {e}) /\ Cardinality(events \ {e}) = n - 1
    BY FS_RemoveElement
  <2> HIDE DEF before
  <2>3. rank(e) <= n - 1
    BY <2>1, <2>2, FS_Subset
  <2> QED
    BY <1>1, <1>2, <2>3
<1> HIDE DEF rank, before, n
<1>5. \A e, f \in events : rank(e) = rank(f) => e = f
  <2> SUFFICES ASSUME NEW e \in events, NEW f \in events, rank(e) = rank(f)
               PROVE  e = f
    OBVIOUS
  <2>1. ~(e.id < f.id) /\ ~(f.id < e.id)
    BY <1>2, <1>3
  <2> QED
    BY <2>1 DEF DistinctIds
<1>6. ASSUME NEW i \in 0..(n - 1)
      PROVE  \E e \in events : rank(e) = i
  <2> SUFFICES ASSUME \A e \in events : rank(e) # i
               PROVE  FALSE
    OBVIOUS
  <2> DEFINE r == [e \in events |-> rank(e)]
             places == (0..(n - 1)) \ {i}
  <2>1. r \in Injection(events, places)
    BY <1>4, <1>5 DEF Injection, IsInjective
  <2>2. IsFiniteSet(0..(n - 1)) /\ Cardinality(0..(n - 1)) = n
    BY <1>1, <1>6, FS_Interval
  <2>3. IsFiniteSet(places) /\ Cardinality(places) = n - 1
    BY <1>6, <2>2, FS_RemoveElement
  <2>4. n <= n - 1
    BY <2>1, <2>3, FS_Injection DEF n
  <2> QED
    BY <1>1, <2>4
<1>7. DOMAIN s = 1..n /\ \A i \in 1..n : s[i] \in events /\ rank(s[i]) = i - 1
  <2>1. s = [i \in 1..n |-> CHOOSE e \in events : rank(e) = i - 1]
    BY DEF InIdOrder, rank, before, n
  <2>2. \A i \in 1..n : \E e \in events : rank(e) = i - 1
    BY <1>1, <1>6
  <2> HIDE DEF s
  <2> QED
    BY <2>1, <2>2
<1> HIDE DEF s
<1>8. s \in Seq(events)
  <2>1. s \in [1..n -> events]
    BY <1>7 DEF s, InIdOrder, n
  <2> QED
    BY <1>1, <2>1
<1>9. ToSet(s) = events
  <2>1. ToSet(s) \subseteq events
    BY <1>7 DEF ToSet
  <2>2. ASSUME NEW e \in events
        PROVE  e \in ToSet(s)
    <3>1. rank(e) + 1 \in 1..n
      BY <1>1, <1>4
    <3>2. s[rank(e) + 1] \in events /\ rank(s[rank(e) + 1]) = rank(e)
      BY <1>4, <1>7, <3>1
    <3>3. s[rank(e) + 1] = e
      BY <1>5, <3>2
    <3> QED
      BY <1>7, <3>1, <3>3 DEF ToSet
  <2> QED
    BY <2>1, <2>2
<1>10. \A i, j \in DOMAIN s : i < j => s[i].id < s[j].id
  <2> SUFFICES ASSUME NEW i \in 1..n, NEW j \in 1..n, i < j
               PROVE  s[i].id < s[j].id
    BY <1>7
  <2>1. s[i] \in events /\ s[j] \in events /\ rank(s[i]) < rank(s[j])
    BY <1>7
  <2>2. s[i].id \in Nat /\ s[j].id \in Nat
    BY <2>1 DEF DistinctIds
  <2>3. ~(s[j].id < s[i].id)
    BY <1>2, <1>3, <2>1
  <2>4. s[i].id # s[j].id
    BY <1>2, <2>1 DEF DistinctIds
  <2> QED
    BY <2>2, <2>3, <2>4
<1> QED
  BY <1>8, <1>9, <1>10 DEF s

-----------------------------------------------------------------------------
(* What the operations keep.                                               *)

\* A queue of a type, with finitely many virtual events
IsQueue(Notices, q) == q \in Queue(Notices) /\ IsFiniteSet(q.virtual_events)

Events(q) == ToSet(q.queue) \cup q.virtual_events

\* WellFormed without the ids that were pruned, which two lives of a queue
\* that was cut do not agree on
Ordered(q) ==
    /\ \A i, j \in DOMAIN q.queue : i < j => q.queue[i].id < q.queue[j].id
    /\ \A e \in Events(q) : e.id < q.next_event_id
    /\ \A v, w \in q.virtual_events : v.kind = w.kind => v = w
    /\ DistinctIds(Events(q))
    /\ q.virtual_events \cap ToSet(q.queue) = {}

(***************************************************************************)
(* The fields of a queue.                                                  *)
(***************************************************************************)
LEMMA QueueFields ==
    ASSUME NEW Notices, NEW q, IsQueue(Notices, q)
    PROVE  /\ q.queue \in Seq(Event(Notices))
           /\ ToSet(q.queue) \subseteq Event(Notices)
           /\ Events(q) \subseteq Event(Notices)
           /\ IsFiniteSet(Events(q))
           /\ q.virtual_events \subseteq Event(Notices)
           /\ IsFiniteSet(q.virtual_events)
           /\ q.next_event_id \in Nat
           /\ q.newest_pruned_id \in Int
           /\ \A e \in Events(q) : e.id \in Nat /\ e.of \in Seq(Notices)
<1>1. /\ q.queue \in Seq(Event(Notices))
      /\ q.virtual_events \subseteq Event(Notices)
      /\ IsFiniteSet(q.virtual_events)
      /\ q.next_event_id \in Nat
      /\ q.newest_pruned_id \in Int
  BY DEF IsQueue, Queue
<1>2. ToSet(q.queue) \subseteq Event(Notices) /\ IsFiniteSet(ToSet(q.queue))
  BY <1>1, ToSetProperties
<1>3. IsFiniteSet(Events(q))
  BY <1>1, <1>2, FS_Union DEF Events
<1>4. Events(q) \subseteq Event(Notices)
  BY <1>1, <1>2 DEF Events
<1>5. \A e \in Event(Notices) : e.id \in Nat /\ e.of \in Seq(Notices)
  BY DEF Event
<1> QED
  BY <1>1, <1>2, <1>3, <1>4, <1>5

(***************************************************************************)
(* A queue is the record of its fields, and such a record is a queue.      *)
(***************************************************************************)
LEMMA QueueIs ==
    ASSUME NEW Notices, NEW q
    PROVE  IsQueue(Notices, q) <=>
              /\ q = [queue |-> q.queue, virtual_events |-> q.virtual_events,
                      next_event_id |-> q.next_event_id,
                      newest_pruned_id |-> q.newest_pruned_id]
              /\ q.queue \in Seq(Event(Notices))
              /\ q.virtual_events \subseteq Event(Notices)
              /\ IsFiniteSet(q.virtual_events)
              /\ q.next_event_id \in Nat
              /\ q.newest_pruned_id \in Int
BY DEF IsQueue, Queue

(***************************************************************************)
(* An ordered queue with nothing at or before its newest pruned id is what *)
(* contents() and prune() take for granted.                              *)
(***************************************************************************)
LEMMA OrderedIsWellFormed ==
    ASSUME NEW q, Ordered(q), \A e \in Events(q) : q.newest_pruned_id < e.id
    PROVE  WellFormed(q)
BY DEF Ordered, WellFormed, Events, DistinctIds

(***************************************************************************)
(* A queue at its registration.                                            *)
(***************************************************************************)
LEMMA NewQueueKeeps ==
    ASSUME NEW Notices
    PROVE  /\ IsQueue(Notices, NewQueue)
           /\ Ordered(NewQueue)
           /\ Events(NewQueue) = {}
           /\ NewQueue.newest_pruned_id = -1
           /\ NewQueue.next_event_id = 0
<1>1. NewQueue.queue = <<>> /\ NewQueue.virtual_events = {}
  BY DEF NewQueue
<1>2. Events(NewQueue) = {}
  BY <1>1 DEF Events, ToSet
<1>3. IsQueue(Notices, NewQueue)
  <2>1. <<>> \in Seq(Event(Notices))
    BY EmptySeq
  <2> QED
    BY <2>1, FS_EmptySet DEF IsQueue, Queue, NewQueue
<1> QED
  BY <1>1, <1>2, <1>3 DEF Ordered, DistinctIds, NewQueue

(***************************************************************************)
(* contents() makes events of the virtual events, in the order of the ids, *)
(* and changes nothing else.                                               *)
(***************************************************************************)
LEMMA SettleKeeps ==
    ASSUME NEW Notices, NEW q, IsQueue(Notices, q), Ordered(q)
    PROVE  /\ IsQueue(Notices, Settle(q))
           /\ Ordered(Settle(q))
           /\ Events(Settle(q)) = Events(q)
           /\ ToSet(Settle(q).queue) = Events(q)
           /\ Settle(q).virtual_events = {}
           /\ Settle(q).next_event_id = q.next_event_id
           /\ Settle(q).newest_pruned_id = q.newest_pruned_id
<1> DEFINE s == InIdOrder(Events(q))
<1>1. /\ s \in Seq(Events(q))
      /\ ToSet(s) = Events(q)
      /\ \A i, j \in DOMAIN s : i < j => s[i].id < s[j].id
  BY InIdOrderSorts, QueueFields DEF Ordered
<1>2. Settle(q) = [q EXCEPT !.queue = s, !.virtual_events = {}]
  BY DEF Settle, Events
<1>3. s \in Seq(Event(Notices))
  BY <1>1, QueueFields, SeqMonotonic
<1> HIDE DEF s
<1>4. /\ Settle(q).queue = s
      /\ Settle(q).virtual_events = {}
      /\ Settle(q).next_event_id = q.next_event_id
      /\ Settle(q).newest_pruned_id = q.newest_pruned_id
      /\ Settle(q) \in Queue(Notices)
  BY <1>2, <1>3 DEF IsQueue, Queue
<1>5. Events(Settle(q)) = Events(q)
  BY <1>1, <1>4 DEF Events
<1>6. Ordered(Settle(q))
  BY <1>1, <1>4, <1>5 DEF Ordered
<1> QED
  BY <1>1, <1>4, <1>5, <1>6, FS_EmptySet DEF IsQueue

\* The events of p stand for those of q and for some notices more
Adds(p, q, of) ==
    \A n : (\E e \in Events(p) : n \in ToSet(e.of))
           <=> n \in ToSet(of) \/ \E e \in Events(q) : n \in ToSet(e.of)

(***************************************************************************)
(* Whatever is pushed takes the next id, and the others keep theirs.       *)
(***************************************************************************)
LEMMA PushKeeps ==
    ASSUME NEW Notices, NEW q, IsQueue(Notices, q), Ordered(q),
           NEW kind \in Kinds, NEW of \in Seq(Notices)
    PROVE  /\ IsQueue(Notices, Push(q, kind, of))
           /\ Ordered(Push(q, kind, of))
           /\ Push(q, kind, of).next_event_id = q.next_event_id + 1
           /\ Push(q, kind, of).newest_pruned_id = q.newest_pruned_id
           /\ ToSet(q.queue) \subseteq ToSet(Push(q, kind, of).queue)
           /\ \A e \in ToSet(Push(q, kind, of).queue) :
                 e \in ToSet(q.queue) \/ e.id = q.next_event_id
           /\ \A v \in Push(q, kind, of).virtual_events :
                 v \in q.virtual_events \/ v.id = q.next_event_id
           /\ Adds(Push(q, kind, of), q, of)
<1> DEFINE p == Push(q, kind, of)
           new == q.next_event_id
           event == [id |-> new, kind |-> kind, of |-> of]
           same == {v \in q.virtual_events : v.kind = kind}
           merged == {[event EXCEPT !.of = v.of \o of] : v \in same}
           joined == IF same = {} THEN {event} ELSE merged
           moved == (q.virtual_events \ same) \cup joined
<1>1. new \in Nat /\ event \in Event(Notices)
  BY QueueFields DEF Event
<1>2. CASE kind \notin VirtualKinds
  <2>1. p = [q EXCEPT !.next_event_id = new + 1, !.queue = Append(q.queue, event)]
    BY <1>2 DEF Push, IsQueue, Queue
  <2> HIDE DEF event
  <2>2. /\ p.queue = Append(q.queue, event)
        /\ p.virtual_events = q.virtual_events
        /\ p.next_event_id = new + 1
        /\ p.newest_pruned_id = q.newest_pruned_id
    BY <2>1 DEF IsQueue, Queue
  <2>3. Append(q.queue, event) \in Seq(Event(Notices))
    BY <1>1, QueueFields, AppendProperties
  <2>4. IsQueue(Notices, p)
    <3>1. new + 1 \in Nat
      BY <1>1
    <3>2. p = [queue |-> p.queue, virtual_events |-> p.virtual_events,
               next_event_id |-> p.next_event_id,
               newest_pruned_id |-> p.newest_pruned_id]
      <4> HIDE DEF new
      <4> QED
        BY <2>1, QueueIs
    <3>3. /\ q.virtual_events \subseteq Event(Notices)
          /\ IsFiniteSet(q.virtual_events)
          /\ q.newest_pruned_id \in Int
      BY QueueFields
    <3> HIDE DEF p, new, same, merged, joined, moved
    <3> QED
      BY <2>2, <2>3, <3>1, <3>2, <3>3, QueueIs
  <2>5. ToSet(p.queue) = ToSet(q.queue) \cup {event}
    BY <1>1, <2>2, QueueFields, ToSetProperties
  <2>6. Events(p) = Events(q) \cup {event}
    BY <2>2, <2>5 DEF Events
  <2>7. event.id = new /\ event.of = of
    BY DEF event
  <2>8. \A e \in Events(q) : e.id \in Nat /\ e.id < new
    BY QueueFields DEF Ordered
  <2>9. DistinctIds(Events(p)) /\ \A e \in Events(p) : e.id < new + 1
    BY <1>1, <2>6, <2>7, <2>8 DEF Ordered, DistinctIds
  <2>10. \A i, j \in DOMAIN p.queue : i < j => p.queue[i].id < p.queue[j].id
    <3>1. /\ Len(q.queue) \in Nat
          /\ DOMAIN q.queue = 1..Len(q.queue)
          /\ DOMAIN p.queue = 1..(Len(q.queue) + 1)
          /\ \A i \in 1..Len(q.queue) : p.queue[i] = q.queue[i]
          /\ p.queue[Len(q.queue) + 1] = event
      BY <1>1, <2>2, QueueFields, AppendProperties, LenProperties
    <3>2. \A i \in 1..Len(q.queue) : q.queue[i] \in Events(q)
      BY <3>1 DEF Events, ToSet
    <3>3. SUFFICES ASSUME NEW i \in 1..(Len(q.queue) + 1), NEW j \in 1..(Len(q.queue) + 1),
                          i < j
                   PROVE  p.queue[i].id < p.queue[j].id
      BY <3>1
    <3>4. i \in 1..Len(q.queue) /\ p.queue[i] = q.queue[i]
      BY <3>1, <3>3
    <3>5. CASE j = Len(q.queue) + 1
      <4>1. q.queue[i].id < new
        BY <2>8, <3>2, <3>4
      <4> HIDE DEF p, new
      <4> QED
        BY <2>7, <3>1, <3>4, <3>5, <4>1
    <3>6. CASE j # Len(q.queue) + 1
      <4>1. j \in 1..Len(q.queue) /\ p.queue[j] = q.queue[j]
        BY <3>1, <3>6
      <4>2. q.queue[i].id < q.queue[j].id
        BY <3>1, <3>3, <3>4, <4>1 DEF Ordered
      <4> HIDE DEF p
      <4> QED
        BY <3>4, <4>1, <4>2
    <3> QED
      BY <3>5, <3>6
  <2>11. event \notin q.virtual_events
    BY <1>1, <2>7, <2>8 DEF Events
  <2>12. Ordered(p)
    BY <2>2, <2>5, <2>9, <2>10, <2>11 DEF Ordered
  <2>13. Adds(p, q, of)
    <3> HIDE DEF p
    <3> QED
      BY <2>6, <2>7 DEF Adds
  <2>14. /\ ToSet(q.queue) \subseteq ToSet(p.queue)
         /\ \A e \in ToSet(p.queue) : e \in ToSet(q.queue) \/ e.id = new
         /\ \A v \in p.virtual_events : v \in q.virtual_events
    <3> HIDE DEF p
    <3> QED
      BY <2>2, <2>5, <2>7
  <2> HIDE DEF p, new
  <2> QED
    BY <2>2, <2>4, <2>12, <2>13, <2>14 DEF p, new
<1>3. CASE kind \in VirtualKinds
  <2>1. p = [q EXCEPT !.next_event_id = new + 1, !.virtual_events = moved]
    BY <1>3 DEF Push, IsQueue, Queue
  <2>2. /\ \A e \in joined : e.id = new /\ e.kind = kind /\ e \in Event(Notices)
        /\ \A e, f \in joined : e = f
        /\ IsFiniteSet(joined)
        /\ \A n : (\E e \in joined : n \in ToSet(e.of)) <=>
                    n \in ToSet(of) \/ \E v \in same : n \in ToSet(v.of)
    <3>1. CASE same = {}
      <4>1. joined = {event}
        BY <3>1
      <4>2. event.id = new /\ event.kind = kind /\ event.of = of
        OBVIOUS
      <4> HIDE DEF joined, event, same
      <4> QED
        BY <1>1, <3>1, <4>1, <4>2, FS_Singleton
    <3>2. CASE same # {}
      <4>1. PICK v \in same : TRUE
        BY <3>2
      <4>2. same = {v}
        BY <4>1 DEF Ordered
      <4> DEFINE one == [event EXCEPT !.of = v.of \o of]
      <4>3. joined = {one}
        BY <3>2, <4>2
      <4>4. v.of \in Seq(Notices) /\ v.of \o of \in Seq(Notices)
        BY <4>1, QueueFields, ConcatProperties DEF Events
      <4>5. /\ one.id = new /\ one.kind = kind /\ one.of = v.of \o of
            /\ one \in Event(Notices)
        BY <1>1, <4>4 DEF Event
      <4>6. ToSet(one.of) = ToSet(v.of) \cup ToSet(of)
        BY <4>4, <4>5, ToSetConcat
      <4> HIDE DEF joined, one, same
      <4> QED
        BY <4>2, <4>3, <4>5, <4>6, FS_Singleton
    <3> QED
      BY <3>1, <3>2
  <2> HIDE DEF joined, event
  <2>3. /\ p.queue = q.queue
        /\ p.virtual_events = moved
        /\ p.next_event_id = new + 1
        /\ p.newest_pruned_id = q.newest_pruned_id
    BY <2>1 DEF IsQueue, Queue
  <2>4. moved \subseteq Event(Notices) /\ IsFiniteSet(moved)
    BY <2>2, QueueFields, FS_Difference, FS_Union
  <2> HIDE DEF moved
  <2>5. IsQueue(Notices, p)
    <3>1. new + 1 \in Nat
      BY <1>1
    <3>2. p = [queue |-> p.queue, virtual_events |-> p.virtual_events,
               next_event_id |-> p.next_event_id,
               newest_pruned_id |-> p.newest_pruned_id]
      <4> HIDE DEF new, moved
      <4> QED
        BY <2>1, QueueIs
    <3>3. q.queue \in Seq(Event(Notices)) /\ q.newest_pruned_id \in Int
      BY QueueFields
    <3> HIDE DEF p, new, same, merged, joined, moved
    <3> QED
      BY <2>3, <2>4, <3>1, <3>2, <3>3, QueueIs
  <2>6. Events(p) = (Events(q) \ same) \cup joined
    BY <2>3 DEF Events, moved, Ordered
  <2>7. \A e \in Events(q) : e.id \in Nat /\ e.id < new
    BY QueueFields DEF Ordered
  <2>8. DistinctIds(Events(p)) /\ \A e \in Events(p) : e.id < new + 1
    BY <1>1, <2>2, <2>6, <2>7 DEF Ordered, DistinctIds
  <2>9. p.virtual_events \cap ToSet(p.queue) = {}
    BY <1>1, <2>2, <2>3, <2>7 DEF Ordered, moved, Events
  <2>10. \A v, w \in p.virtual_events : v.kind = w.kind => v = w
    BY <2>2, <2>3 DEF moved, Ordered
  <2>11. Ordered(p)
    BY <2>3, <2>8, <2>9, <2>10 DEF Ordered
  <2>12. \A v \in p.virtual_events : v \in q.virtual_events \/ v.id = new
    BY <2>2, <2>3 DEF moved
  <2>13. same \subseteq Events(q)
    BY DEF Events
  <2>14. \A n : (\E e \in Events(p) : n \in ToSet(e.of)) <=>
                  n \in ToSet(of) \/ \E e \in Events(q) : n \in ToSet(e.of)
    BY <2>2, <2>6, <2>13
  <2>15. Adds(p, q, of)
    BY <2>14 DEF Adds
  <2> HIDE DEF p, new, same
  <2> QED
    BY <2>3, <2>5, <2>11, <2>12, <2>15 DEF p, new
<1> QED
  BY <1>2, <1>3

(***************************************************************************)
(* prune() takes events off the head as far as they are acknowledged.      *)
(***************************************************************************)
LEMMA PruneTakesHead ==
    ASSUME NEW Notices, NEW q, IsQueue(Notices, q), NEW through \in Int
    PROVE  \E k \in 0..Len(q.queue) :
              /\ \A i \in 1..k : q.queue[i].id <= through
              /\ k < Len(q.queue) => q.queue[k + 1].id > through
              /\ Prune(q, through) =
                    IF k = 0 THEN q
                    ELSE [q EXCEPT !.queue = SubSeq(q.queue, k + 1, Len(q.queue)),
                                   !.newest_pruned_id = q.queue[k].id]
<1> DEFINE n == Len(q.queue)
           Through(k) == \A i \in 1..k : q.queue[i].id <= through
           popped == {k \in 1..n : Through(k)}
<1>1. n \in Nat /\ \A i \in 1..n : q.queue[i].id \in Nat
  <2>1. n \in Nat /\ \A i \in 1..n : q.queue[i] \in Event(Notices)
    BY QueueFields, LenProperties, ElementOfSeq
  <2> QED
    BY <2>1 DEF Event
<1>2. Prune(q, through) =
         IF Cardinality(popped) = 0 THEN q
         ELSE [q EXCEPT !.queue = SubSeq(q.queue, Cardinality(popped) + 1, n),
                        !.newest_pruned_id = q.queue[Cardinality(popped)].id]
  BY DEF Prune, IsQueue, Queue
<1>3. \E k \in 0..n : popped = 1..k /\ Through(k) /\ (k < n => q.queue[k + 1].id > through)
  <2>1. CASE popped = {}
    <3>1. n > 0 => 1 \notin popped
      BY <2>1
    <3>2. n > 0 => q.queue[1].id > through
      BY <1>1, <3>1
    <3>3. 1..0 = {}
      OBVIOUS
    <3> HIDE DEF n
    <3> QED
      BY <1>1, <2>1, <3>2, <3>3
  <2>2. CASE popped # {}
    <3>1. popped \in SUBSET (0..n)
      BY <1>1
    <3>2. PICK k \in popped : \A j \in popped : j <= k
      <4> HIDE DEF popped
      <4> QED
        BY <1>1, <2>2, <3>1, GreatestNatural
    <3>3. k \in 1..n /\ Through(k)
      OBVIOUS
    <3>4. \A j \in 1..k : j \in popped
      BY <1>1, <3>3
    <3>5. popped = 1..k
      BY <1>1, <3>2, <3>3, <3>4
    <3>6. k < n => q.queue[k + 1].id > through
      <4> SUFFICES ASSUME k < n, ~(q.queue[k + 1].id > through)
                   PROVE  FALSE
        OBVIOUS
      <4>1. k + 1 \in 1..n
        BY <1>1, <3>3
      <4>2. q.queue[k + 1].id <= through
        BY <1>1, <4>1
      <4>3. \A i \in 1..(k + 1) : i \in 1..k \/ i = k + 1
        BY <3>3
      <4>4. Through(k + 1)
        BY <3>3, <4>2, <4>3
      <4>5. k + 1 \in popped
        BY <4>1, <4>4
      <4> QED
        BY <3>2, <3>3, <4>5
    <3> HIDE DEF popped, Through, n
    <3> QED
      BY <1>1, <3>3, <3>5, <3>6
  <2> QED
    BY <2>1, <2>2
<1>4. PICK k \in 0..n : popped = 1..k /\ Through(k) /\ (k < n => q.queue[k + 1].id > through)
  BY <1>3
<1>5. Cardinality(popped) = k
  <2>1. Cardinality(1..k) = k
    BY FS_Interval
  <2> QED
    BY <1>4, <2>1
<1> HIDE DEF popped
<1> QED
  BY <1>2, <1>4, <1>5

(***************************************************************************)
(* What that means for the events: those that are gone were acknowledged,  *)
(* and the others are numbered above the newest of them.                   *)
(***************************************************************************)
LEMMA PruneKeeps ==
    ASSUME NEW Notices, NEW q, IsQueue(Notices, q), Ordered(q), NEW through \in Int
    PROVE  LET p == Prune(q, through)
           IN  /\ IsQueue(Notices, p)
               /\ Ordered(p)
               /\ p.virtual_events = q.virtual_events
               /\ p.next_event_id = q.next_event_id
               /\ ToSet(p.queue) \subseteq ToSet(q.queue)
               /\ \A e \in ToSet(q.queue) : e \in ToSet(p.queue) \/ e.id <= through
               /\ \A e \in ToSet(p.queue) : e.id > through
               /\ \/ p = q
                  \/ /\ p.newest_pruned_id <= through
                     /\ \E e \in ToSet(q.queue) \ ToSet(p.queue) :
                           e.id = p.newest_pruned_id
                     /\ \A e \in ToSet(p.queue) : p.newest_pruned_id < e.id
<1> DEFINE n == Len(q.queue)
           p == Prune(q, through)
<1>1. /\ n \in Nat /\ DOMAIN q.queue = 1..n
      /\ \A i \in 1..n : /\ q.queue[i] \in Event(Notices)
                         /\ q.queue[i] \in ToSet(q.queue)
                         /\ q.queue[i].id \in Nat
  <2>1. n \in Nat /\ DOMAIN q.queue = 1..n /\ \A i \in 1..n : q.queue[i] \in Event(Notices)
    BY QueueFields, LenProperties, ElementOfSeq
  <2>2. \A i \in 1..n : q.queue[i] \in ToSet(q.queue)
    BY <2>1 DEF ToSet
  <2> QED
    BY <2>1, <2>2 DEF Event
<1>2. \A i, j \in 1..n : i < j => q.queue[i].id < q.queue[j].id
  BY <1>1 DEF Ordered
<1>3. PICK k \in 0..n :
         /\ \A i \in 1..k : q.queue[i].id <= through
         /\ k < n => q.queue[k + 1].id > through
         /\ p = IF k = 0 THEN q
                ELSE [q EXCEPT !.queue = SubSeq(q.queue, k + 1, n),
                               !.newest_pruned_id = q.queue[k].id]
  BY PruneTakesHead
<1> HIDE DEF n, p
<1>4. \A i \in 1..n : i > k => q.queue[i].id > through
  <2> SUFFICES ASSUME NEW i \in 1..n, i > k PROVE q.queue[i].id > through
    OBVIOUS
  <2>1. k + 1 \in 1..n /\ q.queue[k + 1].id > through
    BY <1>1, <1>3
  <2>2. i = k + 1 \/ q.queue[k + 1].id < q.queue[i].id
    BY <1>1, <1>2, <2>1
  <2>3. q.queue[i].id \in Nat /\ q.queue[k + 1].id \in Nat
    BY <1>1, <2>1
  <2> QED
    BY <2>1, <2>2, <2>3
<1>5. CASE k = 0
  <2>1. p = q
    BY <1>3, <1>5
  <2>2. \A e \in ToSet(q.queue) : e.id > through
    <3>1. \A e \in ToSet(q.queue) : \E i \in 1..n : e = q.queue[i]
      BY <1>1 DEF ToSet
    <3> QED
      BY <1>4, <1>5, <3>1
  <2> QED
    BY <2>1, <2>2 DEF p
<1>6. CASE k # 0
  <2> DEFINE s == SubSeq(q.queue, k + 1, n)
  <2>1. /\ s \in Seq(Event(Notices))
        /\ Len(s) = n - k
        /\ \A i \in 1..(n - k) : s[i] = q.queue[k + i]
    <3>1. \A i \in (k + 1)..n : q.queue[i] \in Event(Notices)
      BY <1>1
    <3>2. /\ SubSeq(q.queue, k + 1, n) \in Seq(Event(Notices))
          /\ Len(SubSeq(q.queue, k + 1, n)) = IF k + 1 <= n THEN n - (k + 1) + 1 ELSE 0
          /\ \A i \in 1..(n - (k + 1) + 1) : SubSeq(q.queue, k + 1, n)[i] = q.queue[k + 1 + i - 1]
      BY <1>1, <3>1, SubSeqProperties
    <3> QED
      BY <1>1, <3>2
  <2>2. DOMAIN s = 1..(n - k)
    BY <2>1, LenProperties
  <2> HIDE DEF s
  <2>3. /\ p.queue = s
        /\ p.virtual_events = q.virtual_events
        /\ p.next_event_id = q.next_event_id
        /\ p.newest_pruned_id = q.queue[k].id
        /\ p = [queue |-> p.queue, virtual_events |-> p.virtual_events,
                next_event_id |-> p.next_event_id,
                newest_pruned_id |-> p.newest_pruned_id]
    BY <1>3, <1>6, QueueIs DEF s
  <2>4. k \in 1..n /\ q.queue[k].id \in Nat /\ q.queue[k] \in ToSet(q.queue)
    BY <1>1, <1>6
  <2>5. IsQueue(Notices, p)
    BY <2>1, <2>3, <2>4, QueueFields, QueueIs
  <2>6. \A e \in ToSet(s) : \E i \in 1..n : i > k /\ e = q.queue[i]
    <3> SUFFICES ASSUME NEW j \in 1..(n - k)
                 PROVE  k + j \in 1..n /\ k + j > k
      BY <2>1, <2>2 DEF ToSet
    <3> QED
      BY <1>1, <2>4
  <2>7. \A i \in 1..n : i > k => q.queue[i] \in ToSet(s)
    <3> SUFFICES ASSUME NEW i \in 1..n, i > k
                 PROVE  q.queue[i] \in ToSet(s)
      OBVIOUS
    <3>1. i - k \in 1..(n - k) /\ k + (i - k) = i
      BY <1>1, <2>4
    <3> QED
      BY <2>1, <2>2, <3>1 DEF ToSet
  <2>8. ToSet(s) \subseteq ToSet(q.queue)
    BY <1>1, <2>6
  <2>9. \A e \in ToSet(q.queue) : e \in ToSet(s) \/ e.id <= through
    <3>1. \A e \in ToSet(q.queue) : \E i \in 1..n : e = q.queue[i]
      BY <1>1 DEF ToSet
    <3>2. \A i \in 1..n : i > k \/ i \in 1..k
      BY <2>4
    <3> QED
      BY <1>3, <2>7, <3>1, <3>2
  <2>10. \A e \in ToSet(s) : e.id > through /\ q.queue[k].id < e.id
    BY <1>2, <1>4, <2>4, <2>6
  <2>11. q.queue[k] \notin ToSet(s) /\ q.queue[k].id <= through
    BY <1>3, <2>4, <2>10
  <2>12. \A i, j \in DOMAIN s : i < j => s[i].id < s[j].id
    <3> SUFFICES ASSUME NEW i \in 1..(n - k), NEW j \in 1..(n - k), i < j
                 PROVE  s[i].id < s[j].id
      BY <2>2
    <3>1. k + i \in 1..n /\ k + j \in 1..n /\ k + i < k + j
      BY <1>1, <2>4
    <3>2. q.queue[k + i].id < q.queue[k + j].id
      BY <1>2, <3>1
    <3> QED
      BY <2>1, <3>2
  <2>13. Events(p) \subseteq Events(q)
    BY <2>3, <2>8 DEF Events
  <2>14. Ordered(p)
    BY <2>3, <2>8, <2>12, <2>13 DEF Ordered, DistinctIds
  <2>15. IsQueue(Notices, p) /\ Ordered(p) /\ ToSet(p.queue) = ToSet(s)
    BY <2>3, <2>5, <2>14
  <2> QED
    BY <2>3, <2>4, <2>8, <2>9, <2>10, <2>11, <2>15 DEF p
<1> QED
  BY <1>5, <1>6

-----------------------------------------------------------------------------
(* The notices that events stand for.                                      *)

(***************************************************************************)
(* The function by which FlattenSeq is defined: it exists, and its values  *)
(* are sequences of what is in the sequences up to the place.              *)
(***************************************************************************)
LEMMA FlattenExists ==
    ASSUME NEW seqs, NEW n \in Nat
    PROVE  \E F : F = [i \in 1..n |-> IF i = 1 THEN seqs[i] ELSE F[i - 1] \o seqs[i]]
<1> DEFINE IsFlat(F, m) ==
             F = [i \in 1..m |-> IF i = 1 THEN seqs[i] ELSE F[i - 1] \o seqs[i]]
           Bad == {m \in Nat : ~\E F : IsFlat(F, m)}
<1>1. SUFFICES ASSUME Bad # {} PROVE FALSE
  BY Zenon
<1>2. PICK m \in Bad : \A k \in Bad : m <= k
  BY <1>1, LeastNatural
<1>3. m # 0
  <2>1. \E F : IsFlat(F, 0)
    <3>1. IsFlat([i \in 1..0 |-> 0], 0)
      OBVIOUS
    <3> QED
      BY <3>1
  <2> QED
    BY <2>1
<1>4. m - 1 \in Nat /\ m - 1 \notin Bad
  <2>1. m \in Nat
    OBVIOUS
  <2> HIDE DEF Bad
  <2> QED
    BY <1>2, <1>3, <2>1
<1>5. PICK F : IsFlat(F, m - 1)
  BY <1>4
<1> DEFINE G == [i \in 1..m |-> IF i \in 1..(m - 1) THEN F[i]
                                ELSE IF i = 1 THEN seqs[i] ELSE F[i - 1] \o seqs[i]]
<1>6. IsFlat(G, m)
  <2> SUFFICES ASSUME NEW i \in 1..m
               PROVE  G[i] = IF i = 1 THEN seqs[i] ELSE G[i - 1] \o seqs[i]
    BY Zenon
  <2>1. i # 1 => i - 1 \in 1..(m - 1) /\ i - 1 \in 1..m
    BY <1>3
  <2>2. i # 1 => G[i - 1] = F[i - 1]
    BY <2>1
  <2>3. CASE i \in 1..(m - 1)
    <3>1. G[i] = F[i]
      BY <2>3
    <3>2. F[i] = IF i = 1 THEN seqs[i] ELSE F[i - 1] \o seqs[i]
      BY <1>5, <2>3
    <3> HIDE DEF G
    <3> QED
      BY <2>2, <3>1, <3>2
  <2>4. CASE i \notin 1..(m - 1)
    <3>1. G[i] = IF i = 1 THEN seqs[i] ELSE F[i - 1] \o seqs[i]
      BY <2>4
    <3> HIDE DEF G
    <3> QED
      BY <2>2, <3>1
  <2> QED
    BY <2>3, <2>4
<1>7. \E H : IsFlat(H, m)
  <2> HIDE DEF IsFlat, G
  <2> QED
    BY <1>6
<1> QED
  BY <1>2, <1>7

(***************************************************************************)
(* What is in all of the sequences that FlattenSeq joins.                  *)
(***************************************************************************)
LEMMA FlattenKeeps ==
    ASSUME NEW S, NEW seqs \in Seq(Seq(S))
    PROVE  /\ FlattenSeq(seqs) \in Seq(S)
           /\ ToSet(FlattenSeq(seqs)) = UNION {ToSet(seqs[i]) : i \in DOMAIN seqs}
<1> DEFINE n == Len(seqs)
<1>1. n \in Nat /\ DOMAIN seqs = 1..n /\ \A i \in 1..n : seqs[i] \in Seq(S)
  BY LenProperties, ElementOfSeq
<1>2. CASE n = 0
  <2>1. seqs = <<>>
    BY <1>2, EmptySeq, SeqEqual
  <2>2. FlattenSeq(seqs) = <<>> /\ DOMAIN seqs = {}
    BY <2>1 DEF FlattenSeq
  <2>3. ToSet(<<>>) = {}
    BY DEF ToSet
  <2> HIDE DEF n
  <2> QED
    BY <2>2, <2>3, EmptySeq
<1>3. CASE n # 0
  <2> DEFINE IsFlat(F) ==
                F = [i \in 1..n |-> IF i = 1 THEN seqs[i] ELSE F[i - 1] \o seqs[i]]
             flatten == CHOOSE F : IsFlat(F)
             All(i) == UNION {ToSet(seqs[j]) : j \in 1..i}
  <2>1. FlattenSeq(seqs) = flatten[n]
    BY <1>3 DEF FlattenSeq
  <2>2. \E F : IsFlat(F)
    BY <1>1, FlattenExists
  <2>3. IsFlat(flatten)
    <3> HIDE DEF IsFlat
    <3> QED
      BY <2>2
  <2>4. \A i \in 1..n : flatten[i] = IF i = 1 THEN seqs[i] ELSE flatten[i - 1] \o seqs[i]
    <3>1. flatten = [i \in 1..n |-> IF i = 1 THEN seqs[i] ELSE flatten[i - 1] \o seqs[i]]
      BY <2>3 DEF IsFlat
    <3> HIDE DEF flatten
    <3> QED
      BY <3>1
  <2> HIDE DEF flatten, n
  <2>5. \A i \in 1..n : flatten[i] \in Seq(S) /\ ToSet(flatten[i]) = All(i)
    <3> DEFINE Right(i) == flatten[i] \in Seq(S) /\ ToSet(flatten[i]) = All(i)
               Bad == {i \in 1..n : ~Right(i)}
    <3>1. SUFFICES ASSUME Bad # {} PROVE FALSE
      BY Zenon
    <3>2. PICK i \in Bad : \A j \in Bad : i <= j
      <4>1. Bad \in SUBSET Nat
        BY <1>1
      <4> HIDE DEF Bad
      <4> QED
        BY <3>1, <4>1, LeastNatural
    <3>3. CASE i = 1
      <4>1. flatten[1] = seqs[1] /\ seqs[1] \in Seq(S)
        BY <1>1, <2>4, <3>3
      <4>2. All(1) = ToSet(seqs[1])
        <5>1. 1..1 = {1}
          OBVIOUS
        <5> QED
          BY <5>1
      <4> QED
        BY <3>3, <4>1, <4>2
    <3>4. CASE i # 1
      <4>1. i - 1 \in 1..n /\ i - 1 < i
        BY <1>1, <3>4
      <4>2. Right(i - 1)
        <5>1. i - 1 \notin Bad
          <6>1. i \in Nat
            BY <1>1
          <6> HIDE DEF Bad
          <6> QED
            BY <3>2, <4>1, <6>1
        <5> HIDE DEF Right
        <5> QED
          BY <4>1, <5>1
      <4>3. flatten[i] = flatten[i - 1] \o seqs[i] /\ seqs[i] \in Seq(S)
        BY <1>1, <2>4, <3>4
      <4>4. flatten[i] \in Seq(S)
        BY <4>2, <4>3, ConcatProperties
      <4>5. ToSet(flatten[i]) = All(i - 1) \cup ToSet(seqs[i])
        BY <4>2, <4>3, ToSetConcat
      <4>6. 1..i = 1..(i - 1) \cup {i}
        BY <1>1, <4>1
      <4>7. All(i) = All(i - 1) \cup ToSet(seqs[i])
        BY <4>6
      <4> QED
        BY <4>4, <4>5, <4>7
    <3> QED
      BY <3>3, <3>4
  <2>6. n \in 1..n
    BY <1>1, <1>3
  <2> QED
    BY <1>1, <2>1, <2>5, <2>6
<1> QED
  BY <1>2, <1>3

(***************************************************************************)
(* The notices of an answer are those of its events.                       *)
(***************************************************************************)
LEMMA NoticesAre ==
    ASSUME NEW Notices, NEW events \in Seq(Event(Notices))
    PROVE  /\ NoticesOf(events) \in Seq(Notices)
           /\ ToSet(NoticesOf(events)) = UNION {ToSet(e.of) : e \in ToSet(events)}
<1> DEFINE seqs == [i \in DOMAIN events |-> events[i].of]
<1>1. /\ Len(events) \in Nat /\ DOMAIN events = 1..Len(events)
      /\ \A i \in DOMAIN events : events[i] \in Event(Notices)
  BY LenProperties, ElementOfSeq
<1>2. \A i \in DOMAIN events : events[i].of \in Seq(Notices)
  BY <1>1 DEF Event
<1>3. DOMAIN seqs = DOMAIN events /\ \A i \in DOMAIN events : seqs[i] = events[i].of
  OBVIOUS
<1>4. seqs \in Seq(Seq(Notices))
  BY <1>1, <1>2, IsASeq
<1>5. NoticesOf(events) = FlattenSeq(seqs)
  BY DEF NoticesOf
<1> HIDE DEF seqs
<1>6. /\ FlattenSeq(seqs) \in Seq(Notices)
      /\ ToSet(FlattenSeq(seqs)) = UNION {ToSet(seqs[i]) : i \in DOMAIN seqs}
  BY <1>4, FlattenKeeps
<1>7. UNION {ToSet(seqs[i]) : i \in DOMAIN seqs} = UNION {ToSet(e.of) : e \in ToSet(events)}
  <2>1. ToSet(events) = {events[i] : i \in DOMAIN events}
    BY DEF ToSet
  <2> HIDE DEF ToSet
  <2> QED
    BY <1>3, <2>1
<1> QED
  BY <1>5, <1>6, <1>7

(***************************************************************************)
(* A queue holds the notices of its events.                                *)
(***************************************************************************)
LEMMA HeldAre ==
    ASSUME NEW Notices, NEW q, IsQueue(Notices, q)
    PROVE  /\ Held(q) = UNION {ToSet(e.of) : e \in Events(q)}
           /\ Held(q) \subseteq Notices
<1>1. Held(q) = (UNION {ToSet(e.of) : e \in ToSet(q.queue)})
                \cup (UNION {ToSet(v.of) : v \in q.virtual_events})
  BY QueueFields, NoticesAre DEF Held
<1>2. Held(q) = UNION {ToSet(e.of) : e \in Events(q)}
  <2> HIDE DEF ToSet
  <2> QED
    BY <1>1 DEF Events
<1>3. \A e \in Events(q) : ToSet(e.of) \subseteq Notices
  BY QueueFields, ToSetProperties
<1> QED
  BY <1>2, <1>3

-----------------------------------------------------------------------------
(* The order of the notices.                                               *)

HaveNumbers(Notices) == \A n \in Notices : n.number \in Int

\* Later notices have greater numbers: all of them, or those of one kind
Rising(s) == \A i, j \in DOMAIN s : i < j => s[i].number < s[j].number

KindOrder(s) ==
    \A i, j \in DOMAIN s : i < j /\ s[i].kind = s[j].kind => s[i].number < s[j].number

(***************************************************************************)
(* FlattenSeq puts one sequence after the other.                           *)
(***************************************************************************)
LEMMA FlattenSteps ==
    ASSUME NEW S, NEW seqs \in Seq(Seq(S))
    PROVE  \E F : /\ F[0] = <<>>
                  /\ \A i \in 1..Len(seqs) : F[i] = F[i - 1] \o seqs[i]
                  /\ \A i \in 0..Len(seqs) :
                        /\ F[i] \in Seq(S)
                        /\ \A x : x \in ToSet(F[i]) => \E j \in 1..i : x \in ToSet(seqs[j])
                  /\ FlattenSeq(seqs) = F[Len(seqs)]
<1> DEFINE n == Len(seqs)
<1>1. n \in Nat /\ DOMAIN seqs = 1..n /\ \A i \in 1..n : seqs[i] \in Seq(S)
  BY LenProperties, ElementOfSeq
<1> DEFINE IsFlat(F) ==
              F = [i \in 1..n |-> IF i = 1 THEN seqs[i] ELSE F[i - 1] \o seqs[i]]
           flatten == CHOOSE F : IsFlat(F)
           G == [i \in 0..n |-> IF i = 0 THEN <<>> ELSE flatten[i]]
<1>2. IsFlat(flatten)
  <2>1. \E F : IsFlat(F)
    BY <1>1, FlattenExists
  <2> HIDE DEF IsFlat
  <2> QED
    BY <2>1
<1>3. \A i \in 1..n : flatten[i] = IF i = 1 THEN seqs[i] ELSE flatten[i - 1] \o seqs[i]
  <2>1. flatten = [i \in 1..n |-> IF i = 1 THEN seqs[i] ELSE flatten[i - 1] \o seqs[i]]
    BY <1>2 DEF IsFlat
  <2> HIDE DEF flatten
  <2> QED
    BY <2>1
<1>4. FlattenSeq(seqs) = G[n]
  <2>1. CASE n = 0
    <3>1. seqs = <<>>
      BY <2>1, EmptySeq, SeqEqual
    <3>2. FlattenSeq(seqs) = <<>>
      BY <3>1 DEF FlattenSeq
    <3> QED
      BY <2>1, <3>2
  <2>2. CASE n # 0
    <3>1. FlattenSeq(seqs) = flatten[n]
      BY <2>2 DEF FlattenSeq
    <3> HIDE DEF flatten, n
    <3> QED
      BY <1>1, <2>2, <3>1
  <2> QED
    BY <2>1, <2>2
<1> HIDE DEF flatten, n
<1>5. G[0] = <<>>
  BY <1>1
<1>6. ASSUME NEW i \in 1..n
      PROVE  G[i] = flatten[i] /\ G[i - 1] = IF i = 1 THEN <<>> ELSE flatten[i - 1]
  <2>1. i \in 0..n /\ i - 1 \in 0..n /\ i # 0 /\ (i = 1 <=> i - 1 = 0)
    BY <1>1
  <2> QED
    BY <2>1
<1> HIDE DEF G
<1>7. \A i \in 1..n : G[i] = G[i - 1] \o seqs[i]
  <2> SUFFICES ASSUME NEW i \in 1..n PROVE G[i] = G[i - 1] \o seqs[i]
    OBVIOUS
  <2>1. CASE i = 1
    <3>1. G[i] = seqs[i] /\ G[i - 1] = <<>>
      BY <1>3, <1>6, <2>1
    <3>2. <<>> \o seqs[i] = seqs[i]
      BY <1>1, ConcatEmptySeq
    <3> QED
      BY <3>1, <3>2
  <2>2. CASE i # 1
    BY <1>3, <1>6, <2>2
  <2> QED
    BY <2>1, <2>2
<1>8. \A i \in 0..n : /\ G[i] \in Seq(S)
                      /\ \A x : x \in ToSet(G[i]) => \E j \in 1..i : x \in ToSet(seqs[j])
  <2> DEFINE Right(i) == /\ G[i] \in Seq(S)
                         /\ \A x : x \in ToSet(G[i]) => \E j \in 1..i : x \in ToSet(seqs[j])
             Bad == {i \in 0..n : ~Right(i)}
  <2>1. SUFFICES ASSUME Bad # {} PROVE FALSE
    BY Zenon
  <2>2. PICK i \in Bad : \A j \in Bad : i <= j
    <3>1. Bad \in SUBSET Nat
      BY <1>1
    <3> HIDE DEF Bad
    <3> QED
      BY <2>1, <3>1, LeastNatural
  <2>3. Right(0)
    BY <1>5, EmptySeq DEF ToSet
  <2>4. CASE i # 0
    <3>1. i \in 1..n /\ i - 1 \in 0..n /\ i - 1 < i /\ i \in Nat
      BY <1>1, <2>4
    <3>2. Right(i - 1)
      <4>1. i - 1 \notin Bad
        <5> HIDE DEF Bad
        <5> QED
          BY <2>2, <3>1
      <4> HIDE DEF Right
      <4> QED
        BY <3>1, <4>1
    <3>3. G[i] = G[i - 1] \o seqs[i] /\ seqs[i] \in Seq(S)
      BY <1>1, <1>7, <3>1
    <3>4. G[i] \in Seq(S)
      BY <3>2, <3>3, ConcatProperties
    <3>5. ToSet(G[i]) = ToSet(G[i - 1]) \cup ToSet(seqs[i])
      BY <3>2, <3>3, ToSetConcat
    <3>6. i \in 1..i /\ 1..(i - 1) \subseteq 1..i
      BY <3>1
    <3>7. Right(i)
      BY <3>2, <3>4, <3>5, <3>6
    <3> QED
      BY <3>7
  <2> QED
    BY <2>3, <2>4
<1> QED
  BY <1>4, <1>5, <1>7, <1>8 DEF n

(***************************************************************************)
(* What is appended to an ordered sequence comes behind it.                *)
(***************************************************************************)
LEMMA ConcatOrder ==
    ASSUME NEW Notices, NEW s \in Seq(Notices), NEW t \in Seq(Notices)
    PROVE  /\ KindOrder(s) /\ KindOrder(t)
              /\ (\A m \in ToSet(s), n \in ToSet(t) : m.kind = n.kind => m.number < n.number)
              => KindOrder(s \o t)
           /\ Rising(s) /\ Rising(t)
              /\ (\A m \in ToSet(s), n \in ToSet(t) : m.number < n.number)
              => Rising(s \o t)
<1> DEFINE r == s \o t
<1>1. /\ Len(s) \in Nat /\ Len(t) \in Nat
      /\ DOMAIN s = 1..Len(s) /\ DOMAIN t = 1..Len(t)
      /\ DOMAIN r = 1..(Len(s) + Len(t))
      /\ \A i \in 1..Len(s) : r[i] = s[i]
      /\ \A i \in 1..(Len(s) + Len(t)) : i > Len(s) => r[i] = t[i - Len(s)]
  OBVIOUS
<1> HIDE DEF r
<1>2. /\ \A i \in 1..Len(s) : r[i] = s[i] /\ s[i] \in ToSet(s)
      /\ \A i \in DOMAIN r : i \notin 1..Len(s) =>
            i - Len(s) \in 1..Len(t) /\ r[i] = t[i - Len(s)] /\ r[i] \in ToSet(t)
  BY <1>1 DEF ToSet
<1>3. ASSUME NEW i \in DOMAIN r, NEW j \in DOMAIN r, i < j
      PROVE  \/ i \in 1..Len(s) /\ j \in 1..Len(s)
             \/ i \in 1..Len(s) /\ j \notin 1..Len(s)
             \/ i \notin 1..Len(s) /\ j \notin 1..Len(s) /\ i - Len(s) < j - Len(s)
  BY <1>1, <1>3
<1>4. ASSUME KindOrder(s), KindOrder(t),
             \A m \in ToSet(s), n \in ToSet(t) : m.kind = n.kind => m.number < n.number
      PROVE  KindOrder(r)
  <2> SUFFICES ASSUME NEW i \in DOMAIN r, NEW j \in DOMAIN r, i < j, r[i].kind = r[j].kind
               PROVE  r[i].number < r[j].number
    BY DEF KindOrder
  <2>1. CASE i \in 1..Len(s) /\ j \in 1..Len(s)
    BY <1>1, <1>2, <1>4, <2>1 DEF KindOrder
  <2>2. CASE i \in 1..Len(s) /\ j \notin 1..Len(s)
    BY <1>2, <1>4, <2>2
  <2>3. CASE i \notin 1..Len(s) /\ j \notin 1..Len(s) /\ i - Len(s) < j - Len(s)
    <3>1. PICK k, l \in DOMAIN t : k < l /\ r[i] = t[k] /\ r[j] = t[l]
      BY <1>1, <1>2, <2>3
    <3> QED
      BY <1>4, <3>1 DEF KindOrder
  <2> QED
    BY <1>3, <2>1, <2>2, <2>3
<1>5. ASSUME Rising(s), Rising(t),
             \A m \in ToSet(s), n \in ToSet(t) : m.number < n.number
      PROVE  Rising(r)
  <2> SUFFICES ASSUME NEW i \in DOMAIN r, NEW j \in DOMAIN r, i < j
               PROVE  r[i].number < r[j].number
    BY DEF Rising
  <2>1. CASE i \in 1..Len(s) /\ j \in 1..Len(s)
    BY <1>1, <1>2, <1>5, <2>1 DEF Rising
  <2>2. CASE i \in 1..Len(s) /\ j \notin 1..Len(s)
    BY <1>2, <1>5, <2>2
  <2>3. CASE i \notin 1..Len(s) /\ j \notin 1..Len(s) /\ i - Len(s) < j - Len(s)
    BY <1>1, <1>2, <1>5, <2>3 DEF Rising
  <2> QED
    BY <1>3, <2>1, <2>2, <2>3
<1> QED
  BY <1>4, <1>5 DEF r

(***************************************************************************)
(* In a rising sequence the places and the numbers agree.                  *)
(***************************************************************************)
LEMMA RisingPlaces ==
    ASSUME NEW Notices, HaveNumbers(Notices), NEW s \in Seq(Notices), Rising(s)
    PROVE  \A i, j \in 1..Len(s) : s[i].number < s[j].number <=> i < j
<1>1. DOMAIN s = 1..Len(s) /\ Len(s) \in Nat
  BY LenProperties
<1>2. SUFFICES ASSUME NEW i \in 1..Len(s), NEW j \in 1..Len(s)
               PROVE  s[i].number < s[j].number <=> i < j
  OBVIOUS
<1>3. s[i].number \in Int /\ s[j].number \in Int
  BY ElementOfSeq DEF HaveNumbers
<1>4. i < j => s[i].number < s[j].number
  BY <1>1 DEF Rising
<1>5. j < i => s[j].number < s[i].number
  BY <1>1 DEF Rising
<1>6. i < j \/ j < i \/ i = j
  BY <1>1
<1> QED
  BY <1>1, <1>3, <1>4, <1>5, <1>6

(***************************************************************************)
(* Of two rising sequences, one that has whatever comes before its notices *)
(* in the other is a prefix of it.                                         *)
(***************************************************************************)
LEMMA RisingPrefix ==
    ASSUME NEW Notices, HaveNumbers(Notices), NEW s \in Seq(Notices), NEW t \in Seq(Notices),
           Rising(s), Rising(t), ToSet(s) \subseteq ToSet(t),
           \A m \in ToSet(s), n \in ToSet(t) : n.number < m.number => n \in ToSet(s)
    PROVE  IsPrefix(s, t)
<1>1. /\ Len(s) \in Nat /\ Len(t) \in Nat
      /\ DOMAIN s = 1..Len(s) /\ DOMAIN t = 1..Len(t)
      /\ \A i \in 1..Len(s) : s[i] \in Notices /\ s[i].number \in Int
      /\ \A i \in 1..Len(t) : t[i] \in Notices /\ t[i].number \in Int
  BY LenProperties, ElementOfSeq DEF HaveNumbers
<1>2. /\ \A i \in 1..Len(s) : s[i] \in ToSet(s) /\ \E j \in 1..Len(t) : s[i] = t[j]
      /\ \A n \in ToSet(s) : \E j \in 1..Len(s) : n = s[j]
      /\ \A j \in 1..Len(t) : t[j] \in ToSet(t)
  BY <1>1 DEF ToSet
<1>3. /\ \A i, j \in 1..Len(s) : s[i].number < s[j].number <=> i < j
      /\ \A i, j \in 1..Len(t) : t[i].number < t[j].number <=> i < j
  BY RisingPlaces
<1>4. \A i \in 1..Len(s) : i \in 1..Len(t) /\ s[i] = t[i]
  <2> DEFINE Right(i) == i \in 1..Len(t) /\ s[i] = t[i]
             Bad == {i \in 1..Len(s) : ~Right(i)}
  <2>1. SUFFICES ASSUME Bad # {} PROVE FALSE
    BY Zenon
  <2>2. PICK i \in Bad : \A j \in Bad : i <= j
    <3>1. Bad \in SUBSET Nat
      <4> HIDE DEF Right
      <4> QED
        BY <1>1
    <3> HIDE DEF Bad
    <3> QED
      BY <2>1, <3>1, LeastNatural
  <2>3. i \in 1..Len(s) /\ ~Right(i)
    OBVIOUS
  <2>4. \A j \in 1..Len(s) : j < i => Right(j)
    <3> SUFFICES ASSUME NEW j \in 1..Len(s), j < i PROVE Right(j)
      OBVIOUS
    <3>1. j \notin Bad
      <4>1. i \in Nat /\ j \in Nat
        BY <1>1
      <4> HIDE DEF Bad
      <4> QED
        BY <2>2, <4>1
    <3> HIDE DEF Right
    <3> QED
      BY <3>1
  <2> HIDE DEF Bad
  <2>5. PICK j \in 1..Len(t) : s[i] = t[j]
    BY <1>2, <2>3
  <2>6. ~(j < i)
    <3>1. SUFFICES ASSUME j < i PROVE FALSE
      OBVIOUS
    <3>2. j \in 1..Len(s)
      BY <1>1, <2>3, <3>1
    <3>3. s[j] = t[j]
      BY <2>4, <3>1, <3>2
    <3> QED
      BY <1>1, <1>3, <2>3, <2>5, <3>1, <3>2, <3>3
  <2>7. i < j /\ i \in 1..Len(t)
    BY <1>1, <2>3, <2>5, <2>6
  <2>8. t[i].number < s[i].number
    BY <1>3, <2>5, <2>7
  <2>9. PICK l \in 1..Len(s) : t[i] = s[l]
    BY <1>2, <2>3, <2>7, <2>8
  <2>10. l < i
    BY <1>3, <2>3, <2>8, <2>9
  <2>11. l \in 1..Len(t) /\ t[l] = t[i]
    BY <2>4, <2>9, <2>10
  <2> QED
    BY <1>1, <1>3, <2>7, <2>10, <2>11
<1>5. Len(s) <= Len(t)
  BY <1>1, <1>4
<1>6. SubSeq(s, 1, Len(s)) = SubSeq(t, 1, Len(s))
  <2> DEFINE a == SubSeq(s, 1, Len(s))
             c == SubSeq(t, 1, Len(s))
  <2>1. /\ a = [i \in 1..Len(s) |-> s[i]]
        /\ c = [i \in 1..Len(s) |-> t[i]]
    BY <1>1, <1>5
  <2> HIDE DEF a, c
  <2> QED
    BY <1>4, <2>1
<1> QED
  BY <1>5, <1>6 DEF IsPrefix

(***************************************************************************)
(* A rising sequence is known by what is in it.                            *)
(***************************************************************************)
LEMMA RisingUnique ==
    ASSUME NEW Notices, HaveNumbers(Notices), NEW s \in Seq(Notices), NEW t \in Seq(Notices),
           Rising(s), Rising(t), ToSet(s) = ToSet(t)
    PROVE  s = t
<1>1. IsPrefix(s, t) /\ IsPrefix(t, s)
  BY RisingPrefix
<1>2. /\ Len(s) \in Nat /\ Len(t) \in Nat
      /\ DOMAIN s = 1..Len(s) /\ DOMAIN t = 1..Len(t)
  BY LenProperties
<1>3. Len(s) = Len(t) /\ SubSeq(s, 1, Len(s)) = SubSeq(t, 1, Len(s))
  <2>1. Len(s) <= Len(t) /\ Len(t) <= Len(s)
    BY <1>1 DEF IsPrefix
  <2>2. SubSeq(s, 1, Len(s)) = SubSeq(t, 1, Len(s))
    BY <1>1 DEF IsPrefix
  <2>3. Len(s) = Len(t)
    <3>1. \A a, c \in Nat : a <= c /\ c <= a => a = c
      OBVIOUS
    <3> QED
      BY Zenon, <1>2, <2>1, <3>1
  <2> QED
    BY <2>2, <2>3
<1>4. SubSeq(s, 1, Len(s)) = s /\ SubSeq(t, 1, Len(t)) = t
  BY SubSeqFull
<1> QED
  BY <1>2, <1>3, <1>4

\* Events of one kind stand for notices of the kind, the later one for later
\* notices, and the virtual one for the latest
Sorted(q) ==
    /\ \A e \in Events(q) : KindOrder(e.of) /\ \A n \in ToSet(e.of) : n.kind = e.kind
    /\ \A e, f \in Events(q) : e.id < f.id /\ e.kind = f.kind =>
          \A m \in ToSet(e.of), n \in ToSet(f.of) : m.number < n.number
    /\ \A v \in q.virtual_events :
          /\ v.kind \in VirtualKinds
          /\ \A e \in ToSet(q.queue) : e.kind = v.kind => e.id < v.id

\* Events with ids behind all of these stand for no notice that was seen
Apart(q, ids, seen) ==
    \A e \in Events(q) : (\A i \in ids : i < e.id) => ToSet(e.of) \cap seen = {}

\* The new event of p, if notices were put into q
Joins(p, q, kind, of, new) ==
    /\ new.id = q.next_event_id /\ new.kind = kind
    /\ \/ /\ kind \notin VirtualKinds
          /\ new.of = of
          /\ ToSet(p.queue) = ToSet(q.queue) \cup {new}
          /\ p.virtual_events = q.virtual_events
       \/ /\ kind \in VirtualKinds
          /\ new.of = of \/ \E v \in q.virtual_events : v.kind = kind /\ new.of = v.of \o of
          /\ p.queue = q.queue
          /\ p.virtual_events = {v \in q.virtual_events : v.kind # kind} \cup {new}

(***************************************************************************)
(* Whatever is pushed makes one new event, alone or with the virtual event *)
(* of its kind.                                                            *)
(***************************************************************************)
LEMMA PushJoins ==
    ASSUME NEW Notices, NEW q, IsQueue(Notices, q), Ordered(q),
           NEW kind \in Kinds, NEW of \in Seq(Notices)
    PROVE  \E new : Joins(Push(q, kind, of), q, kind, of, new)
<1> DEFINE p == Push(q, kind, of)
           event == [id |-> q.next_event_id, kind |-> kind, of |-> of]
           same == {v \in q.virtual_events : v.kind = kind}
           merged == {[event EXCEPT !.of = v.of \o of] : v \in same}
           joined == IF same = {} THEN {event} ELSE merged
           moved == (q.virtual_events \ same) \cup joined
<1>1. event \in Event(Notices)
  BY QueueFields DEF Event
<1>2. event.id = q.next_event_id /\ event.kind = kind /\ event.of = of
  OBVIOUS
<1>3. CASE kind \notin VirtualKinds
  <2>1. p = [q EXCEPT !.next_event_id = q.next_event_id + 1, !.queue = Append(q.queue, event)]
    BY <1>3 DEF Push, IsQueue, Queue
  <2> HIDE DEF event
  <2>2. p.queue = Append(q.queue, event) /\ p.virtual_events = q.virtual_events
    BY <2>1 DEF IsQueue, Queue
  <2>3. ToSet(p.queue) = ToSet(q.queue) \cup {event}
    BY <1>1, <2>2, QueueFields, ToSetProperties
  <2>4. Joins(p, q, kind, of, event)
    <3> HIDE DEF p
    <3> QED
      BY <1>2, <1>3, <2>2, <2>3 DEF Joins
  <2> QED
    BY <2>4
<1>4. CASE kind \in VirtualKinds
  <2>1. p = [q EXCEPT !.next_event_id = q.next_event_id + 1, !.virtual_events = moved]
    BY <1>4 DEF Push, IsQueue, Queue
  <2>2. \E new : /\ joined = {new}
                 /\ new.id = q.next_event_id /\ new.kind = kind
                 /\ new.of = of \/ \E v \in same : new.of = v.of \o of
    <3>1. CASE same = {}
      BY <1>2, <3>1
    <3>2. CASE same # {}
      <4>1. PICK v \in same : TRUE
        BY <3>2
      <4>2. same = {v}
        BY <4>1 DEF Ordered
      <4> DEFINE one == [event EXCEPT !.of = v.of \o of]
      <4>3. joined = {one}
        BY <3>2, <4>2
      <4>4. one.id = q.next_event_id /\ one.kind = kind /\ one.of = v.of \o of
        OBVIOUS
      <4> HIDE DEF joined, one, same
      <4> QED
        BY <4>1, <4>3, <4>4
    <3> QED
      BY <3>1, <3>2
  <2>3. PICK new : /\ joined = {new}
                   /\ new.id = q.next_event_id /\ new.kind = kind
                   /\ new.of = of \/ \E v \in same : new.of = v.of \o of
    BY <2>2
  <2> HIDE DEF joined
  <2>4. p.queue = q.queue /\ p.virtual_events = (q.virtual_events \ same) \cup {new}
    BY <2>1, <2>3 DEF IsQueue, Queue
  <2>5. Joins(p, q, kind, of, new)
    <3>1. q.virtual_events \ same = {v \in q.virtual_events : v.kind # kind}
      OBVIOUS
    <3> HIDE DEF p
    <3> QED
      BY <1>4, <2>3, <2>4, <3>1 DEF Joins
  <2> QED
    BY <2>5
<1> QED
  BY <1>3, <1>4

(***************************************************************************)
(* Notices that come behind all others keep the order of a queue ...       *)
(***************************************************************************)
LEMMA PushSorted ==
    ASSUME NEW Notices, NEW q, IsQueue(Notices, q), Ordered(q), Sorted(q),
           NEW kind \in Kinds, NEW of \in Seq(Notices),
           KindOrder(of), \A n \in ToSet(of) : n.kind = kind,
           \A e \in Events(q) : \A m \in ToSet(e.of), n \in ToSet(of) : m.number < n.number
    PROVE  Sorted(Push(q, kind, of))
<1> DEFINE p == Push(q, kind, of)
<1>1. PICK new : Joins(p, q, kind, of, new)
  BY PushJoins
<1> HIDE DEF p
<1>2. /\ new.id = q.next_event_id /\ new.kind = kind
      /\ Events(p) \subseteq Events(q) \cup {new}
      /\ \A e \in Events(p) : e # new /\ e.kind = kind /\ kind \in VirtualKinds =>
            e \in ToSet(q.queue)
  BY <1>1 DEF Joins, Events
<1>3. \A e \in Events(q) : e.id < new.id /\ e.id \in Nat /\ e.of \in Seq(Notices)
  BY <1>2, QueueFields DEF Ordered
<1>4. new.id \in Nat
  BY <1>2, QueueFields
<1>5. \/ new.of = of
      \/ /\ kind \in VirtualKinds
         /\ \E v \in q.virtual_events : v.kind = kind /\ new.of = v.of \o of
  BY <1>1 DEF Joins
<1>6. q.virtual_events \subseteq Events(q)
  BY DEF Events
<1>7. /\ KindOrder(new.of)
      /\ \A n \in ToSet(new.of) : n.kind = kind
      /\ \A e \in Events(p) : e # new /\ e.kind = kind =>
            \A m \in ToSet(e.of), n \in ToSet(new.of) : m.number < n.number
  <2>1. CASE new.of = of
    BY <1>2, <2>1
  <2>2. CASE kind \in VirtualKinds
             /\ \E v \in q.virtual_events : v.kind = kind /\ new.of = v.of \o of
    <3>1. PICK v \in q.virtual_events : v.kind = kind /\ new.of = v.of \o of
      BY <2>2
    <3>2. v \in Events(q) /\ v.of \in Seq(Notices)
      BY <1>3, <1>6, <3>1
    <3>3. ToSet(new.of) = ToSet(v.of) \cup ToSet(of)
      BY <3>1, <3>2, ToSetConcat
    <3>4. KindOrder(v.of) /\ \A n \in ToSet(v.of) : n.kind = kind
      BY <3>1, <3>2 DEF Sorted
    <3>5. \A m \in ToSet(v.of), n \in ToSet(of) : m.number < n.number
      BY <3>2
    <3>6. KindOrder(new.of)
      BY <3>1, <3>2, <3>4, <3>5, ConcatOrder
    <3>7. ASSUME NEW e \in Events(p), e # new, e.kind = kind,
                 NEW m \in ToSet(e.of), NEW n \in ToSet(new.of)
          PROVE  m.number < n.number
      <4>1. e \in ToSet(q.queue) /\ e \in Events(q)
        BY <1>2, <2>2, <3>7 DEF Events
      <4>2. e.id < v.id
        BY <3>1, <3>7, <4>1 DEF Sorted
      <4>3. \A k \in ToSet(v.of) : m.number < k.number
        BY <3>1, <3>2, <3>7, <4>1, <4>2 DEF Sorted
      <4>4. \A k \in ToSet(of) : m.number < k.number
        BY <3>7, <4>1
      <4> QED
        BY <3>3, <3>7, <4>3, <4>4
    <3> QED
      BY <3>3, <3>4, <3>6, <3>7
  <2> QED
    BY <1>5, <2>1, <2>2
<1>8. \A e \in Events(p) : KindOrder(e.of) /\ \A n \in ToSet(e.of) : n.kind = e.kind
  BY <1>2, <1>7 DEF Sorted
<1>9. ASSUME NEW e \in Events(p), NEW f \in Events(p), e.id < f.id, e.kind = f.kind
      PROVE  \A m \in ToSet(e.of), n \in ToSet(f.of) : m.number < n.number
  <2>1. e # new
    <3>1. e = new => f \in Events(q) \/ f = new
      BY <1>2
    <3> QED
      BY <1>3, <1>4, <1>9, <3>1
  <2>2. CASE f = new
    BY <1>2, <1>7, <1>9, <2>1, <2>2
  <2>3. CASE f # new
    <3>1. e \in Events(q) /\ f \in Events(q)
      BY <1>2, <2>1, <2>3
    <3> QED
      BY <1>9, <3>1 DEF Sorted
  <2> QED
    BY <2>2, <2>3
<1>10. ASSUME NEW v \in p.virtual_events
       PROVE  /\ v.kind \in VirtualKinds
              /\ \A e \in ToSet(p.queue) : e.kind = v.kind => e.id < v.id
  <2>1. CASE kind \notin VirtualKinds
    <3>1. v \in q.virtual_events /\ ToSet(p.queue) = ToSet(q.queue) \cup {new}
      BY <1>1, <1>10, <2>1 DEF Joins
    <3>2. v.kind \in VirtualKinds /\ \A e \in ToSet(q.queue) : e.kind = v.kind => e.id < v.id
      BY <3>1 DEF Sorted
    <3> QED
      BY <1>2, <2>1, <3>1, <3>2
  <2>2. CASE kind \in VirtualKinds
    <3>1. p.queue = q.queue /\ (v \in q.virtual_events \/ v = new)
      BY <1>1, <1>10, <2>2 DEF Joins
    <3>2. CASE v \in q.virtual_events
      BY <3>1, <3>2 DEF Sorted
    <3>3. CASE v = new
      <4>1. \A e \in ToSet(q.queue) : e.id < new.id
        BY <1>3 DEF Events
      <4> QED
        BY <1>2, <2>2, <3>1, <3>3, <4>1
    <3> QED
      BY <3>1, <3>2, <3>3
  <2> QED
    BY <2>1, <2>2
<1> QED
  BY <1>8, <1>9, <1>10 DEF Sorted, p

(***************************************************************************)
(* ... and what nobody has seen stays apart, if the virtual events are     *)
(* behind the ids.                                                         *)
(***************************************************************************)
LEMMA PushApart ==
    ASSUME NEW Notices, NEW q, IsQueue(Notices, q), Ordered(q),
           NEW kind \in Kinds, NEW of \in Seq(Notices),
           NEW ids, NEW seen, Apart(q, ids, seen),
           \A i \in ids, v \in q.virtual_events : i < v.id,
           ToSet(of) \cap seen = {}
    PROVE  Apart(Push(q, kind, of), ids, seen)
<1> DEFINE p == Push(q, kind, of)
<1>1. PICK new : Joins(p, q, kind, of, new)
  BY PushJoins
<1> HIDE DEF p
<1>2. Events(p) \subseteq Events(q) \cup {new}
  BY <1>1 DEF Joins, Events
<1>3. new.of = of \/ \E v \in q.virtual_events : new.of = v.of \o of
  BY <1>1 DEF Joins
<1>4. ToSet(new.of) \cap seen = {}
  <2>1. CASE new.of = of
    BY <2>1
  <2>2. CASE \E v \in q.virtual_events : new.of = v.of \o of
    <3>1. PICK v \in q.virtual_events : new.of = v.of \o of
      BY <2>2
    <3>2. v \in Events(q) /\ v.of \in Seq(Notices)
      BY <3>1, QueueFields DEF Events
    <3>3. ToSet(new.of) = ToSet(v.of) \cup ToSet(of)
      BY <3>1, <3>2, ToSetConcat
    <3>4. ToSet(v.of) \cap seen = {}
      BY <3>2 DEF Apart
    <3> QED
      BY <3>3, <3>4
  <2> QED
    BY <1>3, <2>1, <2>2
<1> QED
  BY <1>2, <1>4 DEF Apart, p

(***************************************************************************)
(* What is left of a queue, with or without its virtual events, is in      *)
(* order and apart as well.                                                *)
(***************************************************************************)
LEMMA PartSorted ==
    ASSUME NEW p, NEW q, Ordered(q), Events(q) \subseteq Events(p),
           q.virtual_events \in {{}, p.virtual_events}
    PROVE  /\ Sorted(p) => Sorted(q)
           /\ \A ids, seen : Apart(p, ids, seen) => Apart(q, ids, seen)
<1>1. ASSUME Sorted(p) PROVE Sorted(q)
  <2>1. ASSUME NEW v \in q.virtual_events
        PROVE  /\ v.kind \in VirtualKinds
               /\ \A e \in ToSet(q.queue) : e.kind = v.kind => e.id < v.id
    <3>1. q.virtual_events = p.virtual_events
      OBVIOUS
    <3>2. \A e \in ToSet(q.queue) : e \in ToSet(p.queue)
      BY <3>1 DEF Events, Ordered
    <3> QED
      BY <1>1, <3>1, <3>2 DEF Sorted
  <2> QED
    BY <1>1, <2>1 DEF Sorted
<1>2. ASSUME NEW ids, NEW seen, Apart(p, ids, seen) PROVE Apart(q, ids, seen)
  BY <1>2 DEF Apart
<1> QED
  BY <1>1, <1>2

(***************************************************************************)
(* The answer with all events of a sorted queue has its notices in order.  *)
(***************************************************************************)
LEMMA NoticesInOrder ==
    ASSUME NEW Notices, NEW q, IsQueue(Notices, q), Ordered(q), Sorted(q)
    PROVE  KindOrder(NoticesOf(q.queue))
<1> DEFINE seqs == [i \in DOMAIN q.queue |-> q.queue[i].of]
<1>1. /\ Len(q.queue) \in Nat /\ DOMAIN q.queue = 1..Len(q.queue)
      /\ \A i \in DOMAIN q.queue : q.queue[i] \in Events(q)
  BY QueueFields, LenProperties DEF Events, ToSet
<1>2. /\ DOMAIN seqs = DOMAIN q.queue
      /\ \A i \in DOMAIN q.queue : seqs[i] = q.queue[i].of /\ seqs[i] \in Seq(Notices)
  BY <1>1, QueueFields
<1>3. seqs \in Seq(Seq(Notices)) /\ Len(seqs) = Len(q.queue)
  <2>1. seqs \in Seq(Seq(Notices))
    <3>1. \A i \in 1..Len(q.queue) : q.queue[i].of \in Seq(Notices)
      BY <1>1, <1>2
    <3>2. seqs = [i \in 1..Len(q.queue) |-> q.queue[i].of]
      BY <1>1
    <3> HIDE DEF seqs
    <3> QED
      BY <1>1, <3>1, <3>2, IsASeq
  <2> HIDE DEF seqs
  <2> QED
    BY <1>1, <1>2, <2>1, LenProperties
<1>4. NoticesOf(q.queue) = FlattenSeq(seqs)
  BY DEF NoticesOf
<1> HIDE DEF seqs
<1> DEFINE n == Len(seqs)
<1>5. PICK F : /\ F[0] = <<>>
               /\ \A i \in 1..n : F[i] = F[i - 1] \o seqs[i]
               /\ \A i \in 0..n :
                     /\ F[i] \in Seq(Notices)
                     /\ \A x : x \in ToSet(F[i]) => \E j \in 1..i : x \in ToSet(seqs[j])
               /\ FlattenSeq(seqs) = F[n]
  BY <1>3, FlattenSteps
<1>6. n \in Nat /\ DOMAIN seqs = 1..n
  BY <1>1, <1>2, <1>3
<1> HIDE DEF n
<1>7. \A i \in 1..n : KindOrder(seqs[i]) /\ \A x \in ToSet(seqs[i]) : x.kind = q.queue[i].kind
  BY <1>1, <1>2, <1>6 DEF Sorted
<1>8. \A i, j \in 1..n : i < j => \A x \in ToSet(seqs[i]), y \in ToSet(seqs[j]) :
         x.kind = y.kind => x.number < y.number
  <2> SUFFICES ASSUME NEW i \in 1..n, NEW j \in 1..n, i < j,
                      NEW x \in ToSet(seqs[i]), NEW y \in ToSet(seqs[j]), x.kind = y.kind
               PROVE  x.number < y.number
    BY Zenon
  <2>1. q.queue[i].kind = q.queue[j].kind
    BY <1>7
  <2>2. q.queue[i].id < q.queue[j].id
    BY <1>2, <1>6 DEF Ordered
  <2>3. q.queue[i] \in Events(q) /\ q.queue[j] \in Events(q)
    BY <1>1, <1>2, <1>6
  <2>4. seqs[i] = q.queue[i].of /\ seqs[j] = q.queue[j].of
    BY <1>2, <1>6
  <2> QED
    BY <2>1, <2>2, <2>3, <2>4 DEF Sorted
<1>9. \A i \in 0..n : KindOrder(F[i])
  <2> DEFINE Bad == {i \in 0..n : ~KindOrder(F[i])}
  <2>1. SUFFICES ASSUME Bad # {} PROVE FALSE
    BY Zenon
  <2>2. PICK i \in Bad : \A j \in Bad : i <= j
    <3>1. Bad \in SUBSET Nat
      BY <1>6
    <3> HIDE DEF Bad
    <3> QED
      BY <2>1, <3>1, LeastNatural
  <2>3. KindOrder(F[0])
    BY <1>5 DEF KindOrder
  <2>4. CASE i # 0
    <3>1. i \in 1..n /\ i - 1 \in 0..n /\ i - 1 < i /\ i \in Nat
      BY <1>6, <2>4
    <3>2. KindOrder(F[i - 1])
      <4>1. i - 1 \notin Bad
        <5> HIDE DEF Bad
        <5> QED
          BY <2>2, <3>1
      <4> QED
        BY <3>1, <4>1
    <3>3. F[i] = F[i - 1] \o seqs[i] /\ F[i - 1] \in Seq(Notices) /\ seqs[i] \in Seq(Notices)
      BY <1>2, <1>5, <1>6, <3>1
    <3>4. \A x \in ToSet(F[i - 1]), y \in ToSet(seqs[i]) : x.kind = y.kind => x.number < y.number
      <4>1. \A x \in ToSet(F[i - 1]) : \E j \in 1..(i - 1) : x \in ToSet(seqs[j])
        BY <1>5, <3>1
      <4>2. \A j \in 1..(i - 1) : j \in 1..n /\ j < i
        BY <1>6, <3>1
      <4> QED
        BY <1>8, <3>1, <4>1, <4>2
    <3>5. KindOrder(F[i])
      BY <1>7, <3>1, <3>2, <3>3, <3>4, ConcatOrder
    <3> QED
      BY <3>5
  <2> QED
    BY <2>3, <2>4
<1>10. n \in 0..n
  BY <1>6
<1> QED
  BY <1>4, <1>5, <1>9, <1>10 DEF n
=============================================================================
