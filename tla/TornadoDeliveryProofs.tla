----------------------- MODULE TornadoDeliveryProofs -----------------------
(***************************************************************************)
(* What the event system loses: nothing.  A page has every notice that was *)
(* pushed into its queue and is no more in it, although acknowledgements,  *)
(* answers, compressed events and a restart overtake each other; a message *)
(* whose queues are all gone was handed over; and pages process the events *)
(* of a kind once each and in order.                                       *)
(***************************************************************************)
EXTENDS TornadoProofs

-----------------------------------------------------------------------------
(* What a queue and a page know of each other.                             *)

\* No event of the queue was pruned before
Well(e) ==
    /\ e.newest_pruned_id < e.next_event_id
    /\ \A x \in Events(e) : e.newest_pruned_id < x.id

\* Whoever acknowledges id i has seen what the queue would prune for it, and
\* what the queue will number later comes behind i
Covers(e, i, seen) ==
    /\ i < e.next_event_id
    /\ \A v \in e.virtual_events : i < v.id
    /\ \A x \in ToSet(e.queue) : x.id <= i => ToSet(x.of) \subseteq seen

\* ... for the last id that was acknowledged, and for each one that the answer
\* on its way to the page holds
Knows(e, last, seen, answer) ==
    /\ Covers(e, last, seen)
    /\ \A y \in ToSet(answer) : Covers(e, y.id, seen \cup ToSet(NoticesOf(answer)))

(***************************************************************************)
(* Who has seen more covers more.                                          *)
(***************************************************************************)
LEMMA SeenMore ==
    ASSUME NEW e, NEW i, NEW seen, NEW more, seen \subseteq more, Covers(e, i, seen)
    PROVE  Covers(e, i, more)
BY DEF Covers

(***************************************************************************)
(* A page whose answer is lost knows less, but enough.                     *)
(***************************************************************************)
LEMMA AnswerLost ==
    ASSUME NEW e, NEW last, NEW seen, NEW answer, Knows(e, last, seen, answer)
    PROVE  Knows(e, last, seen, <<>>)
BY DEF Knows, ToSet

(***************************************************************************)
(* What is pushed comes behind everything that was acknowledged.           *)
(***************************************************************************)
LEMMA PushCovers ==
    ASSUME NEW e, IsQueue(Notice, e), Ordered(e), NEW kind \in Kinds, NEW of \in Seq(Notice)
    PROVE  /\ \A i \in Int : \A seen : Covers(e, i, seen) => Covers(Push(e, kind, of), i, seen)
           /\ Well(e) => Well(Push(e, kind, of))
           /\ Held(Push(e, kind, of)) = Held(e) \cup ToSet(of)
<1> DEFINE p == Push(e, kind, of)
<1>1. /\ IsQueue(Notice, p)
      /\ p.next_event_id = e.next_event_id + 1
      /\ p.newest_pruned_id = e.newest_pruned_id
      /\ \A x \in ToSet(p.queue) : x \in ToSet(e.queue) \/ x.id = e.next_event_id
      /\ \A v \in p.virtual_events : v \in e.virtual_events \/ v.id = e.next_event_id
      /\ Adds(p, e, of)
  <2>1. /\ IsQueue(Notice, p)
        /\ p.next_event_id = e.next_event_id + 1
        /\ p.newest_pruned_id = e.newest_pruned_id
    BY PushKeeps
  <2>2. \A x \in ToSet(p.queue) : x \in ToSet(e.queue) \/ x.id = e.next_event_id
    BY PushKeeps
  <2>3. \A v \in p.virtual_events : v \in e.virtual_events \/ v.id = e.next_event_id
    BY PushKeeps
  <2>4. Adds(p, e, of)
    BY PushKeeps
  <2> QED
    BY <2>1, <2>2, <2>3, <2>4
<1>2. e.next_event_id \in Nat /\ e.newest_pruned_id \in Int
  BY QueueFields
<1>3. Held(p) = UNION {ToSet(x.of) : x \in Events(p)}
      /\ Held(e) = UNION {ToSet(x.of) : x \in Events(e)}
  BY <1>1, HeldAre
<1> HIDE DEF p
<1>4. ASSUME NEW i \in Int, NEW seen, Covers(e, i, seen)
      PROVE  Covers(p, i, seen)
  BY <1>1, <1>2, <1>4 DEF Covers
<1>5. ASSUME Well(e) PROVE Well(p)
  <2>1. \A x \in Events(p) : x \in Events(e) \/ x.id = e.next_event_id
    BY <1>1 DEF Events
  <2> QED
    BY <1>1, <1>2, <1>5, <2>1 DEF Well
<1>6. Held(p) = Held(e) \cup ToSet(of)
  <2>1. \A n : n \in Held(p) <=> \E x \in Events(p) : n \in ToSet(x.of)
    BY <1>3
  <2>2. \A n : n \in Held(e) <=> \E x \in Events(e) : n \in ToSet(x.of)
    BY <1>3
  <2> QED
    BY <1>1, <2>1, <2>2 DEF Adds
<1> QED
  BY <1>4, <1>5, <1>6 DEF p

(***************************************************************************)
(* contents() moves virtual events into the queue; none of them was        *)
(* acknowledged.                                                           *)
(***************************************************************************)
LEMMA SettleCovers ==
    ASSUME NEW e, IsQueue(Notice, e), Ordered(e)
    PROVE  /\ \A i \in Int : \A seen : Covers(e, i, seen) => Covers(Settle(e), i, seen)
           /\ Well(e) => Well(Settle(e))
           /\ Held(Settle(e)) = Held(e)
<1> DEFINE s == Settle(e)
<1>1. /\ IsQueue(Notice, s)
      /\ Events(s) = Events(e)
      /\ ToSet(s.queue) = Events(e)
      /\ s.virtual_events = {}
      /\ s.next_event_id = e.next_event_id
      /\ s.newest_pruned_id = e.newest_pruned_id
  BY SettleKeeps
<1>2. \A x \in Events(e) : x.id \in Nat
  BY QueueFields
<1> HIDE DEF s
<1>3. ASSUME NEW i \in Int, NEW seen, Covers(e, i, seen)
      PROVE  Covers(s, i, seen)
  <2>1. \A x \in Events(e) : x \in e.virtual_events \/ x \in ToSet(e.queue)
    BY DEF Events
  <2>2. \A x \in Events(e) : x.id <= i => x \in ToSet(e.queue)
    BY <1>2, <1>3, <2>1 DEF Covers
  <2> QED
    BY <1>1, <1>3, <2>2 DEF Covers
<1>4. Held(s) = Held(e)
  BY <1>1, HeldAre
<1>5. Well(e) => Well(s)
  BY <1>1 DEF Well
<1> QED
  BY <1>3, <1>4, <1>5 DEF s

(***************************************************************************)
(* An answer is all that the queue holds: its page may acknowledge any of  *)
(* its ids, whatever older copy of the queue the acknowledgement meets.    *)
(***************************************************************************)
LEMMA AnswerKnows ==
    ASSUME NEW e, IsQueue(Notice, e), Ordered(e),
           NEW old, old.virtual_events = {}, old.next_event_id = e.next_event_id,
           NEW last, NEW seen, Covers(old, last, seen),
           \A x \in ToSet(old.queue) \ ToSet(e.queue) : ToSet(x.of) \subseteq seen
    PROVE  Knows(old, last, seen, e.queue)
<1> DEFINE more == seen \cup ToSet(NoticesOf(e.queue))
<1>1. \A x \in ToSet(e.queue) : ToSet(x.of) \subseteq ToSet(NoticesOf(e.queue))
  <2>1. e.queue \in Seq(Event(Notice))
    BY QueueFields
  <2>2. ToSet(NoticesOf(e.queue)) = UNION {ToSet(x.of) : x \in ToSet(e.queue)}
    BY <2>1, NoticesAre
  <2> QED
    BY <2>2
<1>2. \A x \in ToSet(old.queue) : ToSet(x.of) \subseteq more
  BY <1>1
<1>3. \A y \in ToSet(e.queue) : y.id < old.next_event_id
  BY DEF Ordered, Events
<1> HIDE DEF more
<1>4. \A y \in ToSet(e.queue) : Covers(old, y.id, more)
  BY <1>2, <1>3 DEF Covers
<1> QED
  BY <1>4 DEF Knows, more

(***************************************************************************)
(* A page that takes its answer acknowledges its last id.                  *)
(***************************************************************************)
LEMMA AnswerTaken ==
    ASSUME NEW e, NEW last, NEW seen, NEW answer, Knows(e, last, seen, answer),
           NEW next, next = last \/ \E y \in ToSet(answer) : y.id = next
    PROVE  Knows(e, next, seen \cup ToSet(NoticesOf(answer)), <<>>)
<1> DEFINE more == seen \cup ToSet(NoticesOf(answer))
<1>1. Covers(e, next, more)
  <2>1. CASE next = last
    <3>1. Covers(e, last, seen) /\ seen \subseteq more
      BY DEF Knows
    <3> HIDE DEF more
    <3> QED
      BY <2>1, <3>1, SeenMore
  <2>2. CASE \E y \in ToSet(answer) : y.id = next
    BY <2>2 DEF Knows
  <2> QED
    BY <2>1, <2>2
<1> HIDE DEF more
<1> QED
  BY <1>1 DEF Knows, ToSet, more

(***************************************************************************)
(* Nothing is known of a new queue.                                        *)
(***************************************************************************)
LEMMA NewIsKnown ==
    ASSUME NEW seen
    PROVE  Knows(NewQueue, -1, seen, <<>>) /\ Well(NewQueue) /\ Held(NewQueue) = {}
<1>1. /\ IsQueue(Notice, NewQueue)
      /\ Events(NewQueue) = {}
      /\ NewQueue.newest_pruned_id = -1
      /\ NewQueue.next_event_id = 0
  BY NewQueueKeeps
<1>2. NewQueue.queue = <<>> /\ NewQueue.virtual_events = {} /\ ToSet(<<>>) = {}
  BY DEF NewQueue, ToSet
<1>3. Held(NewQueue) = {}
  BY <1>1, HeldAre
<1> QED
  BY <1>1, <1>2, <1>3 DEF Knows, Covers, Well

(***************************************************************************)
(* What a poll prunes, its page has seen.                                  *)
(***************************************************************************)
LEMMA AcknowledgedCovers ==
    ASSUME TInv, NEW b \in Browsers, browser[b].queue_id \in DOMAIN clients
    PROVE  LET e == clients[browser[b].queue_id].event_queue
               a == Acknowledged(b)
               last == browser[b].last_event_id
           IN  /\ \A i \in Int : \A seen : Covers(e, i, seen) => Covers(a, i, seen)
               /\ Held(a) \subseteq Held(e)
               /\ \A seen : Covers(e, last, seen) =>
                     /\ Well(e) => Well(a)
                     /\ Held(e) \subseteq seen \cup Held(a)
                     /\ \A x \in ToSet(e.queue) \ ToSet(a.queue) : ToSet(x.of) \subseteq seen
<1> DEFINE e == clients[browser[b].queue_id].event_queue
           a == Acknowledged(b)
           last == browser[b].last_event_id
<1>1. /\ last \in Int
      /\ IsQueue(Notice, e)
      /\ IsQueue(Notice, a)
      /\ Ordered(e)
      /\ a.virtual_events = e.virtual_events
      /\ a.next_event_id = e.next_event_id
      /\ ToSet(a.queue) \subseteq ToSet(e.queue)
      /\ \A x \in ToSet(e.queue) : x \in ToSet(a.queue) \/ x.id <= last
      /\ \/ a = e
         \/ /\ a.newest_pruned_id <= last
            /\ \E x \in ToSet(e.queue) \ ToSet(a.queue) : x.id = a.newest_pruned_id
            /\ \A x \in ToSet(a.queue) : a.newest_pruned_id < x.id
  BY AcknowledgedKeeps
<1> HIDE DEF e, a, last
<1>2. \A i \in Int : \A seen : Covers(e, i, seen) => Covers(a, i, seen)
  BY <1>1 DEF Covers
<1>3. /\ Held(a) = UNION {ToSet(x.of) : x \in Events(a)}
      /\ Held(e) = UNION {ToSet(x.of) : x \in Events(e)}
      /\ Events(a) \subseteq Events(e)
  BY <1>1, HeldAre DEF Events
<1>4. Held(a) \subseteq Held(e)
  BY <1>3
<1>5. ASSUME NEW seen, Covers(e, last, seen)
      PROVE  /\ Well(e) => Well(a)
             /\ Held(e) \subseteq seen \cup Held(a)
             /\ \A x \in ToSet(e.queue) \ ToSet(a.queue) : ToSet(x.of) \subseteq seen
  <2>1. \A x \in ToSet(e.queue) \ ToSet(a.queue) : ToSet(x.of) \subseteq seen
    BY <1>1, <1>5 DEF Covers
  <2>2. ASSUME NEW n \in Held(e)
        PROVE  n \in seen \cup Held(a)
    <3>1. PICK x \in Events(e) : n \in ToSet(x.of)
      BY <1>3
    <3>2. CASE x \in Events(a)
      BY <1>3, <3>1, <3>2
    <3>3. CASE x \notin Events(a)
      <4>1. x \in ToSet(e.queue) \ ToSet(a.queue)
        BY <1>1, <3>3 DEF Events
      <4> QED
        BY <2>1, <3>1, <4>1
    <3> QED
      BY <3>2, <3>3
  <2>3. ASSUME Well(e), a # e PROVE Well(a)
    <3>1. PICK x \in ToSet(e.queue) : x.id = a.newest_pruned_id
      BY <1>1, <2>3
    <3>2. a.newest_pruned_id < a.next_event_id
      BY <1>1, <3>1 DEF Ordered, Events
    <3>3. /\ a.newest_pruned_id <= last
          /\ \A y \in ToSet(a.queue) : a.newest_pruned_id < y.id
      BY <1>1, <2>3
    <3>4. \A v \in a.virtual_events : last < v.id /\ v.id \in Nat
      <4>1. \A v \in a.virtual_events : last < v.id
        BY <1>1, <1>5 DEF Covers
      <4>2. \A v \in Events(a) : v.id \in Nat
        BY <1>1, QueueFields
      <4> QED
        BY <4>1, <4>2 DEF Events
    <3>5. a.newest_pruned_id \in Int
      BY <1>1, QueueFields
    <3>6. \A v \in a.virtual_events : a.newest_pruned_id < v.id
      BY <1>1, <3>3, <3>4, <3>5
    <3> QED
      BY <3>2, <3>3, <3>6 DEF Well, Events
  <2> QED
    BY <2>1, <2>2, <2>3
<1> QED
  BY <1>2, <1>4, <1>5 DEF e, a, last

-----------------------------------------------------------------------------
(* The invariant.                                                          *)

InFlight(b) ==
    IF browser[b].xhr = NoHandler THEN <<>> ELSE handlers[browser[b].xhr].events

PageKnows(b, e) ==
    Knows(e, browser[b].last_event_id, ToSet(got[browser[b].queue_id]), InFlight(b))

\* Everything that was pushed into queue q is in e, or its page has it
Accounted(q, e) == Well(e) /\ ToSet(pushed[q]) \subseteq ToSet(got[q]) \cup Held(e)

\* The file holds what the queue will be after the restart
Stays(q) == phase = "down" \/ ~ChangedSinceDump(q)

LiveQueues == \A q \in DOMAIN clients \ cut : Accounted(q, clients[q].event_queue)

LivePages ==
    \A b \in Browsers :
       LET q == browser[b].queue_id IN
       q \in DOMAIN clients \ cut => PageKnows(b, clients[q].event_queue)

SavedQueues ==
    \A q \in DOMAIN saved \ cut :
       /\ Well(saved[q].event_queue)
       /\ Stays(q) => Accounted(q, saved[q].event_queue)

SavedPages ==
    \A b \in Browsers :
       LET q == browser[b].queue_id IN
       q \in DOMAIN saved \ cut /\ Stays(q) => PageKnows(b, saved[q].event_queue)

\* After the dump the ids only grow, and compressed events leave the virtual
\* ones for good unless they grow; what the file has more was acknowledged
Dumped ==
    \A q \in DOMAIN saved \cap DOMAIN clients :
       LET old == saved[q].event_queue
           e == clients[q].event_queue
       IN  /\ old.next_event_id <= e.next_event_id
           /\ old.next_event_id = e.next_event_id =>
                 e.virtual_events \in {{}, old.virtual_events}
           /\ q \notin cut /\ ~ChangedSinceDump(q) =>
                 \A x \in ToSet(old.queue) \ ToSet(e.queue) :
                    ToSet(x.of) \subseteq ToSet(got[q])

Fresh ==
    /\ phase = "up" => DOMAIN saved = {}
    /\ \A q \in QueueIds : q > registered => pushed[q] = <<>>
    /\ \A b \in Browsers : browser[b].queue_id = NoQueue => browser[b].last_event_id = -1

\* The handler of a descriptor is a request of the page that has its queue, if
\* it is a request of a page
Mine ==
    \A q \in DOMAIN clients, b \in Browsers :
       clients[q].current_handler_id = browser[b].xhr =>
          browser[b].xhr = NoHandler \/ browser[b].queue_id = q

QueuesInv ==
    /\ LiveQueues
    /\ LivePages
    /\ SavedQueues
    /\ SavedPages
    /\ Dumped
    /\ Fresh

DeliveryInv ==
    /\ PollInv
    /\ Mine
    /\ QueuesInv

-----------------------------------------------------------------------------
(* Most steps change queues and answers and nothing else that the          *)
(* invariant is about.                                                     *)

\* Queue q as p, after a step put an event into it, or none; a notice is the
\* next one of RabbitMQ
Puts(q, p) ==
    LET e == clients[q].event_queue
        notice == Head(rabbit)
    IN  \/ p = e /\ pushed'[q] = pushed[q]
        \/ /\ \E kind \in {"heartbeat", "restart"} : p = Push(e, kind, <<>>)
           /\ pushed'[q] = pushed[q]
        \/ /\ rabbit # <<>>
           /\ p = Push(e, notice.kind, <<notice>>)
           /\ pushed'[q] = Append(pushed[q], notice)

\* A queue that a step changed
Grown(q) ==
    LET e == clients[q].event_queue
        f == clients'[q].event_queue
    IN  /\ \A i \in Int : \A seen : Covers(e, i, seen) => Covers(f, i, seen)
        /\ e.next_event_id <= f.next_event_id
        /\ q \notin cut =>
              /\ Well(f)
              /\ ToSet(pushed'[q]) \subseteq ToSet(got[q]) \cup Held(f)
        /\ e.next_event_id = f.next_event_id =>
              /\ f.virtual_events \in {{}, e.virtual_events}
              /\ pushed'[q] = pushed[q]
              /\ q \notin cut =>
                    \A x \in ToSet(e.queue) \ ToSet(f.queue) :
                       ToSet(x.of) \subseteq ToSet(got[q])
        /\ \E p : /\ Puts(q, p)
                  /\ Events(f) \subseteq Events(p)
                  /\ f.virtual_events \in {{}, p.virtual_events}

\* A page whose poll was answered with all that its queue holds, and with
\* nothing that it had before
Answered(b) ==
    LET q == browser[b].queue_id IN
    /\ q \in DOMAIN clients'
    /\ InFlight(b)' = clients'[q].event_queue.queue
    /\ clients'[q].event_queue.virtual_events = {}
    /\ q \notin cut => \A y \in ToSet(clients'[q].event_queue.queue) :
                          browser[b].last_event_id < y.id

Smooth ==
    /\ UNCHANGED <<phase, saved, cut, got, registered>>
    /\ DOMAIN clients' \subseteq DOMAIN clients
    /\ \A q \in DOMAIN clients' : Grown(q)
    /\ \A q \in QueueIds \ DOMAIN clients' : pushed'[q] = pushed[q]
    /\ \A b \in Browsers :
          \/ browser'[b] = Idle
          \/ /\ browser'[b].queue_id = browser[b].queue_id
             /\ browser'[b].last_event_id = browser[b].last_event_id
             /\ InFlight(b)' \in {<<>>, InFlight(b)} \/ Answered(b)

(***************************************************************************)
(* An answer on its way is a sequence of events with ids.                  *)
(***************************************************************************)
LEMMA InFlightType ==
    ASSUME TypeOK, NEW b \in Browsers
    PROVE  /\ InFlight(b) \in Seq(Event(Notice))
           /\ \A y \in ToSet(InFlight(b)) : y.id \in Int
<1>1. CASE browser[b].xhr = NoHandler
  BY <1>1, EmptySeq DEF InFlight, ToSet
<1>2. CASE browser[b].xhr # NoHandler
  <2>1. browser[b].xhr \in HandlerIds
    BY <1>2 DEF TypeOK
  <2>2. handlers[browser[b].xhr] \in Answer \cup {Absent, Waiting}
    BY <2>1 DEF TypeOK
  <2>3. handlers[browser[b].xhr].events \in Seq(Event(Notice))
    <3> DEFINE S == Seq(Event(Notice))
    <3>1. <<>> \in S
      BY EmptySeq
    <3>2. Answer = [result : {"success", "BAD_EVENT_QUEUE_ID", "BAD_REQUEST"}, events : S]
      BY DEF Answer
    <3>3. CASE handlers[browser[b].xhr] \in Answer
      <4> HIDE DEF S
      <4>1. handlers[browser[b].xhr].events \in S
        BY <3>2, <3>3
      <4> QED
        BY <4>1 DEF S
    <3>4. CASE handlers[browser[b].xhr] \in {Absent, Waiting}
      <4>1. Absent.events = <<>> /\ Waiting.events = <<>>
        BY DEF Absent, Waiting
      <4> QED
        BY <3>1, <3>4, <4>1
    <3> QED
      BY <2>2, <3>3, <3>4
  <2>4. ToSet(handlers[browser[b].xhr].events) \subseteq Event(Notice)
    BY <2>3, ToSetProperties
  <2> QED
    BY <1>2, <2>3, <2>4 DEF InFlight, Event
<1> QED
  BY <1>1, <1>2

(***************************************************************************)
(* A queue of the file that is still what it was in memory was so before a *)
(* step that changes queues: what it has more was acknowledged.            *)
(***************************************************************************)
LEMMA SmoothStays ==
    ASSUME TInv, TInv', QueuesInv, Smooth,
           NEW q \in DOMAIN saved \ cut, Stays(q)', phase # "down"
    PROVE  LET old == saved[q].event_queue
               f == clients'[q].event_queue
           IN  /\ Stays(q)
               /\ q \in DOMAIN clients'
               /\ old.next_event_id = f.next_event_id
               /\ old.virtual_events = f.virtual_events
               /\ pushed'[q] = pushed[q]
               /\ \A x \in ToSet(old.queue) \ ToSet(f.queue) :
                     ToSet(x.of) \subseteq ToSet(got[q])
<1> DEFINE old == saved[q].event_queue
           e == clients[q].event_queue
           f == clients'[q].event_queue
<1>1. /\ UNCHANGED <<phase, saved, cut, got>>
      /\ DOMAIN clients' \subseteq DOMAIN clients
      /\ \A r \in DOMAIN clients' : Grown(r)
  BY DEF Smooth
<1>2. /\ q \in DOMAIN clients' /\ q \in DOMAIN clients
      /\ old.next_event_id = f.next_event_id
      /\ old.virtual_events = f.virtual_events
  BY <1>1 DEF Stays, ChangedSinceDump
<1>3. /\ e.next_event_id <= f.next_event_id
      /\ e.next_event_id = f.next_event_id =>
            /\ f.virtual_events \in {{}, e.virtual_events}
            /\ pushed'[q] = pushed[q]
            /\ \A x \in ToSet(e.queue) \ ToSet(f.queue) :
                  ToSet(x.of) \subseteq ToSet(got[q])
  <2>1. Grown(q)
    BY <1>1, <1>2
  <2> QED
    BY <2>1 DEF Grown
<1>4. /\ old.next_event_id <= e.next_event_id
      /\ old.next_event_id = e.next_event_id =>
            e.virtual_events \in {{}, old.virtual_events}
      /\ ~ChangedSinceDump(q) =>
            \A x \in ToSet(old.queue) \ ToSet(e.queue) :
               ToSet(x.of) \subseteq ToSet(got[q])
  BY <1>2 DEF QueuesInv, Dumped
<1>5. /\ old.next_event_id \in Nat /\ e.next_event_id \in Nat /\ f.next_event_id \in Nat
  BY <1>2, QueueFields DEF TInv, Kept
<1>6. old.next_event_id = e.next_event_id /\ e.next_event_id = f.next_event_id
  <2> HIDE DEF old, e, f
  <2> QED
    BY <1>2, <1>3, <1>4, <1>5
<1>7. e.virtual_events = old.virtual_events
  <2> HIDE DEF old, e, f
  <2> QED
    BY <1>2, <1>3, <1>4, <1>6
<1>8. ~ChangedSinceDump(q)
  BY <1>2, <1>6, <1>7 DEF ChangedSinceDump
<1>9. \A x \in ToSet(old.queue) \ ToSet(f.queue) :
         ToSet(x.of) \subseteq ToSet(got[q])
  <2> HIDE DEF old, e, f
  <2> QED
    BY <1>3, <1>4, <1>6, <1>8
<1> QED
  BY <1>2, <1>3, <1>6, <1>8, <1>9 DEF Stays

(***************************************************************************)
(* Such a step keeps the invariant.                                        *)
(***************************************************************************)
LEMMA SmoothKeeps ==
    ASSUME TInv, TInv', PollInv, QueuesInv, Smooth
    PROVE  QueuesInv'
<1> USE DEF NoQueue
<1>1. /\ UNCHANGED <<phase, saved, cut, got, registered>>
      /\ DOMAIN clients' \subseteq DOMAIN clients
      /\ \A q \in DOMAIN clients' : Grown(q)
      /\ \A q \in QueueIds \ DOMAIN clients' : pushed'[q] = pushed[q]
  BY DEF Smooth
<1>2. \A b \in Browsers :
         browser'[b].queue_id # NoQueue =>
            /\ browser'[b].queue_id = browser[b].queue_id
            /\ browser'[b].last_event_id = browser[b].last_event_id
            /\ InFlight(b)' \in {<<>>, InFlight(b)} \/ Answered(b)
  BY DEF Smooth, Idle
<1>3. \A q \in DOMAIN clients :
         /\ IsQueue(Notice, clients[q].event_queue)
         /\ Ordered(clients[q].event_queue)
         /\ clients[q].event_queue.next_event_id \in Nat
  BY QueueFields DEF TInv, Kept
<1>4. \A q \in DOMAIN clients' :
         /\ IsQueue(Notice, clients'[q].event_queue)
         /\ Ordered(clients'[q].event_queue)
         /\ clients'[q].event_queue.next_event_id \in Nat
  BY QueueFields DEF TInv, Kept
<1>5. \A q \in DOMAIN saved : saved[q].event_queue.next_event_id \in Nat
  BY QueueFields DEF TInv, Kept
<1>6. /\ DOMAIN saved \subseteq 1..registered
      /\ DOMAIN clients' \subseteq 1..registered
      /\ registered \in QueueIds \cup {0}
      /\ bound \in Bounds
      /\ registered <= bound.queues
  BY <1>1 DEF TInv, TypeOK
<1>7. 1..registered \subseteq QueueIds /\ 0 \notin 1..registered
  <2>1. 1..bound.queues \subseteq QueueIds /\ QueueIds \subseteq Nat \ {0} /\ bound.queues \in Nat
    BY <1>6, BoundsHold
  <2> QED
    BY <1>6, <2>1
<1>8. phase = "down" => DOMAIN clients = {}
  BY DEF PollInv, ServerInv, Running
<1>9. LiveQueues'
  BY <1>1 DEF LiveQueues, Accounted, Grown
<1>10. LivePages'
  <2> SUFFICES ASSUME NEW b \in Browsers, NEW q, q = browser'[b].queue_id,
                      q \in DOMAIN clients' \ cut
               PROVE  PageKnows(b, clients[browser[b].queue_id].event_queue)'
    BY <1>1 DEF LivePages
  <2> DEFINE e == clients[q].event_queue
             f == clients'[q].event_queue
             last == browser[b].last_event_id
             seen == ToSet(got[q])
  <2>1. /\ browser[b].queue_id = q
        /\ browser'[b].last_event_id = last
        /\ InFlight(b)' \in {<<>>, InFlight(b)} \/ Answered(b)
    BY <1>2, <1>6, <1>7
  <2>2. Knows(e, last, seen, InFlight(b))
    BY <1>1, <2>1 DEF QueuesInv, LivePages, PageKnows
  <2>3. /\ \A i \in Int : \A s : Covers(e, i, s) => Covers(f, i, s)
        /\ last \in Int
    <3>1. Grown(q)
      BY <1>1
    <3>2. last \in Int
      BY DEF TInv, TypeOK
    <3> QED
      BY <3>1, <3>2 DEF Grown
  <2>4. Knows(f, last, seen, InFlight(b)')
    <3>1. CASE InFlight(b)' = <<>>
      <4>1. Covers(f, last, seen)
        BY <2>2, <2>3 DEF Knows
      <4> HIDE DEF f, last, seen
      <4> QED
        BY <3>1, <4>1 DEF Knows, ToSet
    <3>2. CASE InFlight(b)' = InFlight(b)
      <4>1. \A y \in ToSet(InFlight(b)) : y.id \in Int
        BY InFlightType DEF TInv
      <4> DEFINE answer == InFlight(b)
      <4>2. Knows(e, last, seen, answer) /\ \A y \in ToSet(answer) : y.id \in Int
        BY <2>2, <4>1
      <4> HIDE DEF answer, e, f, last, seen
      <4>3. Knows(f, last, seen, answer)
        BY <2>3, <4>2 DEF Knows
      <4> QED
        BY <3>2, <4>3 DEF answer
    <3>3. CASE Answered(b)
      <4>1. InFlight(b)' = f.queue /\ f.virtual_events = {}
        BY <2>1, <3>3 DEF Answered
      <4>2. Covers(f, last, seen)
        BY <2>2, <2>3 DEF Knows
      <4>3. IsQueue(Notice, f) /\ Ordered(f)
        BY <1>4
      <4> HIDE DEF f, last, seen
      <4>4. Knows(f, last, seen, f.queue)
        BY <4>1, <4>2, <4>3, AnswerKnows
      <4> QED
        BY <4>1, <4>4
    <3> QED
      BY <2>1, <3>1, <3>2, <3>3
  <2> QED
    BY <1>1, <2>1, <2>4 DEF PageKnows
<1>11. ASSUME NEW q \in DOMAIN saved \ cut, Stays(q)', phase # "down"
       PROVE  LET old == saved[q].event_queue
                  f == clients'[q].event_queue
              IN  /\ Stays(q)
                  /\ q \in DOMAIN clients'
                  /\ old.next_event_id = f.next_event_id
                  /\ old.virtual_events = f.virtual_events
                  /\ pushed'[q] = pushed[q]
                  /\ \A x \in ToSet(old.queue) \ ToSet(f.queue) :
                        ToSet(x.of) \subseteq ToSet(got[q])
  BY <1>11, SmoothStays
<1>12. \A q \in DOMAIN saved : phase = "down" => pushed'[q] = pushed[q] /\ Stays(q)
  BY <1>1, <1>6, <1>7, <1>8 DEF Stays
<1>13. SavedQueues'
  <2> SUFFICES ASSUME NEW q \in DOMAIN saved \ cut
               PROVE  /\ Well(saved[q].event_queue)
                      /\ Stays(q)' => Accounted(q, saved[q].event_queue)'
    BY <1>1 DEF SavedQueues
  <2>1. /\ Well(saved[q].event_queue)
        /\ Stays(q) => Accounted(q, saved[q].event_queue)
    BY DEF QueuesInv, SavedQueues
  <2>2. Stays(q)' => Stays(q) /\ pushed'[q] = pushed[q]
    BY <1>11, <1>12
  <2> QED
    BY <1>1, <2>1, <2>2 DEF Accounted
<1>14. SavedPages'
  <2> SUFFICES ASSUME NEW b \in Browsers, NEW q, q = browser'[b].queue_id,
                      q \in DOMAIN saved \ cut, Stays(q)'
               PROVE  PageKnows(b, saved[browser[b].queue_id].event_queue)'
    BY <1>1 DEF SavedPages
  <2> DEFINE old == saved[q].event_queue
             f == clients'[q].event_queue
             last == browser[b].last_event_id
             seen == ToSet(got[q])
  <2>1. /\ browser[b].queue_id = q
        /\ browser'[b].last_event_id = last
        /\ InFlight(b)' \in {<<>>, InFlight(b)} \/ Answered(b)
    BY <1>2, <1>6, <1>7
  <2>2. Stays(q)
    BY <1>11, <1>12
  <2>3. Knows(old, last, seen, InFlight(b))
    BY <1>1, <2>1, <2>2 DEF QueuesInv, SavedPages, PageKnows
  <2>4. Knows(old, last, seen, InFlight(b)')
    <3>1. CASE InFlight(b)' = <<>>
      BY <2>3, <3>1, AnswerLost
    <3>2. CASE InFlight(b)' = InFlight(b)
      BY <2>3, <3>2
    <3>3. CASE Answered(b)
      <4>1. q \in DOMAIN clients' /\ InFlight(b)' = f.queue /\ f.virtual_events = {}
        BY <2>1, <3>3 DEF Answered
      <4>2. phase # "down"
        BY <1>1, <1>8, <4>1
      <4>3. /\ old.next_event_id = f.next_event_id
            /\ old.virtual_events = f.virtual_events
            /\ \A x \in ToSet(old.queue) \ ToSet(f.queue) : ToSet(x.of) \subseteq seen
        BY <1>11, <4>2
      <4>4. Covers(old, last, seen)
        BY <2>3 DEF Knows
      <4>5. IsQueue(Notice, f) /\ Ordered(f)
        BY <1>4, <4>1
      <4> HIDE DEF old, f, last, seen
      <4>6. Knows(old, last, seen, f.queue)
        BY <4>1, <4>3, <4>4, <4>5, AnswerKnows
      <4> QED
        BY <4>1, <4>6
    <3> QED
      BY <2>1, <3>1, <3>2, <3>3
  <2> QED
    BY <1>1, <2>1, <2>4 DEF PageKnows
<1>15. Dumped'
  <2> SUFFICES ASSUME NEW q \in DOMAIN saved \cap DOMAIN clients'
               PROVE  LET old == saved[q].event_queue
                          e == clients'[q].event_queue
                      IN  /\ old.next_event_id <= e.next_event_id
                          /\ old.next_event_id = e.next_event_id =>
                                e.virtual_events \in {{}, old.virtual_events}
                          /\ q \notin cut /\ ~ChangedSinceDump(q)' =>
                                \A x \in ToSet(old.queue) \ ToSet(e.queue) :
                                   ToSet(x.of) \subseteq ToSet(got[q])
    BY <1>1 DEF Dumped
  <2> DEFINE old == saved[q].event_queue
             e == clients[q].event_queue
             f == clients'[q].event_queue
  <2>1. q \in DOMAIN clients
    BY <1>1
  <2>2. /\ old.next_event_id <= e.next_event_id
        /\ old.next_event_id = e.next_event_id =>
              e.virtual_events \in {{}, old.virtual_events}
    BY <2>1 DEF QueuesInv, Dumped
  <2>3. /\ e.next_event_id <= f.next_event_id
        /\ e.next_event_id = f.next_event_id =>
              f.virtual_events \in {{}, e.virtual_events}
    <3>1. Grown(q)
      BY <1>1
    <3> QED
      BY <3>1 DEF Grown
  <2>4. /\ old.next_event_id \in Nat /\ e.next_event_id \in Nat /\ f.next_event_id \in Nat
    BY <1>3, <1>4, <1>5, <2>1
  <2>5. /\ old.next_event_id <= f.next_event_id
        /\ old.next_event_id = f.next_event_id =>
              f.virtual_events \in {{}, old.virtual_events}
    <3> HIDE DEF old, e, f
    <3> QED
      BY <2>2, <2>3, <2>4
  <2>6. q \notin cut /\ ~ChangedSinceDump(q)' =>
           \A x \in ToSet(old.queue) \ ToSet(f.queue) : ToSet(x.of) \subseteq ToSet(got[q])
    <3>1. phase # "down"
      BY <1>8, <2>1
    <3>2. ~ChangedSinceDump(q)' => Stays(q)'
      BY DEF Stays
    <3> QED
      BY <1>11, <3>1, <3>2
  <2> QED
    BY <2>5, <2>6
<1>16. Fresh'
  <2>1. \A q \in QueueIds : q > registered => q \notin DOMAIN clients'
    <3>1. registered \in Nat
      BY DEF TInv, TypeOK, QueueIds
    <3>2. \A q \in 1..registered : ~(q > registered)
      BY <3>1
    <3> QED
      BY <1>6, <3>2
  <2>2. \A q \in QueueIds : q > registered' => pushed'[q] = <<>>
    BY <1>1, <2>1 DEF QueuesInv, Fresh
  <2>3. \A b \in Browsers : browser'[b].queue_id = NoQueue => browser'[b].last_event_id = -1
    BY DEF Smooth, Idle, QueuesInv, Fresh
  <2> QED
    BY <1>1, <2>2, <2>3 DEF QueuesInv, Fresh
<1> QED
  BY <1>9, <1>10, <1>13, <1>14, <1>15, <1>16 DEF QueuesInv

(***************************************************************************)
(* The three ways in which a queue changes: not at all, by an event, or by *)
(* a poll of its page.                                                     *)
(***************************************************************************)
LEMMA GrownSame ==
    ASSUME TInv, LiveQueues, NEW q \in DOMAIN clients,
           clients'[q].event_queue = clients[q].event_queue,
           pushed'[q] = pushed[q]
    PROVE  Grown(q)
<1>1. clients[q].event_queue.next_event_id \in Nat
  BY QueueFields DEF TInv, Kept
<1>2. q \notin cut => Accounted(q, clients[q].event_queue)
  BY DEF LiveQueues
<1>3. Puts(q, clients[q].event_queue)
  BY DEF Puts
<1> QED
  BY <1>1, <1>2, <1>3 DEF Grown, Accounted

(***************************************************************************)
(* A queue that gets an event, and whose poll is answered with it if there *)
(* is one.                                                                 *)
(***************************************************************************)
LEMMA GrownPush ==
    ASSUME TInv, LiveQueues, NEW q \in DOMAIN clients,
           NEW kind \in Kinds, NEW of \in Seq(Notice),
           LET p == Push(clients[q].event_queue, kind, of)
           IN  clients'[q].event_queue \in {p, Settle(p)} /\ Puts(q, p),
           ToSet(pushed'[q]) = ToSet(pushed[q]) \cup ToSet(of)
    PROVE  Grown(q)
<1> DEFINE e == clients[q].event_queue
           p == Push(e, kind, of)
           f == clients'[q].event_queue
<1>1. IsQueue(Notice, e) /\ Ordered(e)
  BY DEF TInv, Kept
<1>2. /\ IsQueue(Notice, p) /\ Ordered(p)
      /\ p.next_event_id = e.next_event_id + 1
  BY <1>1, PushKeeps
<1>3. /\ \A i \in Int : \A seen : Covers(e, i, seen) => Covers(p, i, seen)
      /\ Well(e) => Well(p)
      /\ Held(p) = Held(e) \cup ToSet(of)
  <2> HIDE DEF e
  <2> QED
    BY <1>1, PushCovers
<1>4. /\ \A i \in Int : \A seen : Covers(p, i, seen) => Covers(Settle(p), i, seen)
      /\ Well(p) => Well(Settle(p))
      /\ Held(Settle(p)) = Held(p)
      /\ Settle(p).next_event_id = p.next_event_id
      /\ Events(Settle(p)) = Events(p)
      /\ Settle(p).virtual_events = {}
  <2> HIDE DEF p
  <2> QED
    BY <1>2, SettleCovers, SettleKeeps
<1>5. e.next_event_id \in Nat
  BY <1>1, QueueFields
<1>6. f = p \/ f = Settle(p)
  OBVIOUS
<1>7. q \notin cut => Well(e) /\ ToSet(pushed[q]) \subseteq ToSet(got[q]) \cup Held(e)
  BY DEF LiveQueues, Accounted
<1> HIDE DEF e, p, f
<1>8. /\ \A i \in Int : \A seen : Covers(e, i, seen) => Covers(f, i, seen)
      /\ Well(e) => Well(f)
      /\ Held(f) = Held(e) \cup ToSet(of)
      /\ f.next_event_id = e.next_event_id + 1
  BY <1>2, <1>3, <1>4, <1>6
<1>9. /\ e.next_event_id <= f.next_event_id
      /\ e.next_event_id # f.next_event_id
  BY <1>5, <1>8
<1>10. /\ Puts(q, p)
       /\ Events(f) \subseteq Events(p)
       /\ f.virtual_events \in {{}, p.virtual_events}
  <2>1. Puts(q, p)
    BY DEF p, e
  <2> QED
    BY <1>4, <1>6, <2>1
<1> QED
  BY <1>7, <1>8, <1>9, <1>10 DEF Grown, e, f

(***************************************************************************)
(* A queue that a poll prunes, and that contents() settles for its answer. *)
(***************************************************************************)
LEMMA GrownPolled ==
    ASSUME TInv, QueuesInv, NEW b \in Browsers, NEW q, q = browser[b].queue_id,
           q \in DOMAIN clients,
           clients'[q].event_queue \in {Acknowledged(b), Settle(Acknowledged(b))},
           pushed'[q] = pushed[q]
    PROVE  Grown(q)
<1> DEFINE e == clients[q].event_queue
           a == Acknowledged(b)
           f == clients'[q].event_queue
           last == browser[b].last_event_id
           seen == ToSet(got[q])
<1>1. /\ IsQueue(Notice, a) /\ Ordered(a)
      /\ a.virtual_events = e.virtual_events
      /\ a.next_event_id = e.next_event_id
      /\ e.next_event_id \in Nat
      /\ ToSet(a.queue) \subseteq ToSet(e.queue)
  BY AcknowledgedKeeps, QueueFields
<1>2. /\ \A i \in Int : \A s : Covers(e, i, s) => Covers(a, i, s)
      /\ \A s : Covers(e, last, s) =>
            /\ Well(e) => Well(a)
            /\ Held(e) \subseteq s \cup Held(a)
            /\ \A x \in ToSet(e.queue) \ ToSet(a.queue) : ToSet(x.of) \subseteq s
  BY AcknowledgedCovers
<1>3. q \notin cut =>
         /\ Covers(e, last, seen)
         /\ Well(e)
         /\ ToSet(pushed[q]) \subseteq seen \cup Held(e)
  BY DEF QueuesInv, LiveQueues, LivePages, Accounted, PageKnows, Knows
<1>4. f = a \/ f = Settle(a)
  OBVIOUS
<1> HIDE DEF e, a, f, last, seen
<1>5. /\ \A i \in Int : \A s : Covers(a, i, s) => Covers(Settle(a), i, s)
      /\ Well(a) => Well(Settle(a))
      /\ Held(Settle(a)) = Held(a)
      /\ Settle(a).next_event_id = a.next_event_id
      /\ Settle(a).virtual_events = {}
      /\ Events(Settle(a)) = Events(a)
      /\ ToSet(a.queue) \subseteq ToSet(Settle(a).queue)
  <2>1. /\ \A i \in Int : \A s : Covers(a, i, s) => Covers(Settle(a), i, s)
        /\ Well(a) => Well(Settle(a))
        /\ Held(Settle(a)) = Held(a)
    BY <1>1, SettleCovers
  <2>2. /\ Settle(a).next_event_id = a.next_event_id
        /\ Settle(a).virtual_events = {}
        /\ Events(Settle(a)) = Events(a)
        /\ ToSet(Settle(a).queue) = Events(a)
    BY <1>1, SettleKeeps
  <2> QED
    BY <2>1, <2>2 DEF Events
<1>6. /\ \A i \in Int : \A s : Covers(e, i, s) => Covers(f, i, s)
      /\ Well(a) => Well(f)
      /\ Held(f) = Held(a)
      /\ f.next_event_id = e.next_event_id
      /\ f.virtual_events \in {{}, e.virtual_events}
      /\ ToSet(a.queue) \subseteq ToSet(f.queue)
  BY <1>1, <1>2, <1>4, <1>5
<1>7. q \notin cut =>
         /\ Well(f)
         /\ ToSet(pushed[q]) \subseteq seen \cup Held(f)
         /\ \A x \in ToSet(e.queue) \ ToSet(f.queue) : ToSet(x.of) \subseteq seen
  <2> SUFFICES ASSUME q \notin cut
               PROVE  /\ Well(f)
                      /\ ToSet(pushed[q]) \subseteq seen \cup Held(f)
                      /\ \A x \in ToSet(e.queue) \ ToSet(f.queue) : ToSet(x.of) \subseteq seen
    OBVIOUS
  <2>1. Covers(e, last, seen) /\ Well(e) /\ ToSet(pushed[q]) \subseteq seen \cup Held(e)
    BY <1>3
  <2>2. /\ Well(a)
        /\ Held(e) \subseteq seen \cup Held(a)
        /\ \A x \in ToSet(e.queue) \ ToSet(a.queue) : ToSet(x.of) \subseteq seen
    BY <1>2, <2>1
  <2> QED
    BY <1>6, <2>1, <2>2
<1>8. /\ Puts(q, e)
      /\ Events(f) \subseteq Events(e)
      /\ f.virtual_events \in {{}, e.virtual_events}
  <2>1. Puts(q, e)
    BY DEF Puts, e
  <2>2. Events(a) \subseteq Events(e)
    BY <1>1 DEF Events
  <2>3. Events(f) = Events(a)
    BY <1>4, <1>5
  <2> QED
    BY <1>6, <2>1, <2>2, <2>3
<1>9. /\ e.next_event_id <= f.next_event_id
      /\ e.next_event_id = f.next_event_id
  BY <1>1, <1>6
<1>10. Grown(q) <=>
         /\ \A i \in Int : \A s : Covers(e, i, s) => Covers(f, i, s)
         /\ e.next_event_id <= f.next_event_id
         /\ q \notin cut =>
               /\ Well(f)
               /\ ToSet(pushed'[q]) \subseteq seen \cup Held(f)
         /\ e.next_event_id = f.next_event_id =>
               /\ f.virtual_events \in {{}, e.virtual_events}
               /\ pushed'[q] = pushed[q]
               /\ q \notin cut =>
                     \A x \in ToSet(e.queue) \ ToSet(f.queue) : ToSet(x.of) \subseteq seen
         /\ \E p : /\ Puts(q, p)
                   /\ Events(f) \subseteq Events(p)
                   /\ f.virtual_events \in {{}, p.virtual_events}
  BY DEF Grown, e, f, seen
<1> QED
  BY <1>6, <1>7, <1>8, <1>9, <1>10

(***************************************************************************)
(* The steps that change no queue, except that some of them go.            *)
(***************************************************************************)
LEMMA QuietIsSmooth ==
    ASSUME TInv, QueuesInv,
           DOMAIN clients' \subseteq DOMAIN clients,
           \A q \in DOMAIN clients' : clients'[q].event_queue = clients[q].event_queue,
           UNCHANGED <<phase, saved, cut, got, registered, pushed>>,
           \A b \in Browsers :
              \/ browser'[b] = Idle
              \/ /\ browser'[b].queue_id = browser[b].queue_id
                 /\ browser'[b].last_event_id = browser[b].last_event_id
                 /\ InFlight(b)' \in {<<>>, InFlight(b)}
    PROVE  Smooth
<1>1. \A q \in DOMAIN clients' : Grown(q)
  BY GrownSame DEF QueuesInv
<1> QED
  BY <1>1 DEF Smooth

(***************************************************************************)
(* An event is pushed into queues; the answers are all that these hold.    *)
(***************************************************************************)
LEMMA AddEventIsSmooth ==
    ASSUME TInv, SleepsOnlyWhenEmpty, QueuesInv, Mine,
           NEW queues \in SUBSET DOMAIN clients,
           NEW kind \in Kinds, NEW of \in Seq(Notice),
           AddEvent(queues, kind, of),
           UNCHANGED <<phase, saved, cut, got, registered, browser>>,
           \A q \in queues : /\ ToSet(pushed'[q]) = ToSet(pushed[q]) \cup ToSet(of)
                             /\ Puts(q, Push(clients[q].event_queue, kind, of)),
           \A q \in (QueueIds \cup DOMAIN clients) \ queues : pushed'[q] = pushed[q]
    PROVE  Smooth
<1>1. /\ DOMAIN clients' = DOMAIN clients
      /\ \A q \in DOMAIN clients :
            /\ Kept(clients'[q])
            /\ q \notin queues => clients'[q] = clients[q]
            /\ q \in queues => clients'[q].event_queue =
                                  IF q \in Connected
                                  THEN Settle(Push(clients[q].event_queue, kind, of))
                                  ELSE Push(clients[q].event_queue, kind, of)
      /\ handlers' = Answers(queues \cap Connected, clients')
  BY AddEventTypes
<1>2. \A q \in DOMAIN clients' : Grown(q)
  <2> SUFFICES ASSUME NEW q \in DOMAIN clients PROVE Grown(q)
    BY <1>1
  <2>1. CASE q \notin queues
    BY <1>1, <2>1, GrownSame DEF QueuesInv
  <2>2. CASE q \in queues
    <3>1. LET p == Push(clients[q].event_queue, kind, of)
          IN  clients'[q].event_queue \in {p, Settle(p)} /\ Puts(q, p)
      BY <1>1, <2>2
    <3> QED
      BY <2>2, <3>1, GrownPush DEF QueuesInv
  <2> QED
    BY <2>1, <2>2
<1>3. ASSUME NEW b \in Browsers
      PROVE  InFlight(b)' \in {<<>>, InFlight(b)} \/ Answered(b)
  <2> DEFINE h == browser[b].xhr
  <2>1. CASE h = NoHandler
    BY <2>1 DEF InFlight
  <2>2. CASE h # NoHandler
    <3>1. h \in HandlerIds
      BY <2>2 DEF TInv, TypeOK
    <3>2. InFlight(b) = handlers[h].events /\ InFlight(b)' = handlers'[h].events
      BY <2>2 DEF InFlight
    <3>3. \/ handlers'[h] = handlers[h]
          \/ \E q \in queues \cap Connected :
                /\ clients[q].current_handler_id = h
                /\ handlers'[h] = Success(clients'[q].event_queue.queue)
      BY <1>1, <3>1, AnswersAre DEF TInv
    <3>4. ASSUME NEW q \in queues \cap Connected,
                 clients[q].current_handler_id = h,
                 handlers'[h] = Success(clients'[q].event_queue.queue)
          PROVE  Answered(b)
      <4>1. browser[b].queue_id = q
        BY <2>2, <3>4 DEF Mine
      <4>2. InFlight(b)' = clients'[q].event_queue.queue
        BY <3>2, <3>4 DEF Success
      <4>3. clients'[q].event_queue = Settle(Push(clients[q].event_queue, kind, of))
        BY <1>1
      <4> DEFINE e == clients[q].event_queue
                 p == Push(e, kind, of)
                 f == clients'[q].event_queue
      <4>4. IsQueue(Notice, e) /\ Ordered(e)
        BY DEF TInv, Kept
      <4>5. /\ IsQueue(Notice, p)
            /\ Ordered(p)
            /\ \A x \in ToSet(p.queue) : x \in ToSet(e.queue) \/ x.id = e.next_event_id
            /\ \A v \in p.virtual_events : v \in e.virtual_events \/ v.id = e.next_event_id
        <5> HIDE DEF e
        <5> QED
          BY <4>4, PushKeeps
      <4>6. f.virtual_events = {} /\ ToSet(f.queue) = Events(p)
        <5> HIDE DEF p, f
        <5>1. f = Settle(p)
          BY <4>3 DEF p, f
        <5> QED
          BY <4>5, <5>1, SettleKeeps
      <4>7. ToSet(e.queue) = {} /\ e.virtual_events = {}
        <5>1. IsEmpty(e)
          BY DEF SleepsOnlyWhenEmpty
        <5>2. ToSet(<<>>) = {}
          BY DEF ToSet
        <5> QED
          BY <5>1, <5>2 DEF IsEmpty
      <4>8. q \notin cut => browser[b].last_event_id < e.next_event_id
        BY <4>1 DEF QueuesInv, LivePages, PageKnows, Knows, Covers
      <4>9. q \notin cut => \A y \in ToSet(f.queue) : browser[b].last_event_id < y.id
        <5> HIDE DEF e, p, f
        <5> QED
          BY <4>5, <4>6, <4>7, <4>8 DEF Events
      <4> QED
        BY <1>1, <4>1, <4>2, <4>6, <4>9 DEF Answered
    <3> QED
      BY <3>2, <3>3, <3>4
  <2> QED
    BY <2>1, <2>2
<1> QED
  BY <1>1, <1>2, <1>3 DEF Smooth

-----------------------------------------------------------------------------
(* The smooth steps.                                                       *)

(***************************************************************************)
(* A notice that is processed changes queues and answers only.             *)
(***************************************************************************)
LEMMA NotificationIsSmooth ==
    ASSUME TInv, SleepsOnlyWhenEmpty, QueuesInv, Mine, ProcessNotification
    PROVE  Smooth
<1> DEFINE notice == Head(rabbit)
<1>1. /\ AddEvent(DOMAIN clients, notice.kind, <<notice>>)
      /\ pushed' = [q \in QueueIds |-> IF q \in DOMAIN clients
                                       THEN Append(pushed[q], notice) ELSE pushed[q]]
      /\ UNCHANGED <<phase, saved, cut, got, registered, browser>>
  BY DEF ProcessNotification
<1>2. notice \in Notice /\ notice.kind \in Kinds /\ <<notice>> \in Seq(Notice)
  BY RabbitHead DEF ProcessNotification, TInv
<1> HIDE DEF notice
<1>3. DOMAIN clients \subseteq QueueIds
  <2>1. /\ DOMAIN clients \subseteq 1..registered
        /\ registered <= bound.queues
        /\ registered \in QueueIds \cup {0}
        /\ bound \in Bounds
    BY DEF TInv, TypeOK
  <2>2. 1..bound.queues \subseteq QueueIds /\ QueueIds \subseteq Nat \ {0} /\ bound.queues \in Nat
    BY <2>1, BoundsHold
  <2> QED
    BY <2>1, <2>2
<1>4. \A q \in DOMAIN clients :
         /\ ToSet(pushed'[q]) = ToSet(pushed[q]) \cup ToSet(<<notice>>)
         /\ Puts(q, Push(clients[q].event_queue, notice.kind, <<notice>>))
  <2> SUFFICES ASSUME NEW q \in DOMAIN clients
               PROVE  /\ ToSet(pushed'[q]) = ToSet(pushed[q]) \cup ToSet(<<notice>>)
                      /\ Puts(q, Push(clients[q].event_queue, notice.kind, <<notice>>))
    OBVIOUS
  <2>1. pushed'[q] = Append(pushed[q], notice) /\ pushed[q] \in Seq(Notice)
    BY <1>1, <1>3 DEF TInv, TypeOK
  <2>2. ToSet(Append(pushed[q], notice)) = ToSet(pushed[q]) \cup {notice}
    BY <1>2, <2>1, ToSetProperties
  <2>3. ToSet(<<notice>>) = {notice}
    BY DEF ToSet
  <2>4. Puts(q, Push(clients[q].event_queue, notice.kind, <<notice>>))
    <3>1. rabbit # <<>>
      BY DEF ProcessNotification
    <3> QED
      BY <2>1, <3>1 DEF Puts, notice
  <2> QED
    BY <2>1, <2>2, <2>3, <2>4
<1>5. \A q \in (QueueIds \cup DOMAIN clients) \ DOMAIN clients : pushed'[q] = pushed[q]
  BY <1>1
<1> QED
  BY <1>1, <1>2, <1>4, <1>5, AddEventIsSmooth

(***************************************************************************)
(* So does a heartbeat,                                                    *)
(***************************************************************************)
LEMMA HeartbeatIsSmooth ==
    ASSUME TInv, SleepsOnlyWhenEmpty, QueuesInv, Mine, NEW q \in QueueIds, Heartbeat(q)
    PROVE  Smooth
<1>1. {q} \in SUBSET DOMAIN clients
  BY DEF Heartbeat, Connected
<1>2. "heartbeat" \in Kinds /\ <<>> \in Seq(Notice) /\ ToSet(<<>>) = {}
  BY EmptySeq DEF Kinds, ToSet
<1>3. /\ AddEvent({q}, "heartbeat", <<>>)
      /\ UNCHANGED <<phase, saved, cut, got, registered, browser, pushed>>
  BY DEF Heartbeat, history
<1>4. Puts(q, Push(clients[q].event_queue, "heartbeat", <<>>))
  BY <1>3 DEF Puts
<1> QED
  BY <1>1, <1>2, <1>3, <1>4, AddEventIsSmooth

(***************************************************************************)
(* ... the collection of expired queues,                                   *)
(***************************************************************************)
LEMMA CollectIsSmooth ==
    ASSUME TInv, QueuesInv, NEW queues \in SUBSET DOMAIN clients, GcEventQueues(queues)
    PROVE  Smooth
<1>1. /\ DOMAIN clients' \subseteq DOMAIN clients
      /\ \A q \in DOMAIN clients' : clients'[q].event_queue = clients[q].event_queue
  BY CollectTypes DEF GcEventQueues
<1>2. UNCHANGED <<phase, saved, cut, got, registered, pushed, browser, handlers>>
  BY DEF GcEventQueues
<1>3. \A b \in Browsers : InFlight(b)' = InFlight(b)
  BY <1>2 DEF InFlight
<1> QED
  BY <1>1, <1>2, <1>3, QuietIsSmooth

(***************************************************************************)
(* ... and the end of a connection, whose answer is lost.                  *)
(***************************************************************************)
LEMMA CloseIsSmooth ==
    ASSUME TInv, QueuesInv, NEW h \in HandlerIds, OnConnectionClose(h)
    PROVE  Smooth
<1>1. CloseEffect(h)
  BY CloseIs
<1>2. \A b \in Browsers : InFlight(b)' \in {<<>>, InFlight(b)}
  <2> SUFFICES ASSUME NEW b \in Browsers PROVE InFlight(b)' \in {<<>>, InFlight(b)}
    OBVIOUS
  <2>1. browser'[b].xhr = IF browser[b].xhr = h THEN NoHandler ELSE browser[b].xhr
    BY <1>1 DEF CloseEffect
  <2>2. \A i \in HandlerIds \ {h} : handlers'[i] = handlers[i]
    BY <1>1 DEF CloseEffect
  <2>3. browser[b].xhr \in HandlerIds \cup {NoHandler}
    BY DEF TInv, TypeOK
  <2> QED
    BY <2>1, <2>2, <2>3 DEF InFlight
<1>3. /\ DOMAIN clients' = DOMAIN clients
      /\ \A r \in DOMAIN clients : clients'[r].event_queue = clients[r].event_queue
      /\ \A b \in Browsers : /\ browser'[b].queue_id = browser[b].queue_id
                             /\ browser'[b].last_event_id = browser[b].last_event_id
      /\ UNCHANGED <<phase, saved, cut, got, registered, pushed>>
  BY <1>1 DEF CloseEffect
<1> QED
  BY <1>2, <1>3, QuietIsSmooth

(***************************************************************************)
(* The pages of the other polls are not concerned by a new one.            *)
(***************************************************************************)
LEMMA OthersInFlight ==
    ASSUME TInv, NEW c \in Browsers, browser'[c].xhr = browser[c].xhr,
           browser[c].xhr # NoHandler => handlers'[browser[c].xhr] = handlers[browser[c].xhr]
    PROVE  InFlight(c)' = InFlight(c)
BY DEF InFlight

(***************************************************************************)
(* A poll that is refused brings its page nothing, and the others wait as  *)
(* before.                                                                 *)
(***************************************************************************)
LEMMA RefusedPollInFlight ==
    ASSUME TInv, ServerInv, Attended,
           NEW b \in Browsers, NEW h \in HandlerIds, NEW alive \in BOOLEAN,
           Request(b, h, alive),
           NEW code \in {"BAD_EVENT_QUEUE_ID", "BAD_REQUEST"},
           handlers' = Arrived(h, alive, Error(code), handlers)
    PROVE  \A c \in Browsers : InFlight(c)' \in {<<>>, InFlight(c)}
<1>1. /\ \A c \in Browsers : c # b => browser'[c].xhr = browser[c].xhr
      /\ browser'[b].xhr = IF alive THEN h ELSE NoHandler
  BY RequestTypes
<1>2. \A c \in Browsers : browser[c].xhr # h
  BY FreshHandler
<1>3. Error(code) \in Answer /\ Error(code).events = <<>>
  BY ErrorIsAnswer
<1>4. handlers \in [HandlerIds -> Answer \cup {Absent, Waiting}]
  BY DEF TInv, TypeOK
<1>5. /\ handlers'[h] = IF alive THEN Error(code) ELSE handlers[h]
      /\ \A i \in HandlerIds \ {h} : handlers'[i] = handlers[i]
  BY <1>3, <1>4, ArrivedTypes
<1>6. InFlight(b)' = <<>>
  BY <1>1, <1>3, <1>5 DEF InFlight
<1>7. ASSUME NEW c \in Browsers \ {b} PROVE InFlight(c)' = InFlight(c)
  <2>1. browser[c].xhr \in HandlerIds \cup {NoHandler}
    BY DEF TInv, TypeOK
  <2> QED
    BY <1>1, <1>2, <1>5, <1>7, <2>1, OthersInFlight
<1> QED
  BY <1>6, <1>7

(***************************************************************************)
(* A poll of an unknown queue changes no queue,                            *)
(***************************************************************************)
LEMMA UnknownQueueIsSmooth ==
    ASSUME TInv, QueuesInv, ServerInv, Attended,
           NEW b \in Browsers, NEW h \in HandlerIds, NEW alive \in BOOLEAN,
           FetchUnknownQueue(b, h, alive)
    PROVE  Smooth
<1>1. /\ Request(b, h, alive)
      /\ handlers' = Arrived(h, alive, Error("BAD_EVENT_QUEUE_ID"), handlers)
      /\ clients' = clients
  BY DEF FetchUnknownQueue
<1>2. \A c \in Browsers : InFlight(c)' \in {<<>>, InFlight(c)}
  BY <1>1, RefusedPollInFlight
<1>3. /\ \A c \in Browsers : /\ browser'[c].queue_id = browser[c].queue_id
                             /\ browser'[c].last_event_id = browser[c].last_event_id
      /\ UNCHANGED <<phase, saved, cut, got, registered, pushed>>
  BY <1>1, RequestTypes
<1> QED
  BY <1>1, <1>2, <1>3, QuietIsSmooth

(***************************************************************************)
(* ... one with an outdated id prunes its queue,                           *)
(***************************************************************************)
LEMMA RefusedIsSmooth ==
    ASSUME TInv, QueuesInv, ServerInv, Attended,
           NEW b \in Browsers, NEW h \in HandlerIds, NEW alive \in BOOLEAN,
           FetchRefused(b, h, alive)
    PROVE  Smooth
<1>1. /\ Request(b, h, alive)
      /\ handlers' = Arrived(h, alive, Error("BAD_REQUEST"), handlers)
  BY DEF FetchRefused
<1>2. \A c \in Browsers : InFlight(c)' \in {<<>>, InFlight(c)}
  BY <1>1, RefusedPollInFlight
<1>3. /\ \A c \in Browsers : /\ browser'[c].queue_id = browser[c].queue_id
                             /\ browser'[c].last_event_id = browser[c].last_event_id
      /\ UNCHANGED <<phase, saved, cut, got, registered, pushed>>
  BY <1>1, RequestTypes
<1>4. PICK q : q = browser[b].queue_id
  OBVIOUS
<1>5. /\ DOMAIN clients' = DOMAIN clients
      /\ q \in DOMAIN clients
      /\ clients'[q].event_queue = Acknowledged(b)
      /\ \A r \in DOMAIN clients : r # q => clients'[r] = clients[r]
  BY <1>4, RefusedTypes
<1>6. Grown(q)
  BY <1>3, <1>4, <1>5, GrownPolled
<1>7. \A r \in DOMAIN clients : r # q => Grown(r)
  BY <1>3, <1>5, GrownSame DEF QueuesInv
<1> QED
  BY <1>2, <1>3, <1>5, <1>6, <1>7 DEF Smooth

(***************************************************************************)
(* ... and one that is accepted waits, or is answered with all that is     *)
(* left.                                                                   *)
(***************************************************************************)
LEMMA FetchIsSmooth ==
    ASSUME TInv, TInv', QueuesInv, Mine, Owners, ServerInv, Attended,
           NEW b \in Browsers, NEW h \in HandlerIds, NEW alive \in BOOLEAN,
           NEW dont_block \in BOOLEAN, FetchEvents(b, h, alive, dont_block)
    PROVE  Smooth
<1> DEFINE a == Acknowledged(b)
           sleeps == IsEmpty(a) /\ ~dont_block
<1>1. Request(b, h, alive) /\ FetchEffect(b, h, alive, dont_block)
  BY ZenonT(60), FetchTypes DEF FetchEvents
<1>2. /\ \A c \in Browsers : /\ browser'[c].queue_id = browser[c].queue_id
                             /\ browser'[c].last_event_id = browser[c].last_event_id
                             /\ c # b => browser'[c].xhr = browser[c].xhr
      /\ browser'[b].xhr = IF alive THEN h ELSE NoHandler
      /\ browser[b].queue_id \in QueueIds
      /\ UNCHANGED <<phase, saved, cut, got, registered, pushed>>
  BY <1>1, RequestTypes
<1>3. PICK q : q = browser[b].queue_id
  OBVIOUS
<1>4. /\ DOMAIN clients' = DOMAIN clients
      /\ q \in DOMAIN clients
      /\ clients'[q].event_queue = Settle(a)
      /\ \A r \in DOMAIN clients : r # q => clients'[r] = clients[r]
  BY <1>1, <1>3 DEF FetchEffect
<1>5. /\ alive => handlers'[h] = IF sleeps THEN Waiting ELSE Success(Settle(a).queue)
      /\ \A i \in HandlerIds : i # h =>
            \/ handlers'[i] = handlers[i]
            \/ clients[q].current_handler_id = i
  BY <1>1, <1>3 DEF FetchEffect
<1>6. Grown(q)
  BY <1>2, <1>3, <1>4, GrownPolled
<1>7. \A r \in DOMAIN clients : r # q => Grown(r)
  BY <1>2, <1>4, GrownSame DEF QueuesInv
<1>8. InFlight(b)' = <<>> \/ Answered(b)
  <2>1. CASE ~alive
    BY <1>2, <2>1 DEF InFlight
  <2>2. CASE alive /\ sleeps
    <3>1. handlers'[h] = Waiting /\ browser'[b].xhr = h
      BY <1>2, <1>5, <2>2
    <3>2. Waiting.events = <<>>
      BY DEF Waiting
    <3> QED
      BY <3>1, <3>2 DEF InFlight
  <2>3. CASE alive /\ ~sleeps
    <3>1. handlers'[h] = Success(Settle(a).queue)
      BY <1>5, <2>3
    <3>2. browser'[b].xhr = h /\ h # NoHandler
      BY <1>2, <2>3, BoundsHold DEF TInv, TypeOK
    <3>3. InFlight(b)' = Settle(a).queue
      BY <3>1, <3>2 DEF InFlight, Success
    <3>4. Settle(a).virtual_events = {}
      BY DEF Settle
    <3>5. q \notin cut => \A y \in ToSet(Settle(a).queue) : browser[b].last_event_id < y.id
      <4>1. /\ IsQueue(Notice, a) /\ Ordered(a)
            /\ browser[b].last_event_id = a.newest_pruned_id
        BY <1>1, <1>3, <1>4, AcknowledgedKeeps DEF FetchEffect
      <4>2. q \notin cut => Well(Settle(a))
        BY <1>4, <1>6 DEF Grown
      <4> HIDE DEF a
      <4>3. Settle(a).newest_pruned_id = a.newest_pruned_id
        BY <4>1, SettleKeeps
      <4> QED
        BY <4>1, <4>2, <4>3 DEF Well, Events
    <3> QED
      BY <1>3, <1>4, <3>3, <3>4, <3>5 DEF Answered
  <2> QED
    BY <2>1, <2>2, <2>3
<1>9. ASSUME NEW c \in Browsers \ {b} PROVE InFlight(c)' = InFlight(c)
  <2>1. browser[c].xhr \in HandlerIds \cup {NoHandler} /\ browser[c].xhr # h
    BY SMTT(30), <1>1, FreshHandler DEF TInv, TypeOK
  <2>2. ASSUME browser[c].xhr # NoHandler
        PROVE  clients[q].current_handler_id # browser[c].xhr
    <3>1. q # NoQueue
      BY <1>2, <1>3, BoundsHold DEF TInv, TypeOK
    <3>2. browser[c].queue_id # q
      BY <1>3, <1>9, <3>1 DEF Owners
    <3> QED
      BY <1>4, <2>2, <3>2 DEF Mine
  <2> QED
    BY <1>2, <1>5, <1>9, <2>1, <2>2, OthersInFlight
<1> QED
  BY <1>2, <1>4, <1>6, <1>7, <1>8, <1>9 DEF Smooth

(***************************************************************************)
(* A page that aborts its poll loses the answer.                           *)
(***************************************************************************)
LEMMA AbortIsSmooth ==
    ASSUME TInv, QueuesInv, NEW b \in Browsers, Abort(b)
    PROVE  Smooth
<1>1. /\ browser' = [browser EXCEPT ![b].xhr = NoHandler]
      /\ UNCHANGED <<phase, saved, cut, got, registered, pushed, clients, handlers>>
  BY DEF Abort, tornado, history
<1>2. \A c \in Browsers : /\ browser'[c].queue_id = browser[c].queue_id
                          /\ browser'[c].last_event_id = browser[c].last_event_id
                          /\ browser'[c].xhr \in {NoHandler, browser[c].xhr}
  BY <1>1 DEF TInv, TypeOK
<1>3. \A c \in Browsers : InFlight(c)' \in {<<>>, InFlight(c)}
  BY <1>1, <1>2 DEF InFlight
<1> QED
  BY <1>1, <1>2, <1>3, QuietIsSmooth

(***************************************************************************)
(* A page that is closed has no queue,                                     *)
(***************************************************************************)
LEMMA LeaveIsSmooth ==
    ASSUME TInv, QueuesInv, NEW b \in Browsers, Leave(b)
    PROVE  Smooth
<1>1. /\ browser'[b] = Idle
      /\ \A c \in Browsers \ {b} : browser'[c] = browser[c]
      /\ UNCHANGED <<phase, saved, cut, got, registered, pushed, clients, handlers>>
  BY UnloadTypes DEF Leave, tornado, history, TInv
<1>2. \A c \in Browsers \ {b} : InFlight(c)' = InFlight(c)
  BY <1>1 DEF InFlight
<1> QED
  BY <1>1, <1>2, QuietIsSmooth

(***************************************************************************)
(* ... and its queue goes with it when it says so.                         *)
(***************************************************************************)
LEMMA CleanupIsSmooth ==
    ASSUME TInv, QueuesInv, Mine, Owners, NEW b \in Browsers, CleanupEventQueue(b)
    PROVE  Smooth
<1>1. PICK q : q = browser[b].queue_id
  OBVIOUS
<1>2. /\ q \in DOMAIN clients
      /\ DOMAIN clients' = DOMAIN clients \ {q}
      /\ \A r \in DOMAIN clients' : clients'[r] = clients[r]
      /\ browser'[b] = Idle
      /\ \A c \in Browsers \ {b} : browser'[c] = browser[c]
      /\ \A i \in HandlerIds : \/ handlers'[i] = handlers[i]
                               \/ clients[q].current_handler_id = i
  BY <1>1, CleanupTypes
<1>3. UNCHANGED <<phase, saved, cut, got, registered, pushed>>
  BY DEF CleanupEventQueue
<1>4. q # NoQueue
  BY <1>1 DEF CleanupEventQueue, Unload
<1>5. ASSUME NEW c \in Browsers \ {b} PROVE InFlight(c)' = InFlight(c)
  <2>1. browser[c].xhr \in HandlerIds \cup {NoHandler}
    BY DEF TInv, TypeOK
  <2>2. browser[c].queue_id # q
    BY <1>1, <1>4, <1>5 DEF Owners
  <2>3. browser[c].xhr # NoHandler => clients[q].current_handler_id # browser[c].xhr
    BY <1>2, <2>2 DEF Mine
  <2> QED
    BY <1>2, <2>1, <2>3, OthersInFlight
<1> QED
  BY <1>2, <1>3, <1>5, QuietIsSmooth

(***************************************************************************)
(* What is published, and what changes nothing, touches no queue.          *)
(***************************************************************************)
LEMMA PublishIsSmooth ==
    ASSUME TInv, QueuesInv, Publish \/ UNCHANGED vars
    PROVE  Smooth
<1>1. UNCHANGED <<phase, saved, cut, got, registered, pushed, clients, handlers, browser>>
  BY DEF Publish, vars, tornado, broker, history
<1>2. \A c \in Browsers : InFlight(c)' = InFlight(c)
  BY <1>1 DEF InFlight
<1> QED
  BY <1>1, <1>2, QuietIsSmooth

-----------------------------------------------------------------------------
(* The other steps.                                                        *)

(***************************************************************************)
(* At the dump the file is what the queues are.                            *)
(***************************************************************************)
LEMMA DumpKeepsQueues ==
    ASSUME TInv, PollInv, QueuesInv, DumpEventQueues
    PROVE  QueuesInv'
<1>1. /\ phase' = "closing"
      /\ UNCHANGED <<clients, browser, handlers, registered, pushed, got, cut>>
      /\ saved' = [q \in DOMAIN clients |-> Detached(clients[q])]
  BY DEF DumpEventQueues, history
<1>2. \A q \in DOMAIN clients : Kept(clients[q])
  BY DEF TInv
<1>3. /\ DOMAIN saved' = DOMAIN clients
      /\ \A q \in DOMAIN clients : saved'[q].event_queue = clients[q].event_queue
  BY <1>1, <1>2, DetachedKeeps
<1>4. LiveQueues'
  BY <1>1 DEF QueuesInv, LiveQueues, Accounted
<1>5. \A b \in Browsers : InFlight(b)' = InFlight(b)
  BY <1>1 DEF InFlight
<1>6. \A b \in Browsers : \A q \in DOMAIN clients \ cut :
         browser[b].queue_id = q =>
            Knows(clients[q].event_queue, browser[b].last_event_id, ToSet(got[q]), InFlight(b))
  BY DEF QueuesInv, LivePages, PageKnows
<1>7. LivePages'
  BY <1>1, <1>5, <1>6 DEF LivePages, PageKnows
<1>8. SavedQueues'
  <2> SUFFICES ASSUME NEW q \in DOMAIN clients \ cut
               PROVE  Accounted(q, saved[q].event_queue)'
    BY <1>1, <1>3 DEF SavedQueues, Accounted
  <2> QED
    BY <1>1, <1>3 DEF QueuesInv, LiveQueues, Accounted
<1>9. SavedPages'
  <2> SUFFICES ASSUME NEW b \in Browsers, browser[b].queue_id \in DOMAIN clients \ cut
               PROVE  PageKnows(b, saved[browser[b].queue_id].event_queue)'
    BY <1>1, <1>3 DEF SavedPages
  <2> QED
    BY <1>1, <1>3, <1>5, <1>6 DEF PageKnows
<1>10. Dumped'
  <2>1. \A q \in DOMAIN clients : clients[q].event_queue.next_event_id \in Nat
    BY <1>2, QueueFields DEF Kept
  <2> QED
    BY <1>1, <1>3, <2>1 DEF Dumped
<1>11. Fresh'
  BY <1>1 DEF QueuesInv, Fresh
<1> QED
  BY <1>4, <1>7, <1>8, <1>9, <1>10, <1>11 DEF QueuesInv

(***************************************************************************)
(* At the end of the process the answers are lost, and the queues that     *)
(* changed since the dump are cut.                                         *)
(***************************************************************************)
LEMMA StopKeepsQueues ==
    ASSUME TInv, PollInv, QueuesInv, Stop
    PROVE  QueuesInv'
<1>1. /\ phase' = "down"
      /\ DOMAIN clients' = {}
      /\ browser' = [b \in Browsers |-> [browser[b] EXCEPT !.xhr = NoHandler]]
      /\ cut' = cut \cup {q \in DOMAIN saved : ChangedSinceDump(q)}
      /\ UNCHANGED <<saved, registered, pushed, got>>
  BY DEF Stop
<1>2. \A b \in Browsers : /\ browser'[b].queue_id = browser[b].queue_id
                          /\ browser'[b].last_event_id = browser[b].last_event_id
                          /\ browser'[b].xhr = NoHandler
  BY <1>1 DEF TInv, TypeOK
<1>3. \A q \in DOMAIN saved \ cut' : q \notin cut /\ Stays(q)
  BY <1>1 DEF Stays
<1>4. \A b \in Browsers : InFlight(b)' = <<>>
  BY <1>2 DEF InFlight
<1>5. LiveQueues' /\ LivePages'
  BY <1>1 DEF LiveQueues, LivePages
<1>6. SavedQueues'
  <2> SUFFICES ASSUME NEW q \in DOMAIN saved \ cut'
               PROVE  Accounted(q, saved[q].event_queue)'
    BY <1>1 DEF SavedQueues, Accounted
  <2>1. Accounted(q, saved[q].event_queue)
    BY <1>3 DEF QueuesInv, SavedQueues
  <2> QED
    BY <1>1, <2>1 DEF Accounted
<1>7. SavedPages'
  <2> SUFFICES ASSUME NEW b \in Browsers, NEW q, q = browser'[b].queue_id,
                      q \in DOMAIN saved \ cut'
               PROVE  PageKnows(b, saved[browser[b].queue_id].event_queue)'
    BY <1>1 DEF SavedPages
  <2>1. browser[b].queue_id = q
    BY <1>2
  <2>2. Knows(saved[q].event_queue, browser[b].last_event_id, ToSet(got[q]), InFlight(b))
    BY <1>3, <2>1 DEF QueuesInv, SavedPages, PageKnows
  <2>3. Knows(saved[q].event_queue, browser[b].last_event_id, ToSet(got[q]), <<>>)
    BY <2>2, AnswerLost
  <2> QED
    BY <1>1, <1>2, <1>4, <2>1, <2>3 DEF PageKnows
<1>8. Dumped'
  BY <1>1 DEF Dumped
<1>9. Fresh'
  BY <1>1, <1>2 DEF QueuesInv, Fresh
<1> QED
  BY <1>5, <1>6, <1>7, <1>8, <1>9 DEF QueuesInv

(***************************************************************************)
(* The queues of the file come back with a restart event.                  *)
(***************************************************************************)
LEMMA SetupKeepsQueues ==
    ASSUME TInv, PollInv, QueuesInv, SetupEventQueue
    PROVE  QueuesInv'
<1>1. /\ phase = "down" /\ phase' = "up"
      /\ DOMAIN saved' = {}
      /\ UNCHANGED <<browser, handlers, registered, pushed, got, cut>>
  BY DEF SetupEventQueue, history
<1>2. /\ DOMAIN clients' = DOMAIN saved
      /\ \A q \in DOMAIN saved :
            clients'[q].event_queue = Push(saved[q].event_queue, "restart", <<>>)
  BY SetupTypes
<1>3. "restart" \in Kinds /\ <<>> \in Seq(Notice) /\ ToSet(<<>>) = {}
  BY EmptySeq DEF Kinds, ToSet
<1>4. ASSUME NEW q \in DOMAIN saved
      PROVE  LET e == saved[q].event_queue
                 f == clients'[q].event_queue
             IN  /\ \A i \in Int : \A seen : Covers(e, i, seen) => Covers(f, i, seen)
                 /\ Well(e) => Well(f)
                 /\ Held(f) = Held(e)
  <2> DEFINE e == saved[q].event_queue
  <2>1. IsQueue(Notice, e) /\ Ordered(e)
    BY DEF TInv, Kept
  <2>2. clients'[q].event_queue = Push(e, "restart", <<>>)
    BY <1>2
  <2> HIDE DEF e
  <2>3. /\ \A i \in Int : \A seen : Covers(e, i, seen) => Covers(Push(e, "restart", <<>>), i, seen)
        /\ Well(e) => Well(Push(e, "restart", <<>>))
        /\ Held(Push(e, "restart", <<>>)) = Held(e) \cup {}
    BY <1>3, <2>1, PushCovers
  <2> QED
    BY <2>2, <2>3 DEF e
<1>5. \A q : Stays(q)
  BY <1>1 DEF Stays
<1>6. LiveQueues'
  <2> SUFFICES ASSUME NEW q \in DOMAIN saved \ cut
               PROVE  Accounted(q, clients[q].event_queue)'
    BY <1>1, <1>2 DEF LiveQueues
  <2>1. Accounted(q, saved[q].event_queue)
    BY <1>5 DEF QueuesInv, SavedQueues
  <2> QED
    BY <1>1, <1>4, <2>1 DEF Accounted
<1>7. LivePages'
  <2> SUFFICES ASSUME NEW b \in Browsers, NEW q, q = browser[b].queue_id,
                      q \in DOMAIN saved \ cut
               PROVE  PageKnows(b, clients[browser[b].queue_id].event_queue)'
    BY <1>1, <1>2 DEF LivePages
  <2> DEFINE e == saved[q].event_queue
             f == clients'[q].event_queue
             last == browser[b].last_event_id
             seen == ToSet(got[q])
             answer == InFlight(b)
  <2>1. Knows(e, last, seen, answer)
    BY <1>5 DEF QueuesInv, SavedPages, PageKnows
  <2>2. \A i \in Int : \A s : Covers(e, i, s) => Covers(f, i, s)
    BY <1>4
  <2>3. last \in Int /\ \A y \in ToSet(answer) : y.id \in Int
    BY InFlightType DEF TInv, TypeOK
  <2>4. InFlight(b)' = answer
    BY <1>1 DEF InFlight
  <2>5. Knows(f, last, seen, answer)
    <3> HIDE DEF e, f, last, seen, answer
    <3> QED
      BY <2>1, <2>2, <2>3 DEF Knows
  <2> QED
    BY <1>1, <2>4, <2>5 DEF PageKnows
<1>8. SavedQueues' /\ SavedPages' /\ Dumped'
  BY <1>1 DEF SavedQueues, SavedPages, Dumped
<1>9. Fresh'
  BY <1>1 DEF QueuesInv, Fresh
<1> QED
  BY <1>6, <1>7, <1>8, <1>9 DEF QueuesInv

(***************************************************************************)
(* The page that takes its answer has seen its events.                     *)
(***************************************************************************)
LEMMA ReceiveGets ==
    ASSUME TInv, NEW b \in Browsers, NEW q, q = browser[b].queue_id, q # NoQueue, Receive(b)
    PROVE  /\ got'[q] = got[q] \o NoticesOf(InFlight(b))
           /\ ToSet(got'[q]) = ToSet(got[q]) \cup ToSet(NoticesOf(InFlight(b)))
           /\ \A r \in QueueIds \ {q} : got'[r] = got[r]
           /\ UNCHANGED <<phase, clients, saved, registered, pushed, cut>>
<1> DEFINE answer == handlers[browser[b].xhr]
<1>1. /\ got' = [got EXCEPT ![q] = got[q] \o NoticesOf(answer.events)]
      /\ browser[b].xhr # NoHandler
      /\ UNCHANGED <<phase, clients, saved, registered, pushed, cut>>
  BY DEF Receive, TInv, TypeOK
<1>2. got \in [QueueIds -> Seq(Notice)] /\ q \in QueueIds
  BY DEF TInv, TypeOK
<1>3. InFlight(b) = answer.events
  BY <1>1 DEF InFlight
<1>4. NoticesOf(InFlight(b)) \in Seq(Notice)
  BY InFlightType, NoticesAre DEF TInv
<1>5. got'[q] = got[q] \o NoticesOf(InFlight(b))
  BY <1>1, <1>2, <1>3
<1>6. ToSet(got'[q]) = ToSet(got[q]) \cup ToSet(NoticesOf(InFlight(b)))
  <2> DEFINE s == got[q]
             t == NoticesOf(InFlight(b))
  <2>1. s \in Seq(Notice) /\ t \in Seq(Notice)
    BY <1>2, <1>4
  <2> HIDE DEF s, t
  <2>2. ToSet(s \o t) = ToSet(s) \cup ToSet(t)
    BY <2>1, ToSetConcat
  <2> QED
    BY <1>5, <2>2 DEF s, t
<1>7. \A r \in QueueIds \ {q} : got'[r] = got[r]
  BY <1>1, <1>2
<1> QED
  BY <1>1, <1>5, <1>6, <1>7

(***************************************************************************)
(* The pages of other queues do not notice.                                *)
(***************************************************************************)
LEMMA ReceiveOthers ==
    ASSUME TInv, Owners, Attended, NEW b \in Browsers, Receive(b),
           NEW c \in Browsers \ {b}, browser'[c].queue_id # NoQueue
    PROVE  /\ browser'[c] = browser[c]
           /\ got'[browser[c].queue_id] = got[browser[c].queue_id]
           /\ InFlight(c)' = InFlight(c)
<1> DEFINE h == browser[b].xhr
<1>1. /\ h \in HandlerIds
      /\ h # NoHandler
      /\ \A i \in HandlerIds \ {h} : handlers'[i] = handlers[i]
      /\ browser'[c] = browser[c]
  BY ReceiveTypes DEF Receive
<1>2. PICK q : q = browser[b].queue_id
  OBVIOUS
<1>3. q # NoQueue
  BY <1>1, <1>2 DEF Owners
<1>4. \A r \in QueueIds \ {q} : got'[r] = got[r]
  BY <1>2, <1>3, ReceiveGets
<1>5. browser[c].queue_id # q /\ browser[c].queue_id \in QueueIds
  BY <1>1, <1>2, <1>3 DEF Owners, TInv, TypeOK
<1>6. InFlight(c)' = InFlight(c)
  <2>1. browser[c].xhr # h
    BY <1>1 DEF Attended
  <2>2. browser[c].xhr \in HandlerIds \cup {NoHandler}
    BY DEF TInv, TypeOK
  <2> QED
    BY <1>1, <2>1, <2>2, OthersInFlight
<1> QED
  BY <1>1, <1>4, <1>5, <1>6

(***************************************************************************)
(* What the page that takes its answer, and what the others know of a      *)
(* queue afterwards.                                                       *)
(***************************************************************************)
LEMMA ReceiveKnows ==
    ASSUME TInv, Owners, Attended, NEW b \in Browsers, Receive(b),
           NEW c \in Browsers, browser'[c].queue_id # NoQueue,
           NEW e, Knows(e, browser[c].last_event_id, ToSet(got[browser[c].queue_id]),
                        InFlight(c))
    PROVE  /\ browser'[c].queue_id = browser[c].queue_id
           /\ Knows(e, browser'[c].last_event_id, ToSet(got'[browser'[c].queue_id]),
                    InFlight(c)')
<1> DEFINE h == browser[b].xhr
           answer == handlers[h]
<1>1. /\ h \in HandlerIds
      /\ h # NoHandler
      /\ \A i \in HandlerIds \ {h} : handlers'[i] = handlers[i]
      /\ \A d \in Browsers \ {b} : browser'[d] = browser[d]
      /\ browser'[b].xhr = NoHandler
      /\ \/ browser'[b] = Idle
         \/ /\ browser'[b].queue_id = browser[b].queue_id
            /\ \/ browser'[b].last_event_id = browser[b].last_event_id
               \/ \E y \in ToSet(answer.events) : y.id = browser'[b].last_event_id
  BY ReceiveTypes DEF Receive
<1>2. PICK q : q = browser[b].queue_id
  OBVIOUS
<1>3. q # NoQueue
  BY <1>1, <1>2 DEF Owners
<1>4. /\ ToSet(got'[q]) = ToSet(got[q]) \cup ToSet(NoticesOf(InFlight(b)))
      /\ \A r \in QueueIds \ {q} : got'[r] = got[r]
  BY <1>2, <1>3, ReceiveGets
<1>5. InFlight(b) = answer.events
  BY <1>1 DEF InFlight
<1>6. CASE c = b
  <2>1. browser'[b].queue_id = q
    BY <1>1, <1>2, <1>6 DEF Idle
  <2>2. InFlight(b)' = <<>>
    BY <1>1 DEF InFlight
  <2>3. PICK next : next = browser'[b].last_event_id
    OBVIOUS
  <2>4. next = browser[b].last_event_id \/ \E y \in ToSet(InFlight(b)) : y.id = next
    BY <1>1, <1>2, <1>3, <1>5, <2>1, <2>3 DEF Idle
  <2> DEFINE last == browser[b].last_event_id
             seen == ToSet(got[q])
             events == InFlight(b)
  <2>5. Knows(e, last, seen, events) /\ (next = last \/ \E y \in ToSet(events) : y.id = next)
    BY <1>2, <1>6, <2>4
  <2>6. Knows(e, next, seen \cup ToSet(NoticesOf(events)), <<>>)
    <3> HIDE DEF last, seen, events
    <3> QED
      BY <2>5, AnswerTaken
  <2> QED
    BY <1>2, <1>4, <1>6, <2>1, <2>2, <2>3, <2>6
<1>7. CASE c # b
  BY <1>7, ReceiveOthers
<1> QED
  BY <1>6, <1>7

(***************************************************************************)
(* A page that takes its answer has seen what its queue holds no more.     *)
(***************************************************************************)
LEMMA ReceiveKeepsQueues ==
    ASSUME TInv, TInv', PollInv, QueuesInv, NEW b \in Browsers, Receive(b)
    PROVE  QueuesInv'
<1> USE DEF NoQueue
<1>1. Owners /\ Attended
  BY DEF PollInv
<1>2. PICK q : q = browser[b].queue_id
  OBVIOUS
<1>3. q # NoQueue
  BY <1>1, <1>2 DEF Owners, Receive
<1>4. /\ ToSet(got'[q]) = ToSet(got[q]) \cup ToSet(NoticesOf(InFlight(b)))
      /\ \A r \in QueueIds \ {q} : got'[r] = got[r]
      /\ UNCHANGED <<phase, clients, saved, registered, pushed, cut>>
  <2> HIDE DEF NoQueue
  <2> QED
    BY <1>2, <1>3, ReceiveGets
<1>5. DOMAIN clients \subseteq QueueIds /\ DOMAIN saved \subseteq QueueIds /\ 0 \notin QueueIds
  <2>1. /\ DOMAIN clients \subseteq 1..registered
        /\ DOMAIN saved \subseteq 1..registered
        /\ registered <= bound.queues
        /\ registered \in QueueIds \cup {0}
        /\ bound \in Bounds
    BY DEF TInv, TypeOK
  <2>2. 1..bound.queues \subseteq QueueIds /\ QueueIds \subseteq Nat \ {0} /\ bound.queues \in Nat
    BY <2>1, BoundsHold
  <2> QED
    BY <2>1, <2>2
<1>6. \A r \in QueueIds : ToSet(got[r]) \subseteq ToSet(got'[r])
  BY <1>4
<1>7. \A r : Stays(r)' <=> Stays(r)
  BY <1>4 DEF Stays, ChangedSinceDump
<1>8. LiveQueues'
  <2> SUFFICES ASSUME NEW r \in DOMAIN clients \ cut
               PROVE  Accounted(r, clients[r].event_queue)'
    BY <1>4 DEF LiveQueues
  <2>1. Accounted(r, clients[r].event_queue)
    BY DEF QueuesInv, LiveQueues
  <2> QED
    BY <1>4, <1>5, <1>6, <2>1 DEF Accounted
<1>9. SavedQueues'
  <2> SUFFICES ASSUME NEW r \in DOMAIN saved \ cut
               PROVE  /\ Well(saved[r].event_queue)
                      /\ Stays(r) => Accounted(r, saved[r].event_queue)'
    BY <1>4, <1>7 DEF SavedQueues
  <2>1. /\ Well(saved[r].event_queue)
        /\ Stays(r) => Accounted(r, saved[r].event_queue)
    BY DEF QueuesInv, SavedQueues
  <2> QED
    BY <1>4, <1>5, <1>6, <2>1 DEF Accounted
<1>10. LivePages'
  <2> SUFFICES ASSUME NEW c \in Browsers, NEW r, r = browser'[c].queue_id,
                      r \in DOMAIN clients \ cut
               PROVE  PageKnows(c, clients[browser[c].queue_id].event_queue)'
    BY <1>4 DEF LivePages
  <2>1. browser'[c].queue_id # NoQueue /\ browser[c].queue_id = r
    BY <1>5, ReceiveTypes DEF Idle
  <2>2. Knows(clients[r].event_queue, browser[c].last_event_id,
              ToSet(got[browser[c].queue_id]), InFlight(c))
    BY <2>1 DEF QueuesInv, LivePages, PageKnows
  <2>3. Knows(clients[r].event_queue, browser'[c].last_event_id,
              ToSet(got'[browser'[c].queue_id]), InFlight(c)')
    BY <1>1, <2>1, <2>2, ReceiveKnows
  <2> QED
    BY <1>4, <2>3 DEF PageKnows
<1>11. SavedPages'
  <2> SUFFICES ASSUME NEW c \in Browsers, NEW r, r = browser'[c].queue_id,
                      r \in DOMAIN saved \ cut, Stays(r)
               PROVE  PageKnows(c, saved[browser[c].queue_id].event_queue)'
    BY <1>4, <1>7 DEF SavedPages
  <2>1. browser'[c].queue_id # NoQueue /\ browser[c].queue_id = r
    BY <1>5, ReceiveTypes DEF Idle
  <2>2. Knows(saved[r].event_queue, browser[c].last_event_id,
              ToSet(got[browser[c].queue_id]), InFlight(c))
    BY <2>1 DEF QueuesInv, SavedPages, PageKnows
  <2>3. Knows(saved[r].event_queue, browser'[c].last_event_id,
              ToSet(got'[browser'[c].queue_id]), InFlight(c)')
    BY <1>1, <2>1, <2>2, ReceiveKnows
  <2> QED
    BY <1>4, <2>3 DEF PageKnows
<1>12. Dumped'
  <2> SUFFICES ASSUME NEW r \in DOMAIN saved \cap DOMAIN clients
               PROVE  LET old == saved[r].event_queue
                          e == clients[r].event_queue
                      IN  /\ old.next_event_id <= e.next_event_id
                          /\ old.next_event_id = e.next_event_id =>
                                e.virtual_events \in {{}, old.virtual_events}
                          /\ r \notin cut /\ ~ChangedSinceDump(r) =>
                                \A x \in ToSet(old.queue) \ ToSet(e.queue) :
                                   ToSet(x.of) \subseteq ToSet(got'[r])
    BY <1>4 DEF Dumped, ChangedSinceDump
  <2> QED
    BY <1>5, <1>6 DEF QueuesInv, Dumped
<1>13. Fresh'
  <2>1. \A c \in Browsers : browser'[c] = browser[c]
                            \/ browser'[c].last_event_id = -1
                            \/ browser'[c].queue_id # NoQueue
    <3>1. \A c \in Browsers \ {b} : browser'[c] = browser[c]
      BY ReceiveTypes
    <3>2. \/ browser'[b] = Idle
          \/ browser'[b].queue_id = q
      BY <1>2, ReceiveTypes
    <3> QED
      BY <1>3, <3>1, <3>2 DEF Idle
  <2> QED
    BY <1>4, <2>1 DEF QueuesInv, Fresh
<1> QED
  BY <1>8, <1>9, <1>10, <1>11, <1>12, <1>13 DEF QueuesInv

(***************************************************************************)
(* A new queue owes its page nothing.                                      *)
(***************************************************************************)
LEMMA RegisterKeepsQueues ==
    ASSUME TInv, TInv', PollInv, QueuesInv, NEW b \in Browsers, Register(b)
    PROVE  QueuesInv'
<1> USE DEF NoQueue
<1>1. PICK new : new = registered + 1
  OBVIOUS
<1>2. /\ registered' = new
      /\ new \in QueueIds
      /\ new \notin DOMAIN clients
      /\ DOMAIN clients' = DOMAIN clients \cup {new}
      /\ clients'[new].event_queue = NewQueue
      /\ \A q \in DOMAIN clients : clients'[q] = clients[q]
  BY <1>1, RegisterTypes
<1>3. /\ browser' = [browser EXCEPT ![b].queue_id = new]
      /\ browser[b].queue_id = NoQueue
      /\ UNCHANGED <<phase, handlers, saved, pushed, got, cut>>
  BY <1>1, <1>2 DEF Register
<1>4. /\ browser'[b].queue_id = new
      /\ \A c \in Browsers : /\ browser'[c].last_event_id = browser[c].last_event_id
                             /\ browser'[c].xhr = browser[c].xhr
                             /\ c # b => browser'[c].queue_id = browser[c].queue_id
  BY <1>3 DEF TInv, TypeOK
<1>5. /\ new \notin DOMAIN saved /\ new # 0
      /\ registered \in Nat /\ new > registered
      /\ \A c \in Browsers : browser[c].queue_id # new
  <2>1. registered \in Nat
    BY DEF TInv, TypeOK, QueueIds
  <2>2. new \notin 0..registered
    BY <1>1, <2>1
  <2> QED
    BY <1>1, <2>1, <2>2 DEF TInv, PollInv, Owners
<1>6. \A c \in Browsers : InFlight(c)' = InFlight(c)
  BY <1>3, <1>4 DEF InFlight
<1>7. browser[b].last_event_id = -1 /\ InFlight(b) = <<>> /\ pushed[new] = <<>>
  BY <1>2, <1>3, <1>5 DEF QueuesInv, Fresh, PollInv, Owners, InFlight
<1>8. \A q \in DOMAIN saved : ChangedSinceDump(q)' <=> ChangedSinceDump(q)
  BY <1>2, <1>3, <1>5 DEF ChangedSinceDump
<1>9. \A q \in DOMAIN saved : Stays(q)' <=> Stays(q)
  BY <1>3, <1>8 DEF Stays
<1>10. LiveQueues'
  <2> SUFFICES ASSUME NEW q \in DOMAIN clients' \ cut
               PROVE  Accounted(q, clients[q].event_queue)'
    BY <1>3 DEF LiveQueues
  <2>1. CASE q = new
    <3>1. Well(NewQueue)
      BY NewIsKnown
    <3>2. ToSet(pushed[new]) = {}
      BY <1>7 DEF ToSet
    <3> QED
      BY <1>2, <1>3, <2>1, <3>1, <3>2 DEF Accounted
  <2>2. CASE q # new
    <3>1. q \in DOMAIN clients /\ Accounted(q, clients[q].event_queue)
      BY <1>2, <2>2 DEF QueuesInv, LiveQueues
    <3> QED
      BY <1>2, <1>3, <3>1 DEF Accounted
  <2> QED
    BY <2>1, <2>2
<1>11. LivePages'
  <2> SUFFICES ASSUME NEW c \in Browsers, NEW q, q = browser'[c].queue_id,
                      q \in DOMAIN clients' \ cut
               PROVE  PageKnows(c, clients[browser[c].queue_id].event_queue)'
    BY <1>3 DEF LivePages
  <2>1. CASE c = b
    <3>1. Knows(NewQueue, -1, ToSet(got[new]), <<>>)
      BY NewIsKnown
    <3> QED
      BY <1>2, <1>3, <1>4, <1>6, <1>7, <2>1, <3>1 DEF PageKnows
  <2>2. CASE c # b
    <3>1. browser[c].queue_id = q /\ q \in DOMAIN clients
      BY <1>2, <1>4, <1>5, <2>2
    <3>2. Knows(clients[q].event_queue, browser[c].last_event_id, ToSet(got[q]), InFlight(c))
      BY <3>1 DEF QueuesInv, LivePages, PageKnows
    <3> QED
      BY <1>2, <1>3, <1>4, <1>6, <3>1, <3>2 DEF PageKnows
  <2> QED
    BY <2>1, <2>2
<1>12. SavedQueues'
  <2> SUFFICES ASSUME NEW q \in DOMAIN saved \ cut
               PROVE  /\ Well(saved[q].event_queue)
                      /\ Stays(q) => Accounted(q, saved[q].event_queue)'
    BY <1>3, <1>9 DEF SavedQueues
  <2> QED
    BY <1>3 DEF QueuesInv, SavedQueues, Accounted
<1>13. SavedPages'
  <2> SUFFICES ASSUME NEW c \in Browsers, NEW q, q = browser'[c].queue_id,
                      q \in DOMAIN saved \ cut, Stays(q)
               PROVE  PageKnows(c, saved[browser[c].queue_id].event_queue)'
    BY <1>3, <1>9 DEF SavedPages
  <2>1. c # b /\ browser[c].queue_id = q
    BY <1>4, <1>5
  <2>2. Knows(saved[q].event_queue, browser[c].last_event_id, ToSet(got[q]), InFlight(c))
    BY <2>1 DEF QueuesInv, SavedPages, PageKnows
  <2> QED
    BY <1>3, <1>4, <1>6, <2>1, <2>2 DEF PageKnows
<1>14. Dumped'
  <2> SUFFICES ASSUME NEW q \in DOMAIN saved \cap DOMAIN clients'
               PROVE  LET old == saved[q].event_queue
                          e == clients'[q].event_queue
                      IN  /\ old.next_event_id <= e.next_event_id
                          /\ old.next_event_id = e.next_event_id =>
                                e.virtual_events \in {{}, old.virtual_events}
                          /\ q \notin cut /\ ~ChangedSinceDump(q)' =>
                                \A x \in ToSet(old.queue) \ ToSet(e.queue) :
                                   ToSet(x.of) \subseteq ToSet(got[q])
    BY <1>3 DEF Dumped
  <2>1. q \in DOMAIN clients /\ clients'[q] = clients[q]
    BY <1>2, <1>5
  <2> QED
    BY <1>8, <2>1 DEF QueuesInv, Dumped
<1>15. Fresh'
  <2>1. \A q \in QueueIds : q > new => q > registered
    <3>1. QueueIds \subseteq Nat
      BY DEF QueueIds, TInv, TypeOK
    <3> QED
      BY <1>1, <1>5, <3>1
  <2> QED
    BY <1>2, <1>3, <1>4, <1>5, <2>1 DEF QueuesInv, Fresh
<1> QED
  BY <1>10, <1>11, <1>12, <1>13, <1>14, <1>15 DEF QueuesInv

-----------------------------------------------------------------------------
(* Whose handlers they are.                                                *)

(***************************************************************************)
(* Handlers are detached, and requests end: nothing gets another owner.    *)
(***************************************************************************)
LEMMA MineKeeps ==
    ASSUME Mine,
           \A q \in DOMAIN clients' :
              \/ clients'[q].current_handler_id = NoHandler
              \/ /\ q \in DOMAIN clients
                 /\ clients'[q].current_handler_id = clients[q].current_handler_id,
           \A b \in Browsers :
              \/ browser'[b].xhr = NoHandler
              \/ /\ browser'[b].xhr = browser[b].xhr
                 /\ browser'[b].queue_id = browser[b].queue_id
              \/ /\ browser'[b].queue_id = browser[b].queue_id
                 /\ \A q \in DOMAIN clients : clients[q].current_handler_id # browser'[b].xhr
    PROVE  Mine'
BY DEF Mine

(***************************************************************************)
(* No step gives the handler of a descriptor to the request of another     *)
(* page.                                                                   *)
(***************************************************************************)
LEMMA MineStep ==
    ASSUME TInv, PollInv, Mine, [Next]_vars
    PROVE  Mine'
<1>1. /\ TypeOK /\ Owners /\ ServerInv /\ Attended
      /\ \A q \in DOMAIN saved : saved[q].current_handler_id = NoHandler
      /\ \A q \in DOMAIN clients : Kept(clients[q])
  BY DEF TInv, PollInv, SleepInv
<1>2. \A b \in Browsers : browser' = browser =>
         browser'[b].xhr = browser[b].xhr /\ browser'[b].queue_id = browser[b].queue_id
  OBVIOUS
<1>3. CASE UNCHANGED vars
  BY <1>2, <1>3, MineKeeps DEF vars, tornado
<1>4. CASE Next
  <2>1. CASE Publish
    BY <1>2, <2>1, MineKeeps DEF Publish, tornado
  <2>2. CASE ProcessNotification
    <3>1. Head(rabbit).kind \in Kinds /\ <<Head(rabbit)>> \in Seq(Notice)
      BY <1>1, <2>2, RabbitHead DEF ProcessNotification
    <3>2. /\ AddEvent(DOMAIN clients, Head(rabbit).kind, <<Head(rabbit)>>)
          /\ browser' = browser
          /\ DOMAIN clients \in SUBSET DOMAIN clients
      BY <2>2 DEF ProcessNotification
    <3>3. /\ DOMAIN clients' = DOMAIN clients
          /\ \A q \in DOMAIN clients : clients'[q].current_handler_id = NoHandler
      BY <3>1, <3>2, AddEventTypes
    <3> QED
      BY <1>2, <3>2, <3>3, MineKeeps
  <2>3. CASE \E q \in QueueIds : Heartbeat(q)
    <3>1. PICK q \in QueueIds : Heartbeat(q)
      BY <2>3
    <3>2. {q} \in SUBSET DOMAIN clients /\ "heartbeat" \in Kinds /\ <<>> \in Seq(Notice)
      BY <3>1, EmptySeq DEF Heartbeat, Connected, Kinds
    <3>3. AddEvent({q}, "heartbeat", <<>>) /\ browser' = browser
      BY <3>1 DEF Heartbeat
    <3>4. /\ DOMAIN clients' = DOMAIN clients
          /\ \A r \in DOMAIN clients : \/ clients'[r].current_handler_id = NoHandler
                                       \/ clients'[r] = clients[r]
      BY <3>2, <3>3, AddEventTypes
    <3> QED
      BY <1>2, <3>3, <3>4, MineKeeps
  <2>4. CASE \E queues \in SUBSET DOMAIN clients : GcEventQueues(queues)
    <3>1. PICK queues \in SUBSET DOMAIN clients : GcEventQueues(queues)
      BY <2>4
    <3>2. /\ DOMAIN clients' \subseteq DOMAIN clients
          /\ \A q \in DOMAIN clients' : clients'[q] = clients[q]
          /\ browser' = browser
      BY <3>1, CollectTypes DEF GcEventQueues
    <3> QED
      BY <1>2, <3>2, MineKeeps
  <2>5. CASE \E h \in HandlerIds : OnConnectionClose(h)
    <3>1. PICK h \in HandlerIds : CloseEffect(h)
      BY <2>5, CloseIs
    <3>2. /\ DOMAIN clients' = DOMAIN clients
          /\ \A r \in DOMAIN clients :
                \/ clients'[r].current_handler_id = NoHandler
                \/ clients'[r].current_handler_id = clients[r].current_handler_id
          /\ \A b \in Browsers :
                /\ browser'[b].queue_id = browser[b].queue_id
                /\ browser'[b].xhr = NoHandler \/ browser'[b].xhr = browser[b].xhr
      BY <3>1 DEF CloseEffect
    <3> QED
      BY <3>2, MineKeeps
  <2>6. CASE DumpEventQueues
    BY <1>2, <2>6, MineKeeps DEF DumpEventQueues
  <2>7. CASE Stop
    BY <2>7 DEF Stop, Mine
  <2>8. CASE SetupEventQueue
    <3>1. DOMAIN clients' = DOMAIN saved
      BY <2>8, SetupTypes
    <3>2. \A q \in DOMAIN saved : clients'[q].current_handler_id = NoHandler
      BY <1>1, <2>8, SetupTypes
    <3>3. browser' = browser
      BY <2>8 DEF SetupEventQueue
    <3> QED
      BY <1>2, <3>1, <3>2, <3>3, MineKeeps
  <2>9. CASE \E b \in Browsers : Register(b)
    <3>1. PICK b \in Browsers : Register(b)
      BY <2>9
    <3>2. /\ DOMAIN clients' = DOMAIN clients \cup {registered + 1}
          /\ clients'[registered + 1].current_handler_id = NoHandler
          /\ \A q \in DOMAIN clients : clients'[q] = clients[q]
      BY <3>1, RegisterTypes
    <3>3. /\ browser' = [browser EXCEPT ![b].queue_id = registered']
          /\ browser[b].queue_id = NoQueue
      BY <3>1 DEF Register
    <3>4. browser[b].xhr = NoHandler
      BY <1>1, <3>3 DEF Owners
    <3>5. /\ browser'[b].xhr = NoHandler
          /\ \A c \in Browsers \ {b} : browser'[c] = browser[c]
      BY <1>1, <3>3, <3>4 DEF TypeOK
    <3> QED
      BY <3>2, <3>5, MineKeeps
  <2>10. ASSUME NEW b \in Browsers, NEW h \in HandlerIds, NEW alive \in BOOLEAN,
                Request(b, h, alive), DOMAIN clients' = DOMAIN clients,
                \A r \in DOMAIN clients :
                   clients'[r].current_handler_id = clients[r].current_handler_id
         PROVE  Mine'
    <3>1. /\ \A c \in Browsers : /\ browser'[c].queue_id = browser[c].queue_id
                                 /\ c # b => browser'[c].xhr = browser[c].xhr
          /\ browser'[b].xhr = IF alive THEN h ELSE NoHandler
      BY <2>10, RequestTypes
    <3>2. \A r \in DOMAIN clients : clients[r].current_handler_id # h
      BY <1>1, <2>10, FreshHandler
    <3> QED
      BY <2>10, <3>1, <3>2, MineKeeps
  <2>11. ASSUME NEW b \in Browsers, NEW h \in HandlerIds, NEW alive \in BOOLEAN,
                FetchUnknownQueue(b, h, alive)
         PROVE  Mine'
    BY <2>10, <2>11 DEF FetchUnknownQueue
  <2>12. ASSUME NEW b \in Browsers, NEW h \in HandlerIds, NEW alive \in BOOLEAN,
                FetchRefused(b, h, alive)
         PROVE  Mine'
    <3>1. PICK q : q = browser[b].queue_id
      OBVIOUS
    <3>2. /\ DOMAIN clients' = DOMAIN clients
          /\ clients'[q].current_handler_id = clients[q].current_handler_id
          /\ \A r \in DOMAIN clients : r # q => clients'[r] = clients[r]
      BY <2>12, <3>1, RefusedTypes
    <3>3. \A r \in DOMAIN clients :
             clients'[r].current_handler_id = clients[r].current_handler_id
      BY <3>2
    <3>4. Request(b, h, alive)
      BY <2>12 DEF FetchRefused
    <3> QED
      BY <2>10, <3>2, <3>3, <3>4
  <2>13. ASSUME NEW b \in Browsers, NEW h \in HandlerIds, NEW alive \in BOOLEAN,
                NEW dont_block \in BOOLEAN, FetchEvents(b, h, alive, dont_block)
         PROVE  Mine'
    <3>1. PICK q : q = browser[b].queue_id
      OBVIOUS
    <3>2. Request(b, h, alive) /\ FetchEffect(b, h, alive, dont_block)
      BY ZenonT(60), <2>13, FetchTypes DEF FetchEvents
    <3>3. /\ DOMAIN clients' = DOMAIN clients
          /\ clients'[q].current_handler_id \in {h, NoHandler}
          /\ \A r \in DOMAIN clients : r # q => clients'[r] = clients[r]
      BY <3>1, <3>2 DEF FetchEffect
    <3>4. /\ \A c \in Browsers : /\ browser'[c].queue_id = browser[c].queue_id
                                 /\ c # b => browser'[c].xhr = browser[c].xhr
          /\ browser'[b].xhr = IF alive THEN h ELSE NoHandler
      BY <3>2, RequestTypes
    <3>5. /\ \A c \in Browsers : browser[c].xhr # h
          /\ \A r \in DOMAIN clients : clients[r].current_handler_id # h
      BY <1>1, <3>2, FreshHandler
    <3>6. ASSUME NEW r \in DOMAIN clients, NEW c \in Browsers,
                 clients'[r].current_handler_id = browser'[c].xhr,
                 browser'[c].xhr # NoHandler
          PROVE  browser'[c].queue_id = r
      <4>1. CASE c = b
        BY <3>1, <3>3, <3>4, <3>5, <3>6, <4>1
      <4>2. CASE c # b
        BY <3>3, <3>4, <3>5, <3>6, <4>2 DEF Mine
      <4> QED
        BY <4>1, <4>2
    <3> QED
      BY <3>3, <3>6 DEF Mine
  <2>14. CASE \E b \in Browsers : Receive(b)
    <3>1. PICK b \in Browsers : Receive(b)
      BY <2>14
    <3>2. /\ \A c \in Browsers \ {b} : browser'[c] = browser[c]
          /\ browser'[b].xhr = NoHandler
      BY <3>1, ReceiveTypes
    <3>3. clients' = clients
      BY <3>1 DEF Receive
    <3> QED
      BY <3>2, <3>3, MineKeeps
  <2>15. CASE \E b \in Browsers : Abort(b)
    <3>1. PICK b \in Browsers : Abort(b)
      BY <2>15
    <3>2. clients' = clients /\ browser' = [browser EXCEPT ![b].xhr = NoHandler]
      BY <3>1 DEF Abort, tornado
    <3>3. \A c \in Browsers : browser'[c] = browser[c] \/ browser'[c].xhr = NoHandler
      BY <1>1, <3>2 DEF TypeOK
    <3> QED
      BY <3>2, <3>3, MineKeeps
  <2>16. CASE \E b \in Browsers : CleanupEventQueue(b)
    <3>1. PICK b \in Browsers : CleanupEventQueue(b)
      BY <2>16
    <3>2. PICK q : q = browser[b].queue_id
      OBVIOUS
    <3>3. /\ DOMAIN clients' = DOMAIN clients \ {q}
          /\ \A r \in DOMAIN clients' : clients'[r] = clients[r]
          /\ browser'[b] = Idle
          /\ \A c \in Browsers \ {b} : browser'[c] = browser[c]
      BY <3>1, <3>2, CleanupTypes
    <3>4. Idle.xhr = NoHandler
      BY DEF Idle
    <3> QED
      BY <3>3, <3>4, MineKeeps
  <2>17. CASE \E b \in Browsers : Leave(b)
    <3>1. PICK b \in Browsers : Leave(b)
      BY <2>17
    <3>2. /\ clients' = clients
          /\ browser'[b] = Idle
          /\ \A c \in Browsers \ {b} : browser'[c] = browser[c]
      BY <1>1, <3>1, UnloadTypes DEF Leave, tornado
    <3>3. Idle.xhr = NoHandler
      BY DEF Idle
    <3> QED
      BY <3>2, <3>3, MineKeeps
  <2> QED
    BY <1>4, <2>1, <2>2, <2>3, <2>4, <2>5, <2>6, <2>7, <2>8, <2>9, <2>11, <2>12, <2>13,
       <2>14, <2>15, <2>16, <2>17, NextCases
<1> QED
  BY <1>3, <1>4

-----------------------------------------------------------------------------
(* The invariant and what follows from it.                                 *)

(***************************************************************************)
(* At the start there are no queues.                                       *)
(***************************************************************************)
LEMMA DeliveryInit ==
    ASSUME Init
    PROVE  Mine /\ QueuesInv
<1>1. DOMAIN clients = {} /\ DOMAIN saved = {}
  BY DEF Init
<1>2. Fresh
  BY DEF Init, Fresh, Idle, NoQueue
<1> QED
  BY <1>1, <1>2 DEF Mine, QueuesInv, LiveQueues, LivePages, SavedQueues, SavedPages, Dumped

(***************************************************************************)
(* What queues and pages know of each other outlasts every step.           *)
(***************************************************************************)
LEMMA QueuesStep ==
    ASSUME TInv, PollInv, Mine, QueuesInv, [Next]_vars
    PROVE  QueuesInv'
<1>1. TInv' /\ Owners /\ ServerInv /\ Attended /\ SleepsOnlyWhenEmpty
  BY TypeStep DEF PollInv, SleepInv
<1>2. Smooth => QueuesInv'
  BY <1>1, SmoothKeeps
<1>3. CASE UNCHANGED vars
  BY <1>2, <1>3, PublishIsSmooth
<1>4. CASE Next
  <2>1. CASE Publish
    BY <1>2, <2>1, PublishIsSmooth
  <2>2. CASE ProcessNotification
    BY <1>1, <1>2, <2>2, NotificationIsSmooth
  <2>3. CASE \E q \in QueueIds : Heartbeat(q)
    BY <1>1, <1>2, <2>3, HeartbeatIsSmooth
  <2>4. CASE \E queues \in SUBSET DOMAIN clients : GcEventQueues(queues)
    BY <1>2, <2>4, CollectIsSmooth
  <2>5. CASE \E h \in HandlerIds : OnConnectionClose(h)
    BY <1>2, <2>5, CloseIsSmooth
  <2>6. CASE DumpEventQueues
    BY <2>6, DumpKeepsQueues
  <2>7. CASE Stop
    BY <2>7, StopKeepsQueues
  <2>8. CASE SetupEventQueue
    BY <2>8, SetupKeepsQueues
  <2>9. CASE \E b \in Browsers : Register(b)
    BY <1>1, <2>9, RegisterKeepsQueues
  <2>10. ASSUME NEW b \in Browsers, NEW h \in HandlerIds, NEW alive \in BOOLEAN,
                FetchUnknownQueue(b, h, alive)
         PROVE  QueuesInv'
    BY <1>1, <1>2, <2>10, UnknownQueueIsSmooth
  <2>11. ASSUME NEW b \in Browsers, NEW h \in HandlerIds, NEW alive \in BOOLEAN,
                FetchRefused(b, h, alive)
         PROVE  QueuesInv'
    BY <1>1, <1>2, <2>11, RefusedIsSmooth
  <2>12. ASSUME NEW b \in Browsers, NEW h \in HandlerIds, NEW alive \in BOOLEAN,
                NEW dont_block \in BOOLEAN, FetchEvents(b, h, alive, dont_block)
         PROVE  QueuesInv'
    BY <1>1, <1>2, <2>12, FetchIsSmooth
  <2>13. CASE \E b \in Browsers : Receive(b)
    BY <1>1, <2>13, ReceiveKeepsQueues
  <2>14. CASE \E b \in Browsers : Abort(b)
    BY <1>2, <2>14, AbortIsSmooth
  <2>15. CASE \E b \in Browsers : CleanupEventQueue(b)
    BY <1>1, <1>2, <2>15, CleanupIsSmooth
  <2>16. CASE \E b \in Browsers : Leave(b)
    BY <1>2, <2>16, LeaveIsSmooth
  <2> QED
    BY <1>4, <2>1, <2>2, <2>3, <2>4, <2>5, <2>6, <2>7, <2>8, <2>9, <2>10, <2>11, <2>12,
       <2>13, <2>14, <2>15, <2>16, NextCases
<1> QED
  BY <1>3, <1>4

(***************************************************************************)
(* The invariant holds in every state that can be reached.                 *)
(***************************************************************************)
LEMMA DeliveryInvAlways == Spec => [](TInv /\ DeliveryInv)
<1>1. Init => Mine /\ QueuesInv
  BY DeliveryInit
<1>2. TInv /\ PollInv /\ (Mine /\ QueuesInv) /\ [Next]_vars => (Mine /\ QueuesInv)'
  BY MineStep, QueuesStep
<1>3. TInv /\ PollInv /\ Mine /\ QueuesInv => TInv /\ DeliveryInv
  BY DEF DeliveryInv
<1> QED
  BY <1>1, <1>2, <1>3, TInvAlways, PollInvAlways, PTL DEF Spec

(***************************************************************************)
(* Every queue has its ids in order, behind the newest that was pruned and *)
(* before the next, and one virtual event of a kind: what contents() and   *)
(* prune() rely on, whatever acknowledgements they were given.             *)
(***************************************************************************)
THEOREM QueuesInOrder == Spec => []QueuesWellFormed
<1>1. TInv /\ DeliveryInv => QueuesWellFormed
  <2> SUFFICES ASSUME TInv, DeliveryInv, NEW q \in DOMAIN clients \ cut
               PROVE  WellFormed(clients[q].event_queue)
    BY DEF QueuesWellFormed
  <2>1. IsQueue(Notice, clients[q].event_queue) /\ Ordered(clients[q].event_queue)
    BY DEF TInv, Kept
  <2>2. \A x \in Events(clients[q].event_queue) :
           clients[q].event_queue.newest_pruned_id < x.id
    BY DEF DeliveryInv, QueuesInv, LiveQueues, Accounted, Well
  <2> QED
    BY <2>1, <2>2, OrderedIsWellFormed
<1> QED
  BY <1>1, DeliveryInvAlways, PTL

(***************************************************************************)
(* Every notice that was pushed into a queue is still in it, or its page   *)
(* has processed it: prune() removes nothing for a page that the page has  *)
(* not received, and contents(), a poll that supplants another one, and a  *)
(* reload of the queue lose no compressed event.                           *)
(***************************************************************************)
THEOREM NothingLost == Spec => []NothingSkipped
<1>1. DeliveryInv => NothingSkipped
  BY DEF DeliveryInv, QueuesInv, LiveQueues, Accounted, NothingSkipped
<1> QED
  BY <1>1, DeliveryInvAlways, PTL

-----------------------------------------------------------------------------
(* The messages: one that Tornado has processed is not forgotten when the  *)
(* queues of its user go away.  missedmessage_hook hands over what the     *)
(* last of them still holds, and a restart goes on with those of the dump. *)

Pushed == UNION {ToSet(pushed[q]) : q \in QueueIds}

\* Nothing more has to happen to a notice: nobody is notified of its kind, it
\* was handed over or lost with the process, it was pushed into a queue whose
\* copy in the file is another one, a page was loaded after it, or has it
Settled(n) ==
    \/ n.kind # "message"
    \/ n \in notified \cup dropped
    \/ \E q \in cut : n \in ToSet(pushed[q])
    \/ n.number <= known
    \/ \E q \in QueueIds : n \in ToSet(got[q])

Open == {n \in Pushed : ~Settled(n)}

Numbered == \A n \in Pushed \cup ToSet(rabbit) : n.number <= published

HeldIsPushed ==
    /\ \A q \in DOMAIN clients : Held(clients[q].event_queue) \subseteq Pushed
    /\ \A q \in DOMAIN saved : Held(saved[q].event_queue) \subseteq Pushed

\* Every queue there is was registered before a message that is still open
OpenLive == \A n \in Open : \A q \in DOMAIN clients : n \in ToSet(pushed[q])

\* ... and every queue of the file, if the message was processed before the dump
OpenSaved ==
    \A n \in Open : (\E q \in DOMAIN saved : n \in Held(saved[q].event_queue)) =>
       \A q \in DOMAIN saved : n \in ToSet(pushed[q])

\* Without a queue, the file has what is open
OpenEmpty ==
    DOMAIN clients = {} =>
       \A n \in Open : \E q \in DOMAIN saved : n \in Held(saved[q].event_queue)

MessageInv ==
    /\ Numbered
    /\ HeldIsPushed
    /\ OpenLive
    /\ OpenSaved
    /\ OpenEmpty

-----------------------------------------------------------------------------
(* What is open, and what settles it.                                      *)

(***************************************************************************)
(* The queues in memory and in the file were registered.                   *)
(***************************************************************************)
LEMMA QueueIdsOf ==
    ASSUME TInv
    PROVE  DOMAIN clients \subseteq QueueIds /\ DOMAIN saved \subseteq QueueIds
<1>1. /\ DOMAIN clients \subseteq 1..registered
      /\ DOMAIN saved \subseteq 1..registered
      /\ registered <= bound.queues
      /\ registered \in QueueIds \cup {0}
      /\ bound \in Bounds
  BY DEF TInv, TypeOK
<1>2. 1..bound.queues \subseteq QueueIds /\ QueueIds \subseteq Nat \ {0} /\ bound.queues \in Nat
  BY <1>1, BoundsHold
<1> QED
  BY <1>1, <1>2

(***************************************************************************)
(* What was pushed is a set of numbered notices.                           *)
(***************************************************************************)
LEMMA PushedType ==
    ASSUME TypeOK
    PROVE  /\ Pushed \subseteq Notice
           /\ \A n \in Notice : n.number \in Int
<1>1. \A q \in QueueIds : ToSet(pushed[q]) \subseteq Notice
  BY ToSetProperties DEF TypeOK
<1>2. \A n \in Notice : n.number \in Int
  <2> DEFINE m == Largest({l.notices : l \in Bounds})
  <2>1. Notice = [number : 1..m, kind : NoticeKinds]
    BY DEF Notice
  <2> HIDE DEF m
  <2> QED
    BY <2>1
<1> QED
  BY <1>1, <1>2 DEF Pushed

(***************************************************************************)
(* A message that is open is still in every queue.                         *)
(***************************************************************************)
LEMMA OpenIsHeld ==
    ASSUME TInv, QueuesInv, OpenLive, NEW n \in Open, NEW q \in DOMAIN clients
    PROVE  n \in Held(clients[q].event_queue)
<1>1. n \in ToSet(pushed[q]) /\ ~Settled(n)
  BY DEF OpenLive, Open
<1>2. q \notin cut /\ n \notin ToSet(got[q])
  BY <1>1, QueueIdsOf DEF Settled
<1>3. ToSet(pushed[q]) \subseteq ToSet(got[q]) \cup Held(clients[q].event_queue)
  BY <1>2 DEF QueuesInv, LiveQueues, Accounted
<1> QED
  BY <1>1, <1>2, <1>3

(***************************************************************************)
(* What is settled stays settled.                                          *)
(***************************************************************************)
LEMMA SettledStays ==
    ASSUME TInv, TInv', notified \subseteq notified', dropped \subseteq dropped',
           cut \subseteq cut', known <= known',
           \A q \in QueueIds : ToSet(pushed[q]) \subseteq ToSet(pushed'[q]),
           \A q \in QueueIds : ToSet(got[q]) \subseteq ToSet(got'[q]),
           NEW n \in Notice, Settled(n)
    PROVE  Settled(n)'
<1>1. known \in Nat /\ known' \in Nat /\ cut \subseteq QueueIds
  BY DEF TInv, TypeOK
<1>2. n.number \in Int
  BY PushedType DEF TInv
<1>3. CASE n.kind # "message"
  BY <1>3 DEF Settled
<1>4. CASE n \in notified \cup dropped
  BY <1>4 DEF Settled
<1>5. CASE \E q \in cut : n \in ToSet(pushed[q])
  BY <1>1, <1>5 DEF Settled
<1>6. CASE n.number <= known
  <2>1. n.number <= known'
    BY <1>1, <1>2, <1>6
  <2> QED
    BY <2>1 DEF Settled
<1>7. CASE \E q \in QueueIds : n \in ToSet(got[q])
  BY <1>7 DEF Settled
<1> QED
  BY <1>3, <1>4, <1>5, <1>6, <1>7 DEF Settled

(***************************************************************************)
(* A step that pushes nothing opens nothing.                               *)
(***************************************************************************)
LEMMA OpenStays ==
    ASSUME TInv, TInv', pushed' = pushed, notified \subseteq notified',
           dropped \subseteq dropped', cut \subseteq cut', known <= known',
           \A q \in QueueIds : ToSet(got[q]) \subseteq ToSet(got'[q])
    PROVE  Pushed' = Pushed /\ Open' \subseteq Open
<1>1. Pushed' = Pushed
  BY DEF Pushed
<1>2. Pushed \subseteq Notice
  BY PushedType DEF TInv
<1>3. ASSUME NEW n \in Pushed, Settled(n) PROVE Settled(n)'
  BY <1>2, <1>3, SettledStays
<1> QED
  BY <1>1, <1>3 DEF Open

-----------------------------------------------------------------------------
(* The steps.                                                              *)

(***************************************************************************)
(* Most of them change answers, and nothing of what is kept.               *)
(***************************************************************************)
LEMMA QuietKeepsMessages ==
    ASSUME TInv, TInv', MessageInv,
           UNCHANGED <<pushed, notified, dropped, cut, known, saved>>,
           DOMAIN clients' = DOMAIN clients,
           \A q \in DOMAIN clients :
              Held(clients'[q].event_queue) \subseteq Held(clients[q].event_queue),
           \A q \in QueueIds : ToSet(got[q]) \subseteq ToSet(got'[q]),
           \/ UNCHANGED <<rabbit, published>>
           \/ Publish
    PROVE  MessageInv'
<1>1. known <= known'
  BY DEF TInv, TypeOK
<1>2. Pushed' = Pushed /\ Open' \subseteq Open
  BY <1>1, OpenStays
<1>3. Numbered'
  <2>1. CASE UNCHANGED <<rabbit, published>>
    BY <1>2, <2>1 DEF MessageInv, Numbered
  <2>2. CASE Publish
    <3>1. PICK kind \in NoticeKinds :
             rabbit' = Append(rabbit, [number |-> published', kind |-> kind])
      BY <2>2 DEF Publish
    <3> DEFINE new == [number |-> published', kind |-> kind]
    <3>2. rabbit \in Seq(Notice) /\ rabbit' \in Seq(Notice) /\ published \in Nat
      BY DEF TInv, TypeOK
    <3>3. new \in Notice
      <4>1. rabbit'[Len(rabbit) + 1] = new /\ Len(rabbit') = Len(rabbit) + 1
        BY <3>1, <3>2
      <4>2. Len(rabbit) + 1 \in 1..Len(rabbit') /\ Len(rabbit) \in Nat
        BY <3>2, <4>1
      <4> HIDE DEF new
      <4> QED
        BY <3>2, <4>1, <4>2
    <3>4. ToSet(rabbit') = ToSet(rabbit) \cup {new}
      BY <3>1, <3>2, <3>3, ToSetProperties
    <3>5. published' = published + 1 /\ new.number = published'
      BY <2>2 DEF Publish
    <3>6. \A n \in Pushed \cup ToSet(rabbit) : n.number <= published /\ n.number \in Int
      <4>1. Pushed \cup ToSet(rabbit) \subseteq Notice
        BY <3>2, PushedType, ToSetProperties DEF TInv
      <4> QED
        BY <4>1, PushedType DEF MessageInv, Numbered, TInv
    <3> HIDE DEF new
    <3>7. \A n \in Pushed' \cup ToSet(rabbit') : n.number <= published'
      BY <1>2, <3>2, <3>4, <3>5, <3>6
    <3> QED
      BY <3>7 DEF Numbered
  <2> QED
    BY <2>1, <2>2
<1>4. HeldIsPushed'
  BY <1>2 DEF MessageInv, HeldIsPushed
<1>5. OpenLive' /\ OpenSaved' /\ OpenEmpty'
  BY <1>2 DEF MessageInv, OpenLive, OpenSaved, OpenEmpty
<1> QED
  BY <1>3, <1>4, <1>5 DEF MessageInv

(***************************************************************************)
(* A notice that is processed is open in every queue, or notified if there *)
(* is none.                                                                *)
(***************************************************************************)
LEMMA NotificationKeepsMessages ==
    ASSUME TInv, TInv', MessageInv, ProcessNotification
    PROVE  MessageInv'
<1> DEFINE notice == Head(rabbit)
<1>1. /\ AddEvent(DOMAIN clients, notice.kind, <<notice>>)
      /\ pushed' = [q \in QueueIds |-> IF q \in DOMAIN clients
                                       THEN Append(pushed[q], notice) ELSE pushed[q]]
      /\ notified \subseteq notified'
      /\ rabbit # <<>>
      /\ rabbit' = Tail(rabbit)
      /\ UNCHANGED <<dropped, cut, known, saved, got, published>>
  BY DEF ProcessNotification
<1>2. /\ notice \in Notice /\ notice.kind \in Kinds /\ <<notice>> \in Seq(Notice)
      /\ ToSet(<<notice>>) = {notice}
  BY <1>1, RabbitHead DEF TInv, ToSet
<1>3. notice \in ToSet(rabbit) /\ ToSet(rabbit') \subseteq ToSet(rabbit)
  <2>1. rabbit \in Seq(Notice) /\ rabbit # <<>>
    BY <1>1 DEF TInv, TypeOK
  <2>2. /\ notice = rabbit[1] /\ Len(rabbit) \in Nat /\ 1 \in 1..Len(rabbit)
        /\ Len(rabbit') = Len(rabbit) - 1
        /\ \A i \in 1..Len(rabbit') : rabbit'[i] = rabbit[i + 1] /\ i + 1 \in 1..Len(rabbit)
    BY <1>1, <2>1
  <2>3. rabbit' \in Seq(Notice)
    BY DEF TInv, TypeOK
  <2>4. DOMAIN rabbit = 1..Len(rabbit) /\ DOMAIN rabbit' = 1..Len(rabbit')
    BY <2>1, <2>3
  <2> HIDE DEF notice
  <2> QED
    BY <2>2, <2>4 DEF ToSet
<1> HIDE DEF notice
<1>4. \A q \in QueueIds : ToSet(pushed'[q]) = IF q \in DOMAIN clients
                                              THEN ToSet(pushed[q]) \cup {notice}
                                              ELSE ToSet(pushed[q])
  <2>1. \A q \in QueueIds : pushed[q] \in Seq(Notice)
    BY DEF TInv, TypeOK
  <2>2. \A q \in QueueIds : ToSet(Append(pushed[q], notice)) = ToSet(pushed[q]) \cup {notice}
    BY <1>2, <2>1, ToSetProperties
  <2> QED
    BY <1>1, <2>2
<1>5. DOMAIN clients \subseteq QueueIds /\ DOMAIN saved \subseteq QueueIds
  BY QueueIdsOf
<1>6. /\ Pushed \subseteq Pushed'
      /\ \A n \in Pushed' : n \in Pushed \/ n = notice
      /\ DOMAIN clients # {} => notice \in Pushed'
  BY ZenonT(60), <1>4, <1>5 DEF Pushed
<1>7. \A n \in Open' : n \in Open \/ (n = notice /\ n \notin Pushed)
  <2> SUFFICES ASSUME NEW n \in Pushed, Settled(n) PROVE Settled(n)'
    BY <1>6 DEF Open
  <2>1. n \in Notice
    BY PushedType DEF TInv
  <2>2. known <= known'
    BY <1>1 DEF TInv, TypeOK
  <2> QED
    BY <1>1, <1>4, <2>1, <2>2, SettledStays
<1>8. Numbered'
  BY <1>1, <1>3, <1>6 DEF MessageInv, Numbered
<1>9. /\ DOMAIN clients' = DOMAIN clients
      /\ \A q \in DOMAIN clients :
            Held(clients'[q].event_queue) = Held(clients[q].event_queue) \cup {notice}
  <2> DEFINE all == DOMAIN clients
  <2>1. /\ DOMAIN clients' = DOMAIN clients
        /\ \A q \in DOMAIN clients : clients'[q].event_queue =
              IF q \in Connected
              THEN Settle(Push(clients[q].event_queue, notice.kind, <<notice>>))
              ELSE Push(clients[q].event_queue, notice.kind, <<notice>>)
    <3>1. all \in SUBSET DOMAIN clients /\ AddEvent(all, notice.kind, <<notice>>)
      BY <1>1
    <3>2. /\ DOMAIN clients' = DOMAIN clients
          /\ \A q \in DOMAIN clients : q \in all =>
                clients'[q].event_queue =
                   IF q \in Connected
                   THEN Settle(Push(clients[q].event_queue, notice.kind, <<notice>>))
                   ELSE Push(clients[q].event_queue, notice.kind, <<notice>>)
      <4> HIDE DEF all
      <4> QED
        BY <1>2, <3>1, AddEventTypes
    <3> QED
      BY <3>2
  <2>2. ASSUME NEW q \in DOMAIN clients
        PROVE  Held(clients'[q].event_queue) = Held(clients[q].event_queue) \cup {notice}
    <3> DEFINE e == clients[q].event_queue
               p == Push(e, notice.kind, <<notice>>)
    <3>1. IsQueue(Notice, e) /\ Ordered(e)
      BY DEF TInv, Kept
    <3>2. clients'[q].event_queue = IF q \in Connected THEN Settle(p) ELSE p
      BY <2>1
    <3> HIDE DEF e
    <3>3. IsQueue(Notice, p) /\ Ordered(p)
      BY <1>2, <3>1, PushKeeps
    <3>4. Held(p) = Held(e) \cup {notice}
      BY <1>2, <3>1, PushCovers
    <3> HIDE DEF p
    <3>5. Held(Settle(p)) = Held(p)
      BY <3>3, SettleCovers
    <3> QED
      BY <3>2, <3>4, <3>5 DEF e
  <2> QED
    BY <2>1, <2>2
<1>10. HeldIsPushed'
  BY <1>1, <1>6, <1>9 DEF MessageInv, HeldIsPushed
<1>11. OpenLive'
  BY <1>4, <1>5, <1>7, <1>9 DEF MessageInv, OpenLive
<1>12. OpenSaved'
  <2> SUFFICES ASSUME NEW n \in Open', \E q \in DOMAIN saved : n \in Held(saved[q].event_queue)
               PROVE  \A q \in DOMAIN saved : n \in ToSet(pushed'[q])
    BY <1>1 DEF OpenSaved
  <2>1. n \in Open
    BY <1>7 DEF MessageInv, HeldIsPushed
  <2>2. \A q \in DOMAIN saved : n \in ToSet(pushed[q])
    BY <2>1 DEF MessageInv, OpenSaved
  <2> QED
    BY <1>4, <1>5, <2>2
<1>13. OpenEmpty'
  <2> SUFFICES ASSUME DOMAIN clients = {}, NEW n \in Open'
               PROVE  \E q \in DOMAIN saved : n \in Held(saved[q].event_queue)
    BY <1>1, <1>9 DEF OpenEmpty
  <2>1. n \in Pushed
    BY <1>4 DEF Open, Pushed
  <2>2. n \in Open
    BY <1>7, <2>1
  <2> QED
    BY <2>2 DEF MessageInv, OpenEmpty
<1> QED
  BY <1>8, <1>10, <1>11, <1>12, <1>13 DEF MessageInv

(***************************************************************************)
(* The hook sees the last queues of the user: what is open is in them.     *)
(***************************************************************************)
LEMMA CollectKeepsMessages ==
    ASSUME TInv, TInv', QueuesInv, MessageInv,
           NEW queues \in SUBSET DOMAIN clients, queues # {}, Collect(queues),
           UNCHANGED <<pushed, dropped, cut, known, saved, got, rabbit, published>>
    PROVE  MessageInv'
<1>1. /\ DOMAIN clients' = DOMAIN clients \ queues
      /\ \A q \in DOMAIN clients' : clients'[q] = clients[q]
  BY CollectTypes
<1>2. /\ notified \subseteq notified'
      /\ DOMAIN clients = queues =>
            \A q \in queues : Messages(Held(clients[q].event_queue)) \subseteq notified'
  BY DEF Collect, Messages
<1>3. Pushed' = Pushed /\ Open' \subseteq Open
  <2>1. known <= known'
    BY DEF TInv, TypeOK
  <2> QED
    BY <1>2, <2>1, OpenStays
<1>4. Numbered' /\ HeldIsPushed'
  BY <1>1, <1>3 DEF MessageInv, Numbered, HeldIsPushed
<1>5. OpenLive' /\ OpenSaved'
  BY <1>1, <1>3 DEF MessageInv, OpenLive, OpenSaved
<1>6. OpenEmpty'
  <2> SUFFICES ASSUME DOMAIN clients' = {}, NEW n \in Open' PROVE FALSE
    BY DEF OpenEmpty
  <2>1. DOMAIN clients = queues
    BY <1>1
  <2>2. PICK q \in queues : TRUE
    OBVIOUS
  <2>3. n \in Held(clients[q].event_queue)
    BY <1>3, OpenIsHeld DEF MessageInv
  <2>4. n.kind = "message" /\ n \notin notified'
    BY DEF Open, Settled
  <2> QED
    BY <1>2, <2>1, <2>3, <2>4 DEF Messages
<1> QED
  BY <1>4, <1>5, <1>6 DEF MessageInv

(***************************************************************************)
(* The file has every queue there is.                                      *)
(***************************************************************************)
LEMMA DumpKeepsMessages ==
    ASSUME TInv, TInv', QueuesInv, MessageInv, DumpEventQueues
    PROVE  MessageInv'
<1>1. /\ phase = "up"
      /\ saved' = [q \in DOMAIN clients |-> Detached(clients[q])]
      /\ UNCHANGED <<clients, pushed, notified, dropped, cut, known, got, rabbit, published>>
  BY DEF DumpEventQueues, broker, history
<1>2. DOMAIN saved = {}
  BY <1>1 DEF QueuesInv, Fresh
<1>3. /\ DOMAIN saved' = DOMAIN clients
      /\ \A q \in DOMAIN clients : saved'[q].event_queue = clients[q].event_queue
  <2>1. \A q \in DOMAIN clients : Kept(clients[q])
    BY DEF TInv
  <2> QED
    BY <1>1, <2>1, DetachedKeeps
<1>4. Pushed' = Pushed /\ Open' \subseteq Open
  <2>1. known <= known'
    BY <1>1 DEF TInv, TypeOK
  <2> QED
    BY <1>1, <2>1, OpenStays
<1>5. Numbered' /\ HeldIsPushed'
  BY <1>1, <1>3, <1>4 DEF MessageInv, Numbered, HeldIsPushed
<1>6. OpenLive' /\ OpenSaved' /\ OpenEmpty'
  BY <1>1, <1>2, <1>3, <1>4 DEF MessageInv, OpenLive, OpenSaved, OpenEmpty
<1> QED
  BY <1>5, <1>6 DEF MessageInv

(***************************************************************************)
(* The process takes along what the file has not.                          *)
(***************************************************************************)
LEMMA StopKeepsMessages ==
    ASSUME TInv, TInv', QueuesInv, MessageInv, Stop
    PROVE  MessageInv'
<1> DEFINE live == UNION {Held(clients[q].event_queue) : q \in DOMAIN clients}
           filed == UNION {Held(saved[q].event_queue) : q \in DOMAIN saved}
<1>1. /\ DOMAIN clients' = {}
      /\ cut \subseteq cut'
      /\ dropped' = dropped \cup (live \ filed)
      /\ UNCHANGED <<saved, pushed, notified, known, got, rabbit, published>>
  BY DEF Stop, broker
<1>2. Pushed' = Pushed /\ Open' \subseteq Open
  <2>1. known <= known' /\ dropped \subseteq dropped'
    BY <1>1 DEF TInv, TypeOK
  <2> QED
    BY <1>1, <2>1, OpenStays
<1>3. Numbered' /\ HeldIsPushed' /\ OpenLive' /\ OpenSaved'
  BY <1>1, <1>2 DEF MessageInv, Numbered, HeldIsPushed, OpenLive, OpenSaved
<1>4. OpenEmpty'
  <2> SUFFICES ASSUME NEW n \in Open'
               PROVE  \E q \in DOMAIN saved : n \in Held(saved[q].event_queue)
    BY <1>1 DEF OpenEmpty
  <2>1. n \in Open /\ n \notin dropped'
    BY <1>2 DEF Open, Settled
  <2>2. CASE DOMAIN clients = {}
    BY <2>1, <2>2 DEF MessageInv, OpenEmpty
  <2>3. CASE DOMAIN clients # {}
    <3>1. PICK q \in DOMAIN clients : TRUE
      BY <2>3
    <3>2. n \in Held(clients[q].event_queue)
      BY <2>1, OpenIsHeld DEF MessageInv
    <3> QED
      BY <1>1, <2>1, <3>2
  <2> QED
    BY <2>2, <2>3
<1> QED
  BY <1>3, <1>4 DEF MessageInv

(***************************************************************************)
(* The next process has the queues of the file.                            *)
(***************************************************************************)
LEMMA SetupKeepsMessages ==
    ASSUME TInv, TInv', PollInv, MessageInv, SetupEventQueue
    PROVE  MessageInv'
<1>1. /\ phase = "down"
      /\ DOMAIN saved' = {}
      /\ UNCHANGED <<pushed, notified, dropped, cut, known, got, rabbit, published>>
  BY DEF SetupEventQueue, broker, history
<1>2. DOMAIN clients = {}
  BY <1>1 DEF PollInv, ServerInv, Running
<1>3. /\ DOMAIN clients' = DOMAIN saved
      /\ \A q \in DOMAIN saved :
            clients'[q].event_queue = Push(saved[q].event_queue, "restart", <<>>)
  BY SetupTypes
<1>4. \A q \in DOMAIN saved : Held(clients'[q].event_queue) = Held(saved[q].event_queue)
  <2> SUFFICES ASSUME NEW q \in DOMAIN saved
               PROVE  Held(clients'[q].event_queue) = Held(saved[q].event_queue)
    OBVIOUS
  <2> DEFINE e == saved[q].event_queue
  <2>1. IsQueue(Notice, e) /\ Ordered(e)
    BY DEF TInv, Kept
  <2>2. "restart" \in Kinds /\ <<>> \in Seq(Notice) /\ ToSet(<<>>) = {}
    BY EmptySeq DEF Kinds, ToSet
  <2>3. clients'[q].event_queue = Push(e, "restart", <<>>)
    BY <1>3
  <2> HIDE DEF e
  <2>4. Held(Push(e, "restart", <<>>)) = Held(e) \cup ToSet(<<>>)
    BY <2>1, <2>2, PushCovers
  <2> QED
    BY <2>2, <2>3, <2>4 DEF e
<1>5. Pushed' = Pushed /\ Open' \subseteq Open
  <2>1. known <= known'
    BY <1>1 DEF TInv, TypeOK
  <2> QED
    BY <1>1, <2>1, OpenStays
<1>6. Numbered' /\ HeldIsPushed'
  BY <1>1, <1>3, <1>4, <1>5 DEF MessageInv, Numbered, HeldIsPushed
<1>7. OpenLive' /\ OpenSaved' /\ OpenEmpty'
  BY <1>1, <1>2, <1>3, <1>5 DEF MessageInv, OpenLive, OpenSaved, OpenEmpty
<1> QED
  BY <1>6, <1>7 DEF MessageInv

(***************************************************************************)
(* The page that is loaded shows everything that was published.            *)
(***************************************************************************)
LEMMA RegisterKeepsMessages ==
    ASSUME TInv, TInv', MessageInv, NEW b \in Browsers, Register(b)
    PROVE  MessageInv'
<1>1. /\ known' = published
      /\ UNCHANGED <<saved, pushed, notified, dropped, cut, got, rabbit, published>>
  BY DEF Register, broker
<1>2. PICK new : new = registered + 1
  OBVIOUS
<1>3. /\ DOMAIN clients' = DOMAIN clients \cup {new}
      /\ clients'[new].event_queue = NewQueue
      /\ \A q \in DOMAIN clients : clients'[q] = clients[q]
      /\ Held(NewQueue) = {}
      /\ new \notin DOMAIN clients
  BY <1>2, RegisterTypes, NewIsKnown
<1>4. Pushed' = Pushed /\ Open' = {}
  BY <1>1 DEF MessageInv, Numbered, Pushed, Open, Settled
<1>5. Numbered' /\ HeldIsPushed'
  BY <1>1, <1>3, <1>4 DEF MessageInv, Numbered, HeldIsPushed
<1>6. OpenLive' /\ OpenSaved' /\ OpenEmpty'
  BY <1>4 DEF OpenLive, OpenSaved, OpenEmpty
<1> QED
  BY <1>5, <1>6 DEF MessageInv

-----------------------------------------------------------------------------
(* A poll holds no more than was there, and pages only get more.           *)

(***************************************************************************)
(* A poll holds no more than was there.                                    *)
(***************************************************************************)
LEMMA PollKeepsMessages ==
    ASSUME TInv, TInv', MessageInv,
           NEW b \in Browsers, NEW h \in HandlerIds, NEW alive \in BOOLEAN,
           \/ FetchUnknownQueue(b, h, alive)
           \/ FetchRefused(b, h, alive)
           \/ \E dont_block \in BOOLEAN : FetchEvents(b, h, alive, dont_block)
    PROVE  MessageInv'
<1>1. PICK q : q = browser[b].queue_id
  OBVIOUS
<1>2. Request(b, h, alive)
  BY DEF FetchUnknownQueue, FetchRefused, FetchEvents
<1>3. UNCHANGED <<pushed, notified, dropped, cut, known, saved, got, rabbit, published>>
  BY <1>2, RequestTypes
<1>4. CASE FetchUnknownQueue(b, h, alive)
  <2>1. clients' = clients
    BY <1>4 DEF FetchUnknownQueue
  <2> QED
    BY <1>3, <2>1, QuietKeepsMessages
<1>5. ASSUME DOMAIN clients' = DOMAIN clients,
             q \in DOMAIN clients,
             clients'[q].event_queue \in {Acknowledged(b), Settle(Acknowledged(b))},
             \A r \in DOMAIN clients : r # q => clients'[r] = clients[r]
      PROVE  MessageInv'
  <2> DEFINE e == clients[q].event_queue
             a == Acknowledged(b)
  <2>1. Held(a) \subseteq Held(e)
    BY <1>1, <1>5, AcknowledgedCovers
  <2>2. IsQueue(Notice, a) /\ Ordered(a)
    BY <1>1, <1>5, AcknowledgedKeeps
  <2>3. clients'[q].event_queue \in {a, Settle(a)}
    BY <1>5
  <2> HIDE DEF a
  <2>4. Held(Settle(a)) = Held(a)
    BY <2>2, SettleCovers
  <2>5. Held(clients'[q].event_queue) \subseteq Held(e)
    BY <2>1, <2>3, <2>4
  <2> QED
    BY <1>3, <1>5, <2>5, QuietKeepsMessages
<1>6. CASE FetchRefused(b, h, alive)
  <2>1. /\ DOMAIN clients' = DOMAIN clients
        /\ q \in DOMAIN clients
        /\ clients'[q].event_queue = Acknowledged(b)
        /\ \A r \in DOMAIN clients : r # q => clients'[r] = clients[r]
    BY <1>1, <1>6, RefusedTypes
  <2> QED
    BY <1>5, <2>1
<1>7. CASE \E dont_block \in BOOLEAN : FetchEvents(b, h, alive, dont_block)
  <2>1. PICK dont_block \in BOOLEAN : FetchEvents(b, h, alive, dont_block)
    BY <1>7
  <2>2. FetchEffect(b, h, alive, dont_block)
    BY <2>1, FetchTypes
  <2>3. /\ DOMAIN clients' = DOMAIN clients
        /\ q \in DOMAIN clients
        /\ clients'[q].event_queue = Settle(Acknowledged(b))
        /\ \A r \in DOMAIN clients : r # q => clients'[r] = clients[r]
    BY <1>1, <2>2 DEF FetchEffect
  <2> QED
    BY <1>5, <2>3
<1> QED
  BY <1>4, <1>6, <1>7

(***************************************************************************)
(* A heartbeat stands for no notice.                                       *)
(***************************************************************************)
LEMMA HeartbeatKeepsMessages ==
    ASSUME TInv, TInv', MessageInv, NEW q \in QueueIds, Heartbeat(q)
    PROVE  MessageInv'
<1> DEFINE one == {q}
<1>1. /\ one \in SUBSET DOMAIN clients
      /\ "heartbeat" \in Kinds /\ <<>> \in Seq(Notice) /\ ToSet(<<>>) = {}
  BY EmptySeq DEF Heartbeat, Connected, Kinds, ToSet
<1>2. /\ AddEvent(one, "heartbeat", <<>>)
      /\ UNCHANGED <<pushed, notified, dropped, cut, known, saved, got, rabbit, published>>
  BY DEF Heartbeat, broker, history
<1>3. /\ DOMAIN clients' = DOMAIN clients
      /\ \A r \in DOMAIN clients :
            /\ r \notin one => clients'[r] = clients[r]
            /\ r \in one => clients'[r].event_queue =
                  IF r \in Connected
                  THEN Settle(Push(clients[r].event_queue, "heartbeat", <<>>))
                  ELSE Push(clients[r].event_queue, "heartbeat", <<>>)
  <2> HIDE DEF one
  <2> QED
    BY ZenonT(60), <1>1, <1>2, AddEventTypes
<1>4. ASSUME NEW r \in DOMAIN clients
      PROVE  Held(clients'[r].event_queue) = Held(clients[r].event_queue)
  <2> DEFINE e == clients[r].event_queue
             p == Push(e, "heartbeat", <<>>)
  <2>1. IsQueue(Notice, e) /\ Ordered(e)
    BY DEF TInv, Kept
  <2>2. \/ clients'[r] = clients[r]
        \/ clients'[r].event_queue \in {p, Settle(p)}
    BY <1>3
  <2> HIDE DEF e
  <2>3. IsQueue(Notice, p) /\ Ordered(p)
    BY <1>1, <2>1, PushKeeps
  <2>4. Held(p) = Held(e)
    BY <1>1, <2>1, PushCovers
  <2> HIDE DEF p
  <2>5. Held(Settle(p)) = Held(p)
    BY <2>3, SettleCovers
  <2> QED
    BY <2>2, <2>4, <2>5 DEF e
<1> QED
  BY <1>2, <1>3, <1>4, QuietKeepsMessages

(***************************************************************************)
(* A page that takes its answer has more.                                  *)
(***************************************************************************)
LEMMA ReceiveKeepsMessages ==
    ASSUME TInv, TInv', Owners, MessageInv, NEW b \in Browsers, Receive(b)
    PROVE  MessageInv'
<1>1. PICK q : q = browser[b].queue_id
  OBVIOUS
<1>2. q # NoQueue
  BY <1>1 DEF Owners, Receive
<1>3. \A r \in QueueIds : ToSet(got[r]) \subseteq ToSet(got'[r])
  <2>1. /\ ToSet(got[q]) \subseteq ToSet(got'[q])
        /\ \A r \in QueueIds \ {q} : got'[r] = got[r]
    BY <1>1, <1>2, ReceiveGets
  <2> QED
    BY <2>1
<1>4. UNCHANGED <<clients, pushed, notified, dropped, cut, known, saved, rabbit, published>>
  BY DEF Receive, broker
<1> QED
  BY <1>3, <1>4, QuietKeepsMessages

(***************************************************************************)
(* No step forgets a message.                                              *)
(***************************************************************************)
LEMMA MessageStep ==
    ASSUME TInv, DeliveryInv, MessageInv, [Next]_vars
    PROVE  MessageInv'
<1>1. TInv' /\ QueuesInv /\ PollInv /\ Owners
  BY TypeStep DEF DeliveryInv, PollInv
<1>2. ASSUME UNCHANGED <<clients, saved, history, rabbit, published>>
      PROVE  MessageInv'
  BY <1>1, <1>2, QuietKeepsMessages DEF history
<1>3. CASE UNCHANGED vars
  BY <1>2, <1>3 DEF vars, tornado, broker
<1>4. CASE Next
  <2>1. CASE Publish
    <3>1. UNCHANGED <<clients, saved, pushed, notified, dropped, cut, known, got>>
      BY <2>1 DEF Publish, tornado, history
    <3> QED
      BY <1>1, <2>1, <3>1, QuietKeepsMessages
  <2>2. CASE ProcessNotification
    BY <1>1, <2>2, NotificationKeepsMessages
  <2>3. CASE \E q \in QueueIds : Heartbeat(q)
    BY <1>1, <2>3, HeartbeatKeepsMessages
  <2>4. CASE \E queues \in SUBSET DOMAIN clients : GcEventQueues(queues)
    <3>1. PICK queues \in SUBSET DOMAIN clients : GcEventQueues(queues)
      BY <2>4
    <3>2. /\ queues # {}
          /\ Collect(queues)
          /\ UNCHANGED <<pushed, dropped, cut, known, saved, got, rabbit, published>>
      BY <3>1 DEF GcEventQueues, broker
    <3> QED
      BY <1>1, <3>2, CollectKeepsMessages
  <2>5. CASE \E h \in HandlerIds : OnConnectionClose(h)
    <3>1. PICK h \in HandlerIds : OnConnectionClose(h)
      BY <2>5
    <3>2. /\ DOMAIN clients' = DOMAIN clients
          /\ \A r \in DOMAIN clients : clients'[r].event_queue = clients[r].event_queue
      BY <3>1, CloseIs DEF CloseEffect
    <3>3. UNCHANGED <<pushed, notified, dropped, cut, known, saved, got, rabbit, published>>
      BY <3>1 DEF OnConnectionClose, broker, history
    <3> QED
      BY <1>1, <3>2, <3>3, QuietKeepsMessages
  <2>6. CASE DumpEventQueues
    BY <1>1, <2>6, DumpKeepsMessages
  <2>7. CASE Stop
    BY <1>1, <2>7, StopKeepsMessages
  <2>8. CASE SetupEventQueue
    BY <1>1, <2>8, SetupKeepsMessages
  <2>9. CASE \E b \in Browsers : Register(b)
    BY <1>1, <2>9, RegisterKeepsMessages
  <2>10. CASE \E b \in Browsers, h \in HandlerIds, alive \in BOOLEAN :
                 \/ FetchUnknownQueue(b, h, alive)
                 \/ FetchRefused(b, h, alive)
                 \/ \E dont_block \in BOOLEAN : FetchEvents(b, h, alive, dont_block)
    BY <1>1, <2>10, PollKeepsMessages
  <2>11. CASE \E b \in Browsers : Receive(b)
    BY <1>1, <2>11, ReceiveKeepsMessages
  <2>12. CASE \E b \in Browsers : Abort(b)
    BY <1>2, <2>12 DEF Abort, tornado, broker
  <2>13. CASE \E b \in Browsers : CleanupEventQueue(b)
    <3>1. PICK b \in Browsers : CleanupEventQueue(b)
      BY <2>13
    <3>2. PICK q : q = browser[b].queue_id
      OBVIOUS
    <3>3. /\ {q} \in SUBSET DOMAIN clients /\ {q} # {}
          /\ Collect({q})
          /\ UNCHANGED <<pushed, dropped, cut, known, saved, got, rabbit, published>>
      BY <3>1, <3>2 DEF CleanupEventQueue, broker
    <3> QED
      BY <1>1, <3>3, CollectKeepsMessages
  <2>14. CASE \E b \in Browsers : Leave(b)
    BY <1>2, <2>14 DEF Leave, tornado, broker
  <2> QED
    BY <1>4, <2>1, <2>2, <2>3, <2>4, <2>5, <2>6, <2>7, <2>8, <2>9, <2>10, <2>11, <2>12,
       <2>13, <2>14, NextCases
<1> QED
  BY <1>3, <1>4

(***************************************************************************)
(* The invariant holds in every state that can be reached.                 *)
(***************************************************************************)
LEMMA MessageInvAlways == Spec => [](TInv /\ DeliveryInv /\ MessageInv)
<1>1. Init => MessageInv
  <2> SUFFICES ASSUME Init PROVE MessageInv
    OBVIOUS
  <2>1. DOMAIN clients = {} /\ DOMAIN saved = {} /\ rabbit = <<>> /\ ToSet(<<>>) = {}
    BY DEF Init, ToSet
  <2>2. Pushed = {} /\ Open = {}
    BY <2>1 DEF Init, Pushed, Open
  <2> QED
    BY <2>1, <2>2 DEF MessageInv, Numbered, HeldIsPushed, OpenLive, OpenSaved, OpenEmpty
<1>2. (TInv /\ DeliveryInv) /\ MessageInv /\ [Next]_vars => MessageInv'
  BY MessageStep
<1> QED
  BY <1>1, <1>2, DeliveryInvAlways, PTL DEF Spec

(***************************************************************************)
(* A message that Tornado put into queues is never forgotten: it went to   *)
(* the queue of missed messages or was lost with the process, a page was   *)
(* loaded after it or has it, or a queue, in memory or in the file of the  *)
(* dump, still holds it.                                                   *)
(***************************************************************************)
THEOREM MessagesReachSomebody == Spec => []NoMessageMissed
<1>1. TInv /\ DeliveryInv /\ MessageInv => NoMessageMissed
  <2> SUFFICES ASSUME TInv, DeliveryInv, MessageInv, NEW n \in Pushed, n \in Open
               PROVE  \/ \E q \in DOMAIN clients : n \in Held(clients[q].event_queue)
                      \/ \E q \in DOMAIN saved : n \in Held(saved[q].event_queue)
    BY DEF NoMessageMissed, Open, Settled, Pushed
  <2>1. CASE DOMAIN clients = {}
    BY <2>1 DEF MessageInv, OpenEmpty
  <2>2. CASE DOMAIN clients # {}
    <3>1. PICK q \in DOMAIN clients : TRUE
      BY <2>2
    <3> QED
      BY <3>1, OpenIsHeld DEF DeliveryInv, MessageInv
  <2> QED
    BY <2>1, <2>2
<1> QED
  BY <1>1, MessageInvAlways, PTL

-----------------------------------------------------------------------------
(* The order in which notices are pushed and processed.                    *)

(***************************************************************************)
(* Web servers number the notices in the order in which they publish them. *)
(***************************************************************************)
LEMMA NoticesHaveNumbers == HaveNumbers(Notice)
BY DEF HaveNumbers, Notice

(***************************************************************************)
(* The notices of one kind, in the order of the others.                    *)
(***************************************************************************)
LEMMA OfKindIs ==
    ASSUME NEW s \in Seq(Notice), KindOrder(s), NEW k \in NoticeKinds
    PROVE  /\ OfKind(s)[k] \in Seq(Notice)
           /\ Rising(OfKind(s)[k])
           /\ ToSet(OfKind(s)[k]) = {n \in ToSet(s) : n.kind = k}
<1> DEFINE seqs == [i \in DOMAIN s |-> IF s[i].kind = k THEN <<s[i]>> ELSE <<>>]
           n == Len(s)
<1>1. n \in Nat /\ DOMAIN s = 1..n /\ \A i \in 1..n : s[i] \in Notice
  BY LenProperties, ElementOfSeq
<1>2. OfKind(s)[k] = FlattenSeq(seqs)
  BY DEF OfKind
<1>3. /\ DOMAIN seqs = 1..n
      /\ \A i \in 1..n : seqs[i] = IF s[i].kind = k THEN <<s[i]>> ELSE <<>>
  BY <1>1
<1>4. \A i \in 1..n : seqs[i] \in Seq(Notice)
  BY <1>1, <1>3
<1>5. seqs \in Seq(Seq(Notice)) /\ Len(seqs) = n
  <2>1. seqs = [i \in 1..n |-> seqs[i]]
    BY <1>1
  <2> HIDE DEF seqs, n
  <2>2. seqs \in Seq(Seq(Notice))
    BY <1>1, <1>4, <2>1, IsASeq
  <2> QED
    BY <1>1, <1>3, <2>2, LenProperties
<1> HIDE DEF seqs, n
<1>6. PICK F : /\ F[0] = <<>>
               /\ \A i \in 1..n : F[i] = F[i - 1] \o seqs[i]
               /\ \A i \in 0..n :
                     /\ F[i] \in Seq(Notice)
                     /\ \A x : x \in ToSet(F[i]) => \E j \in 1..i : x \in ToSet(seqs[j])
               /\ FlattenSeq(seqs) = F[n]
  BY <1>5, FlattenSteps
<1>7. \A i \in 1..n : \A x : x \in ToSet(seqs[i]) <=> s[i].kind = k /\ x = s[i]
  <2> SUFFICES ASSUME NEW i \in 1..n
               PROVE  \A x : x \in ToSet(seqs[i]) <=> s[i].kind = k /\ x = s[i]
    BY Zenon
  <2>1. ToSet(<<s[i]>>) = {s[i]} /\ ToSet(<<>>) = {}
    BY DEF ToSet
  <2> QED
    BY <1>3, <2>1
<1>8. ToSet(FlattenSeq(seqs)) = {x \in ToSet(s) : x.kind = k}
  <2>1. ToSet(FlattenSeq(seqs)) = UNION {ToSet(seqs[i]) : i \in DOMAIN seqs}
    BY <1>5, FlattenKeeps
  <2>2. \A x : x \in ToSet(s) <=> \E i \in 1..n : x = s[i]
    BY <1>1 DEF ToSet
  <2> HIDE DEF ToSet
  <2> QED
    BY <1>3, <1>7, <2>1, <2>2
<1>9. \A i \in 0..n : Rising(F[i])
  <2> DEFINE Bad == {i \in 0..n : ~Rising(F[i])}
  <2>1. SUFFICES ASSUME Bad # {} PROVE FALSE
    BY Zenon
  <2>2. PICK i \in Bad : \A j \in Bad : i <= j
    <3>1. Bad \in SUBSET Nat
      BY <1>1
    <3> HIDE DEF Bad
    <3> QED
      BY <2>1, <3>1, LeastNatural
  <2>3. Rising(F[0])
    BY <1>6 DEF Rising
  <2>4. CASE i # 0
    <3>1. i \in 1..n /\ i - 1 \in 0..n /\ i - 1 < i /\ i \in Nat
      BY <1>1, <2>4
    <3>2. Rising(F[i - 1])
      <4>1. i - 1 \notin Bad
        <5> HIDE DEF Bad
        <5> QED
          BY <2>2, <3>1
      <4> QED
        BY <3>1, <4>1
    <3>3. F[i] = F[i - 1] \o seqs[i] /\ F[i - 1] \in Seq(Notice) /\ seqs[i] \in Seq(Notice)
      BY <1>4, <1>6, <3>1
    <3>4. \A x \in ToSet(F[i - 1]), y \in ToSet(seqs[i]) : x.number < y.number
      <4> SUFFICES ASSUME NEW x \in ToSet(F[i - 1]), NEW y \in ToSet(seqs[i])
                   PROVE  x.number < y.number
        OBVIOUS
      <4>1. PICK j \in 1..(i - 1) : x \in ToSet(seqs[j])
        BY <1>6, <3>1
      <4>2. j \in 1..n /\ j < i
        BY <1>1, <3>1
      <4>3. x = s[j] /\ s[j].kind = k /\ y = s[i] /\ s[i].kind = k
        BY <1>7, <3>1, <4>1, <4>2
      <4> QED
        BY <1>1, <3>1, <4>2, <4>3 DEF KindOrder
    <3>5. Rising(seqs[i])
      BY <1>3, <3>1 DEF Rising
    <3>6. Rising(F[i])
      BY <3>2, <3>3, <3>4, <3>5, ConcatOrder
    <3> QED
      BY <3>6
  <2> QED
    BY <2>3, <2>4
<1>10. n \in 0..n
  BY <1>1
<1> QED
  BY <1>2, <1>6, <1>8, <1>9, <1>10

\* All the notices pushed that come before one of these, of its kind, are
\* among them
Takes(pushes, s) ==
    /\ KindOrder(s)
    /\ ToSet(s) \subseteq ToSet(pushes)
    /\ \A m \in ToSet(s), n \in ToSet(pushes) :
          n.kind = m.kind /\ n.number < m.number => n \in ToSet(s)

(***************************************************************************)
(* That is what the order of delivery promises.                            *)
(***************************************************************************)
LEMMA TakesPrefix ==
    ASSUME NEW s \in Seq(Notice), NEW t \in Seq(Notice), KindOrder(t), Takes(t, s),
           NEW k \in NoticeKinds
    PROVE  IsPrefix(OfKind(s)[k], OfKind(t)[k])
<1> DEFINE a == OfKind(s)[k]
           c == OfKind(t)[k]
<1>1. /\ a \in Seq(Notice) /\ Rising(a)
      /\ ToSet(a) = {n \in ToSet(s) : n.kind = k}
  BY OfKindIs DEF Takes
<1>2. /\ c \in Seq(Notice) /\ Rising(c)
      /\ ToSet(c) = {n \in ToSet(t) : n.kind = k}
  BY OfKindIs
<1> HIDE DEF a, c
<1>3. /\ ToSet(a) \subseteq ToSet(c)
      /\ \A m \in ToSet(a), n \in ToSet(c) : n.number < m.number => n \in ToSet(a)
  BY <1>1, <1>2 DEF Takes
<1>4. IsPrefix(a, c)
  BY <1>1, <1>2, <1>3, NoticesHaveNumbers, RisingPrefix
<1> QED
  BY <1>4 DEF a, c

(***************************************************************************)
(* What is in order is so kind by kind.                                    *)
(***************************************************************************)
LEMMA RisingIsKindOrder ==
    ASSUME NEW s, Rising(s)
    PROVE  KindOrder(s)
BY DEF Rising, KindOrder

(***************************************************************************)
(* A notice that is appended comes at the end of its kind.                 *)
(***************************************************************************)
LEMMA OfKindAppend ==
    ASSUME NEW s \in Seq(Notice), NEW n \in Notice, Rising(s), Rising(Append(s, n))
    PROVE  OfKind(Append(s, n)) = [OfKind(s) EXCEPT ![n.kind] = Append(@, n)]
<1> DEFINE t == Append(s, n)
           a == OfKind(s)
           c == OfKind(t)
<1>1. /\ t \in Seq(Notice)
      /\ ToSet(t) = ToSet(s) \cup {n}
      /\ KindOrder(s) /\ KindOrder(t)
      /\ n.kind \in NoticeKinds
  <2>1. t \in Seq(Notice) /\ ToSet(t) = ToSet(s) \cup {n}
    BY AppendProperties, ToSetProperties
  <2>2. n.kind \in NoticeKinds
    BY DEF Notice
  <2>3. KindOrder(s) /\ KindOrder(t)
    BY RisingIsKindOrder
  <2> QED
    BY <2>1, <2>2, <2>3
<1>2. \A k \in NoticeKinds : /\ a[k] \in Seq(Notice) /\ Rising(a[k])
                             /\ ToSet(a[k]) = {m \in ToSet(s) : m.kind = k}
  BY <1>1, OfKindIs
<1>3. \A k \in NoticeKinds : /\ c[k] \in Seq(Notice) /\ Rising(c[k])
                             /\ ToSet(c[k]) = {m \in ToSet(t) : m.kind = k}
  <2> HIDE DEF t
  <2> QED
    BY <1>1, OfKindIs
<1>4. a = [k \in NoticeKinds |-> a[k]] /\ c = [k \in NoticeKinds |-> c[k]]
  BY DEF OfKind
<1>5. \A m \in ToSet(s) : m.number < n.number
  <2>1. /\ Len(s) \in Nat /\ DOMAIN s = 1..Len(s) /\ DOMAIN t = 1..(Len(s) + 1)
        /\ \A i \in 1..Len(s) : t[i] = s[i]
        /\ t[Len(s) + 1] = n
    BY LenProperties, AppendProperties
  <2>2. \A m \in ToSet(s) : \E i \in 1..Len(s) : m = t[i]
    BY <2>1 DEF ToSet
  <2>3. \A i \in 1..Len(s) : i < Len(s) + 1 /\ i \in DOMAIN t /\ Len(s) + 1 \in DOMAIN t
    BY <2>1
  <2> HIDE DEF t
  <2> QED
    BY <2>1, <2>2, <2>3 DEF Rising, t
<1> HIDE DEF t, a, c
<1>6. ASSUME NEW k \in NoticeKinds \ {n.kind} PROVE c[k] = a[k]
  <2>1. /\ ToSet(a[k]) = {m \in ToSet(s) : m.kind = k}
        /\ ToSet(c[k]) = {m \in ToSet(s) \cup {n} : m.kind = k}
    BY <1>1, <1>2, <1>3
  <2>2. ToSet(c[k]) = ToSet(a[k])
    <3> HIDE DEF ToSet
    <3> QED
      BY <1>6, <2>1
  <2> QED
    BY <1>2, <1>3, <2>2, NoticesHaveNumbers, RisingUnique
<1>7. c[n.kind] = Append(a[n.kind], n)
  <2> DEFINE r == a[n.kind] \o <<n>>
  <2>1. /\ a[n.kind] \in Seq(Notice) /\ Rising(a[n.kind])
        /\ ToSet(a[n.kind]) = {m \in ToSet(s) : m.kind = n.kind}
    BY <1>1, <1>2
  <2>2. /\ c[n.kind] \in Seq(Notice) /\ Rising(c[n.kind])
        /\ ToSet(c[n.kind]) = {m \in ToSet(t) : m.kind = n.kind}
    BY <1>1, <1>3
  <2>3. r = Append(a[n.kind], n)
    BY <2>1, AppendIsConcat
  <2>4. ToSet(<<n>>) = {n} /\ <<n>> \in Seq(Notice) /\ Rising(<<n>>)
    BY DEF ToSet, Rising
  <2>5. Rising(r)
    BY <1>5, <2>1, <2>4, ConcatOrder
  <2>6. ToSet(r) = ToSet(a[n.kind]) \cup {n}
    <3> HIDE DEF r
    <3> QED
      BY <2>1, <2>3, ToSetProperties
  <2>7. r \in Seq(Notice)
    BY <2>1, <2>4, ConcatProperties
  <2> HIDE DEF r
  <2>8. ToSet(r) = ToSet(c[n.kind])
    BY <1>1, <2>1, <2>2, <2>6
  <2>9. r = c[n.kind]
    BY <2>2, <2>5, <2>7, <2>8, NoticesHaveNumbers, RisingUnique
  <2> QED
    BY <2>3, <2>9
<1>8. c = [a EXCEPT ![n.kind] = Append(@, n)]
  BY <1>1, <1>4, <1>6, <1>7
<1> QED
  BY <1>8 DEF a, c, t

(***************************************************************************)
(* The notice that Tornado takes from RabbitMQ comes before the others.    *)
(***************************************************************************)
LEMMA RisingTail ==
    ASSUME NEW s \in Seq(Notice), s # <<>>, Rising(s)
    PROVE  /\ Head(s) \in ToSet(s)
           /\ ToSet(Tail(s)) \subseteq ToSet(s)
           /\ Rising(Tail(s))
           /\ \A n \in ToSet(Tail(s)) : Head(s).number < n.number
<1> DEFINE t == Tail(s)
<1>1. /\ Len(s) \in Nat /\ Len(s) # 0 /\ DOMAIN s = 1..Len(s)
      /\ t \in Seq(Notice)
      /\ Len(t) = Len(s) - 1
      /\ DOMAIN t = 1..Len(t)
      /\ \A i \in 1..Len(t) : t[i] = s[i + 1]
      /\ Head(s) = s[1]
  <2>1. Len(s) \in Nat /\ Len(s) # 0 /\ DOMAIN s = 1..Len(s)
    BY LenProperties, EmptySeq, SeqEqual
  <2>2. t \in Seq(Notice) /\ Len(t) = Len(s) - 1 /\ \A i \in 1..Len(t) : t[i] = s[i + 1]
    BY HeadTailProperties
  <2> QED
    BY <2>1, <2>2, LenProperties
<1> HIDE DEF t
<1>2. /\ 1 \in DOMAIN s
      /\ \A i \in 1..Len(t) : i + 1 \in DOMAIN s /\ 1 < i + 1
      /\ \A i, j \in 1..Len(t) : i < j => i + 1 < j + 1
  <2> DEFINE l == Len(s)
             k == Len(t)
  <2>1. l \in Nat /\ l # 0 /\ k = l - 1 /\ DOMAIN s = 1..l
    BY <1>1
  <2> HIDE DEF l, k
  <2>2. /\ 1 \in 1..l
        /\ \A i \in 1..k : i + 1 \in 1..l /\ 1 < i + 1
        /\ \A i, j \in 1..k : i < j => i + 1 < j + 1
    BY <2>1
  <2> QED
    BY <2>1, <2>2 DEF l, k
<1>3. Head(s) \in ToSet(s) /\ ToSet(t) \subseteq ToSet(s)
  BY <1>1, <1>2 DEF ToSet
<1>4. Rising(t)
  BY <1>1, <1>2 DEF Rising
<1>5. \A n \in ToSet(t) : \E i \in 1..Len(t) : n = s[i + 1]
  BY <1>1 DEF ToSet
<1>6. \A n \in ToSet(t) : Head(s).number < n.number
  BY <1>1, <1>2, <1>5 DEF Rising
<1> QED
  BY <1>3, <1>4, <1>6 DEF t

\* Notices are numbered in the order in which they are published, and stay in
\* it on their way through RabbitMQ
PushedInOrder ==
    /\ Rising(rabbit)
    /\ \A n \in ToSet(rabbit) : n.number <= published
    /\ \A q \in QueueIds :
          /\ Rising(pushed[q])
          /\ \A m \in ToSet(pushed[q]) :
                /\ m.number <= published
                /\ \A n \in ToSet(rabbit) : m.number < n.number

(***************************************************************************)
(* The steps by which notices move.                                        *)
(***************************************************************************)
LEMMA MovingSteps ==
    ASSUME [Next]_vars
    PROVE  \/ Publish
           \/ ProcessNotification
           \/ \E b \in Browsers : Receive(b)
           \/ Stop
           \/ UNCHANGED <<rabbit, published, pushed, got, cut>>
<1>1. CASE UNCHANGED vars
  BY <1>1 DEF vars, broker, history
<1>2. CASE Next
  <2>1. CASE \E q \in QueueIds : Heartbeat(q)
    BY <2>1 DEF Heartbeat, broker, history
  <2>2. CASE \E queues \in SUBSET DOMAIN clients : GcEventQueues(queues)
    BY <2>2 DEF GcEventQueues, broker, history
  <2>3. CASE \E h \in HandlerIds : OnConnectionClose(h)
    BY <2>3 DEF OnConnectionClose, broker, history
  <2>4. CASE DumpEventQueues \/ SetupEventQueue
    BY <2>4 DEF DumpEventQueues, SetupEventQueue, broker, history
  <2>5. CASE \E b \in Browsers : Register(b)
    BY <2>5 DEF Register, broker, history
  <2>6. CASE \E b \in Browsers, h \in HandlerIds, alive \in BOOLEAN :
                \/ FetchUnknownQueue(b, h, alive)
                \/ FetchRefused(b, h, alive)
                \/ \E dont_block \in BOOLEAN : FetchEvents(b, h, alive, dont_block)
    <3>1. PICK b \in Browsers, h \in HandlerIds, alive \in BOOLEAN : Request(b, h, alive)
      BY <2>6 DEF FetchUnknownQueue, FetchRefused, FetchEvents
    <3> QED
      BY <3>1 DEF Request, broker, history
  <2>7. CASE \E b \in Browsers : Abort(b) \/ CleanupEventQueue(b) \/ Leave(b)
    BY <2>7 DEF Abort, CleanupEventQueue, Leave, broker, history
  <2> QED
    BY <1>2, <2>1, <2>2, <2>3, <2>4, <2>5, <2>6, <2>7, NextCases
<1> QED
  BY <1>1, <1>2

(***************************************************************************)
(* No step publishes, consumes or pushes a notice out of turn.             *)
(***************************************************************************)
LEMMA PushedStep ==
    ASSUME TInv, PushedInOrder, [Next]_vars
    PROVE  PushedInOrder'
<1>1. /\ rabbit \in Seq(Notice)
      /\ published \in Nat
      /\ pushed \in [QueueIds -> Seq(Notice)]
  BY DEF TInv, TypeOK
<1>2. \A q \in QueueIds : \A m \in ToSet(pushed[q]) : m.number \in Int
  BY <1>1, ToSetProperties, NoticesHaveNumbers DEF HaveNumbers
<1>3. \A n \in ToSet(rabbit) : n.number \in Int
  BY <1>1, ToSetProperties, NoticesHaveNumbers DEF HaveNumbers
<1>4. CASE UNCHANGED <<rabbit, published, pushed>>
  BY <1>4 DEF PushedInOrder
<1>5. CASE Publish
  <2>1. pushed' = pushed /\ published' = published + 1
    BY <1>5 DEF Publish, history
  <2>2. PICK kind \in NoticeKinds :
           rabbit' = Append(rabbit, [number |-> published + 1, kind |-> kind])
    BY <1>5, <2>1 DEF Publish
  <2> DEFINE notice == [number |-> published + 1, kind |-> kind]
  <2>3. notice \in Notice
    <3>1. bound \in Bounds /\ published < bound.notices /\ published + 1 \in 1..bound.notices
      BY <1>1, <1>5, BoundsHold DEF Publish, TInv, TypeOK
    <3> QED
      BY <3>1, BoundsHold
  <2>4. notice.number = published + 1
    OBVIOUS
  <2> HIDE DEF notice
  <2>5. /\ rabbit' = rabbit \o <<notice>>
        /\ ToSet(rabbit') = ToSet(rabbit) \cup {notice}
    BY <1>1, <2>2, <2>3, AppendIsConcat, ToSetProperties DEF notice
  <2>6. ToSet(<<notice>>) = {notice} /\ <<notice>> \in Seq(Notice) /\ Rising(<<notice>>)
    BY <2>3 DEF ToSet, Rising
  <2>7. Rising(rabbit')
    <3>1. \A m \in ToSet(rabbit), n \in ToSet(<<notice>>) : m.number < n.number
      BY <1>1, <1>3, <2>4, <2>6 DEF PushedInOrder
    <3>2. Rising(rabbit)
      BY DEF PushedInOrder
    <3>3. Rising(rabbit \o <<notice>>)
      BY <1>1, <2>6, <3>1, <3>2, ConcatOrder
    <3> QED
      BY <2>5, <3>3
  <2>8. \A n \in ToSet(rabbit') : n.number <= published + 1
    BY <1>1, <1>3, <2>4, <2>5 DEF PushedInOrder
  <2>9. ASSUME NEW q \in QueueIds, NEW m \in ToSet(pushed[q])
        PROVE  m.number <= published + 1 /\ \A n \in ToSet(rabbit') : m.number < n.number
    <3>1. m.number <= published /\ \A n \in ToSet(rabbit) : m.number < n.number
      BY DEF PushedInOrder
    <3>2. m.number \in Int
      BY <1>2
    <3> QED
      BY <1>1, <2>4, <2>5, <3>1, <3>2
  <2> QED
    BY <2>1, <2>7, <2>8, <2>9 DEF PushedInOrder
<1>6. CASE ProcessNotification
  <2> DEFINE notice == Head(rabbit)
             t == Tail(rabbit)
  <2>1. rabbit # <<>> /\ rabbit' = t /\ published' = published
    BY <1>6 DEF ProcessNotification
  <2>2. \A q \in QueueIds : pushed'[q] = pushed[q] \/ pushed'[q] = Append(pushed[q], notice)
    BY <1>6 DEF ProcessNotification
  <2>3. notice \in Notice
    BY <1>1, <2>1, HeadTailProperties
  <2>4. /\ notice \in ToSet(rabbit)
        /\ ToSet(t) \subseteq ToSet(rabbit)
        /\ Rising(t)
        /\ \A n \in ToSet(t) : notice.number < n.number
    BY <1>1, <2>1, RisingTail DEF PushedInOrder
  <2> HIDE DEF notice, t
  <2>5. ASSUME NEW q \in QueueIds
        PROVE  /\ Rising(pushed'[q])
               /\ \A m \in ToSet(pushed'[q]) : m \in ToSet(pushed[q]) \/ m = notice
    <3>1. /\ Rising(pushed[q])
          /\ \A m \in ToSet(pushed[q]) : m.number < notice.number
      BY <2>4 DEF PushedInOrder
    <3>2. pushed[q] \in Seq(Notice)
      BY <1>1
    <3>3. CASE pushed'[q] = Append(pushed[q], notice)
      <4>1. ToSet(<<notice>>) = {notice} /\ <<notice>> \in Seq(Notice) /\ Rising(<<notice>>)
        BY <2>3 DEF ToSet, Rising
      <4>2. Rising(pushed[q] \o <<notice>>)
        BY <3>1, <3>2, <4>1, ConcatOrder
      <4>3. pushed'[q] = pushed[q] \o <<notice>>
        BY <2>3, <3>2, <3>3, AppendIsConcat
      <4>4. ToSet(pushed'[q]) = ToSet(pushed[q]) \cup {notice}
        BY <2>3, <3>2, <3>3, ToSetProperties
      <4> QED
        BY <4>2, <4>3, <4>4
    <3> QED
      BY <2>2, <3>1, <3>3
  <2>6. ASSUME NEW q \in QueueIds, NEW m \in ToSet(pushed'[q])
        PROVE  m.number <= published /\ \A n \in ToSet(t) : m.number < n.number
    BY <2>4, <2>5, <2>6 DEF PushedInOrder
  <2> QED
    BY <2>1, <2>4, <2>5, <2>6 DEF PushedInOrder
<1>7. CASE (\E b \in Browsers : Receive(b)) \/ Stop
  BY <1>4, <1>7 DEF Receive, Stop, broker
<1> QED
  BY <1>4, <1>5, <1>6, <1>7, MovingSteps

-----------------------------------------------------------------------------
(* A notice that is pushed comes behind everything.                        *)

\* What a queue holds for its page: notices that were pushed, in order
HoldsOf(pushes, e) ==
    Sorted(e) /\ \A x \in Events(e) : ToSet(x.of) \subseteq ToSet(pushes)

(***************************************************************************)
(* Who has taken what was pushed before it still has when a later notice   *)
(* is pushed.                                                              *)
(***************************************************************************)
LEMMA TakesMore ==
    ASSUME NEW p \in Seq(Notice), NEW n \in Notice,
           \A m \in ToSet(p) : m.number < n.number,
           NEW s, Takes(p, s)
    PROVE  Takes(Append(p, n), s)
<1>1. ToSet(Append(p, n)) = ToSet(p) \cup {n}
  BY ToSetProperties
<1>2. \A m \in ToSet(p) : m.number \in Int
  BY ToSetProperties, NoticesHaveNumbers DEF HaveNumbers
<1>3. n.number \in Int
  BY NoticesHaveNumbers DEF HaveNumbers
<1>4. \A m \in ToSet(s) : ~(n.number < m.number)
  BY <1>2, <1>3 DEF Takes
<1> QED
  BY <1>1, <1>4 DEF Takes

(***************************************************************************)
(* A queue into which later notices are pushed holds them in order.        *)
(***************************************************************************)
LEMMA PushHolds ==
    ASSUME NEW e, IsQueue(Notice, e), Ordered(e), NEW p, NEW r, HoldsOf(p, e),
           NEW kind \in Kinds, NEW of \in Seq(Notice),
           KindOrder(of), \A n \in ToSet(of) : n.kind = kind,
           \A m \in ToSet(p), n \in ToSet(of) : m.number < n.number,
           ToSet(r) = ToSet(p) \cup ToSet(of)
    PROVE  HoldsOf(r, Push(e, kind, of))
<1> DEFINE f == Push(e, kind, of)
<1>1. Sorted(f)
  BY PushSorted DEF HoldsOf
<1>2. Adds(f, e, of)
  BY PushKeeps
<1> HIDE DEF f
<1>3. \A x \in Events(f) : ToSet(x.of) \subseteq ToSet(r)
  <2> SUFFICES ASSUME NEW x \in Events(f), NEW n \in ToSet(x.of) PROVE n \in ToSet(r)
    OBVIOUS
  <2>1. n \in ToSet(of) \/ \E y \in Events(e) : n \in ToSet(y.of)
    BY <1>2 DEF Adds
  <2> QED
    BY <2>1 DEF HoldsOf
<1> QED
  BY <1>1, <1>3 DEF HoldsOf, f

\* Events that stand for nothing seen still do so
KeepsApart(e, f, seen) ==
    \A ids : Apart(e, ids, seen) /\ (\A i \in ids, v \in e.virtual_events : i < v.id)
                => Apart(f, ids, seen)

(***************************************************************************)
(* The order of a queue outlasts every step that changes it.               *)
(***************************************************************************)
LEMMA PutsOrders ==
    ASSUME TInv, PushedInOrder, NEW q \in DOMAIN clients,
           HoldsOf(pushed[q], clients[q].event_queue), NEW p, Puts(q, p)
    PROVE  /\ HoldsOf(pushed'[q], p)
           /\ \A seen \in SUBSET ToSet(pushed[q]) : KeepsApart(clients[q].event_queue, p, seen)
           /\ \A s : Takes(pushed[q], s) => Takes(pushed'[q], s)
<1> DEFINE e == clients[q].event_queue
           notice == Head(rabbit)
<1>1. IsQueue(Notice, e) /\ Ordered(e)
  BY DEF TInv, Kept
<1>2. q \in QueueIds /\ pushed[q] \in Seq(Notice)
  BY QueueIdsOf DEF TInv, TypeOK
<1>3. HoldsOf(pushed[q], e)
  OBVIOUS
<1> HIDE DEF e
<1>4. CASE p = e /\ pushed'[q] = pushed[q]
  BY <1>3, <1>4 DEF KeepsApart, e
<1>5. CASE /\ \E kind \in {"heartbeat", "restart"} : p = Push(e, kind, <<>>)
           /\ pushed'[q] = pushed[q]
  <2>1. PICK kind \in {"heartbeat", "restart"} : p = Push(e, kind, <<>>)
    BY <1>5
  <2>2. kind \in Kinds /\ <<>> \in Seq(Notice) /\ ToSet(<<>>) = {} /\ KindOrder(<<>>)
    BY EmptySeq DEF Kinds, ToSet, KindOrder
  <2>3. HoldsOf(pushed[q], p)
    BY <1>1, <1>3, <2>1, <2>2, PushHolds
  <2>4. \A seen \in SUBSET ToSet(pushed[q]) : KeepsApart(e, p, seen)
    BY <1>1, <2>1, <2>2, PushApart DEF KeepsApart
  <2> QED
    BY <1>5, <2>3, <2>4 DEF e
<1>6. CASE /\ rabbit # <<>>
           /\ p = Push(e, notice.kind, <<notice>>)
           /\ pushed'[q] = Append(pushed[q], notice)
  <2>1. /\ notice \in Notice /\ notice.kind \in Kinds /\ <<notice>> \in Seq(Notice)
        /\ ToSet(<<notice>>) = {notice} /\ KindOrder(<<notice>>)
    <3>1. notice \in Notice /\ notice.kind \in Kinds /\ <<notice>> \in Seq(Notice)
      BY <1>6, RabbitHead DEF TInv
    <3> HIDE DEF notice
    <3> QED
      BY <3>1 DEF ToSet, KindOrder
  <2>2. notice \in ToSet(rabbit)
    BY <1>6, RisingTail DEF PushedInOrder, TInv, TypeOK
  <2>3. \A m \in ToSet(pushed[q]) : m.number < notice.number
    BY <1>2, <2>2 DEF PushedInOrder
  <2> HIDE DEF notice
  <2>4. ToSet(pushed'[q]) = ToSet(pushed[q]) \cup {notice}
    BY <1>2, <1>6, <2>1, ToSetProperties
  <2>5. notice \notin ToSet(pushed[q])
    <3>1. notice.number \in Int
      BY <2>1, NoticesHaveNumbers DEF HaveNumbers
    <3> QED
      BY <2>3, <3>1
  <2>6. HoldsOf(pushed'[q], p)
    BY <1>1, <1>3, <1>6, <2>1, <2>3, <2>4, PushHolds
  <2>7. \A seen \in SUBSET ToSet(pushed[q]) : KeepsApart(e, p, seen)
    <3> SUFFICES ASSUME NEW seen \in SUBSET ToSet(pushed[q]), NEW ids, Apart(e, ids, seen),
                        \A i \in ids, v \in e.virtual_events : i < v.id
                 PROVE  Apart(p, ids, seen)
      BY DEF KeepsApart
    <3>1. ToSet(<<notice>>) \cap seen = {}
      BY <2>1, <2>5
    <3>2. Apart(Push(e, notice.kind, <<notice>>), ids, seen)
      BY <1>1, <2>1, <3>1, PushApart
    <3> QED
      BY <1>6, <3>2
  <2>8. \A s : Takes(pushed[q], s) => Takes(pushed'[q], s)
    BY <1>2, <1>6, <2>1, <2>3, TakesMore
  <2> QED
    BY <2>6, <2>7, <2>8 DEF e
<1> QED
  BY <1>4, <1>5, <1>6 DEF Puts, e

(***************************************************************************)
(* The answer that holds all of a queue continues what its page has.       *)
(***************************************************************************)
LEMMA AnswerTakes ==
    ASSUME NEW e, IsQueue(Notice, e), Ordered(e), e.virtual_events = {},
           NEW p, HoldsOf(p, e),
           NEW s \in Seq(Notice), Takes(p, s),
           NEW last, Apart(e, {last}, ToSet(s)),
           \A y \in ToSet(e.queue) : last < y.id,
           ToSet(p) \subseteq ToSet(s) \cup Held(e)
    PROVE  /\ Takes(p, s \o NoticesOf(e.queue))
           /\ ToSet(s) \cap ToSet(NoticesOf(e.queue)) = {}
<1> DEFINE a == NoticesOf(e.queue)
<1>1. /\ e.queue \in Seq(Event(Notice))
      /\ Events(e) = ToSet(e.queue)
  BY QueueFields DEF Events
<1>2. a \in Seq(Notice) /\ ToSet(a) = UNION {ToSet(x.of) : x \in ToSet(e.queue)}
  BY <1>1, NoticesAre
<1>3. ToSet(a) = Held(e)
  BY <1>1, <1>2, HeldAre
<1>4. KindOrder(a)
  BY NoticesInOrder DEF HoldsOf
<1> HIDE DEF a
<1>5. ToSet(s) \cap ToSet(a) = {}
  <2> SUFFICES ASSUME NEW n \in ToSet(a) PROVE n \notin ToSet(s)
    OBVIOUS
  <2>1. PICK x \in ToSet(e.queue) : n \in ToSet(x.of)
    BY <1>2
  <2> QED
    BY <1>1, <2>1 DEF Apart
<1>6. ToSet(a) \subseteq ToSet(p)
  BY <1>1, <1>2 DEF HoldsOf
<1>7. ToSet(s) \subseteq Notice /\ ToSet(a) \subseteq Notice
  BY <1>2, ToSetProperties
<1>8. \A m, n \in Notice :
         /\ m.number \in Int /\ n.number \in Int
         /\ m.number = n.number /\ m.kind = n.kind => m = n
  BY NoticesHaveNumbers DEF HaveNumbers, Notice
<1>9. ASSUME NEW m \in ToSet(s), NEW n \in ToSet(a), m.kind = n.kind
      PROVE  m.number < n.number
  <2>1. m \in Notice /\ n \in Notice /\ m # n /\ n \notin ToSet(s)
    BY <1>5, <1>7
  <2>2. ~(n.number < m.number)
    BY <1>6, <1>9, <2>1 DEF Takes
  <2> QED
    BY <1>8, <1>9, <2>1, <2>2
<1>10. KindOrder(s \o a)
  BY <1>2, <1>4, <1>9, ConcatOrder DEF Takes
<1>11. ToSet(s \o a) = ToSet(s) \cup ToSet(a)
  BY <1>2, ToSetConcat
<1>12. ToSet(s \o a) = ToSet(p)
  BY <1>3, <1>6, <1>11 DEF Takes
<1>13. Takes(p, s \o a)
  BY <1>10, <1>12 DEF Takes
<1> QED
  BY <1>5, <1>13 DEF a

(***************************************************************************)
(* A step that changed a queue kept its order.                             *)
(***************************************************************************)
LEMMA GrownOrders ==
    ASSUME TInv, TInv', PushedInOrder, NEW q \in DOMAIN clients, q \in DOMAIN clients',
           Grown(q), HoldsOf(pushed[q], clients[q].event_queue)
    PROVE  /\ HoldsOf(pushed'[q], clients'[q].event_queue)
           /\ \A seen \in SUBSET ToSet(pushed[q]) :
                 KeepsApart(clients[q].event_queue, clients'[q].event_queue, seen)
<1> DEFINE e == clients[q].event_queue
           f == clients'[q].event_queue
<1>1. PICK p : /\ Puts(q, p)
               /\ Events(f) \subseteq Events(p)
               /\ f.virtual_events \in {{}, p.virtual_events}
  BY DEF Grown
<1>2. /\ HoldsOf(pushed'[q], p)
      /\ \A seen \in SUBSET ToSet(pushed[q]) : KeepsApart(e, p, seen)
  BY <1>1, PutsOrders
<1>3. Ordered(f)
  BY DEF TInv, Kept
<1> HIDE DEF e, f
<1>4. /\ Sorted(p) => Sorted(f)
      /\ \A ids, seen : Apart(p, ids, seen) => Apart(f, ids, seen)
  BY <1>1, <1>3, PartSorted
<1>5. HoldsOf(pushed'[q], f)
  BY <1>1, <1>2, <1>4 DEF HoldsOf
<1>6. \A seen \in SUBSET ToSet(pushed[q]) : KeepsApart(e, f, seen)
  BY <1>2, <1>4 DEF KeepsApart
<1> QED
  BY <1>5, <1>6 DEF e, f

(***************************************************************************)
(* What a page took stays taken when more is pushed.                       *)
(***************************************************************************)
LEMMA GrownTakes ==
    ASSUME TInv, PushedInOrder, NEW q \in DOMAIN clients, q \in DOMAIN clients', Grown(q)
    PROVE  /\ \A s : Takes(pushed[q], s) => Takes(pushed'[q], s)
           /\ ToSet(pushed[q]) \subseteq ToSet(pushed'[q])
<1> DEFINE notice == Head(rabbit)
<1>1. q \in QueueIds /\ pushed[q] \in Seq(Notice) /\ rabbit \in Seq(Notice)
  BY QueueIdsOf DEF TInv, TypeOK
<1>2. \/ pushed'[q] = pushed[q]
      \/ rabbit # <<>> /\ pushed'[q] = Append(pushed[q], notice)
  BY DEF Grown, Puts
<1>3. CASE rabbit # <<>> /\ pushed'[q] = Append(pushed[q], notice)
  <2>1. notice \in Notice
    BY <1>1, <1>3, HeadTailProperties
  <2>2. notice \in ToSet(rabbit)
    BY <1>1, <1>3, RisingTail DEF PushedInOrder
  <2> HIDE DEF notice
  <2>3. \A m \in ToSet(pushed[q]) : m.number < notice.number
    BY <1>1, <2>2 DEF PushedInOrder
  <2>4. ToSet(pushed'[q]) = ToSet(pushed[q]) \cup {notice}
    BY <1>1, <1>3, <2>1, ToSetProperties
  <2> QED
    BY <1>1, <1>3, <2>1, <2>3, <2>4, TakesMore
<1> QED
  BY <1>2, <1>3

-----------------------------------------------------------------------------
(* The invariant.                                                          *)

\* What a page has, and what it will have with the answer on its way, is all
\* that was pushed before it
TakenInOrder ==
    /\ \A q \in QueueIds \ cut : Takes(pushed[q], got[q])
    /\ \A b \in Browsers :
          LET q == browser[b].queue_id IN
          q \in QueueIds \ cut => Takes(pushed[q], got[q] \o NoticesOf(InFlight(b)))

Ids(events) == {y.id : y \in ToSet(events)}

\* The events that a page did not acknowledge are new to it, as are those
\* behind the answer on its way
PageApart(b, e) ==
    /\ Apart(e, {browser[b].last_event_id}, ToSet(got[browser[b].queue_id]))
    /\ Apart(e, Ids(InFlight(b)), ToSet(NoticesOf(InFlight(b))))

LiveInOrder == \A q \in DOMAIN clients \ cut : HoldsOf(pushed[q], clients[q].event_queue)

SavedInOrder == \A q \in DOMAIN saved \ cut : HoldsOf(pushed[q], saved[q].event_queue)

LiveApart ==
    \A b \in Browsers :
       LET q == browser[b].queue_id IN
       q \in DOMAIN clients \ cut => PageApart(b, clients[q].event_queue)

SavedApart ==
    \A b \in Browsers :
       LET q == browser[b].queue_id IN
       q \in DOMAIN saved \ cut /\ Stays(q) => PageApart(b, saved[q].event_queue)

OrderInv ==
    /\ PushedInOrder
    /\ TakenInOrder
    /\ LiveInOrder
    /\ SavedInOrder
    /\ LiveApart
    /\ SavedApart

(***************************************************************************)
(* Nothing follows from an answer that is lost.                            *)
(***************************************************************************)
LEMMA NoAnswer ==
    ASSUME NEW s \in Seq(Notice), NEW e
    PROVE  /\ s \o NoticesOf(<<>>) = s
           /\ Apart(e, Ids(<<>>), ToSet(NoticesOf(<<>>)))
<1>1. NoticesOf(<<>>) = <<>>
  BY DEF NoticesOf, FlattenSeq
<1>2. ToSet(<<>>) = {}
  BY DEF ToSet
<1>3. s \o <<>> = s
  BY ConcatEmptySeq
<1> QED
  BY <1>1, <1>2, <1>3 DEF Apart

(***************************************************************************)
(* A page whose poll is answered in a step takes the answer in order.      *)
(***************************************************************************)
LEMMA AnsweredTakes ==
    ASSUME TInv, TInv', QueuesInv, QueuesInv', OrderInv, Smooth,
           NEW b \in Browsers, NEW q \in DOMAIN clients' \ cut, q = browser[b].queue_id,
           Answered(b)
    PROVE  /\ Takes(pushed'[q], got[q] \o NoticesOf(clients'[q].event_queue.queue))
           /\ ToSet(got[q]) \cap ToSet(NoticesOf(clients'[q].event_queue.queue)) = {}
           /\ clients'[q].event_queue.virtual_events = {}
<1> DEFINE e == clients[q].event_queue
           f == clients'[q].event_queue
           last == browser[b].last_event_id
<1>1. q \in DOMAIN clients /\ q \in DOMAIN clients' /\ Grown(q) /\ cut' = cut /\ got' = got
  BY DEF Smooth
<1>2. q \in QueueIds /\ got[q] \in Seq(Notice)
  BY <1>1, QueueIdsOf DEF TInv, TypeOK
<1>3. /\ HoldsOf(pushed'[q], f)
      /\ \A seen \in SUBSET ToSet(pushed[q]) : KeepsApart(e, f, seen)
  BY <1>1, GrownOrders DEF OrderInv, LiveInOrder
<1>4. Takes(pushed[q], got[q])
  BY <1>2 DEF OrderInv, TakenInOrder
<1>5. Takes(pushed'[q], got[q])
  BY <1>1, <1>4, GrownTakes DEF OrderInv
<1>6. Apart(e, {last}, ToSet(got[q]))
  BY <1>1 DEF OrderInv, LiveApart, PageApart
<1>7. \A i \in {last}, v \in e.virtual_events : i < v.id
  BY <1>1 DEF QueuesInv, LivePages, PageKnows, Knows, Covers
<1>8. IsQueue(Notice, f) /\ Ordered(f)
  BY DEF TInv, Kept
<1>9. f.virtual_events = {} /\ \A y \in ToSet(f.queue) : last < y.id
  BY DEF Answered
<1>10. ToSet(pushed'[q]) \subseteq ToSet(got[q]) \cup Held(f)
  BY <1>1 DEF QueuesInv, LiveQueues, Accounted
<1> HIDE DEF e, f, last
<1>11. Apart(f, {last}, ToSet(got[q]))
  BY <1>3, <1>4, <1>6, <1>7 DEF KeepsApart, Takes
<1>12. /\ Takes(pushed'[q], got[q] \o NoticesOf(f.queue))
       /\ ToSet(got[q]) \cap ToSet(NoticesOf(f.queue)) = {}
  BY <1>2, <1>3, <1>5, <1>8, <1>9, <1>10, <1>11, AnswerTakes
<1> QED
  BY <1>9, <1>12 DEF f

(***************************************************************************)
(* What a queue held of the notices pushed it still does when more are     *)
(* pushed.                                                                 *)
(***************************************************************************)
LEMMA HoldsMore ==
    ASSUME NEW p, NEW r, NEW e, ToSet(p) \subseteq ToSet(r), HoldsOf(p, e)
    PROVE  HoldsOf(r, e)
BY DEF HoldsOf

(***************************************************************************)
(* No event is behind the last of its own queue.                           *)
(***************************************************************************)
LEMMA OwnApart ==
    ASSUME NEW f, IsQueue(Notice, f), f.virtual_events = {},
           NEW e, \A x \in Events(e) :
                     x \in ToSet(f.queue) \/ ToSet(x.of) \cap ToSet(NoticesOf(f.queue)) = {}
    PROVE  Apart(e, Ids(f.queue), ToSet(NoticesOf(f.queue)))
<1>1. \A x \in ToSet(f.queue) : x.id \in Nat /\ x.id \in Ids(f.queue)
  BY QueueFields DEF Events, Ids
<1>2. \A i \in Nat : ~(i < i)
  OBVIOUS
<1>3. ASSUME NEW x \in Events(e), \A i \in Ids(f.queue) : i < x.id
      PROVE  ToSet(x.of) \cap ToSet(NoticesOf(f.queue)) = {}
  <2>1. x \notin ToSet(f.queue)
    BY <1>1, <1>2, <1>3
  <2> QED
    BY <2>1
<1> QED
  BY <1>3 DEF Apart

(***************************************************************************)
(* The answer on its way was pushed.                                       *)
(***************************************************************************)
LEMMA HandedIsPushed ==
    ASSUME TInv, TakenInOrder, NEW b \in Browsers, NEW q \in QueueIds \ cut,
           q = browser[b].queue_id
    PROVE  /\ ToSet(got[q]) \subseteq ToSet(pushed[q])
           /\ ToSet(NoticesOf(InFlight(b))) \subseteq ToSet(pushed[q])
           /\ got[q] \in Seq(Notice)
           /\ NoticesOf(InFlight(b)) \in Seq(Notice)
<1>1. InFlight(b) \in Seq(Event(Notice))
  BY InFlightType DEF TInv
<1>2. NoticesOf(InFlight(b)) \in Seq(Notice)
  BY <1>1, NoticesAre
<1>3. got[q] \in Seq(Notice)
  BY DEF TInv, TypeOK
<1>4. Takes(pushed[q], got[q]) /\ Takes(pushed[q], got[q] \o NoticesOf(InFlight(b)))
  BY DEF TakenInOrder
<1> DEFINE handed == NoticesOf(InFlight(b))
<1> HIDE DEF handed
<1>5. ToSet(got[q] \o handed) = ToSet(got[q]) \cup ToSet(handed)
  BY <1>2, <1>3, ToSetConcat DEF handed
<1>6. ToSet(got[q] \o handed) \subseteq ToSet(pushed[q])
  BY <1>4 DEF Takes, handed
<1> QED
  BY <1>2, <1>3, <1>5, <1>6 DEF handed

(***************************************************************************)
(* A step that changes queues and answers keeps the order.                 *)
(***************************************************************************)
LEMMA SmoothOrders ==
    ASSUME TInv, TInv', PollInv, QueuesInv, QueuesInv', OrderInv, PushedInOrder', Smooth
    PROVE  OrderInv'
<1>1. /\ UNCHANGED <<phase, saved, cut, got>>
      /\ DOMAIN clients' \subseteq DOMAIN clients
      /\ \A q \in DOMAIN clients' : Grown(q)
      /\ \A q \in QueueIds \ DOMAIN clients' : pushed'[q] = pushed[q]
  BY DEF Smooth
<1>2. \A b \in Browsers :
         browser'[b].queue_id # NoQueue =>
            /\ browser'[b].queue_id = browser[b].queue_id
            /\ browser'[b].last_event_id = browser[b].last_event_id
            /\ InFlight(b)' \in {<<>>, InFlight(b)} \/ Answered(b)
  BY DEF Smooth, Idle
<1>3. /\ DOMAIN clients \subseteq QueueIds
      /\ NoQueue \notin QueueIds
      /\ \A q \in DOMAIN saved : q \in QueueIds
  <2>1. DOMAIN clients \subseteq QueueIds /\ DOMAIN saved \subseteq QueueIds
    BY QueueIdsOf
  <2>2. NoQueue \notin QueueIds
    BY BoundsHold DEF TInv, TypeOK
  <2> QED
    BY <2>1, <2>2
<1>4. ASSUME NEW q \in QueueIds
      PROVE  /\ \A s : Takes(pushed[q], s) => Takes(pushed'[q], s)
             /\ ToSet(pushed[q]) \subseteq ToSet(pushed'[q])
  <2>1. CASE q \in DOMAIN clients'
    <3>1. Grown(q) /\ q \in DOMAIN clients
      BY <1>1, <2>1
    <3> QED
      BY <2>1, <3>1, GrownTakes DEF OrderInv
  <2>2. CASE q \notin DOMAIN clients'
    BY <1>1, <2>2
  <2> QED
    BY <2>1, <2>2
<1>5. LiveInOrder'
  <2> SUFFICES ASSUME NEW q \in DOMAIN clients' \ cut
               PROVE  HoldsOf(pushed'[q], clients'[q].event_queue)
    BY <1>1 DEF LiveInOrder
  <2>1. Grown(q) /\ q \in DOMAIN clients
    BY <1>1
  <2>2. HoldsOf(pushed[q], clients[q].event_queue)
    BY <2>1 DEF OrderInv, LiveInOrder
  <2> QED
    BY <2>1, <2>2, GrownOrders DEF OrderInv
<1>6. SavedInOrder'
  <2> SUFFICES ASSUME NEW q \in DOMAIN saved \ cut
               PROVE  HoldsOf(pushed'[q], saved[q].event_queue)
    BY <1>1 DEF SavedInOrder
  <2>1. HoldsOf(pushed[q], saved[q].event_queue) /\ q \in QueueIds
    BY <1>3 DEF OrderInv, SavedInOrder
  <2> QED
    BY <1>4, <2>1, HoldsMore
<1>7. ASSUME NEW b \in Browsers, NEW q \in QueueIds \ cut, q = browser'[b].queue_id
      PROVE  /\ browser[b].queue_id = q
             /\ browser'[b].last_event_id = browser[b].last_event_id
             /\ \/ InFlight(b)' = <<>>
                \/ InFlight(b)' = InFlight(b)
                \/ /\ Answered(b)
                   /\ q \in DOMAIN clients'
                   /\ InFlight(b)' = clients'[q].event_queue.queue
                   /\ Takes(pushed'[q], got[q] \o NoticesOf(clients'[q].event_queue.queue))
                   /\ ToSet(got[q]) \cap ToSet(NoticesOf(clients'[q].event_queue.queue)) = {}
                   /\ clients'[q].event_queue.virtual_events = {}
  <2>1. /\ browser[b].queue_id = q
        /\ browser'[b].last_event_id = browser[b].last_event_id
        /\ InFlight(b)' \in {<<>>, InFlight(b)} \/ Answered(b)
    BY <1>2, <1>3, <1>7
  <2>2. CASE Answered(b)
    <3>1. q \in DOMAIN clients' /\ InFlight(b)' = clients'[q].event_queue.queue
      BY <2>1, <2>2 DEF Answered
    <3>2. q \in DOMAIN clients' \ cut
      BY <3>1
    <3>3. /\ Takes(pushed'[q], got[q] \o NoticesOf(clients'[q].event_queue.queue))
          /\ ToSet(got[q]) \cap ToSet(NoticesOf(clients'[q].event_queue.queue)) = {}
          /\ clients'[q].event_queue.virtual_events = {}
      BY <2>1, <2>2, <3>2, AnsweredTakes
    <3> QED
      BY <2>1, <2>2, <3>1, <3>3
  <2> QED
    BY <2>1, <2>2
<1>8. TakenInOrder'
  <2>1. \A q \in QueueIds \ cut : Takes(pushed'[q], got[q])
    BY <1>4 DEF OrderInv, TakenInOrder
  <2>2. ASSUME NEW b \in Browsers, NEW q \in QueueIds \ cut, q = browser'[b].queue_id
        PROVE  Takes(pushed'[q], got[q] \o NoticesOf(InFlight(b)'))
    <3>1. got[q] \in Seq(Notice)
      BY DEF TInv, TypeOK
    <3>2. CASE InFlight(b)' = <<>>
      <4>1. got[q] \o NoticesOf(<<>>) = got[q]
        BY <3>1, NoAnswer
      <4> QED
        BY <2>1, <3>2, <4>1
    <3>3. CASE InFlight(b)' = InFlight(b)
      <4>1. Takes(pushed[q], got[q] \o NoticesOf(InFlight(b)))
        BY <1>7, <2>2 DEF OrderInv, TakenInOrder
      <4> QED
        BY <1>4, <3>3, <4>1
    <3> QED
      BY <1>7, <2>2, <3>2, <3>3
  <2> QED
    BY <1>1, <2>1, <2>2 DEF TakenInOrder
<1>9. LiveApart'
  <2> SUFFICES ASSUME NEW b \in Browsers, NEW q, q = browser'[b].queue_id,
                      q \in DOMAIN clients' \ cut
               PROVE  /\ Apart(clients'[q].event_queue, {browser'[b].last_event_id}, ToSet(got[q]))
                      /\ Apart(clients'[q].event_queue, Ids(InFlight(b)'),
                               ToSet(NoticesOf(InFlight(b)')))
    BY <1>1 DEF LiveApart, PageApart
  <2> DEFINE e == clients[q].event_queue
             f == clients'[q].event_queue
             last == browser[b].last_event_id
  <2>1. q \in QueueIds \ cut /\ q \in DOMAIN clients /\ Grown(q)
    BY <1>1, <1>3
  <2>2. browser[b].queue_id = q /\ browser'[b].last_event_id = last
    BY <1>7, <2>1
  <2>3. \A seen \in SUBSET ToSet(pushed[q]) : KeepsApart(e, f, seen)
    <3>1. HoldsOf(pushed[q], e)
      BY <2>1 DEF OrderInv, LiveInOrder
    <3> QED
      BY <2>1, <3>1, GrownOrders DEF OrderInv
  <2>4. /\ Apart(e, {last}, ToSet(got[q]))
        /\ Apart(e, Ids(InFlight(b)), ToSet(NoticesOf(InFlight(b))))
    BY <2>1, <2>2 DEF OrderInv, LiveApart, PageApart
  <2>5. Knows(e, last, ToSet(got[q]), InFlight(b))
    BY <2>1, <2>2 DEF QueuesInv, LivePages, PageKnows
  <2>6. /\ ToSet(got[q]) \subseteq ToSet(pushed[q])
        /\ ToSet(NoticesOf(InFlight(b))) \subseteq ToSet(pushed[q])
    BY <2>1, <2>2, HandedIsPushed DEF OrderInv
  <2>7. Apart(f, {last}, ToSet(got[q]))
    <3>1. \A v \in e.virtual_events : last < v.id
      BY <2>5 DEF Knows, Covers
    <3> HIDE DEF e, f, last
    <3> QED
      BY <2>3, <2>4, <2>6, <3>1 DEF KeepsApart
  <2>8. CASE InFlight(b)' = <<>>
    BY <2>2, <2>7, <2>8, NoAnswer, EmptySeq
  <2>9. CASE InFlight(b)' = InFlight(b)
    <3> DEFINE answer == InFlight(b)
               handed == ToSet(NoticesOf(answer))
    <3>1. \A i \in Ids(answer), v \in e.virtual_events : i < v.id
      BY <2>5 DEF Knows, Covers, Ids
    <3> HIDE DEF e, f, last
    <3>2. Apart(e, Ids(answer), handed) /\ KeepsApart(e, f, handed)
      BY <2>3, <2>4, <2>6
    <3> HIDE DEF answer, handed
    <3>3. Apart(f, Ids(answer), handed)
      BY <3>1, <3>2 DEF KeepsApart
    <3> QED
      BY <2>2, <2>7, <2>9, <3>3 DEF answer, handed, f
  <2>10. CASE /\ InFlight(b)' = f.queue
              /\ f.virtual_events = {}
    <3>1. IsQueue(Notice, f)
      BY DEF TInv, Kept
    <3>2. \A x \in Events(f) : x \in ToSet(f.queue)
      BY <2>10 DEF Events
    <3> HIDE DEF f
    <3>3. Apart(f, Ids(f.queue), ToSet(NoticesOf(f.queue)))
      BY <2>10, <3>1, <3>2, OwnApart
    <3> QED
      BY <2>2, <2>7, <2>10, <3>3 DEF f
  <2> QED
    BY <1>7, <2>1, <2>8, <2>9, <2>10
<1>10. SavedApart'
  <2> SUFFICES ASSUME NEW b \in Browsers, NEW q, q = browser'[b].queue_id,
                      q \in DOMAIN saved \ cut, Stays(q)'
               PROVE  /\ Apart(saved[q].event_queue, {browser'[b].last_event_id}, ToSet(got[q]))
                      /\ Apart(saved[q].event_queue, Ids(InFlight(b)'),
                               ToSet(NoticesOf(InFlight(b)')))
    BY <1>1 DEF SavedApart, PageApart
  <2> DEFINE old == saved[q].event_queue
             f == clients'[q].event_queue
             last == browser[b].last_event_id
  <2>1. q \in QueueIds \ cut
    BY <1>3
  <2>2. browser[b].queue_id = q /\ browser'[b].last_event_id = last
    BY <1>7, <2>1
  <2>3. Stays(q)
    <3>1. CASE phase = "down"
      BY <3>1 DEF Stays
    <3>2. CASE phase # "down"
      BY <3>2, SmoothStays
    <3> QED
      BY <3>1, <3>2
  <2>4. /\ Apart(old, {last}, ToSet(got[q]))
        /\ Apart(old, Ids(InFlight(b)), ToSet(NoticesOf(InFlight(b))))
    BY <2>2, <2>3 DEF OrderInv, SavedApart, PageApart
  <2>5. CASE InFlight(b)' = <<>>
    BY <2>2, <2>4, <2>5, NoAnswer, EmptySeq
  <2>6. CASE InFlight(b)' = InFlight(b)
    BY <2>2, <2>4, <2>6
  <2>7. CASE /\ q \in DOMAIN clients'
             /\ InFlight(b)' = f.queue
             /\ ToSet(got[q]) \cap ToSet(NoticesOf(f.queue)) = {}
             /\ f.virtual_events = {}
    <3>1. phase # "down"
      BY <1>1, <2>7 DEF PollInv, ServerInv, Running
    <3>2. /\ old.virtual_events = f.virtual_events
          /\ \A x \in ToSet(old.queue) \ ToSet(f.queue) : ToSet(x.of) \subseteq ToSet(got[q])
      BY <3>1, SmoothStays
    <3>3. IsQueue(Notice, f)
      BY <2>7 DEF TInv, Kept
    <3> HIDE DEF f, old
    <3>4. \A x \in Events(old) :
             x \in ToSet(f.queue) \/ ToSet(x.of) \cap ToSet(NoticesOf(f.queue)) = {}
      BY <2>7, <3>2 DEF Events
    <3>5. Apart(old, Ids(f.queue), ToSet(NoticesOf(f.queue)))
      BY <2>7, <3>3, <3>4, OwnApart
    <3> QED
      BY <2>2, <2>4, <2>7, <3>5 DEF old
  <2> QED
    BY <1>7, <2>1, <2>5, <2>6, <2>7
<1> QED
  BY <1>5, <1>6, <1>8, <1>9, <1>10 DEF OrderInv

(***************************************************************************)
(* The order at the dump: the file is the queues.                          *)
(***************************************************************************)
LEMMA DumpOrders ==
    ASSUME TInv, OrderInv, PushedInOrder', DumpEventQueues
    PROVE  OrderInv'
<1>1. /\ UNCHANGED <<clients, browser, handlers, pushed, got, cut>>
      /\ saved' = [q \in DOMAIN clients |-> Detached(clients[q])]
  BY DEF DumpEventQueues, history
<1>2. /\ DOMAIN saved' = DOMAIN clients
      /\ \A q \in DOMAIN clients : saved'[q].event_queue = clients[q].event_queue
  BY <1>1, DetachedKeeps DEF TInv
<1>3. \A b \in Browsers : InFlight(b)' = InFlight(b)
  BY <1>1 DEF InFlight
<1>4. TakenInOrder'
  BY <1>1, <1>3 DEF OrderInv, TakenInOrder
<1>5. LiveInOrder' /\ SavedInOrder'
  BY <1>1, <1>2 DEF OrderInv, LiveInOrder, SavedInOrder
<1>6. LiveApart'
  BY <1>1, <1>3 DEF OrderInv, LiveApart, PageApart
<1>7. SavedApart'
  <2> SUFFICES ASSUME NEW b \in Browsers, browser[b].queue_id \in DOMAIN clients \ cut
               PROVE  PageApart(b, saved[browser[b].queue_id].event_queue)'
    BY <1>1, <1>2 DEF SavedApart
  <2>1. PageApart(b, clients[browser[b].queue_id].event_queue)
    BY DEF OrderInv, LiveApart
  <2> QED
    BY <1>1, <1>2, <1>3, <2>1 DEF PageApart
<1> QED
  BY <1>4, <1>5, <1>6, <1>7 DEF OrderInv

(***************************************************************************)
(* At the end of the process the answers are lost, and the queues that     *)
(* changed since the dump are cut.                                         *)
(***************************************************************************)
LEMMA StopOrders ==
    ASSUME TInv, OrderInv, PushedInOrder', Stop
    PROVE  OrderInv'
<1>1. /\ DOMAIN clients' = {}
      /\ browser' = [b \in Browsers |-> [browser[b] EXCEPT !.xhr = NoHandler]]
      /\ cut' = cut \cup {q \in DOMAIN saved : ChangedSinceDump(q)}
      /\ UNCHANGED <<saved, pushed, got>>
  BY DEF Stop
<1>2. \A b \in Browsers : /\ browser'[b].queue_id = browser[b].queue_id
                          /\ browser'[b].last_event_id = browser[b].last_event_id
                          /\ browser'[b].xhr = NoHandler
  BY <1>1 DEF TInv, TypeOK
<1>3. \A q \in DOMAIN saved \ cut' : q \notin cut /\ Stays(q)
  BY <1>1 DEF Stays
<1>4. \A b \in Browsers : InFlight(b)' = <<>>
  BY <1>2 DEF InFlight
<1>5. TakenInOrder'
  <2>1. \A q \in QueueIds : got[q] \in Seq(Notice)
    BY DEF TInv, TypeOK
  <2>2. \A q \in QueueIds : got[q] \o NoticesOf(<<>>) = got[q]
    BY <2>1, NoAnswer
  <2>3. \A q \in QueueIds \ cut' : Takes(pushed[q], got[q])
    BY <1>1 DEF OrderInv, TakenInOrder
  <2> QED
    BY <1>1, <1>4, <2>2, <2>3 DEF TakenInOrder
<1>6. LiveInOrder' /\ LiveApart' /\ SavedInOrder'
  BY <1>1 DEF OrderInv, LiveInOrder, LiveApart, SavedInOrder
<1>7. SavedApart'
  <2> SUFFICES ASSUME NEW b \in Browsers, NEW q, q = browser[b].queue_id,
                      q \in DOMAIN saved \ cut'
               PROVE  PageApart(b, saved[browser[b].queue_id].event_queue)'
    BY <1>1, <1>2 DEF SavedApart
  <2>1. Apart(saved[q].event_queue, {browser[b].last_event_id}, ToSet(got[q]))
    BY <1>3 DEF OrderInv, SavedApart, PageApart
  <2>2. Apart(saved[q].event_queue, Ids(<<>>), ToSet(NoticesOf(<<>>)))
    BY NoAnswer, EmptySeq
  <2> QED
    BY <1>1, <1>2, <1>4, <2>1, <2>2 DEF PageApart
<1> QED
  BY <1>5, <1>6, <1>7 DEF OrderInv

(***************************************************************************)
(* The queues of the file come back with a restart event behind the others.*)
(***************************************************************************)
LEMMA SetupOrders ==
    ASSUME TInv, QueuesInv, OrderInv, PushedInOrder', SetupEventQueue
    PROVE  OrderInv'
<1>1. /\ phase = "down"
      /\ DOMAIN saved' = {}
      /\ UNCHANGED <<browser, handlers, pushed, got, cut>>
  BY DEF SetupEventQueue, history
<1>2. /\ DOMAIN clients' = DOMAIN saved
      /\ \A q \in DOMAIN saved :
            clients'[q].event_queue = Push(saved[q].event_queue, "restart", <<>>)
  BY SetupTypes
<1>3. "restart" \in Kinds /\ <<>> \in Seq(Notice) /\ ToSet(<<>>) = {} /\ KindOrder(<<>>)
  BY EmptySeq DEF Kinds, ToSet, KindOrder
<1>4. \A q : Stays(q)
  BY <1>1 DEF Stays
<1>5. \A b \in Browsers : InFlight(b)' = InFlight(b)
  BY <1>1 DEF InFlight
<1>6. TakenInOrder'
  BY <1>1, <1>5 DEF OrderInv, TakenInOrder
<1>7. LiveInOrder'
  <2> SUFFICES ASSUME NEW q \in DOMAIN saved \ cut
               PROVE  HoldsOf(pushed[q], clients'[q].event_queue)
    BY <1>1, <1>2 DEF LiveInOrder
  <2> DEFINE e == saved[q].event_queue
  <2>1. IsQueue(Notice, e) /\ Ordered(e) /\ HoldsOf(pushed[q], e)
    BY DEF TInv, Kept, OrderInv, SavedInOrder
  <2>2. clients'[q].event_queue = Push(e, "restart", <<>>)
    BY <1>2
  <2> HIDE DEF e
  <2>3. HoldsOf(pushed[q], Push(e, "restart", <<>>))
    BY <1>3, <2>1, PushHolds
  <2> QED
    BY <2>2, <2>3
<1>8. LiveApart'
  <2> SUFFICES ASSUME NEW b \in Browsers, NEW q, q = browser[b].queue_id,
                      q \in DOMAIN saved \ cut
               PROVE  PageApart(b, clients[browser[b].queue_id].event_queue)'
    BY <1>1, <1>2 DEF LiveApart
  <2> DEFINE e == saved[q].event_queue
             f == clients'[q].event_queue
             answer == InFlight(b)
             last == {browser[b].last_event_id}
             seen == ToSet(got[q])
             handed == ToSet(NoticesOf(answer))
  <2>1. IsQueue(Notice, e) /\ Ordered(e)
    BY DEF TInv, Kept
  <2>2. f = Push(e, "restart", <<>>)
    BY <1>2
  <2>3. Apart(e, last, seen) /\ Apart(e, Ids(answer), handed)
    BY <1>4 DEF OrderInv, SavedApart, PageApart
  <2>4. /\ \A i \in last, v \in e.virtual_events : i < v.id
        /\ \A i \in Ids(answer), v \in e.virtual_events : i < v.id
    <3>1. PageKnows(b, e)
      BY <1>4 DEF QueuesInv, SavedPages
    <3> QED
      BY <3>1 DEF PageKnows, Knows, Covers, Ids
  <2> HIDE DEF e, f, answer, last, seen, handed
  <2>5. Apart(f, last, seen)
    BY <1>3, <2>1, <2>2, <2>3, <2>4, PushApart
  <2>6. Apart(f, Ids(answer), handed)
    BY <1>3, <2>1, <2>2, <2>3, <2>4, PushApart
  <2> QED
    BY <1>1, <1>5, <2>5, <2>6 DEF PageApart, f, answer, last, seen, handed
<1>9. SavedInOrder' /\ SavedApart'
  BY <1>1 DEF SavedInOrder, SavedApart
<1> QED
  BY <1>6, <1>7, <1>8, <1>9 DEF OrderInv

(***************************************************************************)
(* A new queue has nothing in it, and nothing was pushed into it.          *)
(***************************************************************************)
LEMMA RegisterOrders ==
    ASSUME TInv, TInv', PollInv, QueuesInv, OrderInv, PushedInOrder',
           NEW b \in Browsers, Register(b)
    PROVE  OrderInv'
<1>1. PICK new : new = registered + 1
  OBVIOUS
<1>2. /\ registered' = new
      /\ new \in QueueIds
      /\ new \notin DOMAIN clients
      /\ DOMAIN clients' = DOMAIN clients \cup {new}
      /\ clients'[new].event_queue = NewQueue
      /\ \A q \in DOMAIN clients : clients'[q] = clients[q]
  BY <1>1, RegisterTypes
<1>3. /\ browser' = [browser EXCEPT ![b].queue_id = new]
      /\ browser[b].queue_id = NoQueue
      /\ UNCHANGED <<phase, handlers, saved, pushed, got, cut>>
  BY <1>1, <1>2 DEF Register
<1>4. /\ browser'[b].queue_id = new
      /\ \A c \in Browsers : /\ browser'[c].last_event_id = browser[c].last_event_id
                             /\ browser'[c].xhr = browser[c].xhr
                             /\ c # b => browser'[c].queue_id = browser[c].queue_id
  BY <1>3 DEF TInv, TypeOK
<1>5. /\ new \notin DOMAIN saved
      /\ \A c \in Browsers : browser[c].queue_id # new
  <2>1. registered \in Nat
    BY DEF TInv, TypeOK, QueueIds
  <2>2. new \notin 0..registered
    BY <1>1, <2>1
  <2> QED
    BY <1>1, <2>1, <2>2 DEF TInv, PollInv, Owners, NoQueue
<1>6. \A c \in Browsers : InFlight(c)' = InFlight(c)
  BY <1>3, <1>4 DEF InFlight
<1>7. InFlight(b) = <<>>
  BY <1>3 DEF PollInv, Owners, InFlight
<1>8. \A q \in DOMAIN saved : Stays(q)' <=> Stays(q)
  BY <1>2, <1>3, <1>5 DEF ChangedSinceDump, Stays
<1>9. TakenInOrder'
  <2>1. \A q \in QueueIds \ cut : Takes(pushed[q], got[q])
    BY DEF OrderInv, TakenInOrder
  <2>2. got[new] \o NoticesOf(<<>>) = got[new]
    BY <1>2, NoAnswer DEF TInv, TypeOK
  <2>3. ASSUME NEW c \in Browsers, NEW q \in QueueIds \ cut, q = browser'[c].queue_id
        PROVE  Takes(pushed[q], got[q] \o NoticesOf(InFlight(c)))
    <3>1. CASE c = b
      BY <1>4, <1>7, <2>1, <2>2, <2>3, <3>1
    <3>2. CASE c # b
      BY <1>4, <2>3, <3>2 DEF OrderInv, TakenInOrder
    <3> QED
      BY <3>1, <3>2
  <2> QED
    BY <1>3, <1>6, <2>1, <2>3 DEF TakenInOrder
<1>10. Events(NewQueue) = {} /\ NewQueue.virtual_events = {}
  BY NewQueueKeeps DEF NewQueue
<1>11. LiveInOrder'
  <2> SUFFICES ASSUME NEW q \in DOMAIN clients' \ cut
               PROVE  HoldsOf(pushed[q], clients'[q].event_queue)
    BY <1>3 DEF LiveInOrder
  <2>1. CASE q = new
    BY <1>2, <1>10, <2>1 DEF HoldsOf, Sorted
  <2>2. CASE q # new
    BY <1>2, <2>2 DEF OrderInv, LiveInOrder
  <2> QED
    BY <2>1, <2>2
<1>12. LiveApart'
  <2> SUFFICES ASSUME NEW c \in Browsers, NEW q, q = browser'[c].queue_id,
                      q \in DOMAIN clients' \ cut
               PROVE  PageApart(c, clients[browser[c].queue_id].event_queue)'
    BY <1>3 DEF LiveApart
  <2>1. CASE c = b
    <3>1. q = new
      BY <1>4, <2>1
    <3> QED
      BY <1>2, <1>10, <3>1 DEF PageApart, Apart
  <2>2. CASE c # b
    <3>1. browser[c].queue_id = q /\ q \in DOMAIN clients
      BY <1>2, <1>4, <1>5, <2>2
    <3>2. PageApart(c, clients[q].event_queue)
      BY <3>1 DEF OrderInv, LiveApart
    <3> QED
      BY <1>2, <1>3, <1>4, <1>6, <3>1, <3>2 DEF PageApart
  <2> QED
    BY <2>1, <2>2
<1>13. SavedInOrder'
  BY <1>3 DEF OrderInv, SavedInOrder
<1>14. SavedApart'
  <2> SUFFICES ASSUME NEW c \in Browsers, NEW q, q = browser'[c].queue_id,
                      q \in DOMAIN saved \ cut, Stays(q)
               PROVE  PageApart(c, saved[browser[c].queue_id].event_queue)'
    BY <1>3, <1>8 DEF SavedApart
  <2>1. c # b /\ browser[c].queue_id = q
    BY <1>4, <1>5
  <2>2. PageApart(c, saved[q].event_queue)
    BY <2>1 DEF OrderInv, SavedApart
  <2> QED
    BY <1>3, <1>4, <1>6, <2>1, <2>2 DEF PageApart
<1> QED
  BY <1>9, <1>11, <1>12, <1>13, <1>14 DEF OrderInv

(***************************************************************************)
(* The page that takes its answer acknowledges what it has got with it.    *)
(***************************************************************************)
LEMMA ReceiveApart ==
    ASSUME TInv, TInv', Owners, Attended, NEW b \in Browsers, Receive(b),
           NEW c \in Browsers, browser'[c].queue_id # NoQueue,
           NEW e, IsQueue(Notice, e), PageApart(c, e)
    PROVE  /\ browser'[c].queue_id = browser[c].queue_id
           /\ Apart(e, {browser'[c].last_event_id}, ToSet(got'[browser'[c].queue_id]))
           /\ Apart(e, Ids(InFlight(c)'), ToSet(NoticesOf(InFlight(c)')))
<1>1. CASE c # b
  BY <1>1, ReceiveOthers DEF PageApart
<1>2. CASE c = b
  <2>1. PICK q : q = browser[b].queue_id
    OBVIOUS
  <2>2. /\ browser[b].xhr # NoHandler
        /\ browser'[b].xhr = NoHandler
        /\ browser'[b].queue_id = q
        /\ browser[b].last_event_id <= browser'[b].last_event_id
        /\ \A y \in ToSet(handlers[browser[b].xhr].events) : y.id <= browser'[b].last_event_id
    <3>1. browser[b].xhr # NoHandler
      BY DEF Receive
    <3>2. /\ browser'[b].xhr = NoHandler
          /\ \/ browser'[b] = Idle
             \/ /\ browser'[b].queue_id = browser[b].queue_id
                /\ browser[b].last_event_id <= browser'[b].last_event_id
                /\ \A y \in ToSet(handlers[browser[b].xhr].events) :
                      y.id <= browser'[b].last_event_id
      BY ReceiveTypes
    <3>3. browser'[b] # Idle
      BY <1>2 DEF Idle
    <3> QED
      BY <2>1, <3>1, <3>2, <3>3
  <2>3. InFlight(b) = handlers[browser[b].xhr].events /\ InFlight(b)' = <<>>
    BY <2>2 DEF InFlight
  <2>4. q # NoQueue
    BY <1>2, <2>2
  <2>5. ToSet(got'[q]) = ToSet(got[q]) \cup ToSet(NoticesOf(InFlight(b)))
    BY <2>1, <2>4, ReceiveGets
  <2> DEFINE last == browser[b].last_event_id
             next == browser'[b].last_event_id
             answer == InFlight(b)
             seen == ToSet(got[q])
             handed == ToSet(NoticesOf(answer))
  <2>6. Apart(e, {last}, seen) /\ Apart(e, Ids(answer), handed)
    BY <1>2, <2>1 DEF PageApart
  <2>7. /\ last \in Int /\ next \in Int
        /\ \A i \in Ids(answer) : i \in Int /\ i <= next
        /\ \A x \in Events(e) : x.id \in Int
        /\ last <= next
    <3>1. last \in Int /\ next \in Int
      <4>1. last \in Nat \cup {-1}
        BY DEF TInv, TypeOK
      <4>2. next \in Nat \cup {-1}
        BY DEF TInv, TypeOK
      <4> QED
        BY <4>1, <4>2
    <3>2. \A y \in ToSet(answer) : y.id \in Int
      BY InFlightType DEF TInv
    <3>3. \A x \in Events(e) : x.id \in Int
      BY QueueFields
    <3> QED
      BY <2>2, <2>3, <3>1, <3>2, <3>3 DEF Ids
  <2> HIDE DEF last, next, answer, seen, handed
  <2>8. Apart(e, {next}, seen \cup handed)
    <3> SUFFICES ASSUME NEW x \in Events(e), next < x.id
                 PROVE  ToSet(x.of) \cap (seen \cup handed) = {}
      BY DEF Apart
    <3>1. last < x.id /\ \A i \in Ids(answer) : i < x.id
      BY <2>7
    <3>2. ToSet(x.of) \cap seen = {} /\ ToSet(x.of) \cap handed = {}
      BY <2>6, <3>1 DEF Apart
    <3> QED
      BY <3>2
  <2>9. Apart(e, Ids(<<>>), ToSet(NoticesOf(<<>>)))
    BY NoAnswer, EmptySeq
  <2> QED
    BY <1>2, <2>1, <2>2, <2>3, <2>5, <2>8, <2>9 DEF next, seen, handed, answer
<1> QED
  BY <1>1, <1>2

(***************************************************************************)
(* The page that takes its answer goes on where it was, and the others     *)
(* stay where they are.                                                    *)
(***************************************************************************)
LEMMA ReceiveOrders ==
    ASSUME TInv, TInv', PollInv, OrderInv, PushedInOrder', NEW b \in Browsers, Receive(b)
    PROVE  OrderInv'
<1>1. Owners /\ Attended
  BY DEF PollInv
<1>2. PICK q : q = browser[b].queue_id
  OBVIOUS
<1>3. q # NoQueue
  BY <1>1, <1>2 DEF Owners, Receive
<1>4. /\ got'[q] = got[q] \o NoticesOf(InFlight(b))
      /\ \A r \in QueueIds \ {q} : got'[r] = got[r]
      /\ UNCHANGED <<phase, clients, saved, pushed, cut>>
  <2>1. got'[q] = got[q] \o NoticesOf(InFlight(b))
    BY <1>2, <1>3, ReceiveGets
  <2>2. \A r \in QueueIds \ {q} : got'[r] = got[r]
    BY <1>2, <1>3, ReceiveGets
  <2>3. UNCHANGED <<phase, clients, saved, pushed, cut>>
    BY DEF Receive
  <2> QED
    BY <2>1, <2>2, <2>3
<1>5. /\ DOMAIN clients \subseteq QueueIds /\ DOMAIN saved \subseteq QueueIds
      /\ NoQueue \notin QueueIds
  <2>1. NoQueue \notin QueueIds
    BY BoundsHold DEF TInv, TypeOK
  <2> QED
    BY <2>1, QueueIdsOf
<1>6. \A r : Stays(r)' <=> Stays(r)
  BY <1>4 DEF Stays, ChangedSinceDump
<1>7. TakenInOrder'
  <2>1. \A r \in QueueIds \ cut : Takes(pushed[r], got'[r])
    BY <1>2, <1>4 DEF OrderInv, TakenInOrder
  <2>2. ASSUME NEW c \in Browsers, NEW r \in QueueIds \ cut, r = browser'[c].queue_id
        PROVE  Takes(pushed[r], got'[r] \o NoticesOf(InFlight(c)'))
    <3>1. CASE c = b
      <4>1. InFlight(b)' = <<>>
        BY ReceiveTypes DEF InFlight
      <4>2. got'[r] \in Seq(Notice)
        BY DEF TInv, TypeOK
      <4>3. got'[r] \o NoticesOf(<<>>) = got'[r]
        BY <4>2, NoAnswer
      <4> QED
        BY <2>1, <3>1, <4>1, <4>3
    <3>2. CASE c # b
      <4>1. browser'[c].queue_id # NoQueue
        BY <1>5, <2>2
      <4>2. /\ browser'[c] = browser[c]
            /\ got'[browser[c].queue_id] = got[browser[c].queue_id]
            /\ InFlight(c)' = InFlight(c)
        BY <1>1, <3>2, <4>1, ReceiveOthers
      <4> QED
        BY <2>2, <4>2 DEF OrderInv, TakenInOrder
    <3> QED
      BY <3>1, <3>2
  <2> QED
    BY <1>4, <2>1, <2>2 DEF TakenInOrder
<1>8. LiveInOrder' /\ SavedInOrder'
  BY <1>4 DEF OrderInv, LiveInOrder, SavedInOrder
<1>9. LiveApart'
  <2> SUFFICES ASSUME NEW c \in Browsers, NEW r, r = browser'[c].queue_id,
                      r \in DOMAIN clients \ cut
               PROVE  PageApart(c, clients[browser[c].queue_id].event_queue)'
    BY <1>4 DEF LiveApart
  <2>1. browser'[c].queue_id # NoQueue /\ browser[c].queue_id = r
    BY <1>5, ReceiveTypes DEF Idle
  <2>2. PageApart(c, clients[r].event_queue) /\ IsQueue(Notice, clients[r].event_queue)
    BY <2>1 DEF OrderInv, LiveApart, TInv, Kept
  <2>3. /\ Apart(clients[r].event_queue, {browser'[c].last_event_id},
                 ToSet(got'[browser'[c].queue_id]))
        /\ Apart(clients[r].event_queue, Ids(InFlight(c)'), ToSet(NoticesOf(InFlight(c)')))
    BY <1>1, <2>1, <2>2, ReceiveApart
  <2> QED
    BY <1>4, <2>3 DEF PageApart
<1>10. SavedApart'
  <2> SUFFICES ASSUME NEW c \in Browsers, NEW r, r = browser'[c].queue_id,
                      r \in DOMAIN saved \ cut, Stays(r)
               PROVE  PageApart(c, saved[browser[c].queue_id].event_queue)'
    BY <1>4, <1>6 DEF SavedApart
  <2>1. browser'[c].queue_id # NoQueue /\ browser[c].queue_id = r
    BY <1>5, ReceiveTypes DEF Idle
  <2>2. PageApart(c, saved[r].event_queue) /\ IsQueue(Notice, saved[r].event_queue)
    BY <2>1 DEF OrderInv, SavedApart, TInv, Kept
  <2>3. /\ Apart(saved[r].event_queue, {browser'[c].last_event_id},
                 ToSet(got'[browser'[c].queue_id]))
        /\ Apart(saved[r].event_queue, Ids(InFlight(c)'), ToSet(NoticesOf(InFlight(c)')))
    BY <1>1, <2>1, <2>2, ReceiveApart
  <2> QED
    BY <1>4, <2>3 DEF PageApart
<1> QED
  BY <1>7, <1>8, <1>9, <1>10 DEF OrderInv

(***************************************************************************)
(* At the start nothing was pushed.                                        *)
(***************************************************************************)
LEMMA OrderInit ==
    ASSUME Init
    PROVE  OrderInv
<1>1. DOMAIN clients = {} /\ DOMAIN saved = {} /\ rabbit = <<>> /\ published = 0
  BY DEF Init
<1>2. /\ \A q \in QueueIds : pushed[q] = <<>> /\ got[q] = <<>>
      /\ \A b \in Browsers : InFlight(b) = <<>> /\ browser[b].queue_id = NoQueue
  BY DEF Init, InFlight, Idle
<1>3. ToSet(<<>>) = {} /\ Rising(<<>>) /\ KindOrder(<<>>)
  BY DEF ToSet, Rising, KindOrder
<1>4. PushedInOrder
  BY <1>1, <1>2, <1>3 DEF PushedInOrder
<1>5. TakenInOrder
  <2>1. Takes(<<>>, <<>>)
    BY <1>3 DEF Takes
  <2>2. NoQueue \notin QueueIds
    BY BoundsHold DEF Init
  <2> QED
    BY <1>2, <2>1, <2>2 DEF TakenInOrder
<1> QED
  BY <1>1, <1>4, <1>5 DEF OrderInv, LiveInOrder, SavedInOrder, LiveApart, SavedApart

(***************************************************************************)
(* The order outlasts every step.                                          *)
(***************************************************************************)
LEMMA OrderStep ==
    ASSUME TInv, DeliveryInv, OrderInv, [Next]_vars
    PROVE  OrderInv'
<1>1. TInv' /\ PollInv /\ QueuesInv /\ Mine
  BY TypeStep DEF DeliveryInv
<1>2. Owners /\ ServerInv /\ Attended /\ SleepsOnlyWhenEmpty
  BY <1>1 DEF PollInv, SleepInv
<1>3. PushedInOrder'
  BY PushedStep DEF OrderInv
<1>4. QueuesInv'
  BY <1>1, QueuesStep
<1>5. Smooth => OrderInv'
  BY <1>1, <1>3, <1>4, SmoothOrders
<1>6. CASE UNCHANGED vars
  BY <1>1, <1>5, <1>6, PublishIsSmooth
<1>7. CASE Next
  <2>1. CASE Publish
    BY <1>1, <1>5, <2>1, PublishIsSmooth
  <2>2. CASE ProcessNotification
    BY <1>1, <1>2, <1>5, <2>2, NotificationIsSmooth
  <2>3. CASE \E q \in QueueIds : Heartbeat(q)
    BY <1>1, <1>2, <1>5, <2>3, HeartbeatIsSmooth
  <2>4. CASE \E queues \in SUBSET DOMAIN clients : GcEventQueues(queues)
    BY <1>1, <1>5, <2>4, CollectIsSmooth
  <2>5. CASE \E h \in HandlerIds : OnConnectionClose(h)
    BY <1>1, <1>5, <2>5, CloseIsSmooth
  <2>6. CASE DumpEventQueues
    BY <1>3, <2>6, DumpOrders
  <2>7. CASE Stop
    BY <1>3, <2>7, StopOrders
  <2>8. CASE SetupEventQueue
    BY <1>1, <1>3, <2>8, SetupOrders
  <2>9. CASE \E b \in Browsers : Register(b)
    BY <1>1, <1>3, <2>9, RegisterOrders
  <2>10. ASSUME NEW b \in Browsers, NEW h \in HandlerIds, NEW alive \in BOOLEAN,
                FetchUnknownQueue(b, h, alive)
         PROVE  OrderInv'
    BY <1>1, <1>2, <1>5, <2>10, UnknownQueueIsSmooth
  <2>11. ASSUME NEW b \in Browsers, NEW h \in HandlerIds, NEW alive \in BOOLEAN,
                FetchRefused(b, h, alive)
         PROVE  OrderInv'
    BY <1>1, <1>2, <1>5, <2>11, RefusedIsSmooth
  <2>12. ASSUME NEW b \in Browsers, NEW h \in HandlerIds, NEW alive \in BOOLEAN,
                NEW dont_block \in BOOLEAN, FetchEvents(b, h, alive, dont_block)
         PROVE  OrderInv'
    BY <1>1, <1>2, <1>5, <2>12, FetchIsSmooth
  <2>13. CASE \E b \in Browsers : Receive(b)
    BY <1>1, <1>3, <2>13, ReceiveOrders
  <2>14. CASE \E b \in Browsers : Abort(b)
    BY <1>1, <1>5, <2>14, AbortIsSmooth
  <2>15. CASE \E b \in Browsers : CleanupEventQueue(b)
    BY <1>1, <1>2, <1>5, <2>15, CleanupIsSmooth
  <2>16. CASE \E b \in Browsers : Leave(b)
    BY <1>1, <1>5, <2>16, LeaveIsSmooth
  <2> QED
    BY <1>7, <2>1, <2>2, <2>3, <2>4, <2>5, <2>6, <2>7, <2>8, <2>9, <2>10, <2>11, <2>12,
       <2>13, <2>14, <2>15, <2>16, NextCases
<1> QED
  BY <1>6, <1>7

(***************************************************************************)
(* Queues, answers and pages are in order in every state that can be       *)
(* reached.                                                                *)
(***************************************************************************)
LEMMA OrderInvAlways == Spec => [](TInv /\ OrderInv)
<1>1. Init => OrderInv
  BY OrderInit
<1>2. (TInv /\ DeliveryInv) /\ OrderInv /\ [Next]_vars => OrderInv'
  BY OrderStep
<1> QED
  BY <1>1, <1>2, DeliveryInvAlways, PTL DEF Spec

-----------------------------------------------------------------------------
(* The refinement.                                                         *)

(***************************************************************************)
(* A notice that is put into queues is sent.                               *)
(***************************************************************************)
LEMMA NotificationSends ==
    ASSUME TInv, OrderInv, OrderInv', ProcessNotification
    PROVE  \E k \in NoticeKinds, item \in Notice : Delivery!Send(k, item)
<1> DEFINE notice == Head(rabbit)
           kind == notice.kind
<1>1. /\ rabbit # <<>>
      /\ \A q \in QueueIds : pushed'[q] = pushed[q] \/ pushed'[q] = Append(pushed[q], notice)
      /\ UNCHANGED <<got, cut>>
  BY DEF ProcessNotification
<1>2. notice \in Notice
  BY <1>1, HeadTailProperties DEF TInv, TypeOK
<1> HIDE DEF notice
<1>3. kind \in NoticeKinds
  BY <1>2 DEF Notice
<1>4. ASSUME NEW q \in QueueIds
      PROVE  OfKind(pushed'[q]) \in {OfKind(pushed[q]),
                                     [OfKind(pushed[q]) EXCEPT ![kind] = Append(@, notice)]}
  <2>1. CASE pushed'[q] = pushed[q]
    BY <2>1
  <2>2. CASE pushed'[q] = Append(pushed[q], notice)
    <3>1. Rising(pushed[q]) /\ Rising(pushed'[q])
      BY DEF OrderInv, PushedInOrder
    <3>2. pushed[q] \in Seq(Notice)
      BY DEF TInv, TypeOK
    <3>3. OfKind(Append(pushed[q], notice))
            = [OfKind(pushed[q]) EXCEPT ![kind] = Append(@, notice)]
      BY <1>2, <2>2, <3>1, <3>2, OfKindAppend
    <3> QED
      BY <2>2, <3>3
  <2> QED
    BY <1>1, <2>1, <2>2
<1>5. Delivery!Send(kind, notice)
  <2> HIDE DEF kind
  <2> QED
    BY <1>1, <1>4 DEF Delivery!Send
<1> QED
  BY <1>2, <1>3, <1>5

(***************************************************************************)
(* A page that takes its answer receives in order.                         *)
(***************************************************************************)
LEMMA ReceiveReceives ==
    ASSUME TInv, TInv', Owners, OrderInv, OrderInv', NEW b \in Browsers, Receive(b)
    PROVE  \E q \in QueueIds : Delivery!Receive(q)
<1>1. PICK q : q = browser[b].queue_id
  OBVIOUS
<1>2. q # NoQueue /\ q \in QueueIds
  BY <1>1 DEF Owners, Receive, TInv, TypeOK
<1>3. /\ \A r \in QueueIds \ {q} : got'[r] = got[r]
      /\ ToSet(got[q]) \subseteq ToSet(got'[q])
  <2>1. \A r \in QueueIds \ {q} : got'[r] = got[r]
    BY <1>1, <1>2, ReceiveGets
  <2>2. ToSet(got[q]) \subseteq ToSet(got'[q])
    BY <1>1, <1>2, ReceiveGets
  <2> QED
    BY <2>1, <2>2
<1>4. UNCHANGED <<pushed, cut>>
  BY DEF Receive
<1>5. ASSUME q \notin cut, NEW k \in NoticeKinds
      PROVE  /\ IsPrefix(OfKind(got[q])[k], OfKind(got'[q])[k])
             /\ IsPrefix(OfKind(got'[q])[k], OfKind(pushed[q])[k])
  <2> DEFINE s == got[q]
             t == got'[q]
             p == pushed[q]
  <2>1. s \in Seq(Notice) /\ t \in Seq(Notice) /\ p \in Seq(Notice)
    <3>1. s \in Seq(Notice) /\ p \in Seq(Notice)
      BY <1>2 DEF TInv, TypeOK
    <3>2. t \in Seq(Notice)
      BY <1>2 DEF TInv, TypeOK
    <3> QED
      BY <3>1, <3>2
  <2>2. Takes(p, s) /\ KindOrder(p)
    BY <1>2, <1>5, RisingIsKindOrder DEF OrderInv, TakenInOrder, PushedInOrder
  <2>3. Takes(p, t)
    BY <1>2, <1>4, <1>5 DEF OrderInv, TakenInOrder
  <2> HIDE DEF s, t, p
  <2>4. Takes(t, s)
    BY <1>3, <2>2, <2>3 DEF Takes, s, t
  <2>5. KindOrder(t)
    BY <2>3 DEF Takes
  <2>6. IsPrefix(OfKind(s)[k], OfKind(t)[k])
    BY <2>1, <2>4, <2>5, TakesPrefix
  <2>7. IsPrefix(OfKind(t)[k], OfKind(p)[k])
    BY <2>1, <2>2, <2>3, TakesPrefix
  <2> QED
    BY <2>6, <2>7 DEF s, t, p
<1>6. Delivery!Receive(q)
  <2> DEFINE sent == [r \in QueueIds |-> OfKind(pushed[r])]
             received == [r \in QueueIds |-> OfKind(got[r])]
  <2>1. SUFFICES /\ \A r \in QueueIds \ {q} : received'[r] = received[r]
                 /\ DOMAIN received' = QueueIds
                 /\ q \notin cut =>
                       \A k \in NoticeKinds : /\ IsPrefix(received[q][k], received'[q][k])
                                              /\ IsPrefix(received'[q][k], sent[q][k])
                 /\ UNCHANGED <<sent, cut>>
    <3>1. \A s, t : Delivery!IsPrefix(s, t) <=> IsPrefix(s, t)
      BY DEF Delivery!IsPrefix, IsPrefix
    <3> QED
      BY <3>1 DEF Delivery!Receive, Delivery!InOrder
  <2>2. /\ \A r \in QueueIds : sent[r] = OfKind(pushed[r]) /\ received[r] = OfKind(got[r])
        /\ \A r \in QueueIds : received'[r] = OfKind(got'[r])
        /\ DOMAIN received' = QueueIds
        /\ sent' = sent
    BY <1>4
  <2> HIDE DEF sent, received
  <2>3. q \notin cut => \A k \in NoticeKinds : /\ IsPrefix(received[q][k], received'[q][k])
                                              /\ IsPrefix(received'[q][k], sent[q][k])
    BY <1>2, <1>5, <2>2
  <2>4. \A r \in QueueIds \ {q} : received'[r] = received[r]
    BY <1>3, <2>2
  <2> QED
    BY <1>4, <2>2, <2>3, <2>4
<1> QED
  BY <1>2, <1>6

(***************************************************************************)
(* Every step is one of EventDelivery, or leaves what was sent and         *)
(* received.                                                               *)
(***************************************************************************)
LEMMA DeliveryStep ==
    ASSUME TInv, TInv', Owners, OrderInv, OrderInv', [Next]_vars
    PROVE  [Delivery!Next]_<<[q \in QueueIds |-> OfKind(pushed[q])],
                            [q \in QueueIds |-> OfKind(got[q])], cut>>
<1>1. CASE UNCHANGED <<pushed, got, cut>>
  BY <1>1
<1>2. CASE Publish
  BY <1>1, <1>2 DEF Publish, history
<1>3. CASE ProcessNotification
  BY <1>3, NotificationSends DEF Delivery!Next
<1>4. CASE \E b \in Browsers : Receive(b)
  BY <1>4, ReceiveReceives DEF Delivery!Next
<1>5. CASE Stop
  <2>1. UNCHANGED <<pushed, got>> /\ cut \subseteq cut'
    BY <1>5 DEF Stop
  <2>2. cut' \subseteq QueueIds
    BY DEF TInv, TypeOK
  <2>3. Delivery!Cut
    BY <2>1, <2>2 DEF Delivery!Cut
  <2> QED
    BY <2>3 DEF Delivery!Next
<1> QED
  BY <1>1, <1>2, <1>3, <1>4, <1>5, MovingSteps

(***************************************************************************)
(* The event system implements EventDelivery: a page that keeps its queue  *)
(* processes the events of a kind once each and in the order in which they *)
(* were put into the queue.  Polls may be aborted, supplanted or answered  *)
(* to nobody, changes of flags compressed and the queue reloaded meanwhile.*)
(***************************************************************************)
THEOREM PagesGetOrder == Spec => DeliversInOrder
<1>1. Init => Delivery!Init
  <2> SUFFICES ASSUME Init PROVE Delivery!Init
    OBVIOUS
  <2>1. OfKind(<<>>) = [k \in NoticeKinds |-> <<>>]
    <3>1. <<>> \in Seq(Notice) /\ KindOrder(<<>>) /\ ToSet(<<>>) = {}
      BY EmptySeq DEF KindOrder, ToSet
    <3>2. ASSUME NEW k \in NoticeKinds PROVE OfKind(<<>>)[k] = <<>>
      <4> DEFINE s == OfKind(<<>>)[k]
      <4>1. s \in Seq(Notice) /\ ToSet(s) = {}
        BY <3>1, OfKindIs
      <4> HIDE DEF s
      <4>2. DOMAIN s = {}
        BY <4>1 DEF ToSet
      <4>3. Len(s) = 0
        BY <4>1, <4>2, LenProperties
      <4> QED
        BY <4>1, <4>3, EmptySeq DEF s
    <3>3. OfKind(<<>>) = [k \in NoticeKinds |-> OfKind(<<>>)[k]]
      BY DEF OfKind
    <3> QED
      BY <3>2, <3>3
  <2> QED
    BY <2>1 DEF Init, Delivery!Init
<1>2. /\ TInv /\ TInv' /\ DeliveryInv /\ OrderInv /\ OrderInv' /\ [Next]_vars
      => [Delivery!Next]_<<[q \in QueueIds |-> OfKind(pushed[q])],
                          [q \in QueueIds |-> OfKind(got[q])], cut>>
  BY DeliveryStep DEF DeliveryInv, PollInv
<1> QED
  BY <1>1, <1>2, OrderInvAlways, DeliveryInvAlways, PTL
     DEF Spec, DeliversInOrder, Delivery!Spec
=============================================================================
