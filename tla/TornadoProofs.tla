---------------------------- MODULE TornadoProofs ----------------------------
(***************************************************************************)
(* Proofs about the event system, for any browsers and any bounds: the     *)
(* types; that no poll sleeps over an event; and that every request that   *)
(* waits is the current one of its descriptor.                             *)
(***************************************************************************)
EXTENDS Tornado, EventQueueProofs

-----------------------------------------------------------------------------
(* The bounds.                                                             *)

(***************************************************************************)
(* Largest is an upper bound of a finite set of natural numbers.           *)
(***************************************************************************)
LEMMA LargestIs ==
    ASSUME NEW numbers \in SUBSET Nat, IsFiniteSet(numbers)
    PROVE  Largest(numbers) \in Nat /\ \A n \in numbers : n <= Largest(numbers)
<1> DEFINE all == {0} \cup numbers
<1>1. all \in SUBSET Int /\ all # {} /\ all \subseteq Nat
  OBVIOUS
<1>2. IsFiniteSet(all)
  BY FS_Singleton, FS_Union
<1> HIDE DEF all
<1>3. \E i \in all : \A j \in all : j <= i
  BY <1>1, <1>2, GreatestOfFinite
<1>4. \E i \in all : \A j \in all : i >= j
  BY <1>1, <1>3
<1>5. Max(all) \in all /\ \A j \in all : Max(all) >= j
  BY <1>4 DEF Max
<1> QED
  BY <1>1, <1>5 DEF Largest, all

(***************************************************************************)
(* What is counted stays within the sets of ids.                           *)
(***************************************************************************)
LEMMA BoundsHold ==
    ASSUME NEW l \in Bounds
    PROVE  /\ l.queues \in Nat /\ l.notices \in Nat /\ l.requests \in Nat
           /\ l.heartbeats \in Nat /\ l.starts \in Nat
           /\ 1..l.queues \subseteq QueueIds
           /\ QueueIds \subseteq Nat \ {0}
           /\ 1..l.requests \subseteq HandlerIds
           /\ HandlerIds \subseteq Nat
           /\ 0 \in HandlerIds
           /\ NoHandler \notin HandlerIds
           /\ NoQueue \notin QueueIds
           /\ [number : 1..l.notices, kind : NoticeKinds] \subseteq Notice
<1>1. \A k \in Bounds : k \in [notices : Nat, queues : Nat, requests : Nat,
                         heartbeats : Nat, starts : Nat, browsers : SUBSET Browsers]
  BY TornadoAssumption
<1>2. \A k \in Bounds : /\ k.queues \in Nat /\ k.notices \in Nat /\ k.requests \in Nat
                        /\ k.heartbeats \in Nat /\ k.starts \in Nat
  BY <1>1
<1>3. IsFiniteSet({k.queues : k \in Bounds})
  <2>1. [k \in Bounds |-> k.queues] \in Surjection(Bounds, {k.queues : k \in Bounds})
    BY DEF Surjection
  <2> QED
    BY <2>1, TornadoAssumption, FS_Surjection
<1>4. IsFiniteSet({k.notices : k \in Bounds})
  <2>1. [k \in Bounds |-> k.notices] \in Surjection(Bounds, {k.notices : k \in Bounds})
    BY DEF Surjection
  <2> QED
    BY <2>1, TornadoAssumption, FS_Surjection
<1>5. IsFiniteSet({k.requests : k \in Bounds})
  <2>1. [k \in Bounds |-> k.requests] \in Surjection(Bounds, {k.requests : k \in Bounds})
    BY DEF Surjection
  <2> QED
    BY <2>1, TornadoAssumption, FS_Surjection
<1>6. /\ Largest({k.queues : k \in Bounds}) \in Nat
      /\ l.queues <= Largest({k.queues : k \in Bounds})
  <2>1. {k.queues : k \in Bounds} \in SUBSET Nat
    BY <1>2
  <2> QED
    BY <1>3, <2>1, LargestIs
<1>7. /\ Largest({k.notices : k \in Bounds}) \in Nat
      /\ l.notices <= Largest({k.notices : k \in Bounds})
  <2>1. {k.notices : k \in Bounds} \in SUBSET Nat
    BY <1>2
  <2> QED
    BY <1>4, <2>1, LargestIs
<1>8. /\ Largest({k.requests : k \in Bounds}) \in Nat
      /\ l.requests <= Largest({k.requests : k \in Bounds})
  <2>1. {k.requests : k \in Bounds} \in SUBSET Nat
    BY <1>2
  <2> QED
    BY <1>5, <2>1, LargestIs
<1>9. 1..l.queues \subseteq QueueIds /\ QueueIds \subseteq Nat \ {0}
  <2> DEFINE m == Largest({k.queues : k \in Bounds})
  <2>1. m \in Nat /\ l.queues <= m /\ l.queues \in Nat
    BY <1>2, <1>6
  <2>2. QueueIds = 1..m
    BY DEF QueueIds
  <2> HIDE DEF m
  <2> QED
    BY <2>1, <2>2
<1>10. 1..l.requests \subseteq HandlerIds /\ HandlerIds \subseteq Nat /\ 0 \in HandlerIds
  <2> DEFINE m == Largest({k.requests : k \in Bounds})
  <2>1. m \in Nat /\ l.requests <= m /\ l.requests \in Nat
    BY <1>2, <1>8
  <2>2. HandlerIds = 0..m
    BY DEF HandlerIds
  <2> HIDE DEF m
  <2> QED
    BY <2>1, <2>2
<1>11. 1..l.notices \subseteq 1..Largest({k.notices : k \in Bounds})
  <2> DEFINE m == Largest({k.notices : k \in Bounds})
  <2>1. m \in Nat /\ l.notices <= m /\ l.notices \in Nat
    BY <1>2, <1>7
  <2> HIDE DEF m
  <2>2. 1..l.notices \subseteq 1..m
    BY <2>1
  <2> QED
    BY <2>2 DEF m
<1>12. [number : 1..l.notices, kind : NoticeKinds] \subseteq Notice
  BY <1>11 DEF Notice
<1> QED
  BY <1>2, <1>9, <1>10, <1>12 DEF NoHandler, NoQueue

-----------------------------------------------------------------------------
(* Types.                                                                  *)

\* A descriptor whose queue is in order.  This holds of the queues that were
\* cut as well: only their pruned ids are of no use.
Kept(d) ==
    /\ d \in Descriptor
    /\ IsQueue(Notice, d.event_queue)
    /\ Ordered(d.event_queue)

TInv ==
    /\ TypeOK
    /\ published <= bound.notices
    /\ registered <= bound.queues
    /\ DOMAIN saved \subseteq 1..registered
    /\ \A q \in DOMAIN clients : Kept(clients[q])
    /\ \A q \in DOMAIN saved : Kept(saved[q])

(***************************************************************************)
(* What a descriptor that is kept in order has.                            *)
(***************************************************************************)
LEMMA KeptIs ==
    ASSUME NEW d
    PROVE  Kept(d) <=> /\ d = [event_queue |-> d.event_queue,
                               current_handler_id |-> d.current_handler_id]
                       /\ IsQueue(Notice, d.event_queue)
                       /\ Ordered(d.event_queue)
                       /\ d.current_handler_id \in HandlerIds \cup {NoHandler}
BY DEF Kept, Descriptor, IsQueue

(***************************************************************************)
(* finish_current_handler settles the queue of a connected descriptor and  *)
(* changes nothing else of it than its handler.                            *)
(***************************************************************************)
LEMMA FinishedKeeps ==
    ASSUME NEW d, Kept(d)
    PROVE  /\ Kept(Finished(d))
           /\ Finished(d).current_handler_id = NoHandler
           /\ Finished(d).event_queue =
                 IF d.current_handler_id = NoHandler THEN d.event_queue
                 ELSE Settle(d.event_queue)
<1>1. /\ d = [event_queue |-> d.event_queue,
              current_handler_id |-> d.current_handler_id]
      /\ IsQueue(Notice, d.event_queue)
      /\ Ordered(d.event_queue)
  BY KeptIs
<1>2. CASE d.current_handler_id = NoHandler
  BY <1>2 DEF Finished
<1>3. CASE d.current_handler_id # NoHandler
  <2>1. Finished(d) = [event_queue |-> Settle(d.event_queue),
                       current_handler_id |-> NoHandler]
    BY <1>1, <1>3 DEF Finished, Detached
  <2>2. IsQueue(Notice, Settle(d.event_queue)) /\ Ordered(Settle(d.event_queue))
    BY <1>1, SettleKeeps
  <2> QED
    BY <1>3, <2>1, <2>2, KeptIs
<1> QED
  BY <1>2, <1>3

(***************************************************************************)
(* A descriptor without its handler has the same queue.                    *)
(***************************************************************************)
LEMMA DetachedKeeps ==
    ASSUME NEW d, Kept(d)
    PROVE  /\ Kept(Detached(d))
           /\ Detached(d).current_handler_id = NoHandler
           /\ Detached(d).event_queue = d.event_queue
<1>1. Detached(d) = [event_queue |-> d.event_queue, current_handler_id |-> NoHandler]
  BY KeptIs DEF Detached
<1> QED
  BY <1>1, KeptIs

(***************************************************************************)
(* A descriptor with another queue in order.                               *)
(***************************************************************************)
LEMMA WithQueueKeeps ==
    ASSUME NEW d, Kept(d), NEW e, IsQueue(Notice, e), Ordered(e)
    PROVE  /\ Kept([d EXCEPT !.event_queue = e])
           /\ [d EXCEPT !.event_queue = e].event_queue = e
           /\ [d EXCEPT !.event_queue = e].current_handler_id = d.current_handler_id
<1>1. [d EXCEPT !.event_queue = e] =
         [event_queue |-> e, current_handler_id |-> d.current_handler_id]
  BY KeptIs
<1> QED
  BY <1>1, KeptIs

(***************************************************************************)
(* The answers that finish_current_handler gives, and the table after      *)
(* disconnect_handler.                                                     *)
(***************************************************************************)
LEMMA AnswersAre ==
    ASSUME TypeOK, NEW queues, NEW finished,
           \A q \in queues : Kept(finished[q])
    PROVE  /\ Answers(queues, finished) \in [HandlerIds -> Answer \cup {Absent, Waiting}]
           /\ \A h \in HandlerIds :
                 \/ Answers(queues, finished)[h] = handlers[h]
                 \/ /\ handlers[h] = Waiting
                    /\ \E q \in queues :
                          /\ clients[q].current_handler_id = h
                          /\ Answers(queues, finished)[h]
                                = Success(finished[q].event_queue.queue)
           /\ \A h \in HandlerIds :
                 /\ handlers[h] # Waiting => Answers(queues, finished)[h] = handlers[h]
                 /\ (\E q \in queues : clients[q].current_handler_id = h)
                       => Answers(queues, finished)[h] # Waiting
<1> DEFINE A == Answers(queues, finished)
           IsOf(q, h) == clients[q].current_handler_id = h
<1>1. \A h \in HandlerIds :
         A[h] = IF handlers[h] = Waiting /\ \E q \in queues : IsOf(q, h)
                THEN Success(finished[CHOOSE q \in queues : IsOf(q, h)].event_queue.queue)
                ELSE handlers[h]
  BY DEF Answers
<1>2. DOMAIN A = HandlerIds
  BY DEF Answers
<1>3. A = [h \in HandlerIds |-> A[h]]
  BY DEF Answers
<1> HIDE DEF A, IsOf
<1>4. ASSUME NEW h \in HandlerIds
      PROVE  \/ A[h] = handlers[h] /\ ~(handlers[h] = Waiting /\ \E q \in queues : IsOf(q, h))
             \/ /\ handlers[h] = Waiting
                /\ \E q \in queues : IsOf(q, h) /\ A[h] = Success(finished[q].event_queue.queue)
  <2>1. CASE handlers[h] = Waiting /\ \E q \in queues : IsOf(q, h)
    <3> DEFINE q == CHOOSE q \in queues : IsOf(q, h)
    <3>1. q \in queues /\ IsOf(q, h)
      BY <2>1
    <3>2. A[h] = Success(finished[q].event_queue.queue)
      BY <1>1, <2>1
    <3> HIDE DEF q
    <3> QED
      BY <2>1, <3>1, <3>2
  <2>2. CASE ~(handlers[h] = Waiting /\ \E q \in queues : IsOf(q, h))
    BY <1>1, <2>2
  <2> QED
    BY <2>1, <2>2
<1>5. \A q \in queues : /\ Success(finished[q].event_queue.queue) \in Answer
                        /\ Success(finished[q].event_queue.queue) # Waiting
  <2> SUFFICES ASSUME NEW q \in queues
               PROVE  /\ Success(finished[q].event_queue.queue) \in Answer
                      /\ Success(finished[q].event_queue.queue) # Waiting
    OBVIOUS
  <2>1. finished[q].event_queue.queue \in Seq(Event(Notice))
    BY QueueFields DEF Kept
  <2> QED
    BY <2>1 DEF Success, Answer, Waiting
<1>6. \A h \in HandlerIds : handlers[h] \in Answer \cup {Absent, Waiting}
  BY DEF TypeOK
<1>7. \A h \in HandlerIds : A[h] \in Answer \cup {Absent, Waiting}
  BY <1>4, <1>5, <1>6
<1>8. A \in [HandlerIds -> Answer \cup {Absent, Waiting}]
  BY <1>3, <1>7
<1>9. \A h \in HandlerIds :
         /\ handlers[h] # Waiting => A[h] = handlers[h]
         /\ (\E q \in queues : IsOf(q, h)) => A[h] # Waiting
  BY <1>4, <1>5
<1> QED
  BY <1>4, <1>8, <1>9 DEF A, IsOf

(***************************************************************************)
(* What is cleared is a table of handlers as before.                       *)
(***************************************************************************)
LEMMA ClearedIs ==
    ASSUME TypeOK, NEW ids
    PROVE  /\ Cleared(ids) \in [HandlerIds -> QueueIds \cup {NoQueue}]
           /\ \A h \in HandlerIds :
                 \/ Cleared(ids)[h] = descriptors_by_handler_id[h] /\ (h = 0 \/ h \notin ids)
                 \/ Cleared(ids)[h] = NoQueue /\ h # 0 /\ h \in ids
<1>1. \A h \in HandlerIds : descriptors_by_handler_id[h] \in QueueIds \cup {NoQueue}
  BY DEF TypeOK
<1> QED
  BY <1>1 DEF Cleared

(***************************************************************************)
(* What the queues hold after add_event, and what was answered.            *)
(***************************************************************************)
LEMMA AddEventTypes ==
    ASSUME TInv, NEW queues \in SUBSET DOMAIN clients,
           NEW kind \in Kinds, NEW of \in Seq(Notice),
           AddEvent(queues, kind, of)
    PROVE  /\ DOMAIN clients' = DOMAIN clients
           /\ \A q \in DOMAIN clients :
                 /\ Kept(clients'[q])
                 /\ q \notin queues => clients'[q] = clients[q]
                 /\ q \in queues => /\ clients'[q].current_handler_id = NoHandler
                                    /\ clients'[q].event_queue =
                                         IF q \in Connected
                                         THEN Settle(Push(clients[q].event_queue, kind, of))
                                         ELSE Push(clients[q].event_queue, kind, of)
           /\ handlers' = Answers(queues \cap Connected, clients')
           /\ handlers' \in [HandlerIds -> Answer \cup {Absent, Waiting}]
           /\ descriptors_by_handler_id' = Cleared(HandlersOf(queues))
           /\ descriptors_by_handler_id' \in [HandlerIds -> QueueIds \cup {NoQueue}]
<1> DEFINE P(q) == [clients[q] EXCEPT !.event_queue = Push(clients[q].event_queue, kind, of)]
<1>1. clients' = [q \in DOMAIN clients |-> IF q \in queues THEN Finished(P(q)) ELSE clients[q]]
  <2>1. \A q \in DOMAIN clients : Kept(clients[q])
    BY DEF TInv
  <2> QED
    BY <2>1 DEF AddEvent
<1>2. DOMAIN clients' = DOMAIN clients
  BY <1>1
<1>3. ASSUME NEW q \in DOMAIN clients
      PROVE  /\ Kept(clients'[q])
             /\ q \notin queues => clients'[q] = clients[q]
             /\ q \in queues => /\ clients'[q].current_handler_id = NoHandler
                                /\ clients'[q].event_queue =
                                     IF q \in Connected
                                     THEN Settle(Push(clients[q].event_queue, kind, of))
                                     ELSE Push(clients[q].event_queue, kind, of)
  <2>1. Kept(clients[q])
    BY DEF TInv
  <2>2. CASE q \notin queues
    BY <1>1, <2>1, <2>2
  <2>3. CASE q \in queues
    <3>1. clients'[q] = Finished(P(q))
      BY <1>1, <2>3
    <3>2. /\ IsQueue(Notice, Push(clients[q].event_queue, kind, of))
          /\ Ordered(Push(clients[q].event_queue, kind, of))
      BY <2>1, PushKeeps DEF Kept
    <3>3. /\ Kept(P(q))
          /\ P(q).event_queue = Push(clients[q].event_queue, kind, of)
          /\ P(q).current_handler_id = clients[q].current_handler_id
      BY <2>1, <3>2, WithQueueKeeps
    <3> HIDE DEF P
    <3>4. /\ Kept(Finished(P(q)))
          /\ Finished(P(q)).current_handler_id = NoHandler
          /\ Finished(P(q)).event_queue =
                IF P(q).current_handler_id = NoHandler THEN P(q).event_queue
                ELSE Settle(P(q).event_queue)
      BY <3>3, FinishedKeeps
    <3> QED
      BY <2>3, <3>1, <3>3, <3>4 DEF Connected
  <2> QED
    BY <2>2, <2>3
<1>4. /\ handlers' = Answers(queues \cap Connected, clients')
      /\ descriptors_by_handler_id' = Cleared(HandlersOf(queues))
  BY DEF AddEvent
<1>5. TypeOK
  BY DEF TInv
<1>6. \A q \in queues \cap Connected : Kept(clients'[q])
  BY <1>3
<1> HIDE DEF P
<1>7. handlers' \in [HandlerIds -> Answer \cup {Absent, Waiting}]
  BY <1>4, <1>5, <1>6, AnswersAre
<1>8. descriptors_by_handler_id' \in [HandlerIds -> QueueIds \cup {NoQueue}]
  BY <1>4, <1>5, ClearedIs
<1> QED
  BY <1>2, <1>3, <1>4, <1>7, <1>8

(***************************************************************************)
(* The messages of what was collected are notices.                         *)
(***************************************************************************)
LEMMA CollectTypes ==
    ASSUME TInv, NEW queues \in SUBSET DOMAIN clients, Collect(queues)
    PROVE  /\ DOMAIN clients' = DOMAIN clients \ queues
           /\ \A q \in DOMAIN clients' : clients'[q] = clients[q] /\ Kept(clients'[q])
           /\ notified' \subseteq Notice
<1>1. \A q \in DOMAIN clients : Kept(clients[q])
  BY DEF TInv
<1>2. \A q \in DOMAIN clients : Held(clients[q].event_queue) \subseteq Notice
  BY <1>1, HeldAre DEF Kept
<1>3. notified \subseteq Notice
  BY DEF TInv, TypeOK
<1> QED
  BY <1>1, <1>2, <1>3 DEF Collect, Messages

-----------------------------------------------------------------------------
(***************************************************************************)
(* The types hold at the start.                                            *)
(***************************************************************************)
LEMMA TypeInit ==
    ASSUME Init
    PROVE  TInv
<1>1. bound \in Bounds /\ bound.queues \in Nat /\ bound.notices \in Nat /\ 0 \in HandlerIds
  BY BoundsHold DEF Init
<1>2. clients = <<>> /\ saved = <<>> /\ DOMAIN <<>> = {}
  BY DEF Init
<1>3. <<>> \in Seq(Notice)
  BY EmptySeq
<1>4. TypeOK
  BY <1>1, <1>2, <1>3 DEF Init, TypeOK, Idle, NoQueue, NoHandler
<1> QED
  BY <1>1, <1>2, <1>4 DEF Init, TInv

(***************************************************************************)
(* Tornado's callbacks.                                                    *)
(***************************************************************************)
LEMMA NotificationTypes ==
    ASSUME TInv, ProcessNotification
    PROVE  TInv'
<1> DEFINE notice == Head(rabbit)
<1>1. TypeOK /\ rabbit \in Seq(Notice) /\ rabbit # <<>>
  BY DEF TInv, TypeOK, ProcessNotification
<1>2. notice \in Notice /\ Tail(rabbit) \in Seq(Notice)
  BY <1>1, HeadTailProperties
<1>3. notice.kind \in Kinds /\ <<notice>> \in Seq(Notice)
  BY <1>2 DEF Notice, Kinds
<1>4. AddEvent(DOMAIN clients, notice.kind, <<notice>>)
  BY DEF ProcessNotification
<1> HIDE DEF notice
<1>5. /\ DOMAIN clients' = DOMAIN clients
      /\ \A q \in DOMAIN clients : Kept(clients'[q])
      /\ handlers' \in [HandlerIds -> Answer \cup {Absent, Waiting}]
      /\ descriptors_by_handler_id' \in [HandlerIds -> QueueIds \cup {NoQueue}]
  BY <1>3, <1>4, AddEventTypes
<1>6. \A q \in QueueIds : pushed[q] \in Seq(Notice) /\ Append(pushed[q], notice) \in Seq(Notice)
  BY <1>1, <1>2, AppendProperties DEF TypeOK
<1>7. pushed' \in [QueueIds -> Seq(Notice)]
  BY <1>6 DEF ProcessNotification, notice
<1>8. notified' \subseteq Notice
  BY <1>1, <1>2 DEF ProcessNotification, TypeOK, Messages, notice
<1>9. rabbit' \in Seq(Notice)
  BY <1>2 DEF ProcessNotification
<1>10. UNCHANGED <<bound, phase, starts, registered, first_request, heartbeats, saved,
                   published, browser, got, known, cut, dropped>>
  BY DEF ProcessNotification
<1>11. TypeOK'
  BY <1>1, <1>5, <1>7, <1>8, <1>9, <1>10 DEF TypeOK, Kept
<1> QED
  BY <1>5, <1>10, <1>11 DEF TInv

(***************************************************************************)
(* A heartbeat keeps the types,                                            *)
(***************************************************************************)
LEMMA HeartbeatTypes ==
    ASSUME TInv, NEW q \in QueueIds, Heartbeat(q)
    PROVE  TInv'
<1>1. TypeOK /\ q \in Connected /\ heartbeats' = heartbeats + 1
  BY DEF TInv, Heartbeat
<1>2. {q} \in SUBSET DOMAIN clients
  BY <1>1 DEF Connected
<1>3. "heartbeat" \in Kinds /\ <<>> \in Seq(Notice)
  BY EmptySeq DEF Kinds
<1>4. AddEvent({q}, "heartbeat", <<>>)
  BY DEF Heartbeat
<1>5. /\ DOMAIN clients' = DOMAIN clients
      /\ \A r \in DOMAIN clients : Kept(clients'[r])
      /\ handlers' \in [HandlerIds -> Answer \cup {Absent, Waiting}]
      /\ descriptors_by_handler_id' \in [HandlerIds -> QueueIds \cup {NoQueue}]
  BY <1>2, <1>3, <1>4, AddEventTypes
<1>6. UNCHANGED <<bound, phase, starts, registered, first_request, saved, broker,
                  browser, history>>
  BY DEF Heartbeat
<1>7. TypeOK'
  BY <1>1, <1>5, <1>6 DEF TypeOK, Kept, broker, history
<1> QED
  BY <1>5, <1>6, <1>7 DEF TInv, broker, history

(***************************************************************************)
(* ... as do the collection of expired queues,                             *)
(***************************************************************************)
LEMMA GcTypes ==
    ASSUME TInv, NEW queues \in SUBSET DOMAIN clients, GcEventQueues(queues)
    PROVE  TInv'
<1>1. TypeOK /\ Collect(queues)
  BY DEF TInv, GcEventQueues
<1>2. /\ DOMAIN clients' = DOMAIN clients \ queues
      /\ \A q \in DOMAIN clients' : clients'[q] = clients[q] /\ Kept(clients'[q])
      /\ notified' \subseteq Notice
  BY <1>1, CollectTypes
<1>3. UNCHANGED <<bound, phase, starts, registered, handlers, descriptors_by_handler_id,
                  first_request, heartbeats, saved, broker, browser, pushed,
                  got, known, cut, dropped>>
  BY DEF GcEventQueues
<1>4. TypeOK'
  BY <1>1, <1>2, <1>3 DEF TypeOK, Kept, broker
<1> QED
  BY <1>2, <1>3, <1>4 DEF TInv, broker

(***************************************************************************)
(* ... and the end of a connection.                                        *)
(***************************************************************************)
LEMMA CloseTypes ==
    ASSUME TInv, NEW h \in HandlerIds, OnConnectionClose(h)
    PROVE  TInv'
<1> DEFINE q == descriptors_by_handler_id[h]
<1>1. TypeOK /\ \A r \in DOMAIN clients : Kept(clients[r])
  BY DEF TInv
<1>2. /\ DOMAIN clients' = DOMAIN clients
      /\ \A r \in DOMAIN clients : Kept(clients'[r])
      /\ descriptors_by_handler_id' \in [HandlerIds -> QueueIds \cup {NoQueue}]
  <2>1. CASE q \in DOMAIN clients
    <3>1. /\ clients' = [clients EXCEPT ![q] = Detached(clients[q])]
          /\ descriptors_by_handler_id' = Cleared(HandlersOf({q}))
      BY <2>1 DEF OnConnectionClose
    <3>2. Kept(Detached(clients[q]))
      BY <1>1, <2>1, DetachedKeeps
    <3> QED
      BY <1>1, <2>1, <3>1, <3>2, ClearedIs
  <2>2. CASE q \notin DOMAIN clients
    <3>1. UNCHANGED <<clients, descriptors_by_handler_id>>
      BY <2>2 DEF OnConnectionClose
    <3> QED
      BY <1>1, <3>1 DEF TypeOK
  <2> QED
    BY <2>1, <2>2
<1>3. handlers' \in [HandlerIds -> Answer \cup {Absent, Waiting}]
  BY <1>1 DEF OnConnectionClose, TypeOK
<1>4. browser' \in [Browsers -> [queue_id : QueueIds \cup {NoQueue},
                                 last_event_id : Nat \cup {-1},
                                 xhr : HandlerIds \cup {NoHandler}]]
  BY ZenonT(60), <1>1 DEF OnConnectionClose, TypeOK
<1>5. UNCHANGED <<bound, phase, starts, registered, first_request, heartbeats, saved,
                  broker, history>>
  BY DEF OnConnectionClose
<1>6. TypeOK'
  BY <1>1, <1>2, <1>3, <1>4, <1>5 DEF TypeOK, Kept, broker, history
<1> QED
  BY <1>2, <1>5, <1>6 DEF TInv, broker, history

(***************************************************************************)
(* Shutdown and start.                                                     *)
(***************************************************************************)
LEMMA DumpTypes ==
    ASSUME TInv, DumpEventQueues
    PROVE  TInv'
<1>1. TypeOK /\ \A q \in DOMAIN clients : Kept(clients[q])
  BY DEF TInv
<1>2. /\ saved' = [q \in DOMAIN clients |-> Detached(clients[q])]
      /\ phase' = "closing"
      /\ UNCHANGED <<bound, starts, clients, registered, handlers, descriptors_by_handler_id,
                     first_request, heartbeats, broker, browser, history>>
  BY DEF DumpEventQueues
<1>3. /\ DOMAIN saved' = DOMAIN clients
      /\ \A q \in DOMAIN saved' : Kept(saved'[q])
  BY <1>1, <1>2, DetachedKeeps
<1>4. TypeOK'
  BY <1>1, <1>2, <1>3 DEF TypeOK, Kept, broker, history
<1> QED
  BY <1>1, <1>2, <1>3, <1>4 DEF TInv, TypeOK, broker, history

(***************************************************************************)
(* The end of the process keeps the types,                                 *)
(***************************************************************************)
LEMMA StopTypes ==
    ASSUME TInv, Stop
    PROVE  TInv'
<1>1. /\ TypeOK /\ DOMAIN saved \subseteq 1..registered
      /\ \A q \in DOMAIN clients : Kept(clients[q])
      /\ registered <= bound.queues /\ bound \in Bounds /\ registered \in QueueIds \cup {0}
  BY DEF TInv, TypeOK
<1>2. /\ clients' = <<>>
      /\ phase' = "down"
      /\ handlers' = [h \in HandlerIds |-> Absent]
      /\ descriptors_by_handler_id' = [h \in HandlerIds |-> NoQueue]
      /\ browser' = [b \in Browsers |-> [browser[b] EXCEPT !.xhr = NoHandler]]
      /\ cut' = cut \cup {q \in DOMAIN saved : ChangedSinceDump(q)}
      /\ dropped' = dropped \cup
            ((UNION {Held(clients[q].event_queue) : q \in DOMAIN clients})
             \ (UNION {Held(saved[q].event_queue) : q \in DOMAIN saved}))
      /\ UNCHANGED <<bound, starts, registered, first_request, heartbeats, saved, broker,
                     pushed, got, notified, known>>
  BY DEF Stop
<1>3. DOMAIN clients' = {}
  BY <1>2
<1>4. \A q \in DOMAIN clients : Held(clients[q].event_queue) \subseteq Notice
  BY <1>1, HeldAre DEF Kept
<1>5. dropped' \subseteq Notice
  BY <1>1, <1>2, <1>4 DEF TypeOK
<1>6. cut' \subseteq QueueIds
  <2>1. 1..bound.queues \subseteq QueueIds /\ bound.queues \in Nat /\ QueueIds \subseteq Nat \ {0}
    BY <1>1, BoundsHold
  <2>2. 1..registered \subseteq 1..bound.queues
    BY <1>1, <2>1
  <2> QED
    BY <1>1, <1>2, <2>1, <2>2 DEF TypeOK
<1>7. browser' \in [Browsers -> [queue_id : QueueIds \cup {NoQueue},
                                 last_event_id : Nat \cup {-1},
                                 xhr : HandlerIds \cup {NoHandler}]]
  BY ZenonT(60), <1>1, <1>2 DEF TypeOK
<1>8. TypeOK'
  BY <1>1, <1>2, <1>3, <1>5, <1>6, <1>7 DEF TypeOK, broker
<1> QED
  BY <1>1, <1>2, <1>3, <1>8 DEF TInv, broker

(***************************************************************************)
(* ... and its start, which pushes a restart event into the queues of the  *)
(* file.                                                                   *)
(***************************************************************************)
LEMMA SetupTypes ==
    ASSUME TInv, SetupEventQueue
    PROVE  /\ TInv'
           /\ DOMAIN clients' = DOMAIN saved
           /\ \A q \in DOMAIN saved :
                 /\ clients'[q].event_queue = Push(saved[q].event_queue, "restart", <<>>)
                 /\ clients'[q].current_handler_id = saved[q].current_handler_id
<1>1. /\ TypeOK /\ DOMAIN saved \subseteq 1..registered
      /\ \A q \in DOMAIN saved : Kept(saved[q])
  BY DEF TInv
<1>2. /\ clients' = [q \in DOMAIN saved |->
                        [saved[q] EXCEPT !.event_queue =
                            Push(saved[q].event_queue, "restart", <<>>)]]
      /\ phase' = "up"
      /\ starts' = starts + 1
      /\ saved' = <<>>
      /\ first_request' = TRUE
      /\ UNCHANGED <<bound, registered, handlers, descriptors_by_handler_id, heartbeats,
                     broker, browser, history>>
  BY <1>1 DEF SetupEventQueue
<1>3. DOMAIN clients' = DOMAIN saved /\ DOMAIN saved' = {}
  BY <1>2
<1>4. \A q \in DOMAIN saved :
         /\ Kept(clients'[q])
         /\ clients'[q].event_queue = Push(saved[q].event_queue, "restart", <<>>)
         /\ clients'[q].current_handler_id = saved[q].current_handler_id
  <2> SUFFICES ASSUME NEW q \in DOMAIN saved
               PROVE  /\ Kept(clients'[q])
                      /\ clients'[q].event_queue = Push(saved[q].event_queue, "restart", <<>>)
                      /\ clients'[q].current_handler_id = saved[q].current_handler_id
    OBVIOUS
  <2>1. "restart" \in Kinds /\ <<>> \in Seq(Notice)
    BY EmptySeq DEF Kinds
  <2> DEFINE e == Push(saved[q].event_queue, "restart", <<>>)
  <2>2. IsQueue(Notice, e) /\ Ordered(e)
    BY <1>1, <2>1, PushKeeps DEF Kept
  <2>3. clients'[q] = [saved[q] EXCEPT !.event_queue = e]
    BY <1>2
  <2> HIDE DEF e
  <2> QED
    BY <1>1, <2>2, <2>3, WithQueueKeeps DEF e
<1>5. TypeOK'
  <2>1. \A q \in DOMAIN clients' : clients'[q] \in Descriptor
    BY <1>3, <1>4 DEF Kept
  <2>2. DOMAIN clients' \subseteq 1..registered'
    BY <1>1, <1>2, <1>3
  <2>3. \A q \in DOMAIN saved' : saved'[q] \in Descriptor
    BY <1>3
  <2> QED
    BY <1>1, <1>2, <2>1, <2>2, <2>3 DEF TypeOK, broker, history
<1>6. TInv'
  BY <1>1, <1>2, <1>3, <1>4, <1>5 DEF TInv, broker, history
<1> QED
  BY <1>3, <1>4, <1>6

(***************************************************************************)
(* The browsers.                                                           *)
(***************************************************************************)
LEMMA RegisterTypes ==
    ASSUME TInv, NEW b \in Browsers, Register(b)
    PROVE  /\ TInv'
           /\ registered' = registered + 1
           /\ registered + 1 \in QueueIds
           /\ registered + 1 \notin DOMAIN clients
           /\ DOMAIN clients' = DOMAIN clients \cup {registered + 1}
           /\ clients'[registered + 1].event_queue = NewQueue
           /\ clients'[registered + 1].current_handler_id = NoHandler
           /\ \A q \in DOMAIN clients : clients'[q] = clients[q]
<1> DEFINE new == registered + 1
<1>1. /\ TypeOK /\ DOMAIN saved \subseteq 1..registered
      /\ DOMAIN clients \subseteq 1..registered
      /\ \A q \in DOMAIN clients : Kept(clients[q])
      /\ \A q \in DOMAIN saved : Kept(saved[q])
      /\ bound \in Bounds /\ registered \in QueueIds \cup {0}
      /\ published \in Nat
  BY DEF TInv, TypeOK
<1>2. /\ registered < bound.queues
      /\ registered' = new
      /\ clients' = [q \in DOMAIN clients \cup {new} |->
                      IF q = new
                      THEN [event_queue |-> NewQueue, current_handler_id |-> NoHandler]
                      ELSE clients[q]]
      /\ browser' = [browser EXCEPT ![b].queue_id = new]
      /\ known' = published
      /\ first_request' = FALSE
      /\ UNCHANGED <<bound, phase, starts, handlers, descriptors_by_handler_id, heartbeats,
                     saved, broker, pushed, got, notified, cut, dropped>>
  BY DEF Register
<1>3. 1..bound.queues \subseteq QueueIds /\ bound.queues \in Nat /\ QueueIds \subseteq Nat \ {0}
  BY <1>1, BoundsHold
<1>4. registered \in Nat /\ new \in QueueIds /\ new <= bound.queues
  BY <1>1, <1>2, <1>3
<1>5. new \notin 1..registered /\ 1..registered \subseteq 1..new /\ new \in 1..new
  BY <1>4
<1> HIDE DEF new
<1>6. Kept([event_queue |-> NewQueue, current_handler_id |-> NoHandler])
  BY NewQueueKeeps, KeptIs
<1>7. /\ DOMAIN clients' = DOMAIN clients \cup {new}
      /\ clients'[new] = [event_queue |-> NewQueue, current_handler_id |-> NoHandler]
      /\ \A q \in DOMAIN clients : clients'[q] = clients[q]
  BY <1>1, <1>2, <1>5
<1>8. \A q \in DOMAIN clients' : Kept(clients'[q])
  BY <1>1, <1>6, <1>7
<1>9. browser' \in [Browsers -> [queue_id : QueueIds \cup {NoQueue},
                                 last_event_id : Nat \cup {-1},
                                 xhr : HandlerIds \cup {NoHandler}]]
  BY <1>1, <1>2, <1>4 DEF TypeOK
<1>10. DOMAIN clients' \subseteq 1..registered' /\ DOMAIN saved' \subseteq 1..registered'
  BY <1>1, <1>2, <1>5, <1>7
<1>11. TypeOK'
  BY <1>1, <1>2, <1>4, <1>8, <1>9, <1>10 DEF TypeOK, Kept, broker
<1>12. TInv'
  BY <1>1, <1>2, <1>4, <1>8, <1>10, <1>11 DEF TInv, broker
<1> QED
  BY <1>1, <1>2, <1>4, <1>5, <1>7, <1>12 DEF new

(***************************************************************************)
(* A poll that arrives keeps the types of what it has in common with       *)
(* others.                                                                 *)
(***************************************************************************)
LEMMA RequestTypes ==
    ASSUME TInv, NEW b \in Browsers, NEW h \in HandlerIds, NEW alive \in BOOLEAN,
           Request(b, h, alive)
    PROVE  /\ browser' \in [Browsers -> [queue_id : QueueIds \cup {NoQueue},
                                         last_event_id : Nat \cup {-1},
                                         xhr : HandlerIds \cup {NoHandler}]]
           /\ first_request' \in BOOLEAN
           /\ UNCHANGED <<bound, phase, starts, registered, heartbeats, saved, rabbit,
                          published, pushed, got, notified, known, cut, dropped>>
           /\ browser[b].queue_id \in QueueIds
           /\ browser[b].xhr = NoHandler
           /\ browser[b].last_event_id \in Int
           /\ \A c \in Browsers : /\ browser'[c].queue_id = browser[c].queue_id
                                  /\ browser'[c].last_event_id = browser[c].last_event_id
                                  /\ c # b => browser'[c].xhr = browser[c].xhr
           /\ browser'[b].xhr = IF alive THEN h ELSE NoHandler
<1>1. browser \in [Browsers -> [queue_id : QueueIds \cup {NoQueue},
                                last_event_id : Nat \cup {-1},
                                xhr : HandlerIds \cup {NoHandler}]]
  BY DEF TInv, TypeOK
<1>2. /\ browser' = [browser EXCEPT ![b].xhr = IF alive THEN h ELSE NoHandler]
      /\ browser[b].queue_id # NoQueue
      /\ browser[b].xhr = NoHandler
      /\ first_request' = FALSE
      /\ UNCHANGED <<bound, phase, starts, registered, heartbeats, saved, rabbit,
                     published, pushed, got, notified, known, cut, dropped>>
  BY DEF Request, broker, history
<1> DEFINE id == IF alive THEN h ELSE NoHandler
<1>3. id \in HandlerIds \cup {NoHandler}
  OBVIOUS
<1>4. browser' = [browser EXCEPT ![b].xhr = id]
  BY <1>2
<1> HIDE DEF id
<1>5. /\ browser[b].queue_id \in QueueIds
      /\ browser[b].last_event_id \in Int
  BY <1>1, <1>2
<1>6. /\ browser'[b] = [browser[b] EXCEPT !.xhr = id]
      /\ \A c \in Browsers : c # b => browser'[c] = browser[c]
  BY <1>1, <1>4
<1>7. /\ browser'[b].xhr = id
      /\ browser'[b].queue_id = browser[b].queue_id
      /\ browser'[b].last_event_id = browser[b].last_event_id
  BY <1>1, <1>6
<1>8. browser' \in [Browsers -> [queue_id : QueueIds \cup {NoQueue},
                                 last_event_id : Nat \cup {-1},
                                 xhr : HandlerIds \cup {NoHandler}]]
  BY <1>1, <1>3, <1>4
<1> QED
  BY <1>2, <1>5, <1>6, <1>7, <1>8 DEF id

(***************************************************************************)
(* The answer of a poll is one of a handler.                               *)
(***************************************************************************)
LEMMA ArrivedTypes ==
    ASSUME NEW h \in HandlerIds, NEW alive \in BOOLEAN,
           NEW answer \in Answer \cup {Absent, Waiting},
           NEW others \in [HandlerIds -> Answer \cup {Absent, Waiting}]
    PROVE  /\ Arrived(h, alive, answer, others)
                 \in [HandlerIds -> Answer \cup {Absent, Waiting}]
           /\ Arrived(h, alive, answer, others)[h] = IF alive THEN answer ELSE others[h]
           /\ \A i \in HandlerIds \ {h} : Arrived(h, alive, answer, others)[i] = others[i]
BY DEF Arrived

(***************************************************************************)
(* A refusal is an answer without events.                                  *)
(***************************************************************************)
LEMMA ErrorIsAnswer ==
    ASSUME NEW code \in {"BAD_EVENT_QUEUE_ID", "BAD_REQUEST"}
    PROVE  /\ Error(code) \in Answer
           /\ Error(code) # Waiting
           /\ Error(code) # Absent
           /\ Error(code).events = <<>>
           /\ Error(code).result = code
<1>1. <<>> \in Seq(Event(Notice))
  BY EmptySeq
<1> QED
  BY <1>1 DEF Error, Answer, Waiting, Absent

(***************************************************************************)
(* A poll of an unknown queue keeps the types,                             *)
(***************************************************************************)
LEMMA UnknownQueueTypes ==
    ASSUME TInv, NEW b \in Browsers, NEW h \in HandlerIds, NEW alive \in BOOLEAN,
           FetchUnknownQueue(b, h, alive)
    PROVE  TInv'
<1>1. TypeOK /\ Request(b, h, alive) /\ UNCHANGED <<clients, descriptors_by_handler_id>>
  BY DEF TInv, FetchUnknownQueue
<1>2. handlers' \in [HandlerIds -> Answer \cup {Absent, Waiting}]
  <2>1. handlers \in [HandlerIds -> Answer \cup {Absent, Waiting}]
    BY <1>1 DEF TypeOK
  <2> QED
    BY <2>1, ArrivedTypes, ErrorIsAnswer DEF FetchUnknownQueue
<1>3. TypeOK'
  BY SMTT(30), <1>1, <1>2, RequestTypes DEF TypeOK
<1> QED
  BY <1>1, <1>3, RequestTypes DEF TInv

(***************************************************************************)
(* What a poll leaves of its queue before it looks at it.                  *)
(***************************************************************************)
LEMMA AcknowledgedKeeps ==
    ASSUME TInv, NEW b \in Browsers, browser[b].queue_id \in DOMAIN clients
    PROVE  LET e == clients[browser[b].queue_id].event_queue
               a == Acknowledged(b)
               last == browser[b].last_event_id
           IN  /\ last \in Int
               /\ IsQueue(Notice, e) /\ Ordered(e)
               /\ IsQueue(Notice, a) /\ Ordered(a)
               /\ a.virtual_events = e.virtual_events
               /\ a.next_event_id = e.next_event_id
               /\ ToSet(a.queue) \subseteq ToSet(e.queue)
               /\ \A x \in ToSet(e.queue) : x \in ToSet(a.queue) \/ x.id <= last
               /\ \/ a = e
                  \/ /\ a.newest_pruned_id <= last
                     /\ \E x \in ToSet(e.queue) \ ToSet(a.queue) :
                           x.id = a.newest_pruned_id
                     /\ \A x \in ToSet(a.queue) : a.newest_pruned_id < x.id
               /\ IsEmpty(e) => a = e
<1> DEFINE e == clients[browser[b].queue_id].event_queue
           a == Acknowledged(b)
           last == browser[b].last_event_id
<1>1. IsQueue(Notice, e) /\ Ordered(e)
  BY DEF TInv, Kept
<1>2. last \in Int
  BY DEF TInv, TypeOK
<1>3. a = IF last < e.newest_pruned_id THEN e ELSE Prune(e, last)
  BY DEF Acknowledged
<1> HIDE DEF e, last, a
<1>4. IsEmpty(e) => Prune(e, last) = e
  <2> SUFFICES ASSUME IsEmpty(e) PROVE Prune(e, last) = e
    OBVIOUS
  <2>1. e.queue = <<>> /\ Len(<<>>) = 0
    BY DEF IsEmpty
  <2>2. PICK k \in 0..Len(e.queue) :
           Prune(e, last) =
              IF k = 0 THEN e
              ELSE [e EXCEPT !.queue = SubSeq(e.queue, k + 1, Len(e.queue)),
                             !.newest_pruned_id = e.queue[k].id]
    BY <1>1, <1>2, PruneTakesHead
  <2>3. k = 0
    BY <2>1
  <2> QED
    BY <2>2, <2>3
<1>5. CASE last < e.newest_pruned_id
  BY <1>1, <1>2, <1>3, <1>5 DEF e, a, last
<1>6. CASE ~(last < e.newest_pruned_id)
  <2>1. a = Prune(e, last)
    BY <1>3, <1>6
  <2>2. LET p == Prune(e, last)
        IN  /\ IsQueue(Notice, p) /\ Ordered(p)
            /\ p.virtual_events = e.virtual_events
            /\ p.next_event_id = e.next_event_id
            /\ ToSet(p.queue) \subseteq ToSet(e.queue)
            /\ \A x \in ToSet(e.queue) : x \in ToSet(p.queue) \/ x.id <= last
            /\ \/ p = e
               \/ /\ p.newest_pruned_id <= last
                  /\ \E x \in ToSet(e.queue) \ ToSet(p.queue) :
                        x.id = p.newest_pruned_id
                  /\ \A x \in ToSet(p.queue) : p.newest_pruned_id < x.id
    BY <1>1, <1>2, PruneKeeps
  <2> QED
    BY <1>1, <1>2, <1>4, <2>1, <2>2 DEF e, a, last
<1> QED
  BY <1>5, <1>6

(***************************************************************************)
(* ... as does one with an outdated id,                                    *)
(***************************************************************************)
LEMMA RefusedTypes ==
    ASSUME TInv, NEW b \in Browsers, NEW h \in HandlerIds, NEW alive \in BOOLEAN,
           FetchRefused(b, h, alive)
    PROVE  /\ TInv'
           /\ DOMAIN clients' = DOMAIN clients
           /\ browser[b].queue_id \in DOMAIN clients
           /\ clients'[browser[b].queue_id].event_queue = Acknowledged(b)
           /\ clients'[browser[b].queue_id].current_handler_id
                 = clients[browser[b].queue_id].current_handler_id
           /\ \A r \in DOMAIN clients : r # browser[b].queue_id => clients'[r] = clients[r]
<1> DEFINE q == browser[b].queue_id
           a == Acknowledged(b)
<1>1. /\ TypeOK
      /\ \A r \in DOMAIN clients : Kept(clients[r])
      /\ Request(b, h, alive)
      /\ q \in DOMAIN clients
      /\ clients' = [clients EXCEPT ![q].event_queue = a]
      /\ handlers' = Arrived(h, alive, Error("BAD_REQUEST"), handlers)
      /\ UNCHANGED descriptors_by_handler_id
  BY DEF TInv, FetchRefused
<1>2. IsQueue(Notice, a) /\ Ordered(a)
  BY <1>1, AcknowledgedKeeps
<1> HIDE DEF q, a
<1>3. handlers' \in [HandlerIds -> Answer \cup {Absent, Waiting}]
  <2>1. handlers \in [HandlerIds -> Answer \cup {Absent, Waiting}]
    BY <1>1 DEF TypeOK
  <2> QED
    BY <1>1, <2>1, ArrivedTypes, ErrorIsAnswer
<1>4. /\ DOMAIN clients' = DOMAIN clients
      /\ clients'[q] = [clients[q] EXCEPT !.event_queue = a]
      /\ \A r \in DOMAIN clients : r # q => clients'[r] = clients[r]
  BY <1>1
<1>5. /\ Kept(clients'[q])
      /\ clients'[q].event_queue = a
      /\ clients'[q].current_handler_id = clients[q].current_handler_id
  BY ZenonT(60), <1>1, <1>2, <1>4, WithQueueKeeps
<1>6. \A r \in DOMAIN clients' : Kept(clients'[r])
  BY <1>1, <1>4, <1>5
<1>7. TypeOK'
  <2>1. \A r \in DOMAIN clients' : clients'[r] \in Descriptor
    BY <1>6 DEF Kept
  <2>2. /\ browser' \in [Browsers -> [queue_id : QueueIds \cup {NoQueue},
                                      last_event_id : Nat \cup {-1},
                                      xhr : HandlerIds \cup {NoHandler}]]
        /\ first_request' \in BOOLEAN
        /\ UNCHANGED <<bound, phase, starts, registered, heartbeats, saved, rabbit,
                       published, pushed, got, notified, known, cut, dropped>>
    BY <1>1, RequestTypes
  <2> QED
    BY <1>1, <1>3, <1>4, <2>1, <2>2 DEF TypeOK
<1>8. TInv'
  BY <1>1, <1>4, <1>6, <1>7, RequestTypes DEF TInv
<1> QED
  BY <1>1, <1>4, <1>5, <1>8 DEF q, a

\* A poll that is not refused: what it finds of its queue, its answer, and
\* the answer to the poll that it supplants
FetchEffect(b, h, alive, dont_block) ==
    LET q == browser[b].queue_id
        a == Acknowledged(b)
        sleeps == IsEmpty(a) /\ ~dont_block
    IN  /\ q \in DOMAIN clients
        /\ browser[b].last_event_id = a.newest_pruned_id
        /\ DOMAIN clients' = DOMAIN clients
        /\ clients'[q].event_queue = Settle(a)
        /\ clients'[q].current_handler_id = IF sleeps THEN h ELSE NoHandler
        /\ \A r \in DOMAIN clients : r # q => clients'[r] = clients[r]
        /\ alive => handlers'[h] = IF sleeps THEN Waiting ELSE Success(Settle(a).queue)
        /\ \A i \in HandlerIds : i # h \/ ~alive =>
              /\ \/ handlers'[i] = handlers[i]
                 \/ /\ handlers[i] = Waiting
                    /\ q \in Connected
                    /\ clients[q].current_handler_id = i
                    /\ handlers'[i] = Success(Settle(a).queue)
              /\ handlers[i] # Waiting => handlers'[i] = handlers[i]
              /\ q \in Connected /\ clients[q].current_handler_id = i
                    => handlers'[i] # Waiting
        /\ \A i \in HandlerIds :
              descriptors_by_handler_id'[i] =
                 IF sleeps /\ i = h THEN q ELSE Cleared(HandlersOf({q}))[i]

(***************************************************************************)
(* ... and one that waits or is answered.                                  *)
(***************************************************************************)
LEMMA FetchTypes ==
    ASSUME TInv, NEW b \in Browsers, NEW h \in HandlerIds, NEW alive \in BOOLEAN,
           NEW dont_block \in BOOLEAN, FetchEvents(b, h, alive, dont_block)
    PROVE  TInv' /\ FetchEffect(b, h, alive, dont_block)
<1> DEFINE q == browser[b].queue_id
           a == Acknowledged(b)
           sleeps == IsEmpty(a) /\ ~dont_block
           pruned == [clients[q] EXCEPT !.event_queue = a]
           finished == [r \in {q} |-> Finished(pruned)]
           idle == [pruned EXCEPT !.event_queue = Settle(pruned.event_queue),
                                  !.current_handler_id = NoHandler]
           others == Answers({q} \cap Connected, finished)
           table == Cleared(HandlersOf({q}))
<1>1. /\ TypeOK
      /\ \A r \in DOMAIN clients : Kept(clients[r])
      /\ Request(b, h, alive)
      /\ q \in DOMAIN clients
      /\ browser[b].last_event_id = a.newest_pruned_id
  BY DEF TInv, FetchEvents
<1>2. IsQueue(Notice, a) /\ Ordered(a)
  BY <1>1, AcknowledgedKeeps
<1>3. IsQueue(Notice, Settle(a)) /\ Ordered(Settle(a))
  BY <1>2, SettleKeeps
<1>4. /\ Kept(pruned)
      /\ pruned.event_queue = a
      /\ pruned.current_handler_id = clients[q].current_handler_id
  <2> HIDE DEF a, q
  <2> QED
    BY <1>1, <1>2, WithQueueKeeps
<1>5. /\ IF sleeps
         THEN /\ clients' = [clients EXCEPT ![q] = [idle EXCEPT !.current_handler_id = h]]
              /\ handlers' = Arrived(h, alive, Waiting, others)
              /\ descriptors_by_handler_id' = [table EXCEPT ![h] = q]
         ELSE /\ clients' = [clients EXCEPT ![q] = idle]
              /\ handlers' = Arrived(h, alive, Success(idle.event_queue.queue), others)
              /\ descriptors_by_handler_id' = table
  BY <1>4 DEF FetchEvents
<1> HIDE DEF q, a, pruned, table, others
<1>6. /\ idle = [event_queue |-> Settle(a), current_handler_id |-> NoHandler]
      /\ [idle EXCEPT !.current_handler_id = h]
            = [event_queue |-> Settle(a), current_handler_id |-> h]
  <2>1. pruned = [event_queue |-> a, current_handler_id |-> clients[q].current_handler_id]
    BY <1>4, KeptIs
  <2>2. idle = [pruned EXCEPT !.event_queue = Settle(a), !.current_handler_id = NoHandler]
    BY <1>4
  <2> HIDE DEF idle
  <2>3. idle = [event_queue |-> Settle(a), current_handler_id |-> NoHandler]
    BY <2>1, <2>2
  <2> QED
    BY <2>3
<1> HIDE DEF idle
<1>7. /\ DOMAIN clients' = DOMAIN clients
      /\ clients'[q] = [event_queue |-> Settle(a),
                        current_handler_id |-> IF sleeps THEN h ELSE NoHandler]
      /\ \A r \in DOMAIN clients : r # q => clients'[r] = clients[r]
  <2> HIDE DEF sleeps
  <2> QED
    BY <1>1, <1>5, <1>6
<1> HIDE DEF sleeps
<1>8. /\ clients'[q].event_queue = Settle(a)
      /\ clients'[q].current_handler_id = IF sleeps THEN h ELSE NoHandler
      /\ Kept(clients'[q])
  <2>1. /\ clients'[q].event_queue = Settle(a)
        /\ clients'[q].current_handler_id = IF sleeps THEN h ELSE NoHandler
    BY <1>7
  <2> QED
    BY <1>3, <1>7, <2>1, KeptIs
<1>9. \A r \in {q} \cap Connected :
         /\ Kept(finished[r])
         /\ finished[r].event_queue = Settle(a)
         /\ r = q
  <2>1. CASE q \in Connected
    <3>1. pruned.current_handler_id # NoHandler
      BY <1>4, <2>1 DEF Connected
    <3>2. /\ Kept(Finished(pruned))
          /\ Finished(pruned).event_queue = Settle(a)
      BY <1>4, <3>1, FinishedKeeps
    <3> QED
      BY <3>2
  <2>2. CASE q \notin Connected
    BY <2>2
  <2> QED
    BY <2>1, <2>2
<1> HIDE DEF finished
<1>10. /\ others \in [HandlerIds -> Answer \cup {Absent, Waiting}]
       /\ \A i \in HandlerIds :
             /\ \/ others[i] = handlers[i]
                \/ /\ handlers[i] = Waiting
                   /\ \E r \in {q} \cap Connected :
                         /\ clients[r].current_handler_id = i
                         /\ others[i] = Success(finished[r].event_queue.queue)
             /\ handlers[i] # Waiting => others[i] = handlers[i]
             /\ (\E r \in {q} \cap Connected : clients[r].current_handler_id = i)
                   => others[i] # Waiting
  BY <1>1, <1>9, AnswersAre DEF others
<1>11. Success(Settle(a).queue) \in Answer
  BY <1>3, QueueFields DEF Success, Answer
<1>12. /\ handlers' \in [HandlerIds -> Answer \cup {Absent, Waiting}]
       /\ alive => handlers'[h] = IF sleeps THEN Waiting ELSE Success(Settle(a).queue)
       /\ \A i \in HandlerIds : i # h \/ ~alive => handlers'[i] = others[i]
  <2> DEFINE answer == IF sleeps THEN Waiting ELSE Success(Settle(a).queue)
  <2>1. handlers' = Arrived(h, alive, answer, others)
    BY <1>5, <1>6
  <2>2. answer \in Answer \cup {Absent, Waiting}
    BY <1>11
  <2> HIDE DEF answer
  <2>3. /\ handlers' \in [HandlerIds -> Answer \cup {Absent, Waiting}]
        /\ handlers'[h] = IF alive THEN answer ELSE others[h]
        /\ \A i \in HandlerIds \ {h} : handlers'[i] = others[i]
    <3>1. others \in [HandlerIds -> Answer \cup {Absent, Waiting}]
      BY <1>10
    <3> QED
      BY <2>1, <2>2, <3>1, ArrivedTypes
  <2> QED
    BY <2>3 DEF answer
<1>13. /\ descriptors_by_handler_id' \in [HandlerIds -> QueueIds \cup {NoQueue}]
       /\ \A i \in HandlerIds :
             descriptors_by_handler_id'[i] = IF sleeps /\ i = h THEN q ELSE table[i]
  <2>1. table \in [HandlerIds -> QueueIds \cup {NoQueue}]
    BY <1>1, ClearedIs DEF table
  <2>2. q \in QueueIds
    BY <1>1, RequestTypes DEF q
  <2> QED
    BY <1>5, <2>1, <2>2
<1>14. \A r \in DOMAIN clients' : Kept(clients'[r])
  BY <1>1, <1>7, <1>8
<1>15. TypeOK'
  <2>1. \A r \in DOMAIN clients' : clients'[r] \in Descriptor
    BY <1>14 DEF Kept
  <2> QED
    BY SMTT(30), <1>1, <1>7, <1>12, <1>13, <2>1, RequestTypes DEF TypeOK
<1>16. TInv'
  BY <1>1, <1>7, <1>14, <1>15, RequestTypes DEF TInv
<1>17. \A i \in HandlerIds : i # h \/ ~alive =>
          /\ \/ handlers'[i] = handlers[i]
             \/ /\ handlers[i] = Waiting
                /\ q \in Connected
                /\ clients[q].current_handler_id = i
                /\ handlers'[i] = Success(Settle(a).queue)
          /\ handlers[i] # Waiting => handlers'[i] = handlers[i]
          /\ q \in Connected /\ clients[q].current_handler_id = i
                => handlers'[i] # Waiting
  BY <1>9, <1>10, <1>12
<1> QED
  BY <1>1, <1>7, <1>8, <1>12, <1>13, <1>16, <1>17 DEF FetchEffect, q, a, sleeps, table

(***************************************************************************)
(* The largest of the ids that a browser has seen.                         *)
(***************************************************************************)
LEMMA MaxIs ==
    ASSUME NEW n \in Int, NEW ids \in SUBSET Nat, IsFiniteSet(ids)
    PROVE  /\ Max({n} \cup ids) \in {n} \cup ids
           /\ Max({n} \cup ids) \in Int
           /\ \A i \in {n} \cup ids : i <= Max({n} \cup ids)
<1> DEFINE all == {n} \cup ids
<1>1. all \in SUBSET Int /\ all # {} /\ IsFiniteSet(all)
  <2>1. IsFiniteSet(all)
    BY FS_Singleton, FS_Union
  <2> QED
    BY <2>1
<1> HIDE DEF all
<1>2. \E i \in all : \A j \in all : j <= i
  BY <1>1, GreatestOfFinite
<1>3. \E i \in all : \A j \in all : i >= j
  BY <1>1, <1>2
<1>4. Max(all) \in all /\ \A j \in all : Max(all) >= j
  BY <1>3 DEF Max
<1>5. Max(all) \in Int /\ \A j \in all : j <= Max(all)
  BY <1>1, <1>4
<1> QED
  BY <1>4, <1>5 DEF all

(***************************************************************************)
(* A page that takes its answer keeps the types, and its last id does not  *)
(* sink.                                                                   *)
(***************************************************************************)
LEMMA ReceiveTypes ==
    ASSUME TInv, NEW b \in Browsers, Receive(b)
    PROVE  LET h == browser[b].xhr
               answer == handlers[h]
           IN  /\ TInv'
               /\ h \in HandlerIds
               /\ answer # Waiting
               /\ answer.events \in Seq(Event(Notice))
               /\ \A i \in HandlerIds \ {h} : handlers'[i] = handlers[i]
               /\ handlers'[h] = Absent
               /\ \A c \in Browsers \ {b} : browser'[c] = browser[c]
               /\ browser'[b].xhr = NoHandler
               /\ \/ browser'[b] = Idle
                  \/ /\ browser'[b].queue_id = browser[b].queue_id
                     /\ browser[b].last_event_id <= browser'[b].last_event_id
                     /\ \/ browser'[b].last_event_id = browser[b].last_event_id
                        \/ \E e \in ToSet(answer.events) :
                              e.id = browser'[b].last_event_id
                     /\ \A e \in ToSet(answer.events) : e.id <= browser'[b].last_event_id
<1> DEFINE h == browser[b].xhr
           q == browser[b].queue_id
           answer == handlers[h]
           ids == {e.id : e \in ToSet(answer.events)}
           last == browser[b].last_event_id
           newest == Max({last} \cup ids)
<1>1. /\ TypeOK
      /\ browser[b] \in [queue_id : QueueIds \cup {NoQueue},
                         last_event_id : Nat \cup {-1},
                         xhr : HandlerIds \cup {NoHandler}]
      /\ h # NoHandler
      /\ answer # Waiting
  BY DEF TInv, TypeOK, Receive
<1>2. h \in HandlerIds /\ last \in Nat \cup {-1} /\ q \in QueueIds \cup {NoQueue}
  BY <1>1
<1>3. answer \in Answer \cup {Absent}
  BY <1>1, <1>2 DEF TypeOK
<1>4. answer.events \in Seq(Event(Notice))
  <2>1. CASE answer = Absent
    <3> HIDE DEF ids, newest, answer, h, q, last
    <3>1. answer.events = <<>>
      BY <2>1 DEF Absent
    <3> HIDE DEF answer
    <3> QED
      BY <3>1, EmptySeq
  <2>2. CASE answer \in Answer
    BY <2>2 DEF Answer
  <2> QED
    BY <1>3, <2>1, <2>2
<1>5. ids \in SUBSET Nat /\ IsFiniteSet(ids)
  <2>1. ToSet(answer.events) \subseteq Event(Notice) /\ IsFiniteSet(ToSet(answer.events))
    BY <1>4, ToSetProperties
  <2>2. \A e \in Event(Notice) : e.id \in Nat
    BY DEF Event
  <2>3. [e \in ToSet(answer.events) |-> e.id] \in Surjection(ToSet(answer.events), ids)
    BY DEF Surjection
  <2>4. IsFiniteSet(ids)
    <3> HIDE DEF ids
    <3> QED
      BY <2>1, <2>3, FS_Surjection
  <2> QED
    BY <2>1, <2>2, <2>4
<1>6. browser' = [browser EXCEPT ![b] =
                     IF answer.result = "BAD_EVENT_QUEUE_ID" THEN Idle
                     ELSE [browser[b] EXCEPT !.xhr = NoHandler, !.last_event_id = newest]]
  <2>1. browser' = [browser EXCEPT ![b] =
                      IF answer.result = "BAD_EVENT_QUEUE_ID" THEN Idle
                      ELSE [browser[b] EXCEPT !.xhr = NoHandler,
                                     !.last_event_id = Max({browser[b].last_event_id}
                                         \cup {e.id : e \in ToSet(answer.events)})]]
    BY Zenon DEF Receive
  <2> QED
    BY <2>1
<1> HIDE DEF ids, last
<1>7. /\ newest \in {last} \cup ids
      /\ newest \in Int
      /\ \A i \in {last} \cup ids : i <= newest
  <2>1. last \in Int
    BY <1>2
  <2> QED
    BY <1>5, <2>1, MaxIs
<1>8. newest \in Nat \cup {-1} /\ last <= newest
  BY <1>2, <1>5, <1>7
<1> HIDE DEF newest, h, q, answer, last
<1>9. \/ browser'[b] = Idle
      \/ browser'[b] = [browser[b] EXCEPT !.xhr = NoHandler, !.last_event_id = newest]
  BY <1>1, <1>6 DEF TypeOK
<1>10. \/ browser'[b] = Idle
       \/ browser'[b] = [queue_id |-> q, last_event_id |-> newest, xhr |-> NoHandler]
  BY <1>1, <1>9 DEF q
<1>11. \A c \in Browsers \ {b} : browser'[c] = browser[c]
  BY <1>1, <1>6 DEF TypeOK
<1>12. browser' \in [Browsers -> [queue_id : QueueIds \cup {NoQueue},
                                  last_event_id : Nat \cup {-1},
                                  xhr : HandlerIds \cup {NoHandler}]]
  <2>1. browser'[b] \in [queue_id : QueueIds \cup {NoQueue},
                         last_event_id : Nat \cup {-1},
                         xhr : HandlerIds \cup {NoHandler}]
    BY <1>2, <1>8, <1>10 DEF Idle
  <2> QED
    BY <1>1, <1>6, <1>11, <2>1 DEF TypeOK
<1>13. /\ handlers' = [handlers EXCEPT ![h] = Absent]
       /\ got' = [got EXCEPT ![q] = got[q] \o NoticesOf(answer.events)]
       /\ UNCHANGED <<bound, phase, starts, clients, registered, descriptors_by_handler_id,
                      first_request, heartbeats, saved, broker, pushed, notified,
                      known, cut, dropped>>
  BY <1>1, <1>2 DEF Receive, h, q, answer
<1>14. handlers' \in [HandlerIds -> Answer \cup {Absent, Waiting}]
  BY <1>1, <1>2, <1>13 DEF TypeOK
<1>15. got' \in [QueueIds -> Seq(Notice)]
  <2>1. got \in [QueueIds -> Seq(Notice)]
    BY <1>1 DEF TypeOK
  <2>2. NoticesOf(answer.events) \in Seq(Notice)
    BY <1>4, NoticesAre
  <2>3. \A r \in QueueIds : got[r] \o NoticesOf(answer.events) \in Seq(Notice)
    BY <2>1, <2>2, ConcatProperties
  <2> QED
    BY <1>13, <2>1, <2>3
<1>16. TypeOK'
  BY <1>1, <1>12, <1>13, <1>14, <1>15 DEF TypeOK, broker
<1>17. TInv'
  BY <1>13, <1>16 DEF TInv, Kept, broker
<1>18. /\ handlers'[h] = Absent
       /\ \A i \in HandlerIds \ {h} : handlers'[i] = handlers[i]
  BY <1>1, <1>2, <1>13 DEF TypeOK
<1>19. /\ browser'[b].xhr = NoHandler
       /\ \/ browser'[b] = Idle
          \/ /\ browser'[b].queue_id = q
             /\ browser'[b].last_event_id = newest
  BY <1>10 DEF Idle
<1>20. /\ newest = last \/ \E e \in ToSet(answer.events) : e.id = newest
       /\ \A e \in ToSet(answer.events) : e.id <= newest
  BY <1>7 DEF ids
<1> QED
  BY <1>1, <1>2, <1>4, <1>8, <1>11, <1>17, <1>18, <1>19, <1>20 DEF h, q, answer, last

(***************************************************************************)
(* A page that aborts its poll keeps the types.                            *)
(***************************************************************************)
LEMMA AbortTypes ==
    ASSUME TInv, NEW b \in Browsers, Abort(b)
    PROVE  TInv'
<1>1. TypeOK
  BY DEF TInv
<1>2. UNCHANGED <<tornado, broker, history>>
  BY DEF Abort
<1>3. browser' \in [Browsers -> [queue_id : QueueIds \cup {NoQueue},
                                 last_event_id : Nat \cup {-1},
                                 xhr : HandlerIds \cup {NoHandler}]]
  BY <1>1 DEF Abort, TypeOK
<1>4. TypeOK'
  BY <1>1, <1>2, <1>3 DEF TypeOK, tornado, broker, history
<1> QED
  BY <1>2, <1>4 DEF TInv, Kept, tornado, broker, history

(***************************************************************************)
(* A page that is closed has neither queue nor poll.                       *)
(***************************************************************************)
LEMMA UnloadTypes ==
    ASSUME TypeOK, NEW b \in Browsers, Unload(b)
    PROVE  /\ browser' \in [Browsers -> [queue_id : QueueIds \cup {NoQueue},
                                         last_event_id : Nat \cup {-1},
                                         xhr : HandlerIds \cup {NoHandler}]]
           /\ browser[b].queue_id # NoQueue
           /\ browser'[b] = Idle
           /\ \A c \in Browsers \ {b} : browser'[c] = browser[c]
BY DEF Unload, TypeOK, Idle

(***************************************************************************)
(* A page that is closed keeps the types,                                  *)
(***************************************************************************)
LEMMA LeaveTypes ==
    ASSUME TInv, NEW b \in Browsers, Leave(b)
    PROVE  TInv'
<1>1. TypeOK
  BY DEF TInv
<1>2. UNCHANGED <<tornado, broker, history>> /\ Unload(b)
  BY DEF Leave
<1>3. TypeOK'
  BY <1>1, <1>2, UnloadTypes DEF TypeOK, tornado, broker, history
<1> QED
  BY <1>2, <1>3 DEF TInv, Kept, tornado, broker, history

(***************************************************************************)
(* ... with its queue or without.                                          *)
(***************************************************************************)
LEMMA CleanupTypes ==
    ASSUME TInv, NEW b \in Browsers, CleanupEventQueue(b)
    PROVE  LET q == browser[b].queue_id
           IN  /\ TInv'
               /\ q \in DOMAIN clients
               /\ DOMAIN clients' = DOMAIN clients \ {q}
               /\ \A r \in DOMAIN clients' : clients'[r] = clients[r]
               /\ browser'[b] = Idle
               /\ \A c \in Browsers \ {b} : browser'[c] = browser[c]
               /\ \A i \in HandlerIds :
                     /\ \/ handlers'[i] = handlers[i]
                        \/ /\ handlers[i] = Waiting
                           /\ q \in Connected
                           /\ clients[q].current_handler_id = i
                           /\ \E s \in Seq(Event(Notice)) : handlers'[i] = Success(s)
                     /\ handlers[i] # Waiting => handlers'[i] = handlers[i]
                     /\ q \in Connected /\ clients[q].current_handler_id = i
                           => handlers'[i] # Waiting
               /\ descriptors_by_handler_id' = Cleared(HandlersOf({q}))
<1> DEFINE q == browser[b].queue_id
           finished == [r \in {q} |-> Finished(clients[q])]
<1>1. /\ TypeOK
      /\ \A r \in DOMAIN clients : Kept(clients[r])
      /\ Unload(b)
      /\ q \in DOMAIN clients
      /\ Collect({q})
      /\ handlers' = Answers({q} \cap Connected, finished)
      /\ descriptors_by_handler_id' = Cleared(HandlersOf({q}))
      /\ UNCHANGED <<bound, phase, starts, registered, first_request, heartbeats, saved,
                     broker, pushed, got, known, cut, dropped>>
  BY DEF TInv, CleanupEventQueue
<1> HIDE DEF q
<1>2. {q} \in SUBSET DOMAIN clients
  BY <1>1
<1>3. /\ DOMAIN clients' = DOMAIN clients \ {q}
      /\ \A r \in DOMAIN clients' : clients'[r] = clients[r] /\ Kept(clients'[r])
      /\ notified' \subseteq Notice
  BY <1>1, <1>2, CollectTypes
<1>4. \A r \in {q} \cap Connected : Kept(finished[r]) /\ r = q
  BY <1>1, FinishedKeeps
<1> HIDE DEF finished
<1>5. /\ handlers' \in [HandlerIds -> Answer \cup {Absent, Waiting}]
      /\ \A i \in HandlerIds :
            /\ \/ handlers'[i] = handlers[i]
               \/ /\ handlers[i] = Waiting
                  /\ \E r \in {q} \cap Connected :
                        /\ clients[r].current_handler_id = i
                        /\ handlers'[i] = Success(finished[r].event_queue.queue)
            /\ handlers[i] # Waiting => handlers'[i] = handlers[i]
            /\ (\E r \in {q} \cap Connected : clients[r].current_handler_id = i)
                  => handlers'[i] # Waiting
  BY <1>1, <1>4, AnswersAre
<1>6. \A r \in {q} \cap Connected : finished[r].event_queue.queue \in Seq(Event(Notice))
  BY <1>4, QueueFields DEF Kept
<1>7. descriptors_by_handler_id' \in [HandlerIds -> QueueIds \cup {NoQueue}]
  BY <1>1, ClearedIs
<1>8. TypeOK'
  <2>1. \A r \in DOMAIN clients' : clients'[r] \in Descriptor
    BY <1>3 DEF Kept
  <2>2. browser' \in [Browsers -> [queue_id : QueueIds \cup {NoQueue},
                                   last_event_id : Nat \cup {-1},
                                   xhr : HandlerIds \cup {NoHandler}]]
    BY <1>1, UnloadTypes
  <2>3. handlers' \in [HandlerIds -> Answer \cup {Absent, Waiting}]
    BY <1>5
  <2> QED
    BY <1>1, <1>3, <1>7, <2>1, <2>2, <2>3 DEF TypeOK, broker
<1>9. TInv'
  BY <1>1, <1>3, <1>8 DEF TInv, broker
<1>10. \A i \in HandlerIds :
          /\ \/ handlers'[i] = handlers[i]
             \/ /\ handlers[i] = Waiting
                /\ q \in Connected
                /\ clients[q].current_handler_id = i
                /\ \E s \in Seq(Event(Notice)) : handlers'[i] = Success(s)
          /\ handlers[i] # Waiting => handlers'[i] = handlers[i]
          /\ q \in Connected /\ clients[q].current_handler_id = i
                => handlers'[i] # Waiting
  BY <1>5, <1>6
<1> QED
  BY <1>1, <1>3, <1>9, <1>10, UnloadTypes DEF q

(***************************************************************************)
(* What is published is a notice within the bounds.                        *)
(***************************************************************************)
LEMMA PublishTypes ==
    ASSUME TInv, Publish
    PROVE  TInv'
<1>1. TypeOK /\ bound \in Bounds /\ published \in Nat
  BY DEF TInv, TypeOK
<1>2. bound.notices \in Nat /\ [number : 1..bound.notices, kind : NoticeKinds] \subseteq Notice
  BY <1>1, BoundsHold
<1>3. /\ published < bound.notices
      /\ published' = published + 1
      /\ UNCHANGED <<tornado, browser, history>>
  BY DEF Publish
<1>4. PICK kind \in NoticeKinds :
         rabbit' = Append(rabbit, [number |-> published', kind |-> kind])
  BY DEF Publish
<1>5. [number |-> published', kind |-> kind] \in Notice
  BY <1>1, <1>2, <1>3
<1>6. rabbit' \in Seq(Notice)
  BY <1>1, <1>4, <1>5, AppendProperties DEF TypeOK
<1>7. TypeOK'
  BY <1>1, <1>3, <1>6 DEF TypeOK, tornado, history
<1> QED
  BY <1>1, <1>2, <1>3, <1>7 DEF TInv, Kept, tornado, history

(***************************************************************************)
(* The steps that Next allows, with their parameters.                      *)
(***************************************************************************)
LEMMA NextCases ==
    ASSUME Next
    PROVE  \/ Publish
           \/ ProcessNotification
           \/ \E q \in QueueIds : Heartbeat(q)
           \/ \E queues \in SUBSET DOMAIN clients : GcEventQueues(queues)
           \/ \E h \in HandlerIds : OnConnectionClose(h)
           \/ DumpEventQueues
           \/ Stop
           \/ SetupEventQueue
           \/ \E b \in Browsers : Register(b)
           \/ \E b \in Browsers, h \in HandlerIds, alive \in BOOLEAN :
                 \/ FetchUnknownQueue(b, h, alive)
                 \/ FetchRefused(b, h, alive)
                 \/ \E dont_block \in BOOLEAN : FetchEvents(b, h, alive, dont_block)
           \/ \E b \in Browsers : Receive(b)
           \/ \E b \in Browsers : Abort(b)
           \/ \E b \in Browsers : CleanupEventQueue(b)
           \/ \E b \in Browsers : Leave(b)
BY DEF Next, Server, Client, Poll

(***************************************************************************)
(* Every step keeps the types.                                             *)
(***************************************************************************)
LEMMA TypeStep ==
    ASSUME TInv, [Next]_vars
    PROVE  TInv'
<1>1. CASE UNCHANGED vars
  BY <1>1 DEF TInv, TypeOK, Kept, vars, tornado, broker, history
<1>2. CASE Next
  <2>1. CASE Publish
    BY <2>1, PublishTypes
  <2>2. CASE ProcessNotification
    BY <2>2, NotificationTypes
  <2>3. CASE \E q \in QueueIds : Heartbeat(q)
    BY <2>3, HeartbeatTypes
  <2>4. CASE \E queues \in SUBSET DOMAIN clients : GcEventQueues(queues)
    BY <2>4, GcTypes
  <2>5. CASE \E h \in HandlerIds : OnConnectionClose(h)
    BY <2>5, CloseTypes
  <2>6. CASE DumpEventQueues
    BY <2>6, DumpTypes
  <2>7. CASE Stop
    BY <2>7, StopTypes
  <2>8. CASE SetupEventQueue
    BY <2>8, SetupTypes
  <2>9. CASE \E b \in Browsers : Register(b)
    BY <2>9, RegisterTypes
  <2>10. CASE \E b \in Browsers, h \in HandlerIds, alive \in BOOLEAN :
                 \/ FetchUnknownQueue(b, h, alive)
                 \/ FetchRefused(b, h, alive)
                 \/ \E dont_block \in BOOLEAN : FetchEvents(b, h, alive, dont_block)
    <3>1. PICK b \in Browsers, h \in HandlerIds, alive \in BOOLEAN :
                 \/ FetchUnknownQueue(b, h, alive)
                 \/ FetchRefused(b, h, alive)
                 \/ \E dont_block \in BOOLEAN : FetchEvents(b, h, alive, dont_block)
      BY <2>10
    <3>2. CASE FetchUnknownQueue(b, h, alive)
      BY <3>2, UnknownQueueTypes
    <3>3. CASE FetchRefused(b, h, alive)
      BY <3>3, RefusedTypes
    <3>4. CASE \E dont_block \in BOOLEAN : FetchEvents(b, h, alive, dont_block)
      <4>1. PICK dont_block \in BOOLEAN : FetchEvents(b, h, alive, dont_block)
        BY <3>4
      <4> QED
        BY <4>1, FetchTypes
    <3> QED
      BY <3>1, <3>2, <3>3, <3>4
  <2>11. CASE \E b \in Browsers : Receive(b)
    <3>1. PICK b \in Browsers : Receive(b)
      BY <2>11
    <3> QED
      BY <3>1, ReceiveTypes
  <2>12. CASE \E b \in Browsers : Abort(b)
    BY <2>12, AbortTypes
  <2>13. CASE \E b \in Browsers : CleanupEventQueue(b)
    <3>1. PICK b \in Browsers : CleanupEventQueue(b)
      BY <2>13
    <3> QED
      BY <3>1, CleanupTypes
  <2>14. CASE \E b \in Browsers : Leave(b)
    BY <2>14, LeaveTypes
  <2> QED
    BY <1>2, <2>1, <2>2, <2>3, <2>4, <2>5, <2>6, <2>7, <2>8, <2>9, <2>10, <2>11,
       <2>12, <2>13, <2>14, NextCases
<1> QED
  BY <1>1, <1>2

(***************************************************************************)
(* The types hold in every state that can be reached.                      *)
(***************************************************************************)
LEMMA TInvAlways == Spec => []TInv
<1>1. Init => TInv
  BY TypeInit
<1>2. TInv /\ [Next]_vars => TInv'
  BY TypeStep
<1> QED
  BY <1>1, <1>2, PTL DEF Spec

(***************************************************************************)
(* Every variable has its type.  What has to be shown is that the ids of   *)
(* queues, of notices and of handlers stay within their bounds, that a     *)
(* reload finds descriptors in the file, and that every queue, also one    *)
(* that was cut, is in the order of its ids when contents() sorts it.      *)
(***************************************************************************)
THEOREM TypeCorrect == Spec => []TypeOK
<1>1. TInv => TypeOK
  BY DEF TInv
<1> QED
  BY <1>1, TInvAlways, PTL

-----------------------------------------------------------------------------
(* Polls that wait.                                                        *)

(***************************************************************************)
(* A queue is empty when it has no events.                                 *)
(***************************************************************************)
LEMMA EmptyIs ==
    ASSUME NEW Notices, NEW q, IsQueue(Notices, q)
    PROVE  IsEmpty(q) <=> Events(q) = {}
<1>1. q.queue \in Seq(Event(Notices))
  BY QueueFields
<1>2. ToSet(q.queue) = {} <=> q.queue = <<>>
  <2>1. CASE q.queue = <<>>
    BY <2>1 DEF ToSet
  <2>2. CASE q.queue # <<>>
    <3>1. Len(q.queue) # 0 /\ Len(q.queue) \in Nat /\ DOMAIN q.queue = 1..Len(q.queue)
      BY <1>1, <2>2, EmptySeq, LenProperties
    <3>2. 1 \in DOMAIN q.queue
      BY <3>1
    <3>3. q.queue[1] \in ToSet(q.queue)
      BY <3>2 DEF ToSet
    <3> QED
      BY <2>2, <3>3
  <2> QED
    BY <2>1, <2>2
<1> QED
  BY <1>2 DEF IsEmpty, Events

\* A restart begins without polls that wait, so the file must hold none
SleepInv ==
    /\ TInv
    /\ SleepsOnlyWhenEmpty
    /\ \A q \in DOMAIN saved : saved[q].current_handler_id = NoHandler

(***************************************************************************)
(* A descriptor that has a handler after add_event was not among its       *)
(* queues.                                                                 *)
(***************************************************************************)
LEMMA AddEventSleeps ==
    ASSUME SleepInv, NEW queues \in SUBSET DOMAIN clients,
           NEW kind \in Kinds, NEW of \in Seq(Notice),
           AddEvent(queues, kind, of)
    PROVE  SleepsOnlyWhenEmpty'
<1>1. /\ DOMAIN clients' = DOMAIN clients
      /\ \A q \in DOMAIN clients :
            /\ q \notin queues => clients'[q] = clients[q]
            /\ q \in queues => clients'[q].current_handler_id = NoHandler
  BY AddEventTypes DEF SleepInv
<1>2. \A q \in DOMAIN clients : clients[q].current_handler_id # NoHandler
                                   => IsEmpty(clients[q].event_queue)
  BY DEF SleepInv, SleepsOnlyWhenEmpty, Connected
<1> QED
  BY <1>1, <1>2 DEF SleepsOnlyWhenEmpty, Connected

(***************************************************************************)
(* No step leaves a handler with a queue that is not empty.                *)
(***************************************************************************)
LEMMA SleepStep ==
    ASSUME SleepInv, [Next]_vars
    PROVE  SleepInv'
<1>1. /\ TInv /\ TypeOK
      /\ \A q \in DOMAIN clients : clients[q].current_handler_id # NoHandler
                                      => IsEmpty(clients[q].event_queue)
      /\ \A q \in DOMAIN saved : saved[q].current_handler_id = NoHandler
  BY DEF SleepInv, SleepsOnlyWhenEmpty, Connected, TInv
<1>2. TInv'
  BY <1>1, TypeStep
<1> DEFINE Asleep == \A q \in DOMAIN clients : clients[q].current_handler_id # NoHandler
                                               => IsEmpty(clients[q].event_queue)
           Fresh == \A q \in DOMAIN saved : saved[q].current_handler_id = NoHandler
<1>3. SUFFICES Asleep' /\ Fresh'
  BY <1>2 DEF SleepInv, SleepsOnlyWhenEmpty, Connected
<1>4. CASE UNCHANGED vars
  BY <1>1, <1>4 DEF vars, tornado
<1>5. CASE Next
  <2>1. CASE Publish
    BY <1>1, <2>1 DEF Publish, tornado
  <2>2. CASE ProcessNotification
    <3>1. Head(rabbit) \in Notice
      BY <1>1, <2>2, HeadTailProperties DEF TypeOK, ProcessNotification
    <3>2. Head(rabbit).kind \in Kinds /\ <<Head(rabbit)>> \in Seq(Notice)
      <4>1. Head(rabbit).kind \in Kinds
        BY <3>1 DEF Notice, Kinds
      <4> QED
        BY <3>1, <4>1
    <3>3. AddEvent(DOMAIN clients, Head(rabbit).kind, <<Head(rabbit)>>) /\ saved' = saved
      BY <2>2 DEF ProcessNotification
    <3>4. SleepsOnlyWhenEmpty'
      BY <3>2, <3>3, AddEventSleeps
    <3> QED
      BY <1>1, <3>3, <3>4 DEF SleepsOnlyWhenEmpty, Connected
  <2>3. CASE \E q \in QueueIds : Heartbeat(q)
    <3>1. PICK q \in QueueIds : Heartbeat(q)
      BY <2>3
    <3>2. AddEvent({q}, "heartbeat", <<>>) /\ saved' = saved /\ {q} \in SUBSET DOMAIN clients
      BY <3>1 DEF Heartbeat, Connected
    <3>3. "heartbeat" \in Kinds /\ <<>> \in Seq(Notice)
      BY EmptySeq DEF Kinds
    <3>4. SleepsOnlyWhenEmpty'
      BY <3>2, <3>3, AddEventSleeps
    <3> QED
      BY <1>1, <3>2, <3>4 DEF SleepsOnlyWhenEmpty, Connected
  <2>4. CASE \E queues \in SUBSET DOMAIN clients : GcEventQueues(queues)
    <3>1. PICK queues \in SUBSET DOMAIN clients : GcEventQueues(queues)
      BY <2>4
    <3>2. clients' = [q \in DOMAIN clients \ queues |-> clients[q]] /\ saved' = saved
      BY <3>1 DEF GcEventQueues, Collect
    <3> QED
      BY <1>1, <3>2
  <2>5. CASE \E h \in HandlerIds : OnConnectionClose(h)
    <3>1. PICK h \in HandlerIds : OnConnectionClose(h)
      BY <2>5
    <3> DEFINE q == descriptors_by_handler_id[h]
    <3>2. saved' = saved
      BY <3>1 DEF OnConnectionClose
    <3>3. CASE q \in DOMAIN clients
      <4>1. clients' = [clients EXCEPT ![q] = Detached(clients[q])]
        BY <3>1, <3>3 DEF OnConnectionClose
      <4>2. Detached(clients[q]).current_handler_id = NoHandler
        BY <1>1, <3>3, DetachedKeeps DEF TInv
      <4> HIDE DEF q
      <4> QED
        BY <1>1, <3>2, <4>1, <4>2
    <3>4. CASE q \notin DOMAIN clients
      <4>1. clients' = clients
        BY <3>1, <3>4 DEF OnConnectionClose
      <4> QED
        BY <1>1, <3>2, <4>1
    <3> QED
      BY <3>3, <3>4
  <2>6. CASE DumpEventQueues
    <3>1. clients' = clients /\ saved' = [q \in DOMAIN clients |-> Detached(clients[q])]
      BY <2>6 DEF DumpEventQueues
    <3>2. \A q \in DOMAIN clients : Detached(clients[q]).current_handler_id = NoHandler
      BY <1>1, DetachedKeeps DEF TInv
    <3> QED
      BY <1>1, <3>1, <3>2
  <2>7. CASE Stop
    <3>1. clients' = <<>> /\ saved' = saved
      BY <2>7 DEF Stop
    <3> QED
      BY <1>1, <3>1
  <2>8. CASE SetupEventQueue
    <3>1. /\ DOMAIN clients' = DOMAIN saved
          /\ \A q \in DOMAIN saved :
                clients'[q].current_handler_id = saved[q].current_handler_id
      BY <1>1, <2>8, SetupTypes
    <3>2. saved' = <<>>
      BY <2>8 DEF SetupEventQueue
    <3> QED
      BY <1>1, <3>1, <3>2
  <2>9. CASE \E b \in Browsers : Register(b)
    <3>1. PICK b \in Browsers : Register(b)
      BY <2>9
    <3>2. saved' = saved
      BY <3>1 DEF Register
    <3>3. /\ DOMAIN clients' = DOMAIN clients \cup {registered + 1}
          /\ clients'[registered + 1].current_handler_id = NoHandler
          /\ \A q \in DOMAIN clients : clients'[q] = clients[q]
      BY <1>1, <3>1, RegisterTypes
    <3> QED
      BY <1>1, <3>2, <3>3
  <2>10. ASSUME NEW b \in Browsers, NEW h \in HandlerIds, NEW alive \in BOOLEAN,
                FetchUnknownQueue(b, h, alive)
         PROVE  Asleep' /\ Fresh'
    BY <1>1, <2>10 DEF FetchUnknownQueue, Request
  <2>11. ASSUME NEW b \in Browsers, NEW h \in HandlerIds, NEW alive \in BOOLEAN,
                FetchRefused(b, h, alive)
         PROVE  Asleep' /\ Fresh'
    <3> DEFINE q == browser[b].queue_id
    <3>1. saved' = saved
      BY <2>11 DEF FetchRefused, Request
    <3>2. /\ DOMAIN clients' = DOMAIN clients
          /\ q \in DOMAIN clients
          /\ clients'[q].event_queue = Acknowledged(b)
          /\ clients'[q].current_handler_id = clients[q].current_handler_id
          /\ \A r \in DOMAIN clients : r # q => clients'[r] = clients[r]
      BY <1>1, <2>11, RefusedTypes
    <3>3. IsEmpty(clients[q].event_queue) => Acknowledged(b) = clients[q].event_queue
      BY <1>1, <3>2, AcknowledgedKeeps
    <3> HIDE DEF q
    <3> QED
      BY <1>1, <3>1, <3>2, <3>3
  <2>12. ASSUME NEW b \in Browsers, NEW h \in HandlerIds, NEW alive \in BOOLEAN,
                NEW dont_block \in BOOLEAN, FetchEvents(b, h, alive, dont_block)
         PROVE  Asleep' /\ Fresh'
    <3> DEFINE q == browser[b].queue_id
               a == Acknowledged(b)
               sleeps == IsEmpty(a) /\ ~dont_block
    <3>1. saved' = saved
      BY <2>12 DEF FetchEvents, Request
    <3>2. /\ DOMAIN clients' = DOMAIN clients
          /\ q \in DOMAIN clients
          /\ clients'[q].event_queue = Settle(a)
          /\ clients'[q].current_handler_id = IF sleeps THEN h ELSE NoHandler
          /\ \A r \in DOMAIN clients : r # q => clients'[r] = clients[r]
      <4>1. FetchEffect(b, h, alive, dont_block)
        BY <1>1, <2>12, FetchTypes
      <4> QED
        BY <4>1 DEF FetchEffect
    <3>3. IsQueue(Notice, a) /\ Ordered(a)
      BY <1>1, <3>2, AcknowledgedKeeps
    <3> HIDE DEF q, a
    <3>4. IsEmpty(a) => IsEmpty(Settle(a))
      BY <3>3, SettleKeeps, EmptyIs
    <3> QED
      BY <1>1, <3>1, <3>2, <3>4
  <2>13. CASE \E b \in Browsers : Receive(b)
    BY <1>1, <2>13 DEF Receive
  <2>14. CASE \E b \in Browsers : Abort(b)
    BY <1>1, <2>14 DEF Abort, tornado
  <2>15. CASE \E b \in Browsers : CleanupEventQueue(b)
    <3>1. PICK b \in Browsers : CleanupEventQueue(b)
      BY <2>15
    <3>2. saved' = saved
      BY <3>1 DEF CleanupEventQueue
    <3>3. /\ DOMAIN clients' = DOMAIN clients \ {browser[b].queue_id}
          /\ \A r \in DOMAIN clients' : clients'[r] = clients[r]
      BY <1>1, <3>1, CleanupTypes
    <3> QED
      BY <1>1, <3>2, <3>3
  <2>16. CASE \E b \in Browsers : Leave(b)
    BY <1>1, <2>16 DEF Leave, tornado
  <2> HIDE DEF Asleep, Fresh
  <2> QED
    BY <1>5, <2>1, <2>2, <2>3, <2>4, <2>5, <2>6, <2>7, <2>8, <2>9, <2>10, <2>11,
       <2>12, <2>13, <2>14, <2>15, <2>16, NextCases
<1> QED
  BY <1>4, <1>5

(***************************************************************************)
(* No poll sleeps over an event.  A handler is attached to an empty queue  *)
(* only, whatever is put into a queue afterwards detaches it, and neither  *)
(* the poll that follows nor a refused one puts anything into the queue.   *)
(***************************************************************************)
THEOREM NobodyOversleeps == Spec => []SleepsOnlyWhenEmpty
<1>1. Init => SleepInv
  BY TypeInit DEF Init, SleepInv, SleepsOnlyWhenEmpty, Connected
<1>2. SleepInv /\ [Next]_vars => SleepInv'
  BY SleepStep
<1>3. SleepInv => SleepsOnlyWhenEmpty
  BY DEF SleepInv
<1> QED
  BY <1>1, <1>2, <1>3, PTL DEF Spec

\* The end of a connection
CloseEffect(h) ==
    LET q == descriptors_by_handler_id[h]
    IN  /\ handlers'[h] = Absent
        /\ \A i \in HandlerIds \ {h} : handlers'[i] = handlers[i]
        /\ DOMAIN clients' = DOMAIN clients
        /\ \A r \in DOMAIN clients :
              /\ clients'[r].event_queue = clients[r].event_queue
              /\ r # q => clients'[r] = clients[r]
              /\ r = q => clients'[r].current_handler_id = NoHandler
        /\ q \in DOMAIN clients
              => descriptors_by_handler_id' = Cleared(HandlersOf({q}))
        /\ q \notin DOMAIN clients
              => descriptors_by_handler_id' = descriptors_by_handler_id
        /\ \A b \in Browsers :
              /\ browser'[b].queue_id = browser[b].queue_id
              /\ browser'[b].last_event_id = browser[b].last_event_id
              /\ browser'[b].xhr = IF browser[b].xhr = h THEN NoHandler ELSE browser[b].xhr
        /\ UNCHANGED <<bound, phase, starts, registered, first_request, heartbeats, saved,
                       rabbit, published, pushed, got, notified, known, cut, dropped>>

(***************************************************************************)
(* The end of a connection changes what CloseEffect says.                  *)
(***************************************************************************)
LEMMA CloseIs ==
    ASSUME TInv, NEW h \in HandlerIds, OnConnectionClose(h)
    PROVE  CloseEffect(h)
<1> DEFINE q == descriptors_by_handler_id[h]
<1>1. TypeOK /\ \A r \in DOMAIN clients : Kept(clients[r])
  BY DEF TInv
<1>2. /\ DOMAIN clients' = DOMAIN clients
      /\ \A r \in DOMAIN clients :
            /\ clients'[r].event_queue = clients[r].event_queue
            /\ r # q => clients'[r] = clients[r]
            /\ r = q => clients'[r].current_handler_id = NoHandler
      /\ q \in DOMAIN clients
            => descriptors_by_handler_id' = Cleared(HandlersOf({q}))
      /\ q \notin DOMAIN clients
            => descriptors_by_handler_id' = descriptors_by_handler_id
  <2>1. CASE q \in DOMAIN clients
    <3>1. /\ clients' = [clients EXCEPT ![q] = Detached(clients[q])]
          /\ descriptors_by_handler_id' = Cleared(HandlersOf({q}))
      BY <2>1 DEF OnConnectionClose
    <3>2. /\ Detached(clients[q]).current_handler_id = NoHandler
          /\ Detached(clients[q]).event_queue = clients[q].event_queue
      BY <1>1, <2>1, DetachedKeeps
    <3> HIDE DEF q
    <3> QED
      BY <2>1, <3>1, <3>2
  <2>2. CASE q \notin DOMAIN clients
    <3>1. UNCHANGED <<clients, descriptors_by_handler_id>>
      BY <2>2 DEF OnConnectionClose
    <3> QED
      BY <2>2, <3>1
  <2> QED
    BY <2>1, <2>2
<1>3. handlers'[h] = Absent /\ \A i \in HandlerIds \ {h} : handlers'[i] = handlers[i]
  BY <1>1 DEF OnConnectionClose, TypeOK
<1>4. \A b \in Browsers :
         /\ browser'[b].queue_id = browser[b].queue_id
         /\ browser'[b].last_event_id = browser[b].last_event_id
         /\ browser'[b].xhr = IF browser[b].xhr = h THEN NoHandler ELSE browser[b].xhr
  BY <1>1 DEF OnConnectionClose, TypeOK
<1>5. UNCHANGED <<bound, phase, starts, registered, first_request, heartbeats, saved,
                  rabbit, published, pushed, got, notified, known, cut, dropped>>
  BY DEF OnConnectionClose, broker, history
<1> QED
  BY <1>2, <1>3, <1>4, <1>5 DEF CloseEffect

-----------------------------------------------------------------------------
(* Who polls which queue.                                                  *)

Owners ==
    /\ \A b \in Browsers : browser[b].queue_id \in 0..registered
    /\ \A b \in Browsers : browser[b].queue_id = NoQueue => browser[b].xhr = NoHandler
    /\ \A b, c \in Browsers :
          browser[b].queue_id = browser[c].queue_id => b = c \/ browser[b].queue_id = NoQueue

(***************************************************************************)
(* A queue id is given to one page.                                        *)
(***************************************************************************)
LEMMA OwnersStep ==
    ASSUME TInv, Owners, [Next]_vars
    PROVE  Owners'
<1> USE DEF NoQueue
<1>1. /\ TypeOK
      /\ \A b \in Browsers : browser[b].queue_id \in 0..registered
      /\ \A b \in Browsers : browser[b].queue_id = NoQueue => browser[b].xhr = NoHandler
      /\ \A b, c \in Browsers :
            browser[b].queue_id = browser[c].queue_id => b = c \/ browser[b].queue_id = NoQueue
  BY DEF TInv, Owners
<1>2. registered \in Nat
  BY <1>1, BoundsHold DEF TypeOK
\* Most steps give no queue id, though they may take one back
<1>3. ASSUME registered' = registered,
             \A b \in Browsers :
                \/ /\ browser'[b].queue_id = browser[b].queue_id
                   /\ browser'[b].queue_id = NoQueue =>
                         browser'[b].xhr = browser[b].xhr \/ browser'[b].xhr = NoHandler
                \/ browser'[b] = Idle
      PROVE  Owners'
  BY <1>1, <1>2, <1>3 DEF Owners, Idle
<1>4. CASE UNCHANGED vars
  BY <1>3, <1>4 DEF vars, tornado
<1>5. CASE Next
  <2>1. CASE Publish
    BY <1>3, <2>1 DEF Publish, tornado
  <2>2. CASE ProcessNotification
    BY <1>3, <2>2 DEF ProcessNotification
  <2>3. CASE \E q \in QueueIds : Heartbeat(q)
    BY <1>3, <2>3 DEF Heartbeat
  <2>4. CASE \E queues \in SUBSET DOMAIN clients : GcEventQueues(queues)
    BY <1>3, <2>4 DEF GcEventQueues
  <2>5. CASE \E h \in HandlerIds : OnConnectionClose(h)
    <3>1. PICK h \in HandlerIds : CloseEffect(h)
      BY <2>5, CloseIs
    <3> QED
      BY <1>3, <3>1 DEF CloseEffect
  <2>6. CASE DumpEventQueues
    BY <1>3, <2>6 DEF DumpEventQueues
  <2>7. CASE Stop
    <3>1. /\ browser' = [b \in Browsers |-> [browser[b] EXCEPT !.xhr = NoHandler]]
          /\ registered' = registered
      BY <2>7 DEF Stop
    <3>2. \A b \in Browsers : browser'[b].queue_id = browser[b].queue_id
                              /\ browser'[b].xhr = NoHandler
      BY <1>1, <3>1 DEF TypeOK
    <3> QED
      BY <1>3, <3>1, <3>2
  <2>8. CASE SetupEventQueue
    BY <1>3, <2>8 DEF SetupEventQueue
  <2>9. CASE \E b \in Browsers : Register(b)
    <3>1. PICK b \in Browsers : Register(b)
      BY <2>9
    <3>2. /\ browser' = [browser EXCEPT ![b].queue_id = registered']
          /\ registered' = registered + 1
      BY <3>1 DEF Register
    <3>3. /\ browser'[b].queue_id = registered + 1
          /\ \A c \in Browsers \ {b} : browser'[c] = browser[c]
      BY <1>1, <3>2 DEF TypeOK
    <3>4. registered + 1 \notin 0..registered /\ registered + 1 # 0
          /\ 0..registered \subseteq 0..(registered + 1) /\ registered + 1 \in 0..(registered + 1)
      BY <1>2
    <3>5. \A c \in Browsers : browser'[c].queue_id \in 0..(registered + 1)
      BY <1>1, <3>3, <3>4
    <3>6. \A c \in Browsers : browser'[c].queue_id = NoQueue => browser'[c].xhr = NoHandler
      BY <1>1, <3>3, <3>4
    <3>7. \A c, d \in Browsers : browser'[c].queue_id = browser'[d].queue_id
                                    => c = d \/ browser'[c].queue_id = NoQueue
      BY <1>1, <3>3, <3>4
    <3> QED
      BY <3>2, <3>5, <3>6, <3>7 DEF Owners
  <2>10. ASSUME NEW b \in Browsers, NEW h \in HandlerIds, NEW alive \in BOOLEAN,
                Request(b, h, alive)
         PROVE  Owners'
    <3>1. /\ registered' = registered
          /\ browser[b].queue_id \in QueueIds
          /\ \A c \in Browsers : /\ browser'[c].queue_id = browser[c].queue_id
                                 /\ c # b => browser'[c].xhr = browser[c].xhr
      BY <2>10, RequestTypes
    <3>2. browser[b].queue_id # NoQueue
      BY <2>10 DEF Request
    <3> QED
      BY <1>3, <3>1, <3>2
  <2>11. CASE \E b \in Browsers : Receive(b)
    <3>1. PICK b \in Browsers : Receive(b)
      BY <2>11
    <3>2. registered' = registered
      BY <3>1 DEF Receive
    <3>3. /\ \A c \in Browsers \ {b} : browser'[c] = browser[c]
          /\ browser'[b].xhr = NoHandler
          /\ browser'[b] = Idle \/ browser'[b].queue_id = browser[b].queue_id
      BY <3>1, ReceiveTypes
    <3> QED
      BY <1>3, <3>2, <3>3
  <2>12. CASE \E b \in Browsers : Abort(b)
    <3>1. PICK b \in Browsers : Abort(b)
      BY <2>12
    <3>2. registered' = registered /\ browser' = [browser EXCEPT ![b].xhr = NoHandler]
      BY <3>1 DEF Abort, tornado
    <3>3. \A c \in Browsers : /\ browser'[c].queue_id = browser[c].queue_id
                              /\ browser'[c].xhr \in {browser[c].xhr, NoHandler}
      BY <1>1, <3>2 DEF TypeOK
    <3> QED
      BY <1>3, <3>2, <3>3
  <2>13. ASSUME NEW b \in Browsers, Unload(b), registered' = registered
         PROVE  Owners'
    <3>1. browser'[b] = Idle /\ \A c \in Browsers \ {b} : browser'[c] = browser[c]
      BY <1>1, <2>13, UnloadTypes
    <3> QED
      BY <1>3, <2>13, <3>1
  <2>14. CASE \E b \in Browsers : CleanupEventQueue(b)
    BY <2>13, <2>14 DEF CleanupEventQueue
  <2>15. CASE \E b \in Browsers : Leave(b)
    BY <2>13, <2>15 DEF Leave, tornado
  <2>16. ASSUME NEW b \in Browsers, NEW h \in HandlerIds, NEW alive \in BOOLEAN,
                \/ FetchUnknownQueue(b, h, alive)
                \/ FetchRefused(b, h, alive)
                \/ \E dont_block \in BOOLEAN : FetchEvents(b, h, alive, dont_block)
         PROVE  Owners'
    <3>1. Request(b, h, alive)
      BY <2>16 DEF FetchUnknownQueue, FetchRefused, FetchEvents
    <3> QED
      BY <2>10, <3>1
  <2> QED
    BY <1>5, <2>1, <2>2, <2>3, <2>4, <2>5, <2>6, <2>7, <2>8, <2>9, <2>11,
       <2>12, <2>14, <2>15, <2>16, NextCases
<1> QED
  BY <1>4, <1>5

-----------------------------------------------------------------------------
(* The server's side.                                                      *)

Silent == \A h \in HandlerIds :
             handlers[h] = Absent /\ descriptors_by_handler_id[h] = NoQueue

\* A process without a request yet, and no process, have no handlers; a
\* handler is the current one of one descriptor
ServerInv ==
    /\ first_request => Connected = {} /\ Silent
    /\ ~Running => DOMAIN clients = {} /\ Silent
    /\ \A q, r \in Connected :
          clients[q].current_handler_id = clients[r].current_handler_id => q = r

(***************************************************************************)
(* The next notice for Tornado.                                            *)
(***************************************************************************)
LEMMA RabbitHead ==
    ASSUME TypeOK, rabbit # <<>>
    PROVE  /\ Head(rabbit) \in Notice
           /\ Head(rabbit).kind \in Kinds
           /\ <<Head(rabbit)>> \in Seq(Notice)
           /\ Tail(rabbit) \in Seq(Notice)
<1>1. Head(rabbit) \in Notice /\ Tail(rabbit) \in Seq(Notice)
  BY HeadTailProperties DEF TypeOK
<1> QED
  BY <1>1 DEF Notice, Kinds

(***************************************************************************)
(* What stays silent: answers go to requests that wait, and the table is   *)
(* only cleared.                                                           *)
(***************************************************************************)
LEMMA StaysSilent ==
    ASSUME TypeOK, Silent, NEW queues, NEW finished, \A q \in queues : Kept(finished[q]),
           NEW ids
    PROVE  \A h \in HandlerIds : /\ Answers(queues, finished)[h] = Absent
                                 /\ Cleared(ids)[h] = NoQueue
<1>1. Absent # Waiting
  BY DEF Absent, Waiting
<1> QED
  BY <1>1, AnswersAre, ClearedIs DEF Silent

(***************************************************************************)
(* Every step keeps what ServerInv says of the process.                    *)
(***************************************************************************)
LEMMA ServerStep ==
    ASSUME TInv, ServerInv, [Next]_vars,
           \A q \in DOMAIN saved : saved[q].current_handler_id = NoHandler
    PROVE  ServerInv'
<1> DEFINE Cur(q) == clients[q].current_handler_id
<1>1. /\ TypeOK
      /\ \A q \in DOMAIN clients : Kept(clients[q])
      /\ first_request => (\A q \in DOMAIN clients : Cur(q) = NoHandler) /\ Silent
      /\ ~Running => DOMAIN clients = {} /\ Silent
      /\ \A q, r \in DOMAIN clients : Cur(q) = Cur(r) => q = r \/ Cur(q) = NoHandler
  BY DEF TInv, ServerInv, Connected
\* Most steps attach no handler
<1>3. ASSUME \A q \in DOMAIN clients' :
                \/ Cur(q)' = NoHandler
                \/ q \in DOMAIN clients /\ Cur(q)' = Cur(q),
             first_request' => first_request /\ (Silent => Silent'),
             ~Running' => DOMAIN clients' = {} /\ Silent'
      PROVE  ServerInv'
  BY <1>1, <1>3 DEF ServerInv, Connected
<1>4. ASSUME UNCHANGED tornado
      PROVE  ServerInv'
  BY <1>4 DEF ServerInv, Connected, tornado, Running, Silent
<1>5. CASE UNCHANGED vars
  BY <1>4, <1>5 DEF vars
<1>6. CASE Next
  <2>1. CASE Publish
    BY <1>4, <2>1 DEF Publish
  <2>2. ASSUME NEW queues \in SUBSET DOMAIN clients, NEW kind \in Kinds, NEW of \in Seq(Notice),
               AddEvent(queues, kind, of), Running,
               phase' = phase, first_request' = first_request
        PROVE  ServerInv'
    <3>1. /\ DOMAIN clients' = DOMAIN clients
          /\ \A q \in DOMAIN clients :
                /\ Kept(clients'[q])
                /\ q \notin queues => clients'[q] = clients[q]
                /\ q \in queues => clients'[q].current_handler_id = NoHandler
          /\ handlers' = Answers(queues \cap Connected, clients')
          /\ descriptors_by_handler_id' = Cleared(HandlersOf(queues))
      BY <2>2, AddEventTypes
    <3>2. Silent => Silent'
      <4>1. \A q \in queues \cap Connected : Kept(clients'[q])
        BY <3>1
      <4> QED
        BY <1>1, <3>1, <4>1, StaysSilent DEF Silent
    <3>3. Running'
      BY <2>2 DEF Running
    <3> QED
      BY <1>3, <2>2, <3>1, <3>2, <3>3
  <2>3. CASE ProcessNotification
    <3>1. Head(rabbit).kind \in Kinds /\ <<Head(rabbit)>> \in Seq(Notice)
      BY <1>1, <2>3, RabbitHead DEF ProcessNotification
    <3>2. /\ AddEvent(DOMAIN clients, Head(rabbit).kind, <<Head(rabbit)>>)
          /\ Running /\ phase' = phase /\ first_request' = first_request
          /\ DOMAIN clients \in SUBSET DOMAIN clients
      BY <2>3 DEF ProcessNotification
    <3> QED
      BY <2>2, <3>1, <3>2
  <2>4. CASE \E q \in QueueIds : Heartbeat(q)
    <3>1. PICK q \in QueueIds : Heartbeat(q)
      BY <2>4
    <3>2. {q} \in SUBSET DOMAIN clients /\ "heartbeat" \in Kinds /\ <<>> \in Seq(Notice)
      BY <3>1, EmptySeq DEF Heartbeat, Connected, Kinds
    <3>3. /\ AddEvent({q}, "heartbeat", <<>>)
          /\ Running /\ phase' = phase /\ first_request' = first_request
      BY <3>1 DEF Heartbeat
    <3> QED
      BY <2>2, <3>2, <3>3
  <2>5. CASE \E queues \in SUBSET DOMAIN clients : GcEventQueues(queues)
    <3>1. PICK queues \in SUBSET DOMAIN clients : GcEventQueues(queues)
      BY <2>5
    <3>2. /\ clients' = [q \in DOMAIN clients \ queues |-> clients[q]]
          /\ UNCHANGED <<phase, handlers, descriptors_by_handler_id, first_request>>
          /\ Running
      BY <3>1 DEF GcEventQueues, Collect
    <3>3. Running' /\ (Silent => Silent')
      BY <3>2 DEF Running, Silent
    <3> QED
      BY <1>3, <3>2, <3>3
  <2>6. CASE \E h \in HandlerIds : OnConnectionClose(h)
    <3>1. PICK h \in HandlerIds : OnConnectionClose(h)
      BY <2>6
    <3>2. CloseEffect(h) /\ Running
      BY <3>1, CloseIs DEF OnConnectionClose
    <3>3. Running'
      BY <3>2 DEF CloseEffect, Running
    <3>4. Silent => Silent'
      <4> SUFFICES ASSUME Silent, NEW i \in HandlerIds
                   PROVE  handlers'[i] = Absent /\ descriptors_by_handler_id'[i] = NoQueue
        BY DEF Silent
      <4>1. handlers'[i] = Absent
        BY <3>2 DEF CloseEffect, Silent
      <4>2. descriptors_by_handler_id'[i] = NoQueue
        BY <1>1, <3>2, ClearedIs DEF CloseEffect, Silent
      <4> QED
        BY <4>1, <4>2
    <3>5. /\ first_request' = first_request
          /\ \A q \in DOMAIN clients' :
                \/ Cur(q)' = NoHandler
                \/ q \in DOMAIN clients /\ Cur(q)' = Cur(q)
      BY <3>2 DEF CloseEffect
    <3> QED
      BY <1>3, <3>3, <3>4, <3>5
  <2>7. CASE DumpEventQueues
    <3>1. phase' = "closing" /\ UNCHANGED <<clients, handlers, descriptors_by_handler_id, first_request>>
      BY <2>7 DEF DumpEventQueues
    <3>2. Running' /\ (Silent => Silent')
      BY <3>1 DEF Running, Silent
    <3> QED
      BY <1>3, <3>1, <3>2
  <2>8. CASE Stop
    <3>1. clients' = <<>> /\ Silent'
      BY <2>8 DEF Stop, Silent
    <3> QED
      BY <3>1 DEF ServerInv, Connected
  <2>9. CASE SetupEventQueue
    <3>1. /\ DOMAIN clients' = DOMAIN saved
          /\ \A q \in DOMAIN saved :
                clients'[q].current_handler_id = saved[q].current_handler_id
      BY <2>9, SetupTypes
    <3>2. phase = "down" /\ phase' = "up" /\ UNCHANGED <<handlers, descriptors_by_handler_id>>
      BY <2>9 DEF SetupEventQueue
    <3>3. Running' /\ Silent'
      BY <1>1, <3>2 DEF Running, Silent
    <3> QED
      BY <3>1, <3>3 DEF ServerInv, Connected
  <2>10. CASE \E b \in Browsers : Register(b)
    <3>1. PICK b \in Browsers : Register(b)
      BY <2>10
    <3>2. /\ DOMAIN clients' = DOMAIN clients \cup {registered + 1}
          /\ clients'[registered + 1].current_handler_id = NoHandler
          /\ \A q \in DOMAIN clients : clients'[q] = clients[q]
      BY <3>1, RegisterTypes
    <3>3. first_request' = FALSE /\ Running'
      BY <3>1 DEF Register, Running
    <3> QED
      BY <1>3, <3>2, <3>3
  <2>11. ASSUME NEW b \in Browsers, NEW h \in HandlerIds, NEW alive \in BOOLEAN,
                Request(b, h, alive)
         PROVE  /\ first_request' = FALSE /\ Running'
                /\ \A r \in DOMAIN clients : Cur(r) # h
    <3>1. first_request' = FALSE /\ Running' /\ MayAllocate(h)
      BY <2>11 DEF Request, Running
    <3>2. h # NoHandler
      BY DEF NoHandler, HandlerIds
    <3>3. CASE h = 0 /\ first_request
      BY <1>1, <3>1, <3>2, <3>3
    <3>4. CASE h \notin HandlersOf(DOMAIN clients)
      BY <3>1, <3>2, <3>4 DEF HandlersOf, Connected
    <3> QED
      BY <3>1, <3>3, <3>4 DEF MayAllocate
  <2>12. ASSUME NEW b \in Browsers, NEW h \in HandlerIds, NEW alive \in BOOLEAN,
                FetchUnknownQueue(b, h, alive)
         PROVE  ServerInv'
    <3>1. clients' = clients /\ Request(b, h, alive)
      BY <2>12 DEF FetchUnknownQueue
    <3> QED
      BY <1>1, <2>11, <3>1 DEF ServerInv, Connected
  <2>13. ASSUME NEW b \in Browsers, NEW h \in HandlerIds, NEW alive \in BOOLEAN,
                FetchRefused(b, h, alive)
         PROVE  ServerInv'
    <3>1. Request(b, h, alive)
      BY <2>13 DEF FetchRefused
    <3>2. /\ DOMAIN clients' = DOMAIN clients
          /\ \A r \in DOMAIN clients : Cur(r)' = Cur(r)
      <4>1. /\ DOMAIN clients' = DOMAIN clients
            /\ clients'[browser[b].queue_id].current_handler_id
                  = clients[browser[b].queue_id].current_handler_id
            /\ \A r \in DOMAIN clients : r # browser[b].queue_id => clients'[r] = clients[r]
        BY <2>13, RefusedTypes
      <4> QED
        BY <4>1
    <3> QED
      BY <1>1, <2>11, <3>1, <3>2 DEF ServerInv, Connected
  <2>14. ASSUME NEW b \in Browsers, NEW h \in HandlerIds, NEW alive \in BOOLEAN,
                NEW dont_block \in BOOLEAN, FetchEvents(b, h, alive, dont_block)
         PROVE  ServerInv'
    <3>1. Request(b, h, alive)
      BY <2>14 DEF FetchEvents
    <3>2. FetchEffect(b, h, alive, dont_block)
      BY <2>14, FetchTypes
    <3>2a. PICK q \in DOMAIN clients : q = browser[b].queue_id
      BY <3>2 DEF FetchEffect
    <3>3. /\ DOMAIN clients' = DOMAIN clients
          /\ q \in DOMAIN clients
          /\ Cur(q)' \in {h, NoHandler}
          /\ \A r \in DOMAIN clients : r # q => Cur(r)' = Cur(r)
      <4>1. /\ DOMAIN clients' = DOMAIN clients
            /\ q \in DOMAIN clients
            /\ \/ clients'[q].current_handler_id = h
               \/ clients'[q].current_handler_id = NoHandler
            /\ \A r \in DOMAIN clients : r # q => clients'[r] = clients[r]
        <5> HIDE DEF Cur
        <5> QED
          BY <3>2, <3>2a DEF FetchEffect
      <4> QED
        BY <4>1
    <3>4. first_request' = FALSE /\ Running' /\ \A r \in DOMAIN clients : Cur(r) # h
      BY <2>11, <3>1
    <3>5. \A r \in DOMAIN clients, p \in DOMAIN clients :
             Cur(r)' = Cur(p)' => r = p \/ Cur(r)' = NoHandler
      <4> HIDE DEF Cur
      <4> QED
        BY <1>1, <3>3, <3>4
    <3> QED
      BY <3>3, <3>4, <3>5 DEF ServerInv, Connected
  <2>15. CASE \E b \in Browsers : Receive(b)
    <3>1. PICK b \in Browsers : Receive(b)
      BY <2>15
    <3>2. UNCHANGED <<phase, clients, descriptors_by_handler_id, first_request>> /\ Running
      BY <3>1 DEF Receive
    <3>3. /\ browser[b].xhr \in HandlerIds
          /\ \A i \in HandlerIds \ {browser[b].xhr} : handlers'[i] = handlers[i]
          /\ handlers'[browser[b].xhr] = Absent
      BY <3>1, ReceiveTypes
    <3>4. Running' /\ (Silent => Silent')
      BY <3>2, <3>3 DEF Running, Silent
    <3> QED
      BY <1>3, <3>2, <3>4
  <2>16. CASE \E b \in Browsers : Abort(b)
    BY <1>4, <2>16 DEF Abort
  <2>17. CASE \E b \in Browsers : CleanupEventQueue(b)
    <3>1. PICK b \in Browsers : CleanupEventQueue(b)
      BY <2>17
    <3> DEFINE q == browser[b].queue_id
    <3>2. UNCHANGED <<phase, first_request>> /\ Running
      BY <3>1 DEF CleanupEventQueue
    <3>3. /\ DOMAIN clients' = DOMAIN clients \ {q}
          /\ \A r \in DOMAIN clients' : clients'[r] = clients[r]
          /\ \A i \in HandlerIds : handlers[i] # Waiting => handlers'[i] = handlers[i]
          /\ descriptors_by_handler_id' = Cleared(HandlersOf({q}))
      BY <3>1, CleanupTypes
    <3>4. Absent # Waiting
      BY DEF Absent, Waiting
    <3>5. Running' /\ (Silent => Silent')
      BY <1>1, <3>2, <3>3, <3>4, ClearedIs DEF Running, Silent
    <3> HIDE DEF q
    <3> QED
      BY <1>3, <3>2, <3>3, <3>5
  <2>18. CASE \E b \in Browsers : Leave(b)
    BY <1>4, <2>18 DEF Leave
  <2> QED
    BY <1>6, <2>1, <2>3, <2>4, <2>5, <2>6, <2>7, <2>8, <2>9, <2>10, <2>12, <2>13, <2>14,
       <2>15, <2>16, <2>17, <2>18, NextCases
<1> QED
  BY <1>5, <1>6

-----------------------------------------------------------------------------
(* Polls that wait are attended.                                           *)

\* A number other than 0 is in the table only while it is the current handler
\* of that queue; a request that a browser waits for is one of its own, and is
\* at the server
Attended ==
    /\ \A h \in HandlerIds \ {0} : descriptors_by_handler_id[h] # NoQueue =>
          /\ descriptors_by_handler_id[h] \in DOMAIN clients
          /\ clients[descriptors_by_handler_id[h]].current_handler_id = h
    /\ \A b, c \in Browsers :
          browser[b].xhr = browser[c].xhr => b = c \/ browser[b].xhr = NoHandler
    /\ \A b \in Browsers : browser[b].xhr # NoHandler => handlers[browser[b].xhr] # Absent
    /\ PollsAttended

(***************************************************************************)
(* The steps that finish the handlers of some queues.                      *)
(***************************************************************************)
LEMMA FinishingAttends ==
    ASSUME TInv, TInv', Attended, NEW queues,
           \A r \in DOMAIN clients \ queues :
              r \in DOMAIN clients' /\ clients'[r].current_handler_id
                                          = clients[r].current_handler_id,
           \A i \in HandlerIds :
              descriptors_by_handler_id'[i] = Cleared(HandlersOf(queues))[i],
           \A i \in HandlerIds :
              \/ handlers'[i] = handlers[i]
              \/ handlers'[i] # Absent /\ handlers'[i] # Waiting,
           \A r \in queues \cap Connected :
              handlers'[clients[r].current_handler_id] # Waiting,
           \A b \in Browsers :
              \/ browser'[b].xhr = NoHandler
              \/ /\ browser'[b].xhr = browser[b].xhr
                 /\ browser'[b].queue_id = browser[b].queue_id
    PROVE  Attended'
<1>1. /\ TypeOK
      /\ \A h \in HandlerIds \ {0} : descriptors_by_handler_id[h] # NoQueue =>
            /\ descriptors_by_handler_id[h] \in DOMAIN clients
            /\ clients[descriptors_by_handler_id[h]].current_handler_id = h
      /\ \A b, c \in Browsers :
            browser[b].xhr = browser[c].xhr => b = c \/ browser[b].xhr = NoHandler
      /\ \A b \in Browsers : browser[b].xhr # NoHandler => handlers[browser[b].xhr] # Absent
      /\ \A b \in Browsers :
            browser[b].xhr # NoHandler /\ handlers[browser[b].xhr] = Waiting =>
               \/ /\ browser[b].queue_id \in DOMAIN clients
                  /\ clients[browser[b].queue_id].current_handler_id = browser[b].xhr
               \/ descriptors_by_handler_id[0] = browser[b].queue_id
  BY DEF TInv, Attended, PollsAttended
<1>2. /\ NoHandler \notin HandlerIds /\ 0 \in HandlerIds
      /\ \A b \in Browsers : browser[b].xhr \in HandlerIds \cup {NoHandler}
  BY <1>1, BoundsHold DEF TypeOK
<1>3. \A h \in HandlerIds \ {0} : descriptors_by_handler_id'[h] # NoQueue =>
         /\ descriptors_by_handler_id'[h] \in DOMAIN clients'
         /\ clients'[descriptors_by_handler_id'[h]].current_handler_id = h
  <2> SUFFICES ASSUME NEW h \in HandlerIds \ {0}, descriptors_by_handler_id'[h] # NoQueue
               PROVE  /\ descriptors_by_handler_id'[h] \in DOMAIN clients'
                      /\ clients'[descriptors_by_handler_id'[h]].current_handler_id = h
    OBVIOUS
  <2>1. descriptors_by_handler_id'[h] = descriptors_by_handler_id[h] /\ h \notin HandlersOf(queues)
    BY <1>1, ClearedIs
  <2>2. PICK r \in DOMAIN clients : r = descriptors_by_handler_id[h]
                                    /\ clients[r].current_handler_id = h
    BY <1>1, <2>1
  <2>3. r \notin queues
    BY <1>2, <2>1, <2>2 DEF HandlersOf, Connected
  <2> QED
    BY <2>1, <2>2, <2>3
<1>4. \A b, c \in Browsers :
         browser'[b].xhr = browser'[c].xhr => b = c \/ browser'[b].xhr = NoHandler
  BY <1>1
<1>5. \A b \in Browsers : browser'[b].xhr # NoHandler => handlers'[browser'[b].xhr] # Absent
  BY <1>1, <1>2
<1>6. \A b \in Browsers :
         browser'[b].xhr # NoHandler /\ handlers'[browser'[b].xhr] = Waiting =>
            \/ /\ browser'[b].queue_id \in DOMAIN clients'
               /\ clients'[browser'[b].queue_id].current_handler_id = browser'[b].xhr
            \/ descriptors_by_handler_id'[0] = browser'[b].queue_id
  <2> SUFFICES ASSUME NEW b \in Browsers, browser'[b].xhr # NoHandler,
                      handlers'[browser'[b].xhr] = Waiting
               PROVE  \/ /\ browser'[b].queue_id \in DOMAIN clients'
                         /\ clients'[browser'[b].queue_id].current_handler_id = browser'[b].xhr
                      \/ descriptors_by_handler_id'[0] = browser'[b].queue_id
    OBVIOUS
  <2>1. /\ browser'[b].xhr = browser[b].xhr /\ browser'[b].queue_id = browser[b].queue_id
        /\ browser[b].xhr \in HandlerIds
        /\ handlers[browser[b].xhr] = Waiting
    BY <1>2
  <2>2. CASE /\ browser[b].queue_id \in DOMAIN clients
             /\ clients[browser[b].queue_id].current_handler_id = browser[b].xhr
    <3>1. browser[b].queue_id \in Connected
      BY <1>2, <2>1, <2>2 DEF Connected
    <3>2. browser[b].queue_id \notin queues
      BY <2>1, <2>2, <3>1
    <3> QED
      BY <2>1, <2>2, <3>2
  <2>3. CASE descriptors_by_handler_id[0] = browser[b].queue_id
    <3>1. descriptors_by_handler_id'[0] = descriptors_by_handler_id[0]
      BY <1>1, <1>2, ClearedIs
    <3> QED
      BY <2>1, <2>3, <3>1
  <2> QED
    BY <1>1, <2>1, <2>2, <2>3
<1> QED
  BY <1>3, <1>4, <1>5, <1>6 DEF Attended, PollsAttended

(***************************************************************************)
(* The handler of a poll that arrives is nobody else's.                    *)
(***************************************************************************)
LEMMA FreshHandler ==
    ASSUME TInv, ServerInv, Attended,
           NEW b \in Browsers, NEW h \in HandlerIds, NEW alive \in BOOLEAN,
           Request(b, h, alive)
    PROVE  /\ handlers[h] = Absent
           /\ descriptors_by_handler_id[h] = NoQueue
           /\ \A c \in Browsers : browser[c].xhr # h
           /\ \A r \in DOMAIN clients : clients[r].current_handler_id # h
           /\ h = 0 => Silent
<1>1. MayAllocate(h) /\ HandlerIds \subseteq Nat /\ NoHandler \notin HandlerIds
  BY BoundsHold DEF Request, TInv, TypeOK
<1>2. \A c \in Browsers : browser[c].xhr # NoHandler => handlers[browser[c].xhr] # Absent
  BY DEF Attended
<1>3. CASE h = 0 /\ first_request
  BY <1>1, <1>2, <1>3 DEF ServerInv, Silent, Connected
<1>4. CASE /\ h # 0
           /\ h \notin HandlersOf(DOMAIN clients)
           /\ \A i \in 1..h : handlers[i] = Absent /\ descriptors_by_handler_id[i] = NoQueue
                              <=> i = h
  <2>1. h \in 1..h
    BY <1>1, <1>4
  <2>2. handlers[h] = Absent /\ descriptors_by_handler_id[h] = NoQueue
    BY <1>4, <2>1
  <2>3. \A r \in DOMAIN clients : clients[r].current_handler_id # h
    BY <1>1, <1>4 DEF HandlersOf, Connected
  <2> QED
    BY <1>1, <1>2, <1>4, <2>2, <2>3
<1> QED
  BY <1>1, <1>3, <1>4 DEF MayAllocate

(***************************************************************************)
(* A poll that is refused or answered to nobody disturbs no other,         *)
(***************************************************************************)
LEMMA UnansweredPollAttends ==
    ASSUME TInv, Owners, ServerInv, Attended,
           NEW b \in Browsers, NEW h \in HandlerIds, NEW alive \in BOOLEAN,
           Request(b, h, alive),
           DOMAIN clients' = DOMAIN clients,
           \A r \in DOMAIN clients :
              clients'[r].current_handler_id = clients[r].current_handler_id,
           descriptors_by_handler_id' = descriptors_by_handler_id,
           NEW code \in {"BAD_EVENT_QUEUE_ID", "BAD_REQUEST"},
           handlers' = Arrived(h, alive, Error(code), handlers)
    PROVE  Attended'
<1>1. /\ \A h_1 \in HandlerIds \ {0} : descriptors_by_handler_id[h_1] # NoQueue =>
            /\ descriptors_by_handler_id[h_1] \in DOMAIN clients
            /\ clients[descriptors_by_handler_id[h_1]].current_handler_id = h_1
      /\ \A c, d \in Browsers :
            browser[c].xhr = browser[d].xhr => c = d \/ browser[c].xhr = NoHandler
      /\ \A c \in Browsers : browser[c].xhr # NoHandler => handlers[browser[c].xhr] # Absent
      /\ \A c \in Browsers :
            browser[c].xhr # NoHandler /\ handlers[browser[c].xhr] = Waiting =>
               \/ /\ browser[c].queue_id \in DOMAIN clients
                  /\ clients[browser[c].queue_id].current_handler_id = browser[c].xhr
               \/ descriptors_by_handler_id[0] = browser[c].queue_id
  BY DEF Attended, PollsAttended
<1>2. /\ handlers[h] = Absent
      /\ \A c \in Browsers : browser[c].xhr # h
  BY FreshHandler
<1>3. /\ \A c \in Browsers : /\ browser'[c].queue_id = browser[c].queue_id
                             /\ c # b => browser'[c].xhr = browser[c].xhr
      /\ browser'[b].xhr = IF alive THEN h ELSE NoHandler
      /\ browser[b].xhr = NoHandler
  BY RequestTypes
<1>4. handlers \in [HandlerIds -> Answer \cup {Absent, Waiting}]
      /\ \A c \in Browsers : browser[c].xhr \in HandlerIds \cup {NoHandler}
  BY DEF TInv, TypeOK
<1>5. /\ alive => handlers'[h] # Absent /\ handlers'[h] # Waiting
      /\ ~alive => handlers'[h] = handlers[h]
      /\ \A i \in HandlerIds \ {h} : handlers'[i] = handlers[i]
  BY <1>4, ErrorIsAnswer, ArrivedTypes
<1>6. \A c \in Browsers : c # b /\ browser'[c].xhr # NoHandler
                             => handlers'[browser'[c].xhr] = handlers[browser[c].xhr]
  BY <1>2, <1>3, <1>4, <1>5
<1>7. \A c, d \in Browsers :
         browser'[c].xhr = browser'[d].xhr => c = d \/ browser'[c].xhr = NoHandler
  BY <1>1, <1>2, <1>3
<1>8. \A c \in Browsers : browser'[c].xhr # NoHandler => handlers'[browser'[c].xhr] # Absent
  BY <1>1, <1>3, <1>5, <1>6
<1>9. \A c \in Browsers :
         browser'[c].xhr # NoHandler /\ handlers'[browser'[c].xhr] = Waiting =>
            \/ /\ browser'[c].queue_id \in DOMAIN clients'
               /\ clients'[browser'[c].queue_id].current_handler_id = browser'[c].xhr
            \/ descriptors_by_handler_id'[0] = browser'[c].queue_id
  BY <1>1, <1>3, <1>5, <1>6
<1> QED
  BY <1>1, <1>7, <1>8, <1>9 DEF Attended, PollsAttended

(***************************************************************************)
(* ... and one that is accepted supplants only the polls of its own queue. *)
(***************************************************************************)
LEMMA AnsweredPollAttends ==
    ASSUME TInv, Owners, ServerInv, Attended,
           NEW b \in Browsers, NEW h \in HandlerIds, NEW alive \in BOOLEAN,
           NEW dont_block \in BOOLEAN, FetchEvents(b, h, alive, dont_block)
    PROVE  Attended'
<1>1. /\ TypeOK
      /\ \A i \in HandlerIds \ {0} : descriptors_by_handler_id[i] # NoQueue =>
            /\ descriptors_by_handler_id[i] \in DOMAIN clients
            /\ clients[descriptors_by_handler_id[i]].current_handler_id = i
      /\ \A c, d \in Browsers :
            browser[c].xhr = browser[d].xhr => c = d \/ browser[c].xhr = NoHandler
      /\ \A c \in Browsers : browser[c].xhr # NoHandler => handlers[browser[c].xhr] # Absent
      /\ \A c \in Browsers :
            browser[c].xhr # NoHandler /\ handlers[browser[c].xhr] = Waiting =>
               \/ /\ browser[c].queue_id \in DOMAIN clients
                  /\ clients[browser[c].queue_id].current_handler_id = browser[c].xhr
               \/ descriptors_by_handler_id[0] = browser[c].queue_id
  BY DEF TInv, Attended, PollsAttended
<1>2. Request(b, h, alive)
  BY DEF FetchEvents
<1>3. /\ handlers[h] = Absent
      /\ descriptors_by_handler_id[h] = NoQueue
      /\ \A c \in Browsers : browser[c].xhr # h
      /\ \A r \in DOMAIN clients : clients[r].current_handler_id # h
      /\ h = 0 => Silent
  BY <1>2, FreshHandler
<1>4. /\ \A c \in Browsers : /\ browser'[c].queue_id = browser[c].queue_id
                             /\ c # b => browser'[c].xhr = browser[c].xhr
      /\ browser'[b].xhr = IF alive THEN h ELSE NoHandler
      /\ browser[b].xhr = NoHandler
  BY <1>2, RequestTypes
<1>5. /\ NoHandler \notin HandlerIds /\ 0 \in HandlerIds
      /\ \A c \in Browsers : browser[c].xhr \in HandlerIds \cup {NoHandler}
      /\ browser \in [Browsers -> [queue_id : QueueIds \cup {NoQueue},
                                   last_event_id : Nat \cup {-1},
                                   xhr : HandlerIds \cup {NoHandler}]]
  BY <1>1, BoundsHold DEF TypeOK
<1> DEFINE sleeps == IsEmpty(Acknowledged(b)) /\ ~dont_block
<1>6. FetchEffect(b, h, alive, dont_block)
  BY FetchTypes
<1>7. PICK q \in DOMAIN clients : q = browser[b].queue_id
  BY <1>6 DEF FetchEffect
<1>8. /\ DOMAIN clients' = DOMAIN clients
      /\ clients'[q].current_handler_id = IF sleeps THEN h ELSE NoHandler
      /\ \A r \in DOMAIN clients : r # q => clients'[r] = clients[r]
      /\ \A i \in HandlerIds :
            descriptors_by_handler_id'[i] =
               IF sleeps /\ i = h THEN q ELSE Cleared(HandlersOf({q}))[i]
  BY <1>6, <1>7 DEF FetchEffect
<1>9. /\ Success(Settle(Acknowledged(b)).queue) # Waiting
      /\ Success(Settle(Acknowledged(b)).queue) # Absent
      /\ Waiting # Absent
  BY DEF Success, Waiting, Absent
<1>10. /\ alive => /\ handlers'[h] # Absent
                   /\ handlers'[h] = Waiting => sleeps
       /\ \A i \in HandlerIds : i # h \/ ~alive =>
             /\ \/ handlers'[i] = handlers[i]
                \/ handlers[i] = Waiting /\ handlers'[i] # Absent
             /\ handlers'[i] = Waiting => handlers[i] = Waiting
             /\ q \in Connected /\ clients[q].current_handler_id = i
                   => handlers'[i] # Waiting
  <2>1. /\ alive => handlers'[h] = IF sleeps THEN Waiting
                                   ELSE Success(Settle(Acknowledged(b)).queue)
        /\ \A i \in HandlerIds : i # h \/ ~alive =>
              /\ \/ handlers'[i] = handlers[i]
                 \/ /\ handlers[i] = Waiting
                    /\ handlers'[i] = Success(Settle(Acknowledged(b)).queue)
              /\ handlers[i] # Waiting => handlers'[i] = handlers[i]
              /\ q \in Connected /\ clients[q].current_handler_id = i
                    => handlers'[i] # Waiting
    BY <1>6, <1>7 DEF FetchEffect
  <2> HIDE DEF sleeps
  <2> QED
    BY <1>9, <2>1
<1> HIDE DEF sleeps
<1>11. \A i \in HandlerIds \ {0} : descriptors_by_handler_id'[i] # NoQueue =>
          /\ descriptors_by_handler_id'[i] \in DOMAIN clients'
          /\ clients'[descriptors_by_handler_id'[i]].current_handler_id = i
  <2> SUFFICES ASSUME NEW i \in HandlerIds \ {0}, descriptors_by_handler_id'[i] # NoQueue
               PROVE  /\ descriptors_by_handler_id'[i] \in DOMAIN clients'
                      /\ clients'[descriptors_by_handler_id'[i]].current_handler_id = i
    OBVIOUS
  <2>1. CASE sleeps /\ i = h
    BY <1>8, <2>1
  <2>2. CASE ~(sleeps /\ i = h)
    <3>1. descriptors_by_handler_id'[i] = Cleared(HandlersOf({q}))[i]
      BY <1>8, <2>2
    <3>2. descriptors_by_handler_id'[i] = descriptors_by_handler_id[i] /\ i \notin HandlersOf({q})
      BY <1>1, <3>1, ClearedIs
    <3>3. PICK r \in DOMAIN clients : r = descriptors_by_handler_id[i]
                                      /\ clients[r].current_handler_id = i
      BY <1>1, <3>2
    <3>4. r # q
      BY <1>5, <3>2, <3>3 DEF HandlersOf, Connected
    <3> QED
      BY <1>8, <3>2, <3>3, <3>4
  <2> QED
    BY <2>1, <2>2
<1>12. \A c, d \in Browsers :
          browser'[c].xhr = browser'[d].xhr => c = d \/ browser'[c].xhr = NoHandler
  BY <1>1, <1>3, <1>4
<1>13. \A c \in Browsers : browser'[c].xhr # NoHandler => handlers'[browser'[c].xhr] # Absent
  BY <1>1, <1>3, <1>4, <1>5, <1>10
<1>14. ASSUME NEW c \in Browsers, browser'[c].xhr # NoHandler,
              handlers'[browser'[c].xhr] = Waiting
       PROVE  \/ /\ browser'[c].queue_id \in DOMAIN clients'
                 /\ clients'[browser'[c].queue_id].current_handler_id = browser'[c].xhr
              \/ descriptors_by_handler_id'[0] = browser'[c].queue_id
  <2>1. CASE c = b
    <3>1. alive /\ browser'[b].xhr = h /\ browser'[b].queue_id = q
      BY <1>4, <1>7, <1>14, <2>1
    <3>2. sleeps
      BY <1>10, <1>14, <2>1, <3>1
    <3> QED
      BY <1>8, <2>1, <3>1, <3>2
  <2>2. CASE c # b
    <3>1. /\ browser'[c].xhr = browser[c].xhr /\ browser'[c].queue_id = browser[c].queue_id
          /\ browser[c].xhr \in HandlerIds /\ browser[c].xhr # h
      BY <1>3, <1>4, <1>5, <1>14, <2>2
    <3>2. /\ handlers[browser[c].xhr] = Waiting
          /\ ~(q \in Connected /\ clients[q].current_handler_id = browser[c].xhr)
      BY <1>10, <1>14, <3>1
    <3>3. CASE /\ browser[c].queue_id \in DOMAIN clients
               /\ clients[browser[c].queue_id].current_handler_id = browser[c].xhr
      <4>1. browser[c].queue_id # q
        BY <1>5, <3>1, <3>2, <3>3 DEF Connected
      <4> QED
        BY <1>8, <3>1, <3>3, <4>1
    <3>4. CASE descriptors_by_handler_id[0] = browser[c].queue_id
      <4>1. CASE h = 0
        BY <1>3, <1>9, <3>1, <3>2, <4>1 DEF Silent
      <4>2. CASE h # 0
        <5>1. descriptors_by_handler_id'[0] = Cleared(HandlersOf({q}))[0]
          BY <1>5, <1>8, <4>2
        <5>2. descriptors_by_handler_id'[0] = descriptors_by_handler_id[0]
          BY <1>1, <1>5, <5>1, ClearedIs
        <5> QED
          BY <3>1, <3>4, <5>2
      <4> QED
        BY <4>1, <4>2
    <3>5. \/ /\ browser[c].queue_id \in DOMAIN clients
             /\ clients[browser[c].queue_id].current_handler_id = browser[c].xhr
          \/ descriptors_by_handler_id[0] = browser[c].queue_id
      BY <1>1, <1>5, <3>1, <3>2
    <3> QED
      BY <3>3, <3>4, <3>5
  <2> QED
    BY <2>1, <2>2
<1> QED
  BY <1>11, <1>12, <1>13, <1>14 DEF Attended, PollsAttended

(***************************************************************************)
(* The end of a connection takes from its descriptor the handler whose     *)
(* connection it was, unless the number is 0.                              *)
(***************************************************************************)
LEMMA CloseAttends ==
    ASSUME TInv, Attended, NEW h \in HandlerIds, OnConnectionClose(h)
    PROVE  Attended'
<1>1. /\ TypeOK
      /\ \A i \in HandlerIds \ {0} : descriptors_by_handler_id[i] # NoQueue =>
            /\ descriptors_by_handler_id[i] \in DOMAIN clients
            /\ clients[descriptors_by_handler_id[i]].current_handler_id = i
      /\ \A c, d \in Browsers :
            browser[c].xhr = browser[d].xhr => c = d \/ browser[c].xhr = NoHandler
      /\ \A c \in Browsers : browser[c].xhr # NoHandler => handlers[browser[c].xhr] # Absent
      /\ \A c \in Browsers :
            browser[c].xhr # NoHandler /\ handlers[browser[c].xhr] = Waiting =>
               \/ /\ browser[c].queue_id \in DOMAIN clients
                  /\ clients[browser[c].queue_id].current_handler_id = browser[c].xhr
               \/ descriptors_by_handler_id[0] = browser[c].queue_id
  BY DEF TInv, Attended, PollsAttended
<1>2. /\ NoHandler \notin HandlerIds /\ 0 \in HandlerIds
      /\ \A c \in Browsers : browser[c].xhr \in HandlerIds \cup {NoHandler}
      /\ NoQueue \notin QueueIds
      /\ DOMAIN clients \subseteq QueueIds
  <2>1. 1..bound.queues \subseteq QueueIds /\ bound.queues \in Nat /\ QueueIds \subseteq Nat \ {0}
    BY <1>1, BoundsHold DEF TypeOK
  <2>2. registered \in Nat /\ registered <= bound.queues /\ DOMAIN clients \subseteq 1..registered
    BY <1>1, <2>1 DEF TInv, TypeOK
  <2>3. 1..registered \subseteq 1..bound.queues
    BY <2>1, <2>2
  <2> QED
    BY <1>1, <2>1, <2>2, <2>3, BoundsHold DEF TypeOK
<1> DEFINE q == descriptors_by_handler_id[h]
<1>3. CloseEffect(h)
  BY CloseIs
<1>4. /\ handlers'[h] = Absent
      /\ \A i \in HandlerIds \ {h} : handlers'[i] = handlers[i]
      /\ DOMAIN clients' = DOMAIN clients
      /\ \A r \in DOMAIN clients : r # q => clients'[r] = clients[r]
      /\ q \in DOMAIN clients
            => descriptors_by_handler_id' = Cleared(HandlersOf({q}))
      /\ q \notin DOMAIN clients
            => descriptors_by_handler_id' = descriptors_by_handler_id
      /\ \A c \in Browsers :
            /\ browser'[c].queue_id = browser[c].queue_id
            /\ browser'[c].xhr = IF browser[c].xhr = h THEN NoHandler ELSE browser[c].xhr
  BY <1>3 DEF CloseEffect
<1>5. \A i \in HandlerIds : /\ \/ descriptors_by_handler_id'[i] = descriptors_by_handler_id[i]
                               \/ descriptors_by_handler_id'[i] = NoQueue
                            /\ i = 0 => descriptors_by_handler_id'[i] = descriptors_by_handler_id[i]
  BY <1>1, <1>4, ClearedIs
<1>6. ASSUME NEW i \in HandlerIds \ {0}, descriptors_by_handler_id'[i] # NoQueue
      PROVE  /\ descriptors_by_handler_id'[i] \in DOMAIN clients'
             /\ clients'[descriptors_by_handler_id'[i]].current_handler_id = i
  <2>1. descriptors_by_handler_id'[i] = descriptors_by_handler_id[i]
    BY <1>5, <1>6
  <2>2. PICK r \in DOMAIN clients : r = descriptors_by_handler_id[i]
                                    /\ clients[r].current_handler_id = i
    BY <1>1, <1>6, <2>1
  <2>3. r # q
    <3> SUFFICES ASSUME r = q PROVE FALSE
      OBVIOUS
    <3>1. descriptors_by_handler_id' = Cleared(HandlersOf({r})) /\ i \in HandlersOf({r})
      BY <1>2, <1>4, <2>2 DEF HandlersOf, Connected
    <3> HIDE DEF q
    <3> QED
      BY <1>1, <1>6, <3>1, ClearedIs
  <2> QED
    BY <1>4, <2>1, <2>2, <2>3
<1>7. \A c, d \in Browsers :
         browser'[c].xhr = browser'[d].xhr => c = d \/ browser'[c].xhr = NoHandler
  BY <1>1, <1>4
<1>8. \A c \in Browsers : browser'[c].xhr # NoHandler =>
         /\ browser'[c].xhr = browser[c].xhr
         /\ browser[c].xhr \in HandlerIds \ {h}
         /\ handlers'[browser'[c].xhr] = handlers[browser[c].xhr]
  BY <1>2, <1>4
<1>9. ASSUME NEW c \in Browsers, browser'[c].xhr # NoHandler,
             handlers'[browser'[c].xhr] = Waiting
      PROVE  \/ /\ browser'[c].queue_id \in DOMAIN clients'
                /\ clients'[browser'[c].queue_id].current_handler_id = browser'[c].xhr
             \/ descriptors_by_handler_id'[0] = browser'[c].queue_id
  <2>1. /\ browser'[c].xhr = browser[c].xhr /\ browser'[c].queue_id = browser[c].queue_id
        /\ browser[c].xhr \in HandlerIds \ {h}
        /\ handlers[browser[c].xhr] = Waiting
    BY <1>4, <1>8, <1>9
  <2>2. CASE descriptors_by_handler_id[0] = browser[c].queue_id
    BY <1>2, <1>5, <2>1, <2>2
  <2>3. CASE /\ browser[c].queue_id \in DOMAIN clients
             /\ clients[browser[c].queue_id].current_handler_id = browser[c].xhr
    <3>1. CASE browser[c].queue_id # q
      BY <1>4, <2>1, <2>3, <3>1
    <3>2. CASE browser[c].queue_id = q
      <4>1. q # NoQueue
        BY <1>2, <2>3, <3>2
      <4>2. CASE h = 0
        BY <1>2, <1>5, <2>1, <3>2, <4>2
      <4>3. CASE h # 0
        BY <1>1, <2>1, <2>3, <3>2, <4>1, <4>3
      <4> QED
        BY <4>2, <4>3
    <3> QED
      BY <3>1, <3>2
  <2>4. \/ /\ browser[c].queue_id \in DOMAIN clients
           /\ clients[browser[c].queue_id].current_handler_id = browser[c].xhr
        \/ descriptors_by_handler_id[0] = browser[c].queue_id
    BY <1>1, <1>2, <2>1
  <2> QED
    BY <2>2, <2>3, <2>4
<1>10. \A c \in Browsers : browser'[c].xhr # NoHandler => handlers'[browser'[c].xhr] # Absent
  BY <1>1, <1>8
<1> QED
  BY <1>6, <1>7, <1>9, <1>10 DEF Attended, PollsAttended

(***************************************************************************)
(* A process that ends or starts has no handlers.                          *)
(***************************************************************************)
LEMMA SilentAttends ==
    ASSUME Silent', \A c \in Browsers : browser'[c].xhr = NoHandler
    PROVE  Attended'
<1>1. \A i \in HandlerIds : descriptors_by_handler_id'[i] = NoQueue
  BY DEF Silent
<1> QED
  BY <1>1 DEF Attended, PollsAttended

(***************************************************************************)
(* A page that takes its answer has no poll that waits.                    *)
(***************************************************************************)
LEMMA ReceiveAttends ==
    ASSUME TInv, Attended, NEW b \in Browsers, Receive(b)
    PROVE  Attended'
<1> DEFINE h == browser[b].xhr
<1>1. /\ TypeOK
      /\ \A i \in HandlerIds \ {0} : descriptors_by_handler_id[i] # NoQueue =>
            /\ descriptors_by_handler_id[i] \in DOMAIN clients
            /\ clients[descriptors_by_handler_id[i]].current_handler_id = i
      /\ \A c, d \in Browsers :
            browser[c].xhr = browser[d].xhr => c = d \/ browser[c].xhr = NoHandler
      /\ \A c \in Browsers : browser[c].xhr # NoHandler => handlers[browser[c].xhr] # Absent
      /\ \A c \in Browsers :
            browser[c].xhr # NoHandler /\ handlers[browser[c].xhr] = Waiting =>
               \/ /\ browser[c].queue_id \in DOMAIN clients
                  /\ clients[browser[c].queue_id].current_handler_id = browser[c].xhr
               \/ descriptors_by_handler_id[0] = browser[c].queue_id
  BY DEF TInv, Attended, PollsAttended
<1>2. /\ h \in HandlerIds
      /\ \A i \in HandlerIds \ {h} : handlers'[i] = handlers[i]
      /\ \A c \in Browsers \ {b} : browser'[c] = browser[c]
      /\ browser'[b].xhr = NoHandler
  BY ReceiveTypes
<1>3. UNCHANGED <<clients, descriptors_by_handler_id>> /\ h # NoHandler
  BY DEF Receive
<1>4. \A c \in Browsers : browser[c].xhr \in HandlerIds \cup {NoHandler}
  BY <1>1 DEF TypeOK
<1>5. \A c \in Browsers : browser'[c].xhr # NoHandler =>
         /\ c # b /\ browser'[c] = browser[c]
         /\ browser[c].xhr \in HandlerIds \ {h}
         /\ handlers'[browser'[c].xhr] = handlers[browser[c].xhr]
  BY <1>1, <1>2, <1>3, <1>4
<1>6. \A c, d \in Browsers :
         browser'[c].xhr = browser'[d].xhr => c = d \/ browser'[c].xhr = NoHandler
  BY <1>1, <1>2
<1> HIDE DEF h
<1>7. \A c \in Browsers : browser'[c].xhr # NoHandler => handlers'[browser'[c].xhr] # Absent
  BY <1>1, <1>5
<1>8. \A c \in Browsers :
         browser'[c].xhr # NoHandler /\ handlers'[browser'[c].xhr] = Waiting =>
            \/ /\ browser'[c].queue_id \in DOMAIN clients'
               /\ clients'[browser'[c].queue_id].current_handler_id = browser'[c].xhr
            \/ descriptors_by_handler_id'[0] = browser'[c].queue_id
  BY <1>1, <1>3, <1>5
<1> QED
  BY <1>1, <1>3, <1>6, <1>7, <1>8 DEF Attended, PollsAttended

(***************************************************************************)
(* No step abandons a poll that waits.                                     *)
(***************************************************************************)
LEMMA AttendedStep ==
    ASSUME TInv, Owners, ServerInv, Attended, [Next]_vars
    PROVE  Attended'
<1>1. /\ TypeOK /\ TInv'
      /\ \A c \in Browsers : browser[c].xhr \in HandlerIds \cup {NoHandler}
  BY TypeStep DEF TInv, TypeOK
\* No queue's handler is finished
<1>2. ASSUME UNCHANGED <<handlers, descriptors_by_handler_id>>,
             \A r \in DOMAIN clients :
                \/ r \in DOMAIN clients' /\ clients'[r].current_handler_id
                                              = clients[r].current_handler_id
                \/ clients[r].current_handler_id = NoHandler,
             \A b \in Browsers :
                \/ browser'[b].xhr = NoHandler
                \/ /\ browser'[b].xhr = browser[b].xhr
                   /\ browser'[b].queue_id = browser[b].queue_id
      PROVE  Attended'
  <2> DEFINE queues == DOMAIN clients \ Connected
  <2>1. HandlersOf(queues) = {}
    BY DEF HandlersOf
  <2>2. \A i \in HandlerIds :
           descriptors_by_handler_id'[i] = Cleared(HandlersOf(queues))[i]
    BY <1>1, <1>2, <2>1, ClearedIs
  <2>3. \A r \in DOMAIN clients \ queues :
           r \in DOMAIN clients' /\ clients'[r].current_handler_id
                                       = clients[r].current_handler_id
    BY <1>2 DEF Connected
  <2>4. queues \cap Connected = {}
    OBVIOUS
  <2> HIDE DEF queues
  <2> QED
    BY <1>1, <1>2, <2>2, <2>3, <2>4, FinishingAttends
<1>3. ASSUME UNCHANGED tornado,
             \A b \in Browsers :
                \/ browser'[b].xhr = NoHandler
                \/ /\ browser'[b].xhr = browser[b].xhr
                   /\ browser'[b].queue_id = browser[b].queue_id
      PROVE  Attended'
  BY <1>2, <1>3 DEF tornado
<1>4. CASE UNCHANGED vars
  BY <1>3, <1>4 DEF vars
<1>5. CASE Next
  <2>1. CASE Publish
    BY <1>3, <2>1 DEF Publish
  <2>2. ASSUME NEW queues \in SUBSET DOMAIN clients, NEW kind \in Kinds, NEW of \in Seq(Notice),
               AddEvent(queues, kind, of), browser' = browser
        PROVE  Attended'
    <3>1. /\ DOMAIN clients' = DOMAIN clients
          /\ \A q \in DOMAIN clients :
                /\ Kept(clients'[q])
                /\ q \notin queues => clients'[q] = clients[q]
          /\ handlers' = Answers(queues \cap Connected, clients')
          /\ descriptors_by_handler_id' = Cleared(HandlersOf(queues))
      BY <2>2, AddEventTypes
    <3>2. \A q \in queues \cap Connected : Kept(clients'[q])
      BY <3>1
    <3>3. /\ \A i \in HandlerIds :
                \/ handlers'[i] = handlers[i]
                \/ \E q \in queues : handlers'[i] = Success(clients'[q].event_queue.queue)
          /\ \A i \in HandlerIds :
                (\E q \in queues \cap Connected : clients[q].current_handler_id = i)
                   => handlers'[i] # Waiting
      BY <1>1, <3>1, <3>2, AnswersAre
    <3>4. \A s : Success(s) # Absent /\ Success(s) # Waiting
      BY DEF Success, Absent, Waiting
    <3>5. \A i \in HandlerIds :
             \/ handlers'[i] = handlers[i]
             \/ handlers'[i] # Absent /\ handlers'[i] # Waiting
      BY <3>3, <3>4
    <3>6. \A r \in queues \cap Connected : handlers'[clients[r].current_handler_id] # Waiting
      <4>1. \A r \in queues \cap Connected : clients[r].current_handler_id \in HandlerIds
        BY KeptIs DEF TInv, Connected
      <4> QED
        BY <3>3, <4>1
    <3> QED
      BY <1>1, <2>2, <3>1, <3>5, <3>6, FinishingAttends
  <2>3. CASE ProcessNotification
    <3>1. Head(rabbit).kind \in Kinds /\ <<Head(rabbit)>> \in Seq(Notice)
      BY <1>1, <2>3, RabbitHead DEF ProcessNotification
    <3>2. /\ AddEvent(DOMAIN clients, Head(rabbit).kind, <<Head(rabbit)>>)
          /\ browser' = browser
          /\ DOMAIN clients \in SUBSET DOMAIN clients
      BY <2>3 DEF ProcessNotification
    <3> QED
      BY <2>2, <3>1, <3>2
  <2>4. CASE \E q \in QueueIds : Heartbeat(q)
    <3>1. PICK q \in QueueIds : Heartbeat(q)
      BY <2>4
    <3>2. {q} \in SUBSET DOMAIN clients /\ "heartbeat" \in Kinds /\ <<>> \in Seq(Notice)
      BY <3>1, EmptySeq DEF Heartbeat, Connected, Kinds
    <3>3. AddEvent({q}, "heartbeat", <<>>) /\ browser' = browser
      BY <3>1 DEF Heartbeat
    <3> QED
      BY <2>2, <3>2, <3>3
  <2>5. CASE \E queues \in SUBSET DOMAIN clients : GcEventQueues(queues)
    <3>1. PICK queues \in SUBSET DOMAIN clients : GcEventQueues(queues)
      BY <2>5
    <3>2. /\ clients' = [q \in DOMAIN clients \ queues |-> clients[q]]
          /\ UNCHANGED <<handlers, descriptors_by_handler_id, browser>>
          /\ \A q \in queues : clients[q].current_handler_id = NoHandler
      BY <3>1 DEF GcEventQueues, Collect, Connected
    <3> QED
      BY <1>2, <3>2
  <2>6. CASE \E h \in HandlerIds : OnConnectionClose(h)
    BY <2>6, CloseAttends
  <2>7. CASE DumpEventQueues
    BY <1>2, <2>7 DEF DumpEventQueues
  <2>8. CASE Stop
    <3>1. /\ Silent'
          /\ browser' = [b \in Browsers |-> [browser[b] EXCEPT !.xhr = NoHandler]]
      BY <2>8 DEF Stop, Silent
    <3>2. \A c \in Browsers : browser'[c].xhr = NoHandler
      BY <1>1, <3>1 DEF TypeOK
    <3> QED
      BY <3>1, <3>2, SilentAttends
  <2>9. CASE SetupEventQueue
    <3>1. /\ phase = "down"
          /\ UNCHANGED <<handlers, descriptors_by_handler_id, browser>>
      BY <2>9 DEF SetupEventQueue, broker
    <3>2. Silent
      BY <3>1 DEF ServerInv, Running
    <3>3. Silent'
      BY <3>1, <3>2 DEF Silent
    <3>4. \A c \in Browsers : browser'[c].xhr = NoHandler
      BY <1>1, <3>1, <3>2 DEF Attended, Silent
    <3> QED
      BY <3>3, <3>4, SilentAttends
  <2>10. CASE \E b \in Browsers : Register(b)
    <3>1. PICK b \in Browsers : Register(b)
      BY <2>10
    <3>2. /\ DOMAIN clients' = DOMAIN clients \cup {registered + 1}
          /\ \A q \in DOMAIN clients : clients'[q] = clients[q]
      BY <3>1, RegisterTypes
    <3>3. /\ UNCHANGED <<handlers, descriptors_by_handler_id>>
          /\ browser' = [browser EXCEPT ![b].queue_id = registered']
          /\ browser[b].xhr = NoHandler
      BY <3>1 DEF Register, Owners
    <3>4. /\ browser'[b].xhr = NoHandler
          /\ \A c \in Browsers \ {b} : browser'[c] = browser[c]
      BY <1>1, <3>3 DEF TypeOK
    <3> QED
      BY <1>2, <3>2, <3>3, <3>4
  <2>11. ASSUME NEW b \in Browsers, NEW h \in HandlerIds, NEW alive \in BOOLEAN,
                FetchUnknownQueue(b, h, alive)
         PROVE  Attended'
    <3>1. /\ clients' = clients /\ descriptors_by_handler_id' = descriptors_by_handler_id
          /\ Request(b, h, alive)
          /\ handlers' = Arrived(h, alive, Error("BAD_EVENT_QUEUE_ID"), handlers)
      BY <2>11 DEF FetchUnknownQueue
    <3> QED
      BY <3>1, UnansweredPollAttends
  <2>12. ASSUME NEW b \in Browsers, NEW h \in HandlerIds, NEW alive \in BOOLEAN,
                FetchRefused(b, h, alive)
         PROVE  Attended'
    <3>1. /\ descriptors_by_handler_id' = descriptors_by_handler_id
          /\ Request(b, h, alive)
          /\ handlers' = Arrived(h, alive, Error("BAD_REQUEST"), handlers)
      BY <2>12 DEF FetchRefused
    <3>2. /\ DOMAIN clients' = DOMAIN clients
          /\ \A r \in DOMAIN clients :
                clients'[r].current_handler_id = clients[r].current_handler_id
      <4>1. /\ DOMAIN clients' = DOMAIN clients
            /\ clients'[browser[b].queue_id].current_handler_id
                  = clients[browser[b].queue_id].current_handler_id
            /\ \A r \in DOMAIN clients : r # browser[b].queue_id => clients'[r] = clients[r]
        BY <2>12, RefusedTypes
      <4> QED
        BY <4>1
    <3> QED
      BY <3>1, <3>2, UnansweredPollAttends
  <2>13. ASSUME NEW b \in Browsers, NEW h \in HandlerIds, NEW alive \in BOOLEAN,
                NEW dont_block \in BOOLEAN, FetchEvents(b, h, alive, dont_block)
         PROVE  Attended'
    BY <2>13, AnsweredPollAttends
  <2>14. CASE \E b \in Browsers : Receive(b)
    BY <2>14, ReceiveAttends
  <2>15. CASE \E b \in Browsers : Abort(b)
    <3>1. PICK b \in Browsers : Abort(b)
      BY <2>15
    <3>2. UNCHANGED tornado /\ browser' = [browser EXCEPT ![b].xhr = NoHandler]
      BY <3>1 DEF Abort
    <3>3. \A c \in Browsers : browser'[c] = browser[c] \/ browser'[c].xhr = NoHandler
      BY <1>1, <3>2 DEF TypeOK
    <3> QED
      BY <1>3, <3>2, <3>3
  <2>16. CASE \E b \in Browsers : CleanupEventQueue(b)
    <3>1. PICK b \in Browsers : CleanupEventQueue(b)
      BY <2>16
    <3>2. PICK q \in DOMAIN clients : q = browser[b].queue_id
      BY <3>1, CleanupTypes
    <3>3. /\ DOMAIN clients' = DOMAIN clients \ {q}
          /\ \A r \in DOMAIN clients' : clients'[r] = clients[r]
          /\ browser'[b] = Idle
          /\ \A c \in Browsers \ {b} : browser'[c] = browser[c]
          /\ descriptors_by_handler_id' = Cleared(HandlersOf({q}))
      BY <3>1, <3>2, CleanupTypes
    <3>4. \A i \in HandlerIds :
             /\ \/ handlers'[i] = handlers[i]
                \/ \E s \in Seq(Event(Notice)) : handlers'[i] = Success(s)
             /\ q \in Connected /\ clients[q].current_handler_id = i
                   => handlers'[i] # Waiting
      BY <3>1, <3>2, CleanupTypes
    <3>5. \A s : Success(s) # Absent /\ Success(s) # Waiting
      BY DEF Success, Absent, Waiting
    <3>6. \A i \in HandlerIds :
             \/ handlers'[i] = handlers[i]
             \/ handlers'[i] # Absent /\ handlers'[i] # Waiting
      BY <3>4, <3>5
    <3>7. \A r \in {q} \cap Connected : handlers'[clients[r].current_handler_id] # Waiting
      <4>1. q \in Connected => clients[q].current_handler_id \in HandlerIds
        BY KeptIs DEF TInv, Connected
      <4> QED
        BY <3>4, <4>1
    <3>8. \A c \in Browsers : browser'[c] = browser[c] \/ browser'[c].xhr = NoHandler
      BY <3>3 DEF Idle
    <3> DEFINE queues == {q}
    <3>9. \A r \in DOMAIN clients \ queues :
             r \in DOMAIN clients' /\ clients'[r].current_handler_id
                                         = clients[r].current_handler_id
      BY <3>3
    <3> QED
      BY <1>1, <3>3, <3>6, <3>7, <3>8, <3>9, FinishingAttends
  <2>17. CASE \E b \in Browsers : Leave(b)
    <3>1. PICK b \in Browsers : Leave(b)
      BY <2>17
    <3>2. UNCHANGED tornado /\ Unload(b)
      BY <3>1 DEF Leave
    <3>3. \A c \in Browsers : browser'[c] = browser[c] \/ browser'[c].xhr = NoHandler
      BY <1>1, <3>2, UnloadTypes DEF Idle
    <3> QED
      BY <1>3, <3>2, <3>3
  <2> QED
    BY <1>5, <2>1, <2>3, <2>4, <2>5, <2>6, <2>7, <2>8, <2>9, <2>10, <2>11, <2>12, <2>13,
       <2>14, <2>15, <2>16, <2>17, NextCases
<1> QED
  BY <1>4, <1>5

\* Everything that is known of the polls
PollInv ==
    /\ SleepInv
    /\ Owners
    /\ ServerInv
    /\ Attended

(***************************************************************************)
(* The invariant holds in every state that can be reached.                 *)
(***************************************************************************)
LEMMA PollInvAlways == Spec => []PollInv
<1>1. Init => PollInv
  <2> SUFFICES ASSUME Init PROVE PollInv
    OBVIOUS
  <2>1. TInv /\ SleepInv
    BY TypeInit DEF Init, SleepInv, SleepsOnlyWhenEmpty, Connected
  <2>2. Owners
    BY DEF Init, Owners, Idle, NoQueue
  <2>3. ServerInv
    BY DEF Init, ServerInv, Silent, Connected, Running
  <2>4. Attended
    BY DEF Init, Attended, PollsAttended, Idle
  <2> QED
    BY <2>1, <2>2, <2>3, <2>4 DEF PollInv
<1>2. PollInv /\ [Next]_vars => PollInv'
  <2> SUFFICES ASSUME PollInv, [Next]_vars PROVE PollInv'
    OBVIOUS
  <2>1. /\ TInv /\ SleepInv /\ Owners /\ ServerInv /\ Attended
        /\ \A q \in DOMAIN saved : saved[q].current_handler_id = NoHandler
    BY DEF PollInv, SleepInv
  <2> QED
    BY <2>1, SleepStep, OwnersStep, ServerStep, AttendedStep DEF PollInv
<1> QED
  BY <1>1, <1>2, PTL DEF Spec

(***************************************************************************)
(* Every request that waits is the current one of its descriptor, so that  *)
(* an event or the heartbeat answers it, unless the first request of the   *)
(* process left the number 0 in the table.  The table may hold a number    *)
(* that nobody waits for, but none of another descriptor.                  *)
(***************************************************************************)
THEOREM NobodyForgotten == Spec => []PollsAttended
<1>1. PollInv => PollsAttended
  BY DEF PollInv, Attended
<1> QED
  BY <1>1, PollInvAlways, PTL
=============================================================================
