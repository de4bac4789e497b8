------------------------------ MODULE Tornado ------------------------------
(***************************************************************************)
(* The event system between the web servers and the browsers of one user:  *)
(* notices in RabbitMQ, the Tornado process with the queues, their long    *)
(* polls, heartbeats and garbage collection (zerver/tornado), its dump and *)
(* reload when it is restarted, and the polling loop of the web client     *)
(* (web/src/server_events.js).  Tornado's callbacks run one at a time in   *)
(* the thread of its event loop; each is one step.  The requests of the    *)
(* browsers, their answers and the end of their connections arrive in any  *)
(* order.                                                                  *)
(***************************************************************************)
EXTENDS EventQueue

CONSTANTS
    Browsers,   \* the browser windows of the user
    Attentive,  \* those of them that keep polling
    Bounds      \* the bounds considered: how many notices are published,
                \* queues registered, requests at the server at once,
                \* heartbeats, starts of the process, and which browsers

ASSUME TornadoAssumption ==
    /\ Attentive \subseteq Browsers
    /\ IsFiniteSet(Bounds)
    /\ Bounds \subseteq [notices : Nat, queues : Nat, requests : Nat,
                         heartbeats : Nat, starts : Nat, browsers : SUBSET Browsers]

Largest(numbers) == Max({0} \cup numbers)

QueueIds == 1..Largest({l.queues : l \in Bounds})

NoQueue == 0

HandlerIds == 0..Largest({l.requests : l \in Bounds})

NoHandler == -1

VARIABLES
    bound,         \* one of Bounds: nothing changes it
    rabbit,        \* notify_tornado: the notices that are not acknowledged
    published,     \* how many there were
    phase,         \* of Tornado: "up", "closing" after the dump, or "down"
    starts,
    clients,       \* queue id -> ClientDescriptor
    registered,    \* how many queue ids were given out
    handlers,      \* handler id -> the request at the server, or its answer
    descriptors_by_handler_id,
    first_request, \* no handler id was given out yet
    heartbeats,
    saved,         \* the file of dump_event_queues; empty when there is none
    browser,       \* queue_id, last_event_id and get_events_xhr of each
    pushed,        \* history, for each queue: the notices pushed into it,
    got,           \* ... and those its browser has processed
    notified,      \* history: notices sent to missedmessage_emails
    known,         \* history: notices published before the last registration
    cut,           \* history: queues that changed between a dump and the end
    dropped        \* history: notices that the end of the process took along

tornado == <<bound, phase, starts, clients, registered, handlers,
             descriptors_by_handler_id, first_request, heartbeats, saved>>
broker == <<rabbit, published>>
history == <<pushed, got, notified, known, cut, dropped>>
vars == <<tornado, broker, browser, history>>

Notice == [number : 1..Largest({l.notices : l \in Bounds}), kind : NoticeKinds]

Answer == [result : {"success", "BAD_EVENT_QUEUE_ID", "BAD_REQUEST"},
           events : Seq(Event(Notice))]

Absent == [result |-> "no handler", events |-> <<>>]

Waiting == [result |-> "no answer yet", events |-> <<>>]

Success(events) == [result |-> "success", events |-> events]

Error(code) == [result |-> code, events |-> <<>>]

\* The queues that exist.  A descriptor has a heartbeat timer exactly while it
\* has a handler, so that the timer needs no variable.
Descriptor == [event_queue : Queue(Notice), current_handler_id : HandlerIds \cup {NoHandler}]

Idle == [queue_id |-> NoQueue, last_event_id |-> -1, xhr |-> NoHandler]

Running == phase \in {"up", "closing"}

Init ==
    /\ bound \in Bounds
    /\ rabbit = <<>>
    /\ published = 0
    /\ phase = "up"
    /\ starts = 1
    /\ clients = <<>>
    /\ registered = 0
    /\ handlers = [h \in HandlerIds |-> Absent]
    /\ descriptors_by_handler_id = [h \in HandlerIds |-> NoQueue]
    /\ first_request = TRUE
    /\ heartbeats = 0
    /\ saved = <<>>
    /\ browser = [b \in Browsers |-> Idle]
    /\ pushed = [q \in QueueIds |-> <<>>]
    /\ got = [q \in QueueIds |-> <<>>]
    /\ notified = {}
    /\ known = 0
    /\ cut = {}
    /\ dropped = {}

-----------------------------------------------------------------------------
(* What the process does with its descriptors.                             *)

Connected == {q \in DOMAIN clients : clients[q].current_handler_id # NoHandler}

\* mutant: the table is never cleared
ClearedNever(ids) == descriptors_by_handler_id

\* disconnect_handler tests the handler id for truth: number 0 stays in the
\* table
Cleared(ids) ==
    [h \in HandlerIds |-> IF h \in ids \ {0} THEN NoQueue
                          ELSE descriptors_by_handler_id[h]]

Detached(d) == [d EXCEPT !.current_handler_id = NoHandler]

\* finish_current_handler of a connected descriptor: the queue as contents()
\* leaves it, and the answers to the requests that are still there
Finished(d) ==
    IF d.current_handler_id = NoHandler THEN d
    ELSE [Detached(d) EXCEPT !.event_queue = Settle(@)]

Answers(queues, finished) ==
    [h \in HandlerIds |->
        IF handlers[h] = Waiting /\ \E q \in queues : clients[q].current_handler_id = h
        THEN LET q == CHOOSE q \in queues : clients[q].current_handler_id = h
             IN  Success(finished[q].event_queue.queue)
        ELSE handlers[h]]

HandlersOf(queues) == {clients[q].current_handler_id : q \in queues \cap Connected}

\* add_event for each of the queues
AddEvent(queues, kind, of) ==
    LET added == [q \in DOMAIN clients |->
                     IF q \in queues
                     THEN Finished([clients[q] EXCEPT !.event_queue = Push(@, kind, of)])
                     ELSE clients[q]] IN
    /\ clients' = added
    /\ handlers' = Answers(queues \cap Connected, added)
    /\ descriptors_by_handler_id' = Cleared(HandlersOf(queues))

Messages(notices) == {n \in notices : n.kind = "message"}

\* mutant: a queue is the last one if it is alone before the collection
CollectLast(queues) ==
    /\ clients' = [q \in DOMAIN clients \ queues |-> clients[q]]
    /\ notified' = IF DOMAIN clients = queues /\ Cardinality(queues) = 1
                   THEN notified \cup
                        Messages(UNION {Held(clients[q].event_queue) : q \in queues})
                   ELSE notified

\* do_gc_event_queues: the hook runs after all of them left user_clients, so
\* that each of them is the last one when none remains
Collect(queues) ==
    /\ clients' = [q \in DOMAIN clients \ queues |-> clients[q]]
    /\ notified' = IF DOMAIN clients = queues
                   THEN notified \cup
                        Messages(UNION {Held(clients[q].event_queue) : q \in queues})
                   ELSE notified

-----------------------------------------------------------------------------
(* Tornado's callbacks.                                                    *)

\* A notice for the user: wrapped_consumer acknowledges it after the callback.
\* A message for somebody without a queue is notified at once.
ProcessNotification ==
    /\ Running
    /\ rabbit # <<>>
    /\ LET notice == Head(rabbit) IN
       /\ AddEvent(DOMAIN clients, notice.kind, <<notice>>)
       /\ pushed' = [q \in QueueIds |-> IF q \in DOMAIN clients
                                        THEN Append(pushed[q], notice) ELSE pushed[q]]
       /\ notified' = IF DOMAIN clients = {} THEN notified \cup Messages({notice})
                      ELSE notified
    /\ rabbit' = Tail(rabbit)
    /\ UNCHANGED <<bound, phase, starts, registered, first_request, heartbeats, saved,
                   published, browser, got, known, cut, dropped>>

\* timeout_callback of connect_handler
Heartbeat(q) ==
    /\ Running
    /\ q \in Connected
    /\ heartbeats < bound.heartbeats
    /\ heartbeats' = heartbeats + 1
    /\ AddEvent({q}, "heartbeat", <<>>)
    /\ UNCHANGED <<bound, phase, starts, registered, first_request, saved, broker,
                   browser, history>>

\* gc_event_queues.  A queue without a handler is expired once its time is
\* over, whether or not its browser has polled meanwhile: only a poll that
\* waits sets last_connection_time.
GcEventQueues(queues) ==
    /\ Running
    /\ queues # {}
    /\ queues \subseteq DOMAIN clients \ Connected
    /\ Collect(queues)
    /\ UNCHANGED <<bound, phase, starts, registered, handlers, descriptors_by_handler_id,
                   first_request, heartbeats, saved, broker, browser, pushed,
                   got, known, cut, dropped>>

\* on_connection_close.  The descriptor that the table holds for the handler
\* loses its current handler, whichever that is.
OnConnectionClose(h) ==
    LET q == descriptors_by_handler_id[h] IN
    /\ Running
    /\ handlers[h] # Absent
    /\ handlers' = [handlers EXCEPT ![h] = Absent]
    /\ IF q \in DOMAIN clients
       THEN /\ clients' = [clients EXCEPT ![q] = Detached(@)]
            /\ descriptors_by_handler_id' = Cleared(HandlersOf({q}))
       ELSE UNCHANGED <<clients, descriptors_by_handler_id>>
    /\ browser' = [b \in Browsers |->
                      IF browser[b].xhr = h THEN [browser[b] EXCEPT !.xhr = NoHandler]
                      ELSE browser[b]]
    /\ UNCHANGED <<bound, phase, starts, registered, first_request, heartbeats, saved,
                   broker, history>>

-----------------------------------------------------------------------------
(* Shutdown and start.                                                     *)

\* The signal ends the wait of inner_run, whose exit stack runs the dump
\* first; connections are closed and notices consumed until the process ends
DumpEventQueues ==
    /\ phase = "up"
    /\ starts < bound.starts
    /\ phase' = "closing"
    /\ saved' = [q \in DOMAIN clients |-> Detached(clients[q])]
    /\ UNCHANGED <<bound, starts, clients, registered, handlers, descriptors_by_handler_id,
                   first_request, heartbeats, broker, browser, history>>

\* Events were numbered or delivered that the file has otherwise; pruning alone
\* is made up for by the browser's next poll
ChangedSinceDump(q) ==
    \/ q \notin DOMAIN clients
    \/ clients[q].event_queue.next_event_id # saved[q].event_queue.next_event_id
    \/ clients[q].event_queue.virtual_events # saved[q].event_queue.virtual_events

\* The process ends, after the dump or in the middle of anything: its memory
\* and its connections are gone
Stop ==
    /\ Running
    /\ phase = "up" => starts < bound.starts
    /\ phase' = "down"
    /\ clients' = <<>>
    /\ handlers' = [h \in HandlerIds |-> Absent]
    /\ descriptors_by_handler_id' = [h \in HandlerIds |-> NoQueue]
    /\ browser' = [b \in Browsers |-> [browser[b] EXCEPT !.xhr = NoHandler]]
    /\ cut' = cut \cup {q \in DOMAIN saved : ChangedSinceDump(q)}
    /\ dropped' = dropped \cup ((UNION {Held(clients[q].event_queue) : q \in DOMAIN clients})
                               \ (UNION {Held(saved[q].event_queue) : q \in DOMAIN saved}))
    /\ UNCHANGED <<bound, starts, registered, first_request, heartbeats, saved, broker,
                   pushed, got, notified, known>>

\* mutant: from_dict forgets the virtual events
SetupWithoutVirtual ==
    /\ phase = "down"
    /\ phase' = "up"
    /\ starts' = starts + 1
    /\ clients' = [q \in DOMAIN saved |->
                      [saved[q] EXCEPT !.event_queue =
                          Push([@ EXCEPT !.virtual_events = {}], "restart", <<>>)]]
    /\ saved' = <<>>
    /\ first_request' = TRUE
    /\ UNCHANGED <<bound, registered, handlers, descriptors_by_handler_id, heartbeats,
                   broker, browser, history>>

\* load_event_queues, the renaming of the file and send_restart_events
SetupEventQueue ==
    /\ phase = "down"
    /\ phase' = "up"
    /\ starts' = starts + 1
    /\ clients' = [q \in DOMAIN saved |->
                      [saved[q] EXCEPT !.event_queue = Push(@, "restart", <<>>)]]
    /\ saved' = <<>>
    /\ first_request' = TRUE
    /\ UNCHANGED <<bound, registered, handlers, descriptors_by_handler_id, heartbeats,
                   broker, browser, history>>

-----------------------------------------------------------------------------
(* The browsers and their requests.                                        *)

\* A free handler id: 0 for the first request of the process, if that is a poll
MayAllocate(h) ==
    \/ h = 0 /\ first_request
    \/ /\ h # 0
       /\ h <= bound.requests
       /\ h \notin HandlersOf(DOMAIN clients)
       /\ \A i \in 1..h : handlers[i] = Absent /\ descriptors_by_handler_id[i] = NoQueue
                          <=> i = h

\* The registration of a page that is loaded: allocate_client_descriptor by an
\* internal request, and the initial state from the database
Register(b) ==
    /\ Running
    /\ b \in bound.browsers
    /\ browser[b].queue_id = NoQueue
    /\ registered < bound.queues
    /\ registered' = registered + 1
    /\ clients' = [q \in DOMAIN clients \cup {registered'} |->
                      IF q = registered'
                      THEN [event_queue |-> NewQueue, current_handler_id |-> NoHandler]
                      ELSE clients[q]]
    /\ browser' = [browser EXCEPT ![b].queue_id = registered']
    /\ known' = published
    /\ first_request' = FALSE
    /\ UNCHANGED <<bound, phase, starts, handlers, descriptors_by_handler_id, heartbeats,
                   saved, broker, pushed, got, notified, cut, dropped>>

\* A poll that arrives is answered now, or waits; nobody reads the answer when
\* the browser has hung up before ("alive" is false)
Request(b, h, alive) ==
    /\ Running
    /\ browser[b].queue_id # NoQueue
    /\ browser[b].xhr = NoHandler
    /\ MayAllocate(h)
    /\ first_request' = FALSE
    /\ browser' = [browser EXCEPT ![b].xhr = IF alive THEN h ELSE NoHandler]
    /\ UNCHANGED <<bound, phase, starts, registered, heartbeats, saved, broker, history>>

Arrived(h, alive, answer, others) ==
    IF alive THEN [others EXCEPT ![h] = answer] ELSE others

\* access_client_descriptor finds nothing
FetchUnknownQueue(b, h, alive) ==
    /\ Request(b, h, alive)
    /\ browser[b].queue_id \notin DOMAIN clients
    /\ handlers' = Arrived(h, alive, Error("BAD_EVENT_QUEUE_ID"), handlers)
    /\ UNCHANGED <<clients, descriptors_by_handler_id>>

\* What fetch_events refuses: an id older than the newest pruned one, and one
\* that is not in the queue, after the queue was pruned through it
Acknowledged(b) ==
    LET event_queue == clients[browser[b].queue_id].event_queue IN
    IF browser[b].last_event_id < event_queue.newest_pruned_id THEN event_queue
    ELSE Prune(event_queue, browser[b].last_event_id)

FetchRefused(b, h, alive) ==
    LET q == browser[b].queue_id IN
    /\ Request(b, h, alive)
    /\ q \in DOMAIN clients
    /\ browser[b].last_event_id # Acknowledged(b).newest_pruned_id
    /\ clients' = [clients EXCEPT ![q].event_queue = Acknowledged(b)]
    /\ handlers' = Arrived(h, alive, Error("BAD_REQUEST"), handlers)
    /\ UNCHANGED descriptors_by_handler_id

\* The queue's earlier poll is finished first; then this one is answered with
\* what the queue holds, or waits if there is nothing
FetchEvents(b, h, alive, dont_block) ==
    LET q == browser[b].queue_id
        pruned == [clients[q] EXCEPT !.event_queue = Acknowledged(b)]
        finished == [r \in {q} |-> Finished(pruned)]
        idle == [pruned EXCEPT !.event_queue = Settle(@), !.current_handler_id = NoHandler]
        others == Answers({q} \cap Connected, finished) IN
    /\ Request(b, h, alive)
    /\ q \in DOMAIN clients
    /\ browser[b].last_event_id = Acknowledged(b).newest_pruned_id
    /\ IF IsEmpty(pruned.event_queue) /\ ~dont_block
       THEN /\ clients' = [clients EXCEPT ![q] = [idle EXCEPT !.current_handler_id = h]]
            /\ handlers' = Arrived(h, alive, Waiting, others)
            /\ descriptors_by_handler_id' = [Cleared(HandlersOf({q})) EXCEPT ![h] = q]
       ELSE /\ clients' = [clients EXCEPT ![q] = idle]
            /\ handlers' = Arrived(h, alive, Success(idle.event_queue.queue), others)
            /\ descriptors_by_handler_id' = Cleared(HandlersOf({q}))

Poll(b, alive) ==
    \E h \in HandlerIds :
       \/ FetchUnknownQueue(b, h, alive)
       \/ FetchRefused(b, h, alive)
       \/ \E dont_block \in BOOLEAN : FetchEvents(b, h, alive, dont_block)

\* get_events' success and error: the events are processed, or the page is
\* reloaded, or polls again with the same id
Receive(b) ==
    LET h == browser[b].xhr
        q == browser[b].queue_id
        answer == handlers[h] IN
    /\ Running
    /\ h # NoHandler
    /\ answer # Waiting
    /\ browser' = [browser EXCEPT ![b] =
                      IF answer.result = "BAD_EVENT_QUEUE_ID" THEN Idle
                      ELSE [browser[b] EXCEPT
                               !.xhr = NoHandler,
                               !.last_event_id = Max({browser[b].last_event_id}
                                                     \cup {e.id : e \in ToSet(answer.events)})]]
    /\ got' = [got EXCEPT ![q] = @ \o NoticesOf(answer.events)]
    /\ handlers' = [handlers EXCEPT ![h] = Absent]
    /\ UNCHANGED <<bound, phase, starts, clients, registered, descriptors_by_handler_id,
                   first_request, heartbeats, saved, broker, pushed, notified,
                   known, cut, dropped>>

\* A poll that the browser gives up: its timeout, or restart_get_events.  The
\* server learns it later, from OnConnectionClose.
Abort(b) ==
    /\ browser[b].xhr # NoHandler
    /\ browser' = [browser EXCEPT ![b].xhr = NoHandler]
    /\ UNCHANGED <<tornado, broker, history>>

\* A page that is closed or reloaded ...
Unload(b) ==
    /\ browser[b].queue_id # NoQueue
    /\ browser' = [browser EXCEPT ![b] = Idle]

\* ... whose request to clean up arrives
CleanupEventQueue(b) ==
    LET q == browser[b].queue_id
        finished == [r \in {q} |-> Finished(clients[q])] IN
    /\ Running
    /\ Unload(b)
    /\ q \in DOMAIN clients
    /\ Collect({q})
    /\ handlers' = Answers({q} \cap Connected, finished)
    /\ descriptors_by_handler_id' = Cleared(HandlersOf({q}))
    /\ UNCHANGED <<bound, phase, starts, registered, first_request, heartbeats, saved,
                   broker, pushed, got, known, cut, dropped>>

\* ... or does not
Leave(b) ==
    /\ Unload(b)
    /\ UNCHANGED <<tornado, broker, history>>

\* A web server publishes a notice
Publish ==
    /\ published < bound.notices
    /\ published' = published + 1
    /\ \E kind \in NoticeKinds :
          rabbit' = Append(rabbit, [number |-> published', kind |-> kind])
    /\ UNCHANGED <<tornado, browser, history>>

-----------------------------------------------------------------------------
Server ==
    \/ ProcessNotification
    \/ \E q \in QueueIds : Heartbeat(q)
    \/ \E queues \in SUBSET DOMAIN clients : GcEventQueues(queues)
    \/ \E h \in HandlerIds : OnConnectionClose(h)
    \/ DumpEventQueues
    \/ Stop
    \/ SetupEventQueue

Client(b) ==
    \/ Register(b)
    \/ \E alive \in BOOLEAN : Poll(b, alive)
    \/ Receive(b)
    \/ Abort(b)
    \/ CleanupEventQueue(b)
    \/ Leave(b)

Next ==
    \/ Publish
    \/ Server
    \/ \E b \in Browsers : Client(b)

Spec == Init /\ [][Next]_vars

\* Tornado's loop runs, the system's supervisor starts it again, connections
\* that a browser left are noticed, an open page that may poll again and again
\* does, and of infinitely many answers one arrives.  (The polls of another
\* page may take all the requests that "bound" admits for a while.)  Nothing is
\* assumed of heartbeats, of the collection or of the users.
FairSpec ==
    /\ Spec
    /\ WF_vars(ProcessNotification)
    /\ WF_vars(SetupEventQueue)
    /\ WF_vars(\E h \in HandlerIds :
                  (\A b \in Browsers : browser[b].xhr # h) /\ OnConnectionClose(h))
    /\ \A b \in Attentive : SF_vars(Poll(b, TRUE)) /\ SF_vars(Receive(b))

-----------------------------------------------------------------------------
(* Properties.                                                             *)

TypeOK ==
    /\ bound \in Bounds
    /\ rabbit \in Seq(Notice)
    /\ published \in Nat
    /\ phase \in {"up", "closing", "down"}
    /\ starts \in Nat
    /\ DOMAIN clients \subseteq 1..registered
    /\ \A q \in DOMAIN clients : clients[q] \in Descriptor
    /\ registered \in QueueIds \cup {0}
    /\ handlers \in [HandlerIds -> Answer \cup {Absent, Waiting}]
    /\ descriptors_by_handler_id \in [HandlerIds -> QueueIds \cup {NoQueue}]
    /\ first_request \in BOOLEAN
    /\ heartbeats \in Nat
    /\ \A q \in DOMAIN saved : saved[q] \in Descriptor
    /\ browser \in [Browsers -> [queue_id : QueueIds \cup {NoQueue},
                                 last_event_id : Nat \cup {-1},
                                 xhr : HandlerIds \cup {NoHandler}]]
    /\ pushed \in [QueueIds -> Seq(Notice)]
    /\ got \in [QueueIds -> Seq(Notice)]
    /\ notified \cup dropped \subseteq Notice
    /\ known \in Nat
    /\ cut \subseteq QueueIds

\* The page of a queue has processed, or the queue still holds, every notice
\* that was pushed into it: an acknowledgement prunes nothing that the page
\* has not received, and no virtual event gets lost between contents() and
\* prune(), at a reload or when a poll supplants another.
NothingSkipped ==
    \A q \in DOMAIN clients \ cut :
       (\E b \in Browsers : browser[b].queue_id = q) =>
          ToSet(pushed[q]) \subseteq ToSet(got[q]) \cup Held(clients[q].event_queue)

\* "The event queue server is designed to save any event queues to disk and
\* reload them when the server is restarted": NothingSkipped of every queue.
ReloadKeepsEvents ==
    \A q \in DOMAIN clients :
       (\E b \in Browsers : browser[b].queue_id = q) =>
          ToSet(pushed[q]) \subseteq ToSet(got[q]) \cup Held(clients[q].event_queue)

\* No poll sleeps over an event: a descriptor has a handler only while its
\* queue is empty.
SleepsOnlyWhenEmpty ==
    \A q \in Connected : IsEmpty(clients[q].event_queue)

\* "Heartbeats effectively act as a server-side timeout for get_events()":
\* every request that waits is the current one of its descriptor, so that an
\* event or the heartbeat answers it.  The exception is a queue that
\* was polled by the first request of the process: see the divergences.
PollsAttended ==
    \A b \in Browsers :
       LET h == browser[b].xhr
           q == browser[b].queue_id IN
       h # NoHandler /\ handlers[h] = Waiting =>
          \/ q \in DOMAIN clients /\ clients[q].current_handler_id = h
          \/ descriptors_by_handler_id[0] = q

\* missedmessage_hook: a message that Tornado has processed is not forgotten
\* when its queues are collected.  Some page has it or will get it, a page
\* was loaded after it, or it went to the queue of missed messages; or the
\* process was killed with it.
NoMessageMissed ==
    \A n \in UNION {ToSet(pushed[q]) : q \in QueueIds} :
       n.kind = "message" =>
          \/ n \in notified \cup dropped \cup UNION {ToSet(pushed[q]) : q \in cut}
          \/ n.number <= known
          \/ \E q \in QueueIds : n \in ToSet(got[q])
          \/ \E q \in DOMAIN clients : n \in Held(clients[q].event_queue)
          \/ \E q \in DOMAIN saved : n \in Held(saved[q].event_queue)

\* The structure of every queue, as the code of contents() and prune() takes
\* it for granted; the ids of a queue that was cut repeat.
QueuesWellFormed ==
    \A q \in DOMAIN clients \ cut : WellFormed(clients[q].event_queue)

\* Every page that keeps a queue gets the events of a kind once each and in the
\* order in which Tornado put them into it, with polls that are aborted,
\* answered to nobody or supplanted, across a reload of the queues.
OfKind(notices) ==
    [k \in NoticeKinds |->
        FlattenSeq([i \in DOMAIN notices |->
                       IF notices[i].kind = k THEN <<notices[i]>> ELSE <<>>])]

Delivery == INSTANCE EventDelivery WITH
    Queues <- QueueIds, Kinds <- NoticeKinds, Items <- Notice,
    sent <- [q \in QueueIds |-> OfKind(pushed[q])],
    received <- [q \in QueueIds |-> OfKind(got[q])]

DeliversInOrder == Delivery!Spec

\* A page that keeps polling catches up with its queue, or is given a new one.
Behind(b) ==
    LET q == browser[b].queue_id IN
    q # NoQueue /\ q \notin cut /\ ~(ToSet(pushed[q]) \subseteq ToSet(got[q]))

PagesCatchUp == \A b \in Attentive : Behind(b) ~> ~Behind(b)
=============================================================================
