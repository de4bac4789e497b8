----------------------------- MODULE EventQueue -----------------------------
(***************************************************************************)
(* The queue of events of one client of the event system: class EventQueue *)
(* of zerver/tornado/event_queue.py, as operators on a record.  An event   *)
(* keeps the notices that it stands for instead of their payload: several  *)
(* of them once updates of a message flag were compressed into one virtual *)
(* event.                                                                  *)
(***************************************************************************)
EXTENDS Integers, Sequences, FiniteSets, SequencesExt

CONSTANTS
    NoticeKinds,    \* compute_full_event_type of the notices considered
    VirtualKinds    \* those that are compressed: the changes of flags

ASSUME EventAssumption ==
    /\ VirtualKinds \subseteq NoticeKinds
    /\ {"heartbeat", "restart"} \cap NoticeKinds = {}

\* The server makes heartbeat and restart events by itself
Kinds == NoticeKinds \cup {"heartbeat", "restart"}

Event(Notices) == [id : Nat, kind : Kinds, of : Seq(Notices)]

Queue(Notices) ==
    [queue : Seq(Event(Notices)), virtual_events : SUBSET Event(Notices),
     next_event_id : Nat, newest_pruned_id : Int]

\* mutant: ids begin below zero
NewQueueEarly == [queue |-> <<>>, virtual_events |-> {}, next_event_id |-> -1,
                  newest_pruned_id |-> -2]

NewQueue == [queue |-> <<>>, virtual_events |-> {}, next_event_id |-> 0,
             newest_pruned_id |-> -1]

\* mutant: a compressed event takes no number of its own
PushUnnumbered(q, kind, of) ==
    LET event == [id |-> q.next_event_id, kind |-> kind, of |-> of]
        same == {v \in q.virtual_events : v.kind = kind}
        merged == {[event EXCEPT !.of = v.of \o of] : v \in same} IN
    IF kind \in VirtualKinds
    THEN [q EXCEPT !.virtual_events =
              (@ \ same) \cup (IF same = {} THEN {event} ELSE merged)]
    ELSE [q EXCEPT !.queue = Append(@, event), !.next_event_id = @ + 1]

\* The event of the notices in "of" takes the next id.  That of a compressed
\* kind joins the virtual event of its kind, which moves to the new id.
Push(q, kind, of) ==
    LET event == [id |-> q.next_event_id, kind |-> kind, of |-> of]
        same == {v \in q.virtual_events : v.kind = kind}
        merged == {[event EXCEPT !.of = v.of \o of] : v \in same}
        numbered == [q EXCEPT !.next_event_id = @ + 1] IN
    IF kind \in VirtualKinds
    THEN [numbered EXCEPT !.virtual_events =
              (@ \ same) \cup (IF same = {} THEN {event} ELSE merged)]
    ELSE [numbered EXCEPT !.queue = Append(@, event)]

\* mutant: the newest pruned id is not remembered
PruneForgetful(q, through_id) ==
    [q EXCEPT !.queue = SelectSeq(@, LAMBDA e : e.id > through_id)]

\* The events at the head up to the id that the client acknowledges; virtual
\* events are not looked at
Prune(q, through_id) ==
    LET Through(k) == \A i \in 1..k : q.queue[i].id <= through_id
        popped == Cardinality({k \in 1..Len(q.queue) : Through(k)}) IN
    IF popped = 0 THEN q
    ELSE [q EXCEPT !.queue = SubSeq(@, popped + 1, Len(@)),
                   !.newest_pruned_id = q.queue[popped].id]

\* mutant: len(self.queue) == 0 only
IsEmptyQueue(q) == q.queue = <<>>

IsEmpty(q) == q.queue = <<>> /\ q.virtual_events = {}

\* mutant: the virtual events are not reset
SettleKeeping(q) ==
    [q EXCEPT !.queue = SortSeq(@ \o SetToSeq(q.virtual_events),
                                LAMBDA e, f : e.id < f.id)]

\* Events of different ids, each at the place that its id has among them
InIdOrder(events) ==
    [i \in 1..Cardinality(events) |->
        CHOOSE e \in events : Cardinality({f \in events : f.id < e.id}) = i - 1]

\* contents() puts the virtual events in the order of their ids among the
\* others, and from then on they are events like them
Settle(q) ==
    [q EXCEPT !.queue = InIdOrder(ToSet(@) \cup q.virtual_events),
              !.virtual_events = {}]

\* The notices of a sequence of events, and all those that a queue holds
NoticesOf(events) == FlattenSeq([i \in DOMAIN events |-> events[i].of])

Held(q) ==
    ToSet(NoticesOf(q.queue)) \cup UNION {ToSet(v.of) : v \in q.virtual_events}

\* Only what is behind a queue's newest pruned id and before its next one is
\* in it, in the order of the ids, and one virtual event for each kind.
WellFormed(q) ==
    /\ \A i, j \in DOMAIN q.queue : i < j => q.queue[i].id < q.queue[j].id
    /\ \A e \in ToSet(q.queue) \cup q.virtual_events :
          q.newest_pruned_id < e.id /\ e.id < q.next_event_id
    /\ \A v, w \in q.virtual_events : v.kind = w.kind => v = w
    /\ \A v \in q.virtual_events, e \in ToSet(q.queue) : v.id # e.id
=============================================================================
