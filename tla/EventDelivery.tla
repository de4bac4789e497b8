---------------------------- MODULE EventDelivery ----------------------------
(***************************************************************************)
(* What the event system promises to a page that keeps its queue: the      *)
(* events of one kind arrive once each and in order.  Events of different  *)
(* kinds may overtake each other, because the changes of a flag are        *)
(* compressed.  A queue that was cut promises nothing.                     *)
(***************************************************************************)
EXTENDS Sequences, SequencesExt

CONSTANTS Queues, Kinds, Items

VARIABLES
    sent,        \* for each queue and kind, what was put into the queue
    received,    \* ... and what its page has processed
    cut          \* the queues that promise nothing any more

Init ==
    /\ sent = [q \in Queues |-> [k \in Kinds |-> <<>>]]
    /\ received = sent
    /\ cut = {}

\* An item is put into some of the queues
Send(k, item) ==
    /\ DOMAIN sent' = Queues
    /\ \A q \in Queues :
          sent'[q] \in {sent[q], [sent[q] EXCEPT ![k] = Append(@, item)]}
    /\ UNCHANGED <<received, cut>>

InOrder(q) ==
    \A k \in Kinds : /\ IsPrefix(received[q][k], received'[q][k])
                     /\ IsPrefix(received'[q][k], sent[q][k])

Receive(q) ==
    /\ \A r \in Queues \ {q} : received'[r] = received[r]
    /\ DOMAIN received' = Queues
    /\ q \notin cut => InOrder(q)
    /\ UNCHANGED <<sent, cut>>

Cut ==
    /\ cut \subseteq cut'
    /\ cut' \subseteq Queues
    /\ UNCHANGED <<sent, received>>

Next ==
    \/ \E k \in Kinds, item \in Items : Send(k, item)
    \/ \E q \in Queues : Receive(q)
    \/ Cut

Spec == Init /\ [][Next]_<<sent, received, cut>>
=============================================================================
