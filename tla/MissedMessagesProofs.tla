------------------------ MODULE MissedMessagesProofs ------------------------
(* The condition variable, the batches, the acknowledgements, the e-mails   *)
(* that go out once, and the types of MissedMessages, for all users,        *)
(* messages, bounds and faults.                                             *)
EXTENDS MissedMessages, FiniteSetTheorems, FunctionTheorems, TLAPS

-----------------------------------------------------------------------------
(* What a queue holds.                                                     *)

(***************************************************************************)
(* Who is listed when a row is added,                                      *)
(***************************************************************************)
LEMMA ListedAppend ==
    ASSUME NEW S, NEW q \in Seq(S), NEW e \in S
    PROVE  Listed(Append(q, e)) = Listed(q) \cup {e}
<1>1. /\ Len(q) \in Nat
      /\ DOMAIN q = 1..Len(q) /\ DOMAIN Append(q, e) = 1..Len(q) + 1
      /\ \A i \in 1..Len(q) : Append(q, e)[i] = q[i]
      /\ Append(q, e)[Len(q) + 1] = e
  OBVIOUS
<1>2. 1..Len(q) + 1 = 1..Len(q) \cup {Len(q) + 1}
  BY <1>1
<1> QED
  BY <1>1, <1>2 DEF Listed

(***************************************************************************)
(* ... when the first one is taken away,                                   *)
(***************************************************************************)
LEMMA ListedTail ==
    ASSUME NEW S, NEW q \in Seq(S), q # <<>>
    PROVE  /\ Listed(q) = {Head(q)} \cup Listed(Tail(q))
           /\ Head(q) \in S /\ Tail(q) \in Seq(S)
<1>1. /\ Len(q) \in Nat \ {0}
      /\ Len(Tail(q)) = Len(q) - 1
      /\ \A i \in 1..Len(q) - 1 : Tail(q)[i] = q[i + 1]
      /\ Head(q) = q[1] /\ Head(q) \in S /\ Tail(q) \in Seq(S)
  OBVIOUS
<1>2. \A i \in 2..Len(q) : i - 1 \in 1..Len(q) - 1 /\ Tail(q)[i - 1] = q[i]
  BY <1>1
<1>3. 1..Len(q) = {1} \cup 2..Len(q)
  BY <1>1
<1>4. DOMAIN q = 1..Len(q) /\ DOMAIN Tail(q) = 1..Len(q) - 1
  BY <1>1
<1>5. ASSUME NEW x \in Listed(q) PROVE x \in {Head(q)} \cup Listed(Tail(q))
  <2>1. PICK i \in 1..Len(q) : x = q[i]
    BY <1>4 DEF Listed
  <2>2. CASE i = 1
    BY <2>1, <2>2, <1>1
  <2>3. CASE i \in 2..Len(q)
    BY <2>1, <2>3, <1>2, <1>4 DEF Listed
  <2> QED
    BY <2>2, <2>3, <1>3
<1>6. ASSUME NEW x \in {Head(q)} \cup Listed(Tail(q)) PROVE x \in Listed(q)
  <2>1. CASE x = Head(q)
    BY <2>1, <1>1, <1>3, <1>4 DEF Listed
  <2>2. CASE x \in Listed(Tail(q))
    <3>1. PICK i \in 1..Len(q) - 1 : x = Tail(q)[i]
      BY <2>2, <1>4 DEF Listed
    <3>2. x = q[i + 1] /\ i + 1 \in 1..Len(q)
      BY <3>1, <1>1
    <3> QED
      BY <3>2, <1>4 DEF Listed
  <2> QED
    BY <2>1, <2>2
<1> QED
  BY <1>1, <1>5, <1>6

(***************************************************************************)
(* ... when two lists are joined,                                          *)
(***************************************************************************)
LEMMA ListedConcat ==
    ASSUME NEW S, NEW p \in Seq(S), NEW q \in Seq(S)
    PROVE  /\ p \o q \in Seq(S)
           /\ Listed(p) \cup Listed(q) \subseteq Listed(p \o q)
<1>1. /\ Len(p) \in Nat /\ Len(q) \in Nat
      /\ Len(p \o q) = Len(p) + Len(q)
      /\ p \o q \in Seq(S)
      /\ \A i \in 1..Len(p) : (p \o q)[i] = p[i]
      /\ \A i \in 1..Len(q) : (p \o q)[Len(p) + i] = q[i]
  OBVIOUS
<1>2. \A i \in 1..Len(q) : Len(p) + i \in 1..Len(p) + Len(q)
  BY <1>1
<1>3. 1..Len(p) \subseteq 1..Len(p) + Len(q)
  BY <1>1
<1>4. /\ DOMAIN p = 1..Len(p) /\ DOMAIN q = 1..Len(q)
      /\ DOMAIN (p \o q) = 1..Len(p) + Len(q)
  BY <1>1
<1> QED
  BY <1>1, <1>2, <1>3, <1>4, Zenon DEF Listed

(***************************************************************************)
(* ... and in a list of one row.                                           *)
(***************************************************************************)
LEMMA ListedSingle ==
    ASSUME NEW e PROVE Listed(<<e>>) = {e} /\ Listed(<<>>) = {}
BY DEF Listed

-----------------------------------------------------------------------------
(* The inductive invariant.  One notice is unacknowledged while it is       *)
(* consumed, and it is accounted for when it may be acknowledged; a sleeping *)
(* worker has has_timeout reset; the timestamp that consume has read is that *)
(* of every row of the user, unless they were moved in the meantime.        *)

Broker ==
    /\ queue \in Seq(MessageIds)
    /\ unacked \in Seq(MessageIds)
    /\ main \in Consuming => unacked # <<>> /\ unacked = <<Head(unacked)>>
    /\ main \notin Consuming => unacked = <<>>
    /\ main \in {"inserted", "done"} => Listed(unacked) \subseteq recorded \cup errors

Sleep ==
    /\ worker = "untimed" =>
          /\ ~stopping /\ ~has_timeout
          /\ \A r \in rows : \/ r.message_id \in errors
                             \/ main = "inserted" /\ r.message_id = Head(unacked)
    /\ worker = "woken" => stopping \/ ~has_timeout

Pending ==
    main \in {"read", "locked"} /\ Recipient[Head(unacked)] \notin moved =>
        \A r \in RowsOf(Recipient[Head(unacked)]) :
            r.scheduled_timestamp = scheduled_timestamp

IInv == Broker /\ Sleep /\ Pending /\ OneBatch /\ NoticesSurvive

(***************************************************************************)
(* A row that is moved to another time stays that of its message.          *)
(***************************************************************************)
LEMMA ShiftKeepsMessage ==
    ASSUME rows \subseteq Row, NEW r \in rows, NEW seconds
    PROVE  Shifted(r, seconds).message_id = r.message_id
BY DEF Shifted, Row

(***************************************************************************)
(* ... and a row.                                                          *)
(***************************************************************************)
LEMMA ShiftedIsRow ==
    ASSUME NEW r \in Row, NEW seconds \in Int
    PROVE  Shifted(r, seconds) \in Row
<1>1. r.scheduled_timestamp + seconds \in Int
  BY DEF Row
<1>2. Shifted(r, seconds) = [id |-> r.id, message_id |-> r.message_id,
                             scheduled_timestamp |-> r.scheduled_timestamp + seconds]
  BY DEF Shifted, Row
<1> QED
  BY <1>1, <1>2 DEF Row

(***************************************************************************)
(* A change of the period moves the rows of the user, by as much,          *)
(***************************************************************************)
LEMMA ShiftedRows ==
    ASSUME rows \subseteq Row, NEW user, NEW p, ChangePeriod(user, p)
    PROVE  \A r \in rows' :
             \/ r \in rows /\ Recipient[r.message_id] # user
             \/ \E q \in rows : /\ Recipient[q.message_id] = user
                               /\ r = Shifted(q, p - period[user])
                               /\ r.message_id = q.message_id
BY ShiftKeepsMessage DEF ChangePeriod, RowsOf

(***************************************************************************)
(* ... adds no row                                                         *)
(***************************************************************************)
LEMMA ShiftedMessages ==
    ASSUME rows \subseteq Row, NEW user, NEW p, ChangePeriod(user, p)
    PROVE  \A r \in rows' : \E q \in rows : r.message_id = q.message_id
BY ShiftedRows

(***************************************************************************)
(* ... and leaves the rows of the others.                                  *)
(***************************************************************************)
LEMMA ShiftedOthers ==
    ASSUME rows \subseteq Row, NEW user, NEW p, ChangePeriod(user, p),
           NEW other, other # user
    PROVE  RowsOf(other)' = RowsOf(other)
<1>1. \A r \in rows' : Recipient[r.message_id] = other => r \in rows
  BY ShiftedRows
<1>2. \A r \in rows : Recipient[r.message_id] = other => r \in rows'
  BY DEF ChangePeriod, RowsOf
<1> QED
  BY <1>1, <1>2 DEF RowsOf

\* The notices in the hands of RabbitMQ and of the consumer
LEMMA BrokerStep ==
    ASSUME IInv, [Next]_vars PROVE Broker'
<1>1. ASSUME NEW m \in MessageIds, Publish(m) PROVE Broker'
  BY <1>1 DEF Publish, Broker, IInv, consumer
<1>2. ASSUME NEW m \in MessageIds, DeleteMessage(m) PROVE Broker'
  BY <1>2 DEF DeleteMessage, Broker, IInv, broker, consumer, history
<1>3. CASE Advance
  BY <1>3 DEF Advance, Broker, IInv, broker, consumer, history
<1>4. CASE ReadPending
  BY <1>4, ListedTail DEF ReadPending, Broker, IInv, Consuming, history
<1>5. CASE TakeLock
  BY <1>5 DEF TakeLock, Broker, IInv, Consuming, broker, history
<1>6. CASE Create
  BY <1>6, ListedSingle DEF Create, Broker, IInv, Consuming, broker
<1>7. CASE Skip
  BY <1>7, ListedSingle DEF Skip, Broker, IInv, Consuming, broker
<1>8. CASE Notify
  BY <1>8 DEF Notify, Broker, IInv, Consuming, broker, history
<1>9. CASE Ack
  BY <1>9 DEF Ack, Broker, IInv, Consuming, history
<1>10. CASE ConsumeFails
  BY <1>10 DEF ConsumeFails, Broker, IInv, Consuming, broker
<1>11. CASE Loop
  BY <1>11 DEF Loop, Broker, IInv, broker, consumer, history
<1>12. CASE Wake
  BY <1>12 DEF Wake, Broker, IInv, broker, consumer, history
<1>13. CASE Timeout
  BY <1>13 DEF Timeout, Broker, IInv, broker, consumer, history
<1>14. CASE SelectBatch
  BY <1>14 DEF SelectBatch, Broker, IInv, broker, consumer, history
<1>15. CASE DeleteBatch
  BY <1>15 DEF DeleteBatch, Broker, IInv, broker, consumer, history
<1>16. CASE BatchSent
  BY <1>16 DEF BatchSent, Broker, IInv, broker, consumer, history
<1>17. ASSUME NEW user \in Users, SendEmails(user) PROVE Broker'
  BY <1>17 DEF SendEmails, Broker, IInv, broker, consumer
<1>18. CASE WorkerFails
  BY <1>18 DEF WorkerFails, Broker, IInv, broker, consumer, history
<1>19. CASE Backoff
  BY <1>19 DEF Backoff, Broker, IInv, broker, consumer, history
<1>20. CASE ConnectionLost
  BY <1>20, ListedConcat
     DEF ConnectionLost, Nack, Requeued, Broker, IInv, Consuming
<1>21. CASE Signal
  BY <1>21 DEF Signal, Broker, IInv, broker, history
<1>22. CASE Kill
  BY <1>22, ListedConcat
     DEF Kill, End, Nack, Requeued, Broker, IInv, Consuming
<1>23. CASE Exit
  BY <1>23, ListedConcat
     DEF Exit, End, Nack, Requeued, Broker, IInv, Consuming
<1>24. CASE Start
  BY <1>24 DEF Start, Broker, IInv, Consuming, broker, history
<1>25. CASE UNCHANGED vars
  BY <1>25 DEF Broker, IInv, vars, broker, consumer, history
<1>26. ASSUME NEW user \in Users, NEW p \in Periods, ChangePeriod(user, p)
       PROVE  Broker'
  BY <1>26 DEF ChangePeriod, Broker, IInv, broker, consumer, history
<1> QED
  BY <1>1, <1>2, <1>3, <1>4, <1>5, <1>6, <1>7, <1>8, <1>9, <1>10, <1>11,
     <1>12, <1>13, <1>14, <1>15, <1>16, <1>17, <1>18, <1>19, <1>20, <1>21,
     <1>22, <1>23, <1>24, <1>25, <1>26
     DEF Next, MainThread, WorkerThread, Faults

\* Whoever goes to sleep has seen an empty table, and the first row wakes it
LEMMA SleepStep ==
    ASSUME IInv, rows \subseteq Row, [Next]_vars PROVE Sleep'
<1>1. ASSUME NEW m \in MessageIds, Publish(m) PROVE Sleep'
  BY <1>1 DEF Publish, Sleep, IInv, database, consumer, condition
<1>2. ASSUME NEW m \in MessageIds, DeleteMessage(m) PROVE Sleep'
  BY <1>2 DEF DeleteMessage, Sleep, IInv, broker, consumer, condition, history
<1>3. CASE Advance
  BY <1>3
     DEF Advance, Sleep, IInv, broker, database, consumer, condition, history
<1>4. CASE ReadPending
  BY <1>4 DEF ReadPending, Sleep, IInv, database, condition, history
<1>5. CASE TakeLock
  BY <1>5 DEF TakeLock, Sleep, IInv, broker, database, condition, history
<1>6. CASE Create
  BY <1>6 DEF Create, NewRow, Sleep, IInv, broker, condition
<1>7. CASE Skip
  BY <1>7 DEF Skip, Sleep, IInv, broker, database, condition
<1>8. CASE Notify
  BY <1>8
     DEF Notify, Notified, Waiting, Sleep, IInv, broker, database, condition,
         history
<1>9. CASE Ack
  BY <1>9 DEF Ack, Sleep, IInv, database, condition, history
<1>10. CASE ConsumeFails
  BY <1>10, ListedSingle
     DEF ConsumeFails, Sleep, IInv, Broker, Consuming, broker, database,
         condition
<1>11. CASE Loop
  BY <1>11 DEF Loop, Sleep, IInv, broker, database, consumer, history
<1>12. CASE Wake
  BY <1>12
     DEF Wake, Sleep, IInv, broker, database, consumer, condition, history
<1>13. CASE Timeout
  BY <1>13
     DEF Timeout, Sleep, IInv, broker, database, consumer, condition, history
<1>14. CASE SelectBatch
  BY <1>14
     DEF SelectBatch, Sleep, IInv, broker, database, consumer, condition,
         history
<1>15. CASE DeleteBatch
  BY <1>15 DEF DeleteBatch, Sleep, IInv, broker, consumer, condition, history
<1>16. CASE BatchSent
  BY <1>16
     DEF BatchSent, Sleep, IInv, broker, database, consumer, condition,
         history
<1>17. ASSUME NEW user \in Users, SendEmails(user) PROVE Sleep'
  BY <1>17 DEF SendEmails, Sleep, IInv, broker, database, consumer, condition
<1>18. CASE WorkerFails
  BY <1>18
     DEF WorkerFails, Sleep, IInv, broker, database, consumer, condition,
         history
<1>19. CASE Backoff
  BY <1>19 DEF Backoff, Sleep, IInv, broker, database, consumer, history
<1>20. CASE ConnectionLost
  BY <1>20 DEF ConnectionLost, Nack, Sleep, IInv, database, condition
<1>21. CASE Signal
  BY <1>21
     DEF Signal, Notified, Waiting, Sleep, IInv, broker, database, history
<1>22. CASE Kill
  BY <1>22 DEF Kill, End, Nack, Sleep, IInv, database
<1>23. CASE Exit
  BY <1>23 DEF Exit, End, Nack, Sleep, IInv, database
<1>24. CASE Start
  BY <1>24 DEF Start, Sleep, IInv, broker, database, condition, history
<1>25. CASE UNCHANGED vars
  BY <1>25 DEF Sleep, IInv, vars, broker, database, consumer, condition,
         history
<1>26. ASSUME NEW user \in Users, NEW p \in Periods, ChangePeriod(user, p)
       PROVE  Sleep'
  BY <1>26, ShiftedMessages
     DEF ChangePeriod, Sleep, IInv, broker, consumer, condition, history
<1> QED
  BY <1>1, <1>2, <1>3, <1>4, <1>5, <1>6, <1>7, <1>8, <1>9, <1>10, <1>11,
     <1>12, <1>13, <1>14, <1>15, <1>16, <1>17, <1>18, <1>19, <1>20, <1>21,
     <1>22, <1>23, <1>24, <1>25, <1>26
     DEF Next, MainThread, WorkerThread, Faults

\* What consume has read stays true of the rows while some of them are deleted
LEMMA PendingStep ==
    ASSUME IInv, rows \subseteq Row, [Next]_vars PROVE Pending'
<1> USE DEF setting
<1>1. ASSUME NEW m \in MessageIds, Publish(m) PROVE Pending'
  BY <1>1 DEF Publish, Pending, IInv, RowsOf, database, consumer
<1>2. ASSUME NEW m \in MessageIds, DeleteMessage(m) PROVE Pending'
  BY <1>2 DEF DeleteMessage, Pending, IInv, RowsOf, broker, consumer
<1>3. CASE Advance
  BY <1>3 DEF Advance, Pending, IInv, RowsOf, broker, database, consumer
<1>4. CASE ReadPending
  <2> DEFINE user == Recipient[Head(queue)]
  <2>1. /\ unacked' = <<Head(queue)>> /\ rows' = rows
        /\ scheduled_timestamp' \in PendingTimestamps(user)
    BY <1>4 DEF ReadPending, database
  <2>2. Head(unacked') = Head(queue)
    BY <2>1
  <2>3. ASSUME NEW r \in RowsOf(user), user \notin moved
        PROVE  r.scheduled_timestamp = scheduled_timestamp'
    BY <2>1, <2>3 DEF PendingTimestamps, OneBatch, RowsOf, IInv
  <2>4. moved' = moved
    BY <1>4 DEF ReadPending
  <2> QED
    BY <2>1, <2>2, <2>3, <2>4 DEF Pending, RowsOf
<1>5. CASE TakeLock
  BY <1>5 DEF TakeLock, Pending, IInv, RowsOf, broker, database
<1>6. CASE Create
  BY <1>6 DEF Create, NewRow, Pending, IInv, RowsOf, broker
<1>7. CASE Skip
  BY <1>7 DEF Skip, Pending, IInv, RowsOf, broker, database
<1>8. CASE Notify
  BY <1>8 DEF Notify, Pending, IInv, RowsOf, broker, database
<1>9. CASE Ack
  BY <1>9 DEF Ack, Pending, IInv, RowsOf, database
<1>10. CASE ConsumeFails
  BY <1>10 DEF ConsumeFails, Pending, IInv, RowsOf, broker, database
<1>11. CASE Loop
  BY <1>11 DEF Loop, Pending, IInv, RowsOf, broker, database, consumer
<1>12. CASE Wake
  BY <1>12 DEF Wake, Pending, IInv, RowsOf, broker, database, consumer
<1>13. CASE Timeout
  BY <1>13 DEF Timeout, Pending, IInv, RowsOf, broker, database, consumer
<1>14. CASE SelectBatch
  BY <1>14 DEF SelectBatch, Pending, IInv, RowsOf, broker, database, consumer
<1>15. CASE DeleteBatch
  BY <1>15 DEF DeleteBatch, Pending, IInv, RowsOf, broker, consumer
<1>16. CASE BatchSent
  BY <1>16 DEF BatchSent, Pending, IInv, RowsOf, broker, database, consumer
<1>17. ASSUME NEW user \in Users, SendEmails(user) PROVE Pending'
  BY <1>17 DEF SendEmails, Pending, IInv, RowsOf, broker, database, consumer
<1>18. CASE WorkerFails
  BY <1>18 DEF WorkerFails, Pending, IInv, RowsOf, broker, database, consumer
<1>19. CASE Backoff
  BY <1>19 DEF Backoff, Pending, IInv, RowsOf, broker, database, consumer
<1>20. CASE ConnectionLost
  BY <1>20 DEF ConnectionLost, Nack, Pending, IInv, RowsOf, database
<1>21. CASE Signal
  BY <1>21 DEF Signal, Pending, IInv, RowsOf, broker, database
<1>22. CASE Kill
  BY <1>22 DEF Kill, End, Nack, Pending, IInv, RowsOf, database
<1>23. CASE Exit
  BY <1>23 DEF Exit, End, Nack, Pending, IInv, RowsOf, database
<1>24. CASE Start
  BY <1>24 DEF Start, Pending, IInv, RowsOf, broker, database
<1>25. CASE UNCHANGED vars
  BY <1>25 DEF Pending, IInv, RowsOf, vars, broker, database, consumer
<1>26. ASSUME NEW user \in Users, NEW p \in Periods, ChangePeriod(user, p)
       PROVE  Pending'
  <2>1. CASE Consumes(user)
    BY <1>26, <2>1 DEF ChangePeriod, Consumes, Pending, broker, consumer
  <2>2. CASE ~Consumes(user) /\ main \in {"read", "locked"}
    <3>1. RowsOf(Recipient[Head(unacked)])' = RowsOf(Recipient[Head(unacked)])
      BY <1>26, <2>2, ShiftedOthers DEF ChangePeriod, Consumes, broker, consumer
    <3> QED
      BY <1>26, <2>2, <3>1 DEF ChangePeriod, Pending, IInv, broker, consumer
  <2>3. CASE main \notin {"read", "locked"}
    BY <1>26, <2>3 DEF ChangePeriod, Pending, consumer
  <2> QED
    BY <2>1, <2>2, <2>3
<1> QED
  BY <1>1, <1>2, <1>3, <1>4, <1>5, <1>6, <1>7, <1>8, <1>9, <1>10, <1>11,
     <1>12, <1>13, <1>14, <1>15, <1>16, <1>17, <1>18, <1>19, <1>20, <1>21,
     <1>22, <1>23, <1>24, <1>25, <1>26
     DEF Next, MainThread, WorkerThread, Faults

\* The row of consume joins the batch of its user
LEMMA OneBatchStep ==
    ASSUME IInv, rows \subseteq Row, [Next]_vars PROVE OneBatch'
<1> USE DEF setting
<1>1. ASSUME NEW m \in MessageIds, Publish(m) PROVE OneBatch'
  BY <1>1 DEF Publish, OneBatch, IInv, database
<1>2. ASSUME NEW m \in MessageIds, DeleteMessage(m) PROVE OneBatch'
  BY <1>2 DEF DeleteMessage, OneBatch, IInv
<1>3. CASE Advance
  BY <1>3 DEF Advance, OneBatch, IInv, database
<1>4. CASE ReadPending
  BY <1>4 DEF ReadPending, OneBatch, IInv, database
<1>5. CASE TakeLock
  BY <1>5 DEF TakeLock, OneBatch, IInv, database
<1>6. CASE Create
  BY <1>6 DEF Create, NewRow, OneBatch, IInv, Pending, RowsOf
<1>7. CASE Skip
  BY <1>7 DEF Skip, OneBatch, IInv, database
<1>8. CASE Notify
  BY <1>8 DEF Notify, OneBatch, IInv, database
<1>9. CASE Ack
  BY <1>9 DEF Ack, OneBatch, IInv, database
<1>10. CASE ConsumeFails
  BY <1>10 DEF ConsumeFails, OneBatch, IInv, database
<1>11. CASE Loop
  BY <1>11 DEF Loop, OneBatch, IInv, database
<1>12. CASE Wake
  BY <1>12 DEF Wake, OneBatch, IInv, database
<1>13. CASE Timeout
  BY <1>13 DEF Timeout, OneBatch, IInv, database
<1>14. CASE SelectBatch
  BY <1>14 DEF SelectBatch, OneBatch, IInv, database
<1>15. CASE DeleteBatch
  BY <1>15 DEF DeleteBatch, OneBatch, IInv
<1>16. CASE BatchSent
  BY <1>16 DEF BatchSent, OneBatch, IInv, database
<1>17. ASSUME NEW user \in Users, SendEmails(user) PROVE OneBatch'
  BY <1>17 DEF SendEmails, OneBatch, IInv, database
<1>18. CASE WorkerFails
  BY <1>18 DEF WorkerFails, OneBatch, IInv, database
<1>19. CASE Backoff
  BY <1>19 DEF Backoff, OneBatch, IInv, database
<1>20. CASE ConnectionLost
  BY <1>20 DEF ConnectionLost, Nack, OneBatch, IInv, database
<1>21. CASE Signal
  BY <1>21 DEF Signal, OneBatch, IInv, database
<1>22. CASE Kill
  BY <1>22 DEF Kill, End, Nack, OneBatch, IInv, database
<1>23. CASE Exit
  BY <1>23 DEF Exit, End, Nack, OneBatch, IInv, database
<1>24. CASE Start
  BY <1>24 DEF Start, OneBatch, IInv, database
<1>25. CASE UNCHANGED vars
  BY <1>25 DEF OneBatch, IInv, vars, database
<1>26. ASSUME NEW user \in Users, NEW p \in Periods, ChangePeriod(user, p)
       PROVE  OneBatch'
  <2>1. ASSUME NEW r \in rows', NEW s \in rows',
               Recipient[r.message_id] = Recipient[s.message_id],
               Recipient[r.message_id] \notin moved'
        PROVE  r.scheduled_timestamp = s.scheduled_timestamp
    <3>1. Recipient[r.message_id] \notin moved
      BY <1>26, <2>1 DEF ChangePeriod
    <3>2. CASE Recipient[r.message_id] = user
      <4>1. PICK q \in rows : /\ Recipient[q.message_id] = user
                              /\ r = Shifted(q, p - period[user])
        BY <1>26, <2>1, <3>2, ShiftedRows
      <4>2. PICK t \in rows : /\ Recipient[t.message_id] = user
                              /\ s = Shifted(t, p - period[user])
        BY <1>26, <2>1, <3>2, ShiftedRows
      <4>3. q.scheduled_timestamp = t.scheduled_timestamp
        BY <3>1, <3>2, <4>1, <4>2 DEF OneBatch, IInv
      <4> QED
        BY <4>1, <4>2, <4>3 DEF Shifted, Row
    <3>3. CASE Recipient[r.message_id] # user
      <4>1. r \in rows /\ s \in rows
        BY <1>26, <2>1, <3>3, ShiftedRows
      <4> QED
        BY <2>1, <3>1, <4>1 DEF OneBatch, IInv
    <3> QED
      BY <3>2, <3>3
  <2> QED
    BY <2>1 DEF OneBatch
<1> QED
  BY <1>1, <1>2, <1>3, <1>4, <1>5, <1>6, <1>7, <1>8, <1>9, <1>10, <1>11,
     <1>12, <1>13, <1>14, <1>15, <1>16, <1>17, <1>18, <1>19, <1>20, <1>21,
     <1>22, <1>23, <1>24, <1>25, <1>26
     DEF Next, MainThread, WorkerThread, Faults

\* Nothing is lost between two places where a notice may be
LEMMA NoticesStep ==
    ASSUME IInv, [Next]_vars PROVE NoticesSurvive'
<1>1. ASSUME NEW m \in MessageIds, Publish(m) PROVE NoticesSurvive'
  BY <1>1, ListedAppend DEF Publish, NoticesSurvive, IInv, Broker
<1>2. ASSUME NEW m \in MessageIds, DeleteMessage(m) PROVE NoticesSurvive'
  BY <1>2 DEF DeleteMessage, NoticesSurvive, IInv, broker, history
<1>3. CASE Advance
  BY <1>3 DEF Advance, NoticesSurvive, IInv, broker, history
<1>4. CASE ReadPending
  BY <1>4, ListedTail, ListedSingle
     DEF ReadPending, NoticesSurvive, IInv, Broker, Consuming, history
<1>5. CASE TakeLock
  BY <1>5 DEF TakeLock, NoticesSurvive, IInv, broker, history
<1>6. CASE Create
  BY <1>6 DEF Create, NoticesSurvive, IInv, broker
<1>7. CASE Skip
  BY <1>7 DEF Skip, NoticesSurvive, IInv, broker
<1>8. CASE Notify
  BY <1>8 DEF Notify, NoticesSurvive, IInv, broker, history
<1>9. CASE Ack
  BY <1>9, ListedSingle DEF Ack, NoticesSurvive, IInv, Broker, history
<1>10. CASE ConsumeFails
  BY <1>10 DEF ConsumeFails, NoticesSurvive, IInv, broker
<1>11. CASE Loop
  BY <1>11 DEF Loop, NoticesSurvive, IInv, broker, history
<1>12. CASE Wake
  BY <1>12 DEF Wake, NoticesSurvive, IInv, broker, history
<1>13. CASE Timeout
  BY <1>13 DEF Timeout, NoticesSurvive, IInv, broker, history
<1>14. CASE SelectBatch
  BY <1>14 DEF SelectBatch, NoticesSurvive, IInv, broker, history
<1>15. CASE DeleteBatch
  BY <1>15 DEF DeleteBatch, NoticesSurvive, IInv, broker, history
<1>16. CASE BatchSent
  BY <1>16 DEF BatchSent, NoticesSurvive, IInv, broker, history
<1>17. ASSUME NEW user \in Users, SendEmails(user) PROVE NoticesSurvive'
  BY <1>17 DEF SendEmails, NoticesSurvive, IInv, broker
<1>18. CASE WorkerFails
  BY <1>18 DEF WorkerFails, NoticesSurvive, IInv, broker, history
<1>19. CASE Backoff
  BY <1>19 DEF Backoff, NoticesSurvive, IInv, broker, history
<1>20. CASE ConnectionLost
  BY <1>20, ListedConcat
     DEF ConnectionLost, Nack, Requeued, NoticesSurvive, IInv, Broker
<1>21. CASE Signal
  BY <1>21 DEF Signal, NoticesSurvive, IInv, broker, history
<1>22. CASE Kill
  BY <1>22, ListedConcat
     DEF Kill, End, Nack, Requeued, NoticesSurvive, IInv, Broker
<1>23. CASE Exit
  BY <1>23, ListedConcat
     DEF Exit, End, Nack, Requeued, NoticesSurvive, IInv, Broker
<1>24. CASE Start
  BY <1>24 DEF Start, NoticesSurvive, IInv, broker, history
<1>25. CASE UNCHANGED vars
  BY <1>25 DEF NoticesSurvive, IInv, vars, broker, history
<1>26. ASSUME NEW user \in Users, NEW p \in Periods, ChangePeriod(user, p)
       PROVE  NoticesSurvive'
  BY <1>26 DEF ChangePeriod, NoticesSurvive, IInv, broker, history
<1> QED
  BY <1>1, <1>2, <1>3, <1>4, <1>5, <1>6, <1>7, <1>8, <1>9, <1>10, <1>11,
     <1>12, <1>13, <1>14, <1>15, <1>16, <1>17, <1>18, <1>19, <1>20, <1>21,
     <1>22, <1>23, <1>24, <1>25, <1>26
     DEF Next, MainThread, WorkerThread, Faults

-----------------------------------------------------------------------------

(***************************************************************************)
(* The invariant holds at the start,                                       *)
(***************************************************************************)
LEMMA InitIInv == Init => IInv
BY ListedSingle
   DEF Init, IInv, Broker, Sleep, Pending, OneBatch, NoticesSurvive, Consuming

(***************************************************************************)
(* ... and every step keeps it,                                            *)
(***************************************************************************)
LEMMA NextIInv == IInv /\ rows \subseteq Row /\ [Next]_vars => IInv'
BY BrokerStep, SleepStep, PendingStep, OneBatchStep, NoticesStep DEF IInv

-----------------------------------------------------------------------------
(* Types.  The table stays finite, so that a new row has an identifier.     *)

TInv == TypeOK /\ IsFiniteSet(rows)

(***************************************************************************)
(* A row that is written fits among the others.                            *)
(***************************************************************************)
LEMMA NewRowFits ==
    ASSUME TInv, NEW m \in MessageIds PROVE NewRow(m) \in Row
<1>1. Cardinality(rows) \in Nat
  BY FS_CardinalityType DEF TInv
<1>2. \E i \in 0..Cardinality(rows) : \A r \in rows : r.id # i
  <2>1. SUFFICES ASSUME \A i \in 0..Cardinality(rows) : \E r \in rows : r.id = i
                 PROVE  FALSE
    OBVIOUS
  <2> DEFINE f == [i \in 0..Cardinality(rows) |-> CHOOSE r \in rows : r.id = i]
  <2>2. \A i \in 0..Cardinality(rows) : f[i] \in rows /\ f[i].id = i
    BY <2>1
  <2>3. f \in Injection(0..Cardinality(rows), rows)
    BY <2>2, Fun_IsInj
  <2>4. Cardinality(0..Cardinality(rows)) <= Cardinality(rows)
    BY <2>3, FS_Injection DEF TInv
  <2>5. Cardinality(0..Cardinality(rows)) = Cardinality(rows) + 1
    BY <1>1, FS_Interval
  <2> QED
    BY <1>1, <2>4, <2>5
<1>3. NewRow(m).id \in 0..Cardinality(rows)
  BY <1>2 DEF NewRow
<1> QED
  BY <1>1, <1>3 DEF NewRow, Row, TInv, TypeOK

\* What a nack leaves
TNack ==
    /\ queue \in Seq(MessageIds) /\ unacked = <<>>
    /\ published \cup recorded \cup errors \cup redelivered \subseteq MessageIds
    /\ email_senders \in [MessageIds -> Nat]

(***************************************************************************)
(* Notices that come back to the queue keep the types,                     *)
(***************************************************************************)
LEMMA NackFits ==
    ASSUME TInv, Nack PROVE TNack'
<1>1. Listed(unacked) \subseteq MessageIds
  BY DEF TInv, TypeOK, Listed
<1> QED
  BY <1>1, ListedConcat DEF Nack, Requeued, TNack, TInv, TypeOK

(***************************************************************************)
(* ... as does the end of the process.                                     *)
(***************************************************************************)
LEMMA EndFits ==
    ASSUME TInv, End PROVE TInv'
<1>1. TNack'
  BY NackFits DEF End
<1>2. Len(unacked') = 0 /\ unacked' \in Seq(MessageIds)
  BY <1>1 DEF TNack
<1>3. /\ main' = "down" /\ signal' = "none" /\ worker' \in Threads
      /\ {terminating, has_timeout, stopping}' \subseteq BOOLEAN
      /\ batch' = {} /\ outbox' = {}
  BY DEF End, Threads
<1>4. UNCHANGED <<database, now, setting, scheduled_timestamp, current_time, starts,
                  failures>>
  BY DEF End
<1> QED
  BY <1>1, <1>2, <1>3, <1>4 DEF TNack, TInv, TypeOK, Consuming, database, setting

\* Every step keeps the types
LEMMA TypeStep ==
    ASSUME TInv, [Next]_vars PROVE TInv'
<1> USE DEF setting
<1>1. ASSUME NEW m \in MessageIds, Publish(m) PROVE TInv'
  BY <1>1
     DEF Publish, TInv, TypeOK, database, consumer, condition, sender, life
<1>2. ASSUME NEW m \in MessageIds, DeleteMessage(m) PROVE TInv'
  BY <1>2, FS_Subset
     DEF DeleteMessage, TInv, TypeOK, broker, consumer, condition, sender,
         life, history
<1>3. CASE Advance
  <2>1. now' \in Nat
    BY <1>3 DEF Advance, TInv, TypeOK, Row
  <2> QED
    BY <1>3, <2>1
       DEF Advance, TInv, TypeOK, broker, database, consumer, condition, sender,
           life, history
<1>4. CASE ReadPending
  <2> DEFINE user == Recipient[Head(queue)]
  <2>1. scheduled_timestamp' \in Int
    <3>1. \A r \in RowsOf(user) : r.scheduled_timestamp \in Int
      BY DEF RowsOf, TInv, TypeOK, Row
    <3>2. user \in Users
      <4>1. queue \in Seq(MessageIds) /\ queue # <<>>
        BY <1>4 DEF ReadPending, TInv, TypeOK
      <4>2. Head(queue) \in MessageIds
        BY <4>1
      <4> QED
        BY <4>2, MissedMessagesAssumption
    <3>2a. now + period[user] \in Int
      <4>1. now \in Nat /\ period \in [Users -> Periods]
        BY DEF TInv, TypeOK
      <4>2. period[user] \in Nat
        <5> HIDE DEF user
        <5> QED
          BY <3>2, <4>1, MissedMessagesAssumption
      <4> HIDE DEF user
      <4> QED
        BY <4>1, <4>2
    <3>3. scheduled_timestamp' \in PendingTimestamps(user)
      BY <1>4 DEF ReadPending
    <3> QED
      BY <3>1, <3>2a, <3>3 DEF PendingTimestamps
  <2>2. /\ queue' \in Seq(MessageIds) /\ unacked' \in Seq(MessageIds)
        /\ Len(unacked') = 1
    BY <1>4, ListedTail DEF ReadPending, TInv, TypeOK
  <2> QED
    BY <1>4, <2>1, <2>2
       DEF ReadPending, TInv, TypeOK, Consuming, database, condition, sender,
           life, history
<1>5. CASE TakeLock
  BY <1>5
     DEF TakeLock, TInv, TypeOK, Consuming, broker, database, condition,
         sender, life, history
<1>6. CASE Create
  <2> DEFINE m == Head(unacked)
  <2>1. m \in MessageIds /\ m \in messages
    BY <1>6 DEF Create, TInv, TypeOK
  <2>2. NewRow(m) \in Row /\ NewRow(m).message_id = m
    BY <2>1, NewRowFits DEF NewRow
  <2>3. /\ rows' \subseteq Row /\ IsFiniteSet(rows')
        /\ batch' \subseteq rows' /\ {r.message_id : r \in rows'} \subseteq messages'
    <3> HIDE DEF m
    <3>1. rows' = rows \cup {NewRow(m)} /\ UNCHANGED <<messages, batch>>
      BY <1>6 DEF Create, sender, m
    <3>2. IsFiniteSet(rows')
      BY <3>1, FS_AddElement DEF TInv
    <3> QED
      BY <2>1, <2>2, <3>1, <3>2 DEF TInv, TypeOK
  <2> QED
    BY <1>6, <2>1, <2>3
       DEF Create, TInv, TypeOK, Consuming, broker, condition, sender, life
<1>7. CASE Skip
  <2>1. Head(unacked) \in MessageIds
    <3>1. unacked \in Seq(MessageIds) /\ Len(unacked) = 1
      BY <1>7 DEF Skip, TInv, TypeOK, Consuming
    <3> QED
      BY <3>1
  <2> QED
    BY <1>7, <2>1
       DEF Skip, TInv, TypeOK, Consuming, broker, database, condition, sender,
           life
<1>8. CASE Notify
  <2>1. worker' \in Threads
    BY <1>8 DEF Notify, Notified, Threads, TInv, TypeOK
  <2> QED
    BY <1>8, <2>1
       DEF Notify, TInv, TypeOK, Consuming, broker, database, condition, sender,
           life, history
<1>9. CASE Ack
  BY <1>9
     DEF Ack, TInv, TypeOK, Consuming, database, condition, sender, life,
         history
<1>10. CASE ConsumeFails
  BY <1>10, MissedMessagesAssumption, ListedSingle
     DEF ConsumeFails, TInv, TypeOK, Consuming, broker, database, condition,
         sender, life
<1>11. CASE Loop
  BY <1>11
     DEF Loop, TInv, TypeOK, Threads, broker, database, consumer, sender,
         life, history
<1>12. CASE Wake
  BY <1>12
     DEF Wake, TInv, TypeOK, Threads, broker, database, consumer, condition,
         sender, life, history
<1>13. CASE Timeout
  BY <1>13
     DEF Timeout, TInv, TypeOK, Threads, broker, database, consumer,
         condition, sender, life, history
<1>14. CASE SelectBatch
  <2>1. /\ batch' \subseteq rows' /\ worker' \in Threads
        /\ UNCHANGED <<rows, now>> /\ current_time' = now
    BY <1>14 DEF SelectBatch, Threads, database
  <2>2. outbox' \subseteq MessageIds
    BY <1>14, <2>1 DEF SelectBatch, Emails, TInv, TypeOK, Row
  <2> QED
    BY <1>14, <2>1, <2>2
       DEF SelectBatch, TInv, TypeOK, broker, database, consumer, condition,
           life, history
<1>15. CASE DeleteBatch
  BY <1>15, FS_Subset
     DEF DeleteBatch, TInv, TypeOK, Threads, broker, consumer, condition,
         life, history
<1>16. CASE BatchSent
  BY <1>16
     DEF BatchSent, TInv, TypeOK, Threads, broker, database, consumer,
         condition, sender, life, history
<1>17. ASSUME NEW user \in Users, SendEmails(user) PROVE TInv'
  BY <1>17
     DEF SendEmails, TInv, TypeOK, broker, database, consumer, condition, life
<1>18. CASE WorkerFails
  BY <1>18, MissedMessagesAssumption
     DEF WorkerFails, TInv, TypeOK, Threads, broker, database, consumer,
         condition, life, history
<1>19. CASE Backoff
  BY <1>19
     DEF Backoff, TInv, TypeOK, Threads, broker, database, consumer, sender,
         life, history
<1>20. CASE ConnectionLost
  <2>1. Nack
    BY <1>20 DEF ConnectionLost
  <2>2. TNack'
    BY <2>1, NackFits
  <2>3. failures' \in 0..bound'.failures
    BY <1>20, MissedMessagesAssumption DEF ConnectionLost, TInv, TypeOK
  <2> QED
    BY <1>20, <2>2, <2>3
       DEF ConnectionLost, TNack, TInv, TypeOK, Consuming, database, condition,
           sender, life
<1>21. CASE Signal
  <2>1. worker' \in Threads
    BY <1>21 DEF Signal, Notified, Threads, TInv, TypeOK
  <2> QED
    BY <1>21, <2>1
       DEF Signal, TInv, TypeOK, broker, database, sender, history
<1>22. CASE Kill
  BY <1>22, EndFits DEF Kill
<1>23. CASE Exit
  BY <1>23, EndFits DEF Exit
<1>24. CASE Start
  BY <1>24, MissedMessagesAssumption
     DEF Start, TInv, TypeOK, Threads, Consuming, broker, database, condition,
         sender, history
<1>25. CASE UNCHANGED vars
  BY <1>25 DEF TInv, TypeOK, vars, broker, database, consumer, condition,
         sender, life, history
<1>26. ASSUME NEW user \in Users, NEW p \in Periods, ChangePeriod(user, p)
       PROVE  TInv'
  <2> DEFINE seconds == p - period[user]
  <2>1. seconds \in Int
    BY MissedMessagesAssumption DEF TInv, TypeOK
  <2>2. rows' \subseteq Row
    <3> HIDE DEF seconds
    <3>1. \A r \in RowsOf(user) : Shifted(r, seconds) \in Row
      BY <2>1, ShiftedIsRow DEF RowsOf, TInv, TypeOK
    <3>2. rows' = (rows \ RowsOf(user)) \cup {Shifted(r, seconds) : r \in RowsOf(user)}
      BY <1>26 DEF ChangePeriod, seconds
    <3> QED
      BY <3>1, <3>2 DEF TInv, TypeOK
  <2>3. IsFiniteSet(rows')
    <3> DEFINE old == RowsOf(user)
               new == {Shifted(r, seconds) : r \in old}
    <3>1. IsFiniteSet(old) /\ IsFiniteSet(rows \ old)
      BY FS_Subset DEF TInv, RowsOf
    <3>2. IsFiniteSet(new)
      <4> DEFINE move == [r \in old |-> Shifted(r, seconds)]
      <4>1. move \in Surjection(old, new)
        <5> HIDE DEF old, seconds
        <5> QED
          BY DEF Surjection
      <4> HIDE DEF move, old, new
      <4> QED
        BY <3>1, <4>1, FS_Surjection
    <3>3. rows' = (rows \ old) \cup new
      BY <1>26 DEF ChangePeriod
    <3> HIDE DEF old, new
    <3> QED
      BY <3>1, <3>2, <3>3, FS_Union
  <2>4. /\ batch' \subseteq rows'
        /\ {r.message_id : r \in rows'} \subseteq messages'
    <3>1. UNCHANGED <<batch, messages>>
      BY <1>26 DEF ChangePeriod, sender
    <3>2. \A r \in rows' : \E q \in rows : r.message_id = q.message_id
      BY <1>26, ShiftedMessages DEF TInv, TypeOK
    <3>3. batch \subseteq rows \ RowsOf(user)
      BY <1>26 DEF ChangePeriod, RowsOf, TInv, TypeOK
    <3>4. batch \subseteq rows'
      BY <1>26, <3>3 DEF ChangePeriod
    <3> QED
      BY <3>1, <3>2, <3>4 DEF TInv, TypeOK
  <2>5. /\ bound' \in Bounds
        /\ period' \in [Users -> Periods]
        /\ changes' \in 0..bound'.changes
        /\ moved' \subseteq Users
    <3>1. bound.changes \in Nat /\ bound' = bound
      BY <1>26, MissedMessagesAssumption DEF ChangePeriod, TInv, TypeOK
    <3>2. changes' \in 0..bound.changes
      BY <1>26, <3>1 DEF ChangePeriod, TInv, TypeOK
    <3>3. period' \in [Users -> Periods] /\ moved' \subseteq Users
      BY <1>26 DEF ChangePeriod, TInv, TypeOK
    <3> QED
      BY <3>1, <3>2, <3>3 DEF TInv, TypeOK
  <2> HIDE DEF seconds
  <2> QED
    BY <1>26, <2>2, <2>3, <2>4, <2>5
       DEF ChangePeriod, TInv, TypeOK, broker, consumer, condition, sender,
           life, history
<1> QED
  BY <1>1, <1>2, <1>3, <1>4, <1>5, <1>6, <1>7, <1>8, <1>9, <1>10, <1>11,
     <1>12, <1>13, <1>14, <1>15, <1>16, <1>17, <1>18, <1>19, <1>20, <1>21,
     <1>22, <1>23, <1>24, <1>25, <1>26
     DEF Next, MainThread, WorkerThread, Faults

(***************************************************************************)
(* The types hold in every state that can be reached.                      *)
(***************************************************************************)
LEMMA TInvAlways == Spec => []TInv
<1>1. Init => TInv
  <2> SUFFICES ASSUME Init PROVE TInv
    OBVIOUS
  <2>1. IsFiniteSet(rows)
    BY FS_EmptySet DEF Init
  <2>2. starts \in 1..(1 + bound.starts) /\ failures \in 0..bound.failures
    BY MissedMessagesAssumption DEF Init
  <2>3. queue \in Seq(MessageIds) /\ unacked \in Seq(MessageIds) /\ Len(unacked) = 0
    BY DEF Init
  <2>4. /\ rows \subseteq Row /\ batch \subseteq rows
        /\ {r.message_id : r \in rows} \subseteq messages
        /\ messages \subseteq MessageIds /\ outbox \subseteq MessageIds
    BY DEF Init
  <2>5. /\ published \cup recorded \cup errors \cup redelivered \subseteq MessageIds
        /\ email_senders \in [MessageIds -> Nat]
    BY DEF Init
  <2>6. /\ main \in {"idle"} /\ signal \in {"none", "joining"} /\ worker \in Threads
        /\ {terminating, has_timeout, stopping} \subseteq BOOLEAN
    BY DEF Init, Threads
  <2>6a. now \in Nat /\ scheduled_timestamp \in Int /\ current_time \in Nat
    <3>1. now = 0 /\ scheduled_timestamp = 0 /\ current_time = 0
      BY DEF Init
    <3> QED
      BY <3>1
  <2>7. /\ bound \in Bounds
        /\ period \in [Users -> Periods] /\ changes \in 0..bound.changes
        /\ moved \subseteq Users
    BY MissedMessagesAssumption DEF Init
  <2> QED
    BY <2>1, <2>2, <2>3, <2>4, <2>5, <2>6, <2>6a, <2>7
       DEF TInv, TypeOK, Consuming
<1>2. TInv /\ [Next]_vars => TInv'
  BY TypeStep
<1> QED
  BY <1>1, <1>2, PTL DEF Spec

\* Rows, threads and notices keep their types, and one notice is unacknowledged
\* exactly while it is consumed, for all users, messages and bounds
THEOREM TypeCorrect == Spec => []TypeOK
<1>1. TInv => TypeOK
  BY DEF TInv
<1> QED
  BY <1>1, TInvAlways, PTL

(***************************************************************************)
(* The invariant of the notices and the rows holds in every state that can *)
(* be reached.                                                             *)
(***************************************************************************)
THEOREM IInvAlways == Spec => []IInv
<1>1. TInv => rows \subseteq Row
  BY DEF TInv, TypeOK
<1> QED
  BY <1>1, InitIInv, NextIInv, TInvAlways, PTL DEF Spec

\* However notices, stops, deletions and failures interleave, the worker thread
\* is never left asleep with a row that nobody tells it of (the notify of
\* consume and of stop)
THEOREM NoLostWakeUp == Spec => []WakesUp
<1>1. IInv => WakesUp
  BY DEF IInv, Sleep, WakesUp
<1> QED
  BY <1>1, IInvAlways, PTL

\* All rows of a user are due together, for any number of users, notices and
\* changes of the periods, unless the user's period changed while consume was
\* between the read of a pending row, without the lock, and its insert
THEOREM BatchesStayTogether == Spec => []OneBatch
<1>1. IInv => OneBatch
  BY DEF IInv
<1> QED
  BY <1>1, IInvAlways, PTL

\* A notice is acknowledged only when it is a row, an error or needless, for any
\* number of kills, stops and lost connections (start_json_consumer)
THEOREM NoNoticeLost == Spec => []NoticesSurvive
<1>1. IInv => NoticesSurvive
  BY DEF IInv
<1> QED
  BY <1>1, IInvAlways, PTL

-----------------------------------------------------------------------------
(* A message and its e-mail.  While the notice of a message has never been  *)
(* delivered again, the message is in one place only: in RabbitMQ, about to *)
(* become a row, a row, the e-mail of a batch, or e-mailed.                 *)

Unique(q, m) == \A i, j \in DOMAIN q : q[i] = m /\ q[j] = m => i = j

Untouched(m) ==
    /\ \A r \in rows : r.message_id # m
    /\ m \notin outbox
    /\ email_senders[m] = 0

InOnePlace(m) ==
    /\ m \notin published \/ m \in Listed(queue) =>
          Untouched(m) /\ m \notin Listed(unacked)
    /\ m \notin published => m \notin Listed(queue)
    /\ Unique(queue, m)
    /\ main \in {"read", "locked"} /\ m \in Listed(unacked) => Untouched(m)
    /\ \A r, s \in rows : r.message_id = m /\ s.message_id = m => r = s
    /\ \A r \in rows : r.message_id = m =>
          email_senders[m] = 0 /\ (m \in outbox => worker = "batch")
    /\ m \in outbox => email_senders[m] = 0
    /\ email_senders[m] <= 1

\* The e-mails of a transaction are those of rows that it will delete
BatchIsDue ==
    worker = "batch" =>
        /\ \A r \in batch : Due(r)
        /\ outbox \subseteq {r.message_id : r \in batch}

OnePlace == \A m \in MessageIds \ redelivered : InOnePlace(m)

OnceInv == BatchIsDue /\ OnePlace

(***************************************************************************)
(* A sequence stays without repetition when something new is added,        *)
(***************************************************************************)
LEMMA UniqueAppend ==
    ASSUME NEW S, NEW q \in Seq(S), NEW e \in S, NEW m, Unique(q, m),
           e = m => m \notin Listed(q)
    PROVE  Unique(Append(q, e), m)
<1>1. /\ Len(q) \in Nat
      /\ DOMAIN q = 1..Len(q) /\ DOMAIN Append(q, e) = 1..Len(q) + 1
      /\ \A i \in 1..Len(q) : Append(q, e)[i] = q[i]
      /\ Append(q, e)[Len(q) + 1] = e
  OBVIOUS
<1>2. 1..Len(q) + 1 = 1..Len(q) \cup {Len(q) + 1}
  BY <1>1
<1>3. e = m => \A i \in 1..Len(q) : q[i] # m
  BY <1>1 DEF Listed
<1> QED
  BY <1>1, <1>2, <1>3 DEF Unique

(***************************************************************************)
(* ... or its first element is taken away.                                 *)
(***************************************************************************)
LEMMA UniqueTail ==
    ASSUME NEW S, NEW q \in Seq(S), q # <<>>, NEW m, Unique(q, m)
    PROVE  /\ Unique(Tail(q), m)
           /\ Head(q) = m => m \notin Listed(Tail(q))
<1>1. /\ Len(q) \in Nat \ {0} /\ DOMAIN q = 1..Len(q)
      /\ DOMAIN Tail(q) = 1..Len(q) - 1
      /\ \A i \in 1..Len(q) - 1 : Tail(q)[i] = q[i + 1]
      /\ Head(q) = q[1]
  OBVIOUS
<1>2. \A i \in 1..Len(q) - 1 : i + 1 \in 1..Len(q) /\ i + 1 # 1
  BY <1>1
<1>3. Unique(Tail(q), m)
  BY <1>1, <1>2 DEF Unique
<1>4. 1 \in 1..Len(q)
  BY <1>1
<1> QED
  BY <1>1, <1>2, <1>3, <1>4 DEF Unique, Listed

\* What a nack puts before a queue does not count for the other messages
LEMMA UniqueConcat ==
    ASSUME NEW S, NEW p \in Seq(S), NEW q \in Seq(S), NEW m, Unique(q, m),
           m \notin Listed(p)
    PROVE  /\ Unique(p \o q, m)
           /\ m \in Listed(p \o q) => m \in Listed(q)
<1>1. /\ Len(p) \in Nat /\ Len(q) \in Nat
      /\ DOMAIN p = 1..Len(p) /\ DOMAIN q = 1..Len(q)
      /\ DOMAIN (p \o q) = 1..Len(p) + Len(q)
      /\ \A i \in 1..Len(p) : (p \o q)[i] = p[i]
      /\ \A i \in 1..Len(p) + Len(q) : i > Len(p) => (p \o q)[i] = q[i - Len(p)]
  OBVIOUS
<1>2. \A i \in 1..Len(p) : p[i] # m
  BY <1>1 DEF Listed
<1>3. \A i \in DOMAIN (p \o q) : (p \o q)[i] = m =>
         /\ i - Len(p) \in DOMAIN q
         /\ q[i - Len(p)] = m
  BY <1>1, <1>2
<1>4. Unique(p \o q, m)
  BY <1>1, <1>3 DEF Unique
<1> QED
  BY <1>3, <1>4 DEF Listed

\* The steps that touch neither notices, rows nor e-mails
LEMMA QuietOnce ==
    ASSUME OnceInv,
           UNCHANGED <<broker, rows, batch, outbox, current_time, published,
                       redelivered, email_senders>>,
           worker' = "batch" <=> worker = "batch",
           main' \in {"read", "locked"} => main \in {"read", "locked"}
    PROVE  OnceInv'
<1>1. BatchIsDue'
  BY DEF OnceInv, BatchIsDue, Due
<1>2. ASSUME NEW m \in MessageIds \ redelivered, InOnePlace(m)
      PROVE  InOnePlace(m)'
  BY <1>2 DEF InOnePlace, Untouched, broker
<1> QED
  BY <1>1, <1>2 DEF OnceInv, OnePlace

\* The consumer is gone: for the notices that were not being consumed, nothing
\* has changed in RabbitMQ
LEMMA NackOnce ==
    ASSUME TInv, OnceInv, Nack, main' \notin {"read", "locked"},
           UNCHANGED rows,
           \/ outbox' = {} /\ worker' # "batch"
           \/ UNCHANGED <<outbox, batch, current_time, worker>>
    PROVE  OnceInv'
<1>1. BatchIsDue'
  BY DEF OnceInv, BatchIsDue, Due
<1>2. ASSUME NEW m \in MessageIds \ redelivered', InOnePlace(m)
      PROVE  InOnePlace(m)'
  <2>1. m \notin Listed(unacked)
    BY <1>2 DEF Nack
  <2>2. /\ Unique(queue', m)
        /\ m \in Listed(queue') => m \in Listed(queue)
    BY <1>2, <2>1, UniqueConcat DEF Nack, Requeued, TInv, TypeOK, InOnePlace
  <2>3. Listed(unacked') = {}
    BY ListedSingle DEF Nack
  <2> QED
    BY <1>2, <2>2, <2>3 DEF Nack, InOnePlace, Untouched
<1> QED
  BY <1>1, <1>2 DEF OnceInv, OnePlace, Nack

\* The process is gone, and what it had not e-mailed
LEMMA EndOnce ==
    ASSUME TInv, OnceInv, End PROVE OnceInv'
BY NackOnce DEF End, database

\* There is no worker thread without a process
DownIsEnded == main = "down" => worker = "ended"

(***************************************************************************)
(* A process that ends takes its worker thread along.                      *)
(***************************************************************************)
LEMMA DownIsEndedStep ==
    ASSUME DownIsEnded, [Next]_vars PROVE DownIsEnded'
<1> USE DEF DownIsEnded
<1>1. CASE MainThread
  BY <1>1 DEF MainThread, ReadPending, TakeLock, Create, Skip, Notify, Ack
<1>2. CASE WorkerThread
  BY <1>2 DEF WorkerThread, Loop, Wake, Timeout, SelectBatch, DeleteBatch,
     BatchSent, Backoff, SendEmails, consumer
<1>3. CASE Faults
  BY <1>3 DEF Faults, ConsumeFails, WorkerFails, Failing, ConnectionLost, Signal,
     Kill, End, consumer
<1>4. CASE Exit \/ Start
  BY <1>4 DEF Exit, End, Start
<1>5. CASE \/ \E m \in MessageIds : Publish(m) \/ DeleteMessage(m)
           \/ Advance
           \/ UNCHANGED vars
  BY <1>5 DEF Publish, DeleteMessage, Advance, vars, consumer
<1>6. CASE \E user \in Users, p \in Periods : ChangePeriod(user, p)
  BY <1>6 DEF ChangePeriod, consumer
<1> QED
  BY <1>1, <1>2, <1>3, <1>4, <1>5, <1>6 DEF Next

\* No step brings a message to a second place
LEMMA OnceStep ==
    ASSUME IInv, TInv, DownIsEnded, OnceInv, [Next]_vars PROVE OnceInv'
<1> USE DEF OnceInv
<1>1. ASSUME NEW m \in MessageIds, Publish(m) PROVE OnceInv'
  <2>1. BatchIsDue'
    BY <1>1 DEF Publish, BatchIsDue, Due, sender
  <2>2. ASSUME NEW n \in MessageIds \ redelivered, InOnePlace(n)
        PROVE  InOnePlace(n)'
    <3>1. Unique(queue', n)
      BY <1>1, <2>2, UniqueAppend DEF Publish, InOnePlace, IInv, Broker
    <3>2. Listed(queue') = Listed(queue) \cup {m}
      BY <1>1, ListedAppend DEF Publish, IInv, Broker
    <3> QED
      BY <1>1, <2>2, <3>1, <3>2
         DEF Publish, InOnePlace, Untouched, consumer, sender, database
  <2> QED
    BY <1>1, <2>1, <2>2 DEF Publish, OnePlace
<1>2. ASSUME NEW m \in MessageIds, DeleteMessage(m) PROVE OnceInv'
  <2>1. BatchIsDue'
    BY <1>2 DEF DeleteMessage, BatchIsDue, Due, sender
  <2>2. ASSUME NEW n \in MessageIds \ redelivered, InOnePlace(n)
        PROVE  InOnePlace(n)'
    BY <1>2, <2>2 DEF DeleteMessage, InOnePlace, Untouched, broker, consumer,
                      sender, history
  <2> QED
    BY <1>2, <2>1, <2>2 DEF DeleteMessage, OnePlace, history
<1>3. CASE Advance
  BY <1>3, QuietOnce DEF Advance, broker, database, consumer, sender, history
<1>4. CASE ReadPending
  <2>1. BatchIsDue'
    BY <1>4 DEF ReadPending, BatchIsDue, Due, sender
  <2>2. ASSUME NEW n \in MessageIds \ redelivered, InOnePlace(n)
        PROVE  InOnePlace(n)'
    <3>1. /\ Unique(queue', n)
          /\ n = Head(queue) => n \notin Listed(queue')
      BY <1>4, <2>2, UniqueTail DEF ReadPending, InOnePlace, IInv, Broker
    <3>2. Listed(queue) = {Head(queue)} \cup Listed(queue')
      BY <1>4, ListedTail DEF ReadPending, IInv, Broker
    <3>3. Listed(unacked') = {Head(queue)}
      BY <1>4, ListedSingle DEF ReadPending
    <3> QED
      BY <1>4, <2>2, <3>1, <3>2, <3>3
         DEF ReadPending, InOnePlace, Untouched, database, sender, history
  <2> QED
    BY <1>4, <2>1, <2>2 DEF ReadPending, OnePlace, history
<1>5. CASE TakeLock
  BY <1>5, QuietOnce DEF TakeLock, broker, database, sender, history
<1>6. CASE Create
  <2> DEFINE m == Head(unacked)
  <2>1. Listed(unacked) = {m}
    BY <1>6, ListedSingle DEF Create, IInv, Broker, Consuming
  <2>2. rows' = rows \cup {NewRow(m)} /\ NewRow(m).message_id = m
    BY <1>6 DEF Create, NewRow
  <2>3. BatchIsDue'
    BY <1>6 DEF Create, BatchIsDue, Due, sender
  <2>4. ASSUME NEW n \in MessageIds \ redelivered, InOnePlace(n)
        PROVE  InOnePlace(n)'
    <3>1. n = m => Untouched(n) /\ n \notin Listed(queue) /\ n \in published
      BY <1>6, <2>1, <2>4 DEF Create, InOnePlace
    <3>2. /\ UNCHANGED <<broker, worker, outbox, published, email_senders>>
          /\ main' = "inserted"
      BY <1>6 DEF Create, sender
    <3> HIDE DEF m
    <3>3. CASE n = m
      <4>1. \A r \in rows' : r.message_id = n => r = NewRow(m)
        BY <2>2, <3>1, <3>3 DEF Untouched
      <4> QED
        BY <2>4, <3>1, <3>2, <3>3, <4>1 DEF InOnePlace, Untouched, broker
    <3>4. CASE n # m
      <4>1. \A r \in rows' : r.message_id = n => r \in rows
        BY <2>2, <3>4
      <4> QED
        BY <2>4, <3>2, <4>1 DEF InOnePlace, Untouched, broker
    <3> QED
      BY <3>3, <3>4
  <2> QED
    BY <1>6, <2>3, <2>4 DEF Create, OnePlace
<1>7. CASE Skip
  BY <1>7, QuietOnce DEF Skip, broker, database, sender
<1>8. CASE Notify
  BY <1>8, QuietOnce DEF Notify, Notified, Waiting, broker, database, sender, history
<1>9. CASE Ack
  <2>1. BatchIsDue'
    BY <1>9 DEF Ack, BatchIsDue, Due, sender
  <2>2. ASSUME NEW n \in MessageIds \ redelivered, InOnePlace(n)
        PROVE  InOnePlace(n)'
    BY <1>9, <2>2, ListedSingle
       DEF Ack, InOnePlace, Untouched, database, sender, history
  <2> QED
    BY <1>9, <2>1, <2>2 DEF Ack, OnePlace, history
<1>10. CASE ConsumeFails
  BY <1>10, QuietOnce DEF ConsumeFails, broker, database, sender
<1>11. CASE Loop
  BY <1>11, QuietOnce DEF Loop, broker, database, consumer, sender, history
<1>12. CASE Wake
  BY <1>12, QuietOnce DEF Wake, broker, database, consumer, sender, history
<1>13. CASE Timeout
  BY <1>13, QuietOnce DEF Timeout, broker, database, consumer, sender, history
<1>14. CASE SelectBatch
  <2>1. /\ worker' = "batch"
        /\ batch' = {r \in rows : r.scheduled_timestamp <= now}
        /\ current_time' = now
        /\ outbox' \subseteq {r.message_id : r \in batch'}
    BY <1>14 DEF SelectBatch, Emails
  <2>2. BatchIsDue'
    BY <2>1 DEF BatchIsDue, Due
  <2>3. ASSUME NEW n \in MessageIds \ redelivered, InOnePlace(n)
        PROVE  InOnePlace(n)'
    <3>1. n \in outbox' => \E r \in rows : r.message_id = n
      BY <2>1
    <3>2. UNCHANGED <<broker, rows, main, published, email_senders>>
      BY <1>14 DEF SelectBatch, database, consumer, history
    <3> QED
      BY <2>1, <2>3, <3>1, <3>2 DEF InOnePlace, Untouched, broker
  <2> QED
    BY <1>14, <2>2, <2>3 DEF SelectBatch, OnePlace, history
<1>15. CASE DeleteBatch
  <2>1. BatchIsDue'
    BY <1>15 DEF DeleteBatch, BatchIsDue
  <2>2. ASSUME NEW n \in MessageIds \ redelivered, InOnePlace(n)
        PROVE  InOnePlace(n)'
    <3>1. /\ rows' = {r \in rows : ~Due(r)}
          /\ UNCHANGED <<broker, main, outbox, published, email_senders>>
      BY <1>15 DEF DeleteBatch, consumer, history
    <3>2. \A r \in rows' : r.message_id = n => n \notin outbox
      <4> SUFFICES ASSUME NEW r \in rows', r.message_id = n, n \in outbox
                   PROVE  FALSE
        OBVIOUS
      <4>1. PICK s \in batch : s.message_id = n /\ Due(s)
        BY <1>15 DEF DeleteBatch, BatchIsDue
      <4>2. s \in rows
        BY <4>1 DEF TInv, TypeOK
      <4> QED
        BY <2>2, <3>1, <4>1, <4>2 DEF InOnePlace
    <3> QED
      BY <2>2, <3>1, <3>2 DEF InOnePlace, Untouched, broker
  <2> QED
    BY <1>15, <2>1, <2>2 DEF DeleteBatch, OnePlace, history
<1>16. CASE BatchSent
  BY <1>16, QuietOnce DEF BatchSent, broker, database, consumer, sender, history
<1>17. ASSUME NEW user \in Users, SendEmails(user) PROVE OnceInv'
  <2> DEFINE sent == {m \in outbox : Recipient[m] = user}
  <2>1. /\ worker = "committed"
        /\ outbox' = outbox \ sent
        /\ email_senders' = [m \in MessageIds |->
                                email_senders[m] + IF m \in sent THEN 1 ELSE 0]
        /\ UNCHANGED <<broker, rows, main, worker, published, redelivered>>
    BY <1>17 DEF SendEmails, database, consumer
  <2>2. BatchIsDue'
    BY <2>1 DEF BatchIsDue
  <2>3. ASSUME NEW n \in MessageIds \ redelivered, InOnePlace(n)
        PROVE  InOnePlace(n)'
    <3>1. email_senders[n] \in Nat
      BY DEF TInv, TypeOK
    <3>2. CASE n \in sent
      <4>1. email_senders'[n] = 1 /\ n \notin outbox'
        BY <2>1, <2>3, <3>2 DEF InOnePlace
      <4>2. \A r \in rows : r.message_id # n
        BY <2>1, <2>3, <3>2 DEF InOnePlace
      <4>3. n \in published /\ n \notin Listed(queue)
        BY <2>3, <3>2 DEF InOnePlace, Untouched
      <4>4. ~(main \in {"read", "locked"} /\ n \in Listed(unacked))
        BY <2>3, <3>2 DEF InOnePlace, Untouched
      <4> HIDE DEF sent
      <4> QED
        BY <2>1, <2>3, <4>1, <4>2, <4>3, <4>4 DEF InOnePlace, broker
    <3>3. CASE n \notin sent
      <4>1. email_senders'[n] = email_senders[n]
        BY <2>1, <3>1, <3>3
      <4> HIDE DEF sent
      <4> QED
        BY <2>1, <2>3, <4>1 DEF InOnePlace, Untouched, broker
    <3> QED
      BY <3>2, <3>3
  <2> QED
    BY <2>1, <2>2, <2>3 DEF OnePlace
<1>18. CASE WorkerFails
  <2>1. BatchIsDue'
    BY <1>18 DEF WorkerFails, BatchIsDue
  <2>2. ASSUME NEW n \in MessageIds \ redelivered, InOnePlace(n)
        PROVE  InOnePlace(n)'
    BY <1>18, <2>2 DEF WorkerFails, InOnePlace, Untouched, broker, database,
                       consumer, history
  <2> QED
    BY <1>18, <2>1, <2>2 DEF WorkerFails, OnePlace, history
<1>19. CASE Backoff
  BY <1>19, QuietOnce DEF Backoff, broker, database, consumer, sender, history
<1>20. CASE ConnectionLost
  BY <1>20, NackOnce DEF ConnectionLost, database, sender
<1>21. CASE Signal
  BY <1>21, QuietOnce DEF Signal, Notified, Waiting, broker, database, sender, history
<1>22. CASE Kill
  BY <1>22, EndOnce DEF Kill
<1>23. CASE Exit
  BY <1>23, EndOnce DEF Exit
<1>24. CASE Start
  <2>1. worker = "ended" /\ worker' = "loop"
    BY <1>24 DEF Start, DownIsEnded
  <2> QED
    BY <1>24, <2>1, QuietOnce DEF Start, broker, database, sender, history
<1>25. CASE UNCHANGED vars
  BY <1>25, QuietOnce DEF vars, broker, database, consumer, sender, history
<1>26. ASSUME NEW user \in Users, NEW p \in Periods, ChangePeriod(user, p)
       PROVE  OnceInv'
  <2>1. BatchIsDue'
    BY <1>26 DEF ChangePeriod, BatchIsDue, Due, sender
  <2>2. ASSUME NEW n \in MessageIds \ redelivered, InOnePlace(n)
        PROVE  InOnePlace(n)'
    <3>1. UNCHANGED <<broker, main, worker, outbox, published, email_senders>>
      BY <1>26 DEF ChangePeriod, consumer, sender, history
    <3>2. \A r \in rows' : \E q \in rows : r.message_id = q.message_id
      BY <1>26, ShiftedMessages DEF TInv, TypeOK
    <3>3. \A r, s \in rows : r.message_id = n /\ s.message_id = n => r = s
      BY <2>2 DEF InOnePlace
    <3>4. \A r, s \in rows' : r.message_id = n /\ s.message_id = n => r = s
      <4>1. \A r \in rows' : r.message_id = n =>
               \/ r \in rows /\ Recipient[n] # user
               \/ \E q \in rows : /\ Recipient[n] = user /\ q.message_id = n
                                 /\ r = Shifted(q, p - period[user])
        <5>1. rows \subseteq Row
          BY DEF TInv, TypeOK
        <5>2. \A r \in rows' :
                \/ r \in rows /\ Recipient[r.message_id] # user
                \/ \E q \in rows : /\ Recipient[q.message_id] = user
                                  /\ r = Shifted(q, p - period[user])
                                  /\ r.message_id = q.message_id
          BY <1>26, <5>1, ShiftedRows
        <5> QED
          BY <5>2
      <4> QED
        BY <3>3, <4>1
    <3> QED
      BY <2>2, <3>1, <3>2, <3>4 DEF InOnePlace, Untouched, broker
  <2> QED
    BY <1>26, <2>1, <2>2 DEF ChangePeriod, OnePlace, history
<1> QED
  BY <1>1, <1>2, <1>3, <1>4, <1>5, <1>6, <1>7, <1>8, <1>9, <1>10, <1>11,
     <1>12, <1>13, <1>14, <1>15, <1>16, <1>17, <1>18, <1>19, <1>20, <1>21,
     <1>22, <1>23, <1>24, <1>25, <1>26
     DEF Next, MainThread, WorkerThread, Faults

\* A message is e-mailed twice only when its notice was delivered twice, for any
\* number of batches that are rolled back, of kills and of restarts
\* (queue_event_on_commit, and the delete of maybe_send_batched_emails)
THEOREM NoSecondEmail == Spec => []EmailedOnce
<1>1. Init => DownIsEnded /\ OnceInv
  <2> SUFFICES ASSUME Init
               PROVE  DownIsEnded /\ OnceInv
    OBVIOUS
  <2>1. DownIsEnded /\ BatchIsDue
    BY DEF Init, DownIsEnded, BatchIsDue
  <2>2. ASSUME NEW m \in MessageIds PROVE InOnePlace(m)
    <3>1. queue = <<>> /\ unacked = <<>>
      BY DEF Init
    <3>2. Unique(queue, m)
      BY <3>1 DEF Unique
    <3>3. Listed(queue) = {} /\ Listed(unacked) = {}
      BY <3>1, ListedSingle
    <3>4. rows = {} /\ outbox = {} /\ email_senders[m] = 0
      BY DEF Init
    <3> QED
      BY <3>2, <3>3, <3>4 DEF InOnePlace, Untouched
  <2> QED
    BY <2>1, <2>2 DEF OnceInv, OnePlace
<1>2. IInv /\ TInv /\ DownIsEnded /\ OnceInv /\ [Next]_vars =>
        DownIsEnded' /\ OnceInv'
  BY OnceStep, DownIsEndedStep
<1>3. TInv /\ OnceInv => EmailedOnce
  BY DEF OnceInv, OnePlace, InOnePlace, EmailedOnce, TInv, TypeOK
<1> QED
  BY <1>1, <1>2, <1>3, IInvAlways, TInvAlways, PTL DEF Spec
=============================================================================
