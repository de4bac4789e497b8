--------------------------- MODULE MissedMessages ---------------------------
(***************************************************************************)
(* The queue worker of the missed-message e-mails                          *)
(* (zerver/worker/missedmessage_emails.py): the main thread takes the      *)
(* notices from RabbitMQ and writes a row for each, the worker thread      *)
(* e-mails the rows that are due and deletes them, and a condition         *)
(* variable stands between the two.  Around them the signals of            *)
(* supervisord, the SIGALRM of consume, the loss of the connection to      *)
(* RabbitMQ or of the database, a kill, and the restart; and the web       *)
(* processes, where messages are deleted and users change how long their   *)
(* e-mails are held back.                                                  *)
(***************************************************************************)
EXTENDS Integers, Sequences, FiniteSets

CONSTANTS
    Users,
    MessageIds,     \* the messages that are missed
    Recipient,      \* whom each of them is to be e-mailed to
    Periods,        \* email_notifications_batching_period_seconds, the values
    Bounds          \* the bounds considered: how often users change their
                    \* periods, the process starts again, and raises, in either
                    \* thread

ASSUME MissedMessagesAssumption ==
    /\ Recipient \in [MessageIds -> Users]
    /\ Periods \subseteq Nat /\ Periods # {}
    /\ Bounds \subseteq [changes : Nat, starts : Nat, failures : Nat]

VARIABLES
    bound,          \* one of Bounds: nothing changes it
    queue,          \* missedmessage_emails: what RabbitMQ has not delivered
    unacked,        \* ... and what it has, and the consumer not acknowledged
    messages,       \* the messages that exist
    rows,           \* the table ScheduledMessageNotificationEmail
    now,
    period,         \* of each user, in seconds
    changes,
    main,           \* where the main thread is; "down" when there is no process
    scheduled_timestamp, \* the local variable of consume
    signal,         \* its handler: "none", or "joining" the worker thread
    terminating,    \* supervisord sent SIGTERM, SIGKILL will follow
    worker,         \* where the worker thread is
    has_timeout, stopping,
    current_time,   \* of maybe_send_batched_emails
    batch,          \* the rows that maybe_send_batched_emails selected
    outbox,         \* the messages whose e-mails go out on commit
    starts, failures,
    published,      \* history: the notices that were published,
    recorded,       \* ... those a row was written for, or found needless,
    errors,         \* ... those that went to the file of errors,
    redelivered,    \* ... and those that were delivered again
    moved,          \* history: the users whose rows were moved in the middle of
                    \* consume
    email_senders   \* history: how often each message was e-mailed

broker == <<queue, unacked>>
database == <<messages, rows>>
setting == <<bound, period, changes, moved>>
consumer == <<main, scheduled_timestamp, signal>>
condition == <<has_timeout, stopping>>
sender == <<current_time, batch, outbox>>
life == <<terminating, starts>>
history == <<published, recorded, errors, redelivered, email_senders>>
vars == <<broker, database, now, setting, consumer, worker, condition, sender,
          life, failures, history>>

Row == [id : Nat, message_id : MessageIds, scheduled_timestamp : Int]

RowsOf(user) == {r \in rows : Recipient[r.message_id] = user}

Listed(q) == {q[i] : i \in DOMAIN q}

Consuming == {"read", "locked", "inserted", "done"}

\* main holds cv between two of its steps, the worker thread within one only
Held == main \in {"locked", "inserted"}

Waiting == {"timed", "untimed", "backoff"}

Init ==
    /\ queue = <<>> /\ unacked = <<>>
    /\ messages = MessageIds
    /\ rows = {}
    /\ now = 0
    /\ bound \in Bounds
    /\ period \in [Users -> Periods] /\ changes = 0 /\ moved = {}
    /\ main = "idle" /\ scheduled_timestamp = 0 /\ signal = "none"
    /\ terminating = FALSE
    /\ worker = "loop"
    /\ has_timeout = FALSE /\ stopping = FALSE
    /\ current_time = 0 /\ batch = {} /\ outbox = {}
    /\ starts = 1 /\ failures = 0
    /\ published = {} /\ recorded = {} /\ errors = {} /\ redelivered = {}
    /\ email_senders = [m \in MessageIds |-> 0]

-----------------------------------------------------------------------------
(* Outside the worker.                                                     *)

\* maybe_enqueue_notifications of Tornado
Publish(m) ==
    /\ m \in messages \ published
    /\ queue' = Append(queue, m)
    /\ published' = published \cup {m}
    /\ UNCHANGED <<unacked, database, now, setting, consumer, worker,
                   condition, sender, life, failures, recorded, errors,
                   redelivered, email_senders>>

\* A message is deleted, and its rows with it; rows that are locked by
\* select_for_update make it wait
DeleteMessage(m) ==
    /\ m \in messages
    /\ \A r \in batch : r.message_id # m
    /\ messages' = messages \ {m}
    /\ rows' = {r \in rows : r.message_id # m}
    /\ UNCHANGED <<broker, now, setting, consumer, worker, condition, sender,
                   life, failures, history>>

Shifted(r, seconds) == [r EXCEPT !.scheduled_timestamp = @ + seconds]

\* The user's consumer is between the read of a pending row and the insert
Consumes(user) == main \in {"read", "locked"} /\ Recipient[Head(unacked)] = user

\* do_change_user_setting in a web process, which knows nothing of cv: the
\* user's rows are moved by the difference.  Rows that are locked by
\* select_for_update make it wait.
ChangePeriod(user, p) ==
    /\ p # period[user] /\ changes < bound.changes
    /\ changes' = changes + 1
    /\ \A r \in batch : Recipient[r.message_id] # user
    /\ period' = [period EXCEPT ![user] = p]
    /\ rows' = (rows \ RowsOf(user)) \cup
               {Shifted(r, p - period[user]) : r \in RowsOf(user)}
    /\ moved' = IF Consumes(user) THEN moved \cup {user} ELSE moved
    /\ UNCHANGED <<broker, messages, now, bound, consumer, worker, condition,
                   sender, life, failures, history>>

\* Time matters up to the moment when something is due
Advance ==
    \E r \in rows :
        /\ r.scheduled_timestamp > now
        /\ \A s \in rows : s.scheduled_timestamp > now
                            => s.scheduled_timestamp >= r.scheduled_timestamp
        /\ now' = r.scheduled_timestamp
        /\ UNCHANGED <<broker, database, setting, consumer, worker, condition,
                       sender, life, failures, history>>

-----------------------------------------------------------------------------
(* The main thread: consume, within do_consume and start_json_consumer.    *)

\* mutant: every notice gets a batch of its own
PendingNew(user) == {now + period[user]}

\* The timestamp of any row that the user has already, or a new one
PendingTimestamps(user) ==
    IF RowsOf(user) = {} THEN {now + period[user]}
    ELSE {r.scheduled_timestamp : r \in RowsOf(user)}

\* The notice is delivered; consume reads the pending row without the lock
ReadPending ==
    /\ main = "idle" /\ signal = "none"
    /\ queue # <<>>
    /\ queue' = Tail(queue)
    /\ unacked' = <<Head(queue)>>
    /\ main' = "read"
    /\ scheduled_timestamp' \in PendingTimestamps(Recipient[Head(queue)])
    /\ UNCHANGED <<database, now, setting, signal, worker, condition, sender,
                   life, failures, history>>

TakeLock ==
    /\ main = "read" /\ signal = "none"
    /\ main' = "locked"
    /\ UNCHANGED <<broker, database, now, setting, scheduled_timestamp, signal,
                   worker, condition, sender, life, failures, history>>

NewRow(m) ==
    [id |-> CHOOSE i \in 0..Cardinality(rows) : \A r \in rows : r.id # i,
     message_id |-> m, scheduled_timestamp |-> scheduled_timestamp]

Create ==
    LET m == Head(unacked) IN
    /\ main = "locked" /\ signal = "none"
    /\ m \in messages
    /\ rows' = rows \cup {NewRow(m)}
    /\ recorded' = recorded \cup {m}
    /\ main' = "inserted"
    /\ UNCHANGED <<broker, messages, now, setting, scheduled_timestamp, signal,
                   worker, condition, sender, life, failures, published,
                   errors, redelivered, email_senders>>

\* The IntegrityError of a message that no longer exists
Skip ==
    /\ main = "locked" /\ signal = "none"
    /\ Head(unacked) \notin messages
    /\ recorded' = recorded \cup {Head(unacked)}
    /\ main' = "done"
    /\ UNCHANGED <<broker, database, now, setting, scheduled_timestamp, signal,
                   worker, condition, sender, life, failures, published,
                   errors, redelivered, email_senders>>

\* cv.notify: whoever waits has to take the lock again
Notified == IF worker \in Waiting THEN "woken" ELSE worker

\* mutant: the worker is notified when it would have woken up anyway
NotifyTimed ==
    /\ main = "inserted" /\ signal = "none"
    /\ worker' = IF has_timeout THEN Notified ELSE worker
    /\ main' = "done"
    /\ UNCHANGED <<broker, database, now, setting, scheduled_timestamp, signal,
                   condition, sender, life, failures, history>>

\* The end of the critical section of consume
Notify ==
    /\ main = "inserted" /\ signal = "none"
    /\ worker' = IF has_timeout THEN worker ELSE Notified
    /\ main' = "done"
    /\ UNCHANGED <<broker, database, now, setting, scheduled_timestamp, signal,
                   condition, sender, life, failures, history>>

Ack ==
    /\ main = "done" /\ signal = "none"
    /\ unacked' = <<>>
    /\ main' = "idle"
    /\ UNCHANGED <<queue, database, now, setting, scheduled_timestamp, signal,
                   worker, condition, sender, life, failures, history>>

\* mutant: a notice that could not be processed stays unacknowledged
ConsumeLeaves ==
    /\ main \in {"read", "locked", "inserted"}
    /\ failures < bound.failures
    /\ failures' = failures + 1
    /\ errors' = errors \cup Listed(unacked)
    /\ main' = "idle"
    /\ signal' = "none"
    /\ UNCHANGED <<broker, database, now, setting, scheduled_timestamp, worker,
                   condition, sender, life, published, recorded, redelivered,
                   email_senders>>

\* SIGALRM, or another exception: the notice goes to the file of errors and is
\* acknowledged.  The exception leaves the handler of another signal, too.
ConsumeFails ==
    /\ main \in {"read", "locked", "inserted"}
    /\ failures < bound.failures
    /\ failures' = failures + 1
    /\ errors' = errors \cup Listed(unacked)
    /\ main' = "done"
    /\ signal' = "none"
    /\ UNCHANGED <<broker, database, now, setting, scheduled_timestamp, worker,
                   condition, sender, life, published, recorded, redelivered,
                   email_senders>>

-----------------------------------------------------------------------------
(* The worker thread.                                                      *)

\* background_loop up to its wait, under the lock
Loop ==
    /\ worker = "loop" /\ ~Held
    /\ IF stopping
       THEN worker' = "ended" /\ UNCHANGED has_timeout
       ELSE /\ has_timeout' = (rows # {})
            /\ worker' = IF rows # {} THEN "timed" ELSE "untimed"
    /\ UNCHANGED <<broker, database, now, setting, consumer, stopping, sender,
                   life, failures, history>>

\* wait_condition after a notification
Wake ==
    /\ worker = "woken" /\ ~Held
    /\ worker' = IF stopping \/ rows # {} THEN "loop" ELSE "untimed"
    /\ UNCHANGED <<broker, database, now, setting, consumer, condition, sender,
                   life, failures, history>>

\* The wait ends by its timeout: that of the loop, or that of the back-off
Timeout ==
    /\ worker \in {"timed", "backoff"} /\ ~Held
    /\ worker' = IF worker = "backoff" \/ stopping THEN "loop" ELSE "sending"
    /\ UNCHANGED <<broker, database, now, setting, consumer, condition, sender,
                   life, failures, history>>

\* The messages of the rows whose recipient got through
\* handle_missedmessage_emails; it fails, or finds nothing to send, for others
Emails(due, users) ==
    {r.message_id : r \in {d \in due : Recipient[d.message_id] \in users}}

\* mutant: the e-mails are handed over before the transaction commits
SelectBatchUnsafe ==
    /\ worker = "sending"
    /\ worker' = "batch"
    /\ current_time' = now
    /\ batch' = {r \in rows : r.scheduled_timestamp <= now}
    /\ outbox' = {}
    /\ \E users \in SUBSET Users :
          email_senders' = [m \in MessageIds |->
              email_senders[m] + IF m \in Emails(batch', users) THEN 1 ELSE 0]
    /\ UNCHANGED <<broker, database, now, setting, consumer, condition, life,
                   failures, published, recorded, errors, redelivered>>

\* maybe_send_batched_emails: the rows that are due, read for update.  The
\* e-mails made of them go to RabbitMQ when the transaction has committed.
SelectBatch ==
    /\ worker = "sending"
    /\ worker' = "batch"
    /\ current_time' = now
    /\ batch' = {r \in rows : r.scheduled_timestamp <= now}
    /\ \E users \in SUBSET Users : outbox' = Emails(batch', users)
    /\ UNCHANGED <<broker, database, now, setting, consumer, condition, life,
                   failures, history>>

Due(r) == r.scheduled_timestamp <= current_time

\* events_to_process.delete(), a query of its own, and the commit
DeleteBatch ==
    /\ worker = "batch"
    /\ worker' = "committed"
    /\ rows' = {r \in rows : ~Due(r)}
    /\ batch' = {}
    /\ UNCHANGED <<broker, messages, now, setting, consumer, condition,
                   current_time, outbox, life, failures, history>>

\* The queue_event_on_commit of one recipient
SendEmails(user) ==
    LET sent == {m \in outbox : Recipient[m] = user} IN
    /\ worker = "committed"
    /\ sent # {}
    /\ outbox' = outbox \ sent
    /\ email_senders' = [m \in MessageIds |->
                            email_senders[m] + IF m \in sent THEN 1 ELSE 0]
    /\ UNCHANGED <<broker, database, now, setting, consumer, worker, condition,
                   current_time, batch, life, failures, published, recorded,
                   errors, redelivered>>

BatchSent ==
    /\ worker = "committed"
    /\ outbox = {}
    /\ worker' = "loop"
    /\ UNCHANGED <<broker, database, now, setting, consumer, condition, sender,
                   life, failures, history>>

Failing == \/ worker \in {"loop", "woken"} /\ ~Held
           \/ worker \in {"sending", "batch", "committed"}

\* mutant: the exception ends the thread
WorkerDies ==
    /\ Failing
    /\ failures < bound.failures
    /\ failures' = failures + 1
    /\ worker' = "ended"
    /\ batch' = {} /\ outbox' = {}
    /\ UNCHANGED <<broker, database, now, setting, consumer, condition,
                   current_time, life, history>>

\* An exception leaves background_loop, and rolls a transaction back; e-mails
\* of a committed one that are not published yet are gone
WorkerFails ==
    /\ Failing
    /\ failures < bound.failures
    /\ failures' = failures + 1
    /\ worker' = "failed"
    /\ batch' = {} /\ outbox' = {}
    /\ UNCHANGED <<broker, database, now, setting, consumer, condition,
                   current_time, life, history>>

Backoff ==
    /\ worker = "failed" /\ ~Held
    /\ has_timeout' = TRUE
    /\ worker' = "backoff"
    /\ UNCHANGED <<broker, database, now, setting, consumer, stopping, sender,
                   life, failures, history>>

-----------------------------------------------------------------------------
(* The process: signals, faults and restarts.                              *)

\* signal_handler, in the main thread wherever it is: stop() up to its join.
\* The condition variable has a reentrant lock.
Signal ==
    /\ main # "down" /\ signal = "none" /\ ~terminating
    /\ starts < bound.starts
    /\ terminating' = TRUE
    /\ stopping' = TRUE
    /\ worker' = Notified
    /\ signal' = "joining"
    /\ UNCHANGED <<broker, database, now, setting, main, scheduled_timestamp,
                   has_timeout, sender, starts, failures, history>>

\* mutant: basic_nack without requeue
Discarded == queue

\* Where RabbitMQ puts what was not acknowledged
Requeued == unacked \o queue

\* The consumer is gone: its notice will be delivered again
Nack ==
    /\ queue' = Requeued
    /\ unacked' = <<>>
    /\ redelivered' = redelivered \cup Listed(unacked)
    /\ UNCHANGED <<published, recorded, errors, email_senders>>

End ==
    /\ Nack
    /\ main' = "down" /\ signal' = "none"
    /\ worker' = "ended"
    /\ has_timeout' = FALSE /\ stopping' = FALSE
    /\ batch' = {} /\ outbox' = {}
    /\ terminating' = FALSE
    /\ UNCHANGED <<database, now, setting, scheduled_timestamp, current_time,
                   starts, failures>>

\* The worker thread was joined; sys.exit nacks on its way out of the consumer
Exit == signal = "joining" /\ worker = "ended" /\ End

Kill == main # "down" /\ starts < bound.starts /\ End

\* supervisord waits for stopwaitsecs
KillTerminating == terminating /\ Kill

\* start_json_consumer raises; sys.exit of the main thread waits for the worker
\* thread, which is not a daemon and knows nothing of it
ConnectionLost ==
    /\ main \in {"idle", "done"} /\ signal = "none"
    /\ failures < bound.failures
    /\ failures' = failures + 1
    /\ main' = "exited"
    /\ Nack
    /\ UNCHANGED <<database, now, setting, scheduled_timestamp, signal, worker,
                   condition, sender, life>>

Start ==
    /\ main = "down"
    /\ starts < bound.starts
    /\ starts' = starts + 1
    /\ main' = "idle"
    /\ worker' = "loop"
    /\ UNCHANGED <<broker, database, now, setting, scheduled_timestamp, signal,
                   condition, sender, terminating, failures, history>>

-----------------------------------------------------------------------------

MainThread == ReadPending \/ TakeLock \/ Create \/ Skip \/ Notify \/ Ack

WorkerThread ==
    \/ Loop \/ Wake \/ Timeout \/ SelectBatch \/ DeleteBatch \/ BatchSent
    \/ Backoff
    \/ \E user \in Users : SendEmails(user)

Faults == ConsumeFails \/ WorkerFails \/ ConnectionLost \/ Signal \/ Kill

Next ==
    \/ \E m \in MessageIds : Publish(m) \/ DeleteMessage(m)
    \/ \E user \in Users, p \in Periods : ChangePeriod(user, p)
    \/ Advance
    \/ MainThread
    \/ WorkerThread
    \/ Faults
    \/ Exit
    \/ Start

Spec == Init /\ [][Next]_vars

\* The threads run, time passes, and supervisord restarts the worker, killing
\* it when it does not end upon SIGTERM
FairSpec ==
    /\ Spec
    /\ WF_vars(MainThread)
    /\ WF_vars(WorkerThread)
    /\ WF_vars(Advance)
    /\ WF_vars(Exit)
    /\ WF_vars(KillTerminating)
    /\ WF_vars(Start)

-----------------------------------------------------------------------------

Threads == {"loop", "timed", "untimed", "woken", "sending", "batch", "committed",
            "failed", "backoff", "ended"}

\* The types of the variables, with one notice unacknowledged exactly while
\* it is consumed
TypeOK ==
    /\ queue \in Seq(MessageIds) /\ unacked \in Seq(MessageIds)
    /\ main \in Consuming \cup {"idle", "exited", "down"}
    /\ Len(unacked) = IF main \in Consuming THEN 1 ELSE 0
    /\ messages \subseteq MessageIds
    /\ rows \subseteq Row /\ batch \subseteq rows
    /\ {r.message_id : r \in rows} \subseteq messages
    /\ now \in Nat /\ scheduled_timestamp \in Int /\ current_time \in Nat
    /\ bound \in Bounds
    /\ period \in [Users -> Periods] /\ changes \in 0..bound.changes
    /\ moved \subseteq Users
    /\ signal \in {"none", "joining"}
    /\ worker \in Threads
    /\ {terminating, has_timeout, stopping} \subseteq BOOLEAN
    /\ outbox \subseteq MessageIds
    /\ starts \in 1..(1 + bound.starts) /\ failures \in 0..bound.failures
    /\ published \cup recorded \cup errors \cup redelivered \subseteq MessageIds
    /\ email_senders \in [MessageIds -> Nat]

\* The worker thread never sleeps without a timeout when it has something to
\* do: it is notified of the first row and of the end.  The row of a notice
\* that ConsumeFails interrupted between the insert and the notify is the
\* exception.  (consume's comment on its cases 1 to 3, and stop)
WakesUp ==
    worker = "untimed" =>
        /\ ~stopping
        /\ main = "inserted" \/ \A r \in rows : r.message_id \in errors

\* All rows of a user are due at the same time, whatever was e-mailed, deleted,
\* delivered again or moved to another period, so that a user gets one batch
\* (the first comment of consume).  A change of the period between the read of
\* the pending row and the insert is the exception (user_settings.py l.413-426):
\* it moves the one, and not the other.
OneBatch ==
    \A r, s \in rows :
        /\ Recipient[r.message_id] = Recipient[s.message_id]
        /\ Recipient[r.message_id] \notin moved
        => r.scheduled_timestamp = s.scheduled_timestamp

\* Whatever is killed, stopped or disconnected in the middle of consume: a
\* notice is in RabbitMQ until there is a row for it, it was found needless,
\* or it went to the file of errors (the nack of start_json_consumer)
NoticesSurvive ==
    published \subseteq Listed(queue) \cup Listed(unacked) \cup recorded \cup errors

\* A message is e-mailed twice only when its notice was delivered twice: a
\* batch that is rolled back and selected again sends nothing the first time
\* (queue_event_on_commit), and a row of the batch is deleted with it
EmailedOnce ==
    \A m \in MessageIds : email_senders[m] > 1 => m \in redelivered

\* No row that was not in the batch is deleted with it
BatchOnlyIsDeleted ==
    [][\A r \in rows \ rows' : r \in batch \/ r.message_id \notin messages']_vars

\* The table is emptied again and again, through failures, back-offs, stops
\* that block and restarts; rows of interrupted notices may wait for the next
\* notice
RowsGoOut == []<>(\A r \in rows : r.message_id \in errors)

\* Every notice is taken from RabbitMQ, unless the main thread has lost its
\* connection and nobody sends a signal
NoticesAreTaken == []<>(main = "exited" \/ queue \o unacked = <<>>)
=============================================================================
