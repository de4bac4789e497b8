# A TLA+ development of Diapyr, the debate engine in this fork of Zulip

Diapyr adds debates to Zulip. Users subscribe to a debate; a bot divides them
into groups, gives each group a channel, lets it talk, has it vote for its
representatives, eliminates everybody else and divides the representatives
again, until one group is left. This directory holds TLA+ modules of that
machinery, the TLC configurations that check them on small instances, and
proofs that TLAPS checks for every instance.

Source paths below are relative to `src/zerver/`.

## 1. Inventory

### The parts that are Diapyr

| part | source | state it keeps | operations |
|---|---|---|---|
| tables | `models/debat.py` | rows of `Debat`, `Participant`, `Group`, `GroupParticipant`, `Vote`, `GroupVote` | Django's `save()` (whole row), `save(update_fields=...)`, `filter().update()` |
| division into groups | `lib/split_into_groups.py` | none | `split_into_groups`, and the simulation of a debate `phase2_preparation` |
| debate engine | `lib/diapyr.py`, `management/commands/diapyrbot.py` | one process: main loop with the rows of the current check, one thread per debate with its `Debat` object | `check_and_create_channels`, `next_step`, `run_steps`, `create_streams_for_groups_db_via_api`, `archive_all_groups`, `terminate_diapyr` |
| vote | `lib/debat_vote.py` | local dictionaries of the debate's thread | `start_vote_procedure`, `collect_responses`, `send_poll`, `process_poll_result` |
| ballots | `actions/process_debat_form.py`, `views/submessage.py` | none, writes the tables | `process_diapyr_submessage`, one transaction per submission |
| subscription | `actions/subscribe_debat.py`, `views/subscribe_debat.py` | none | `do_subscribe_user_to_debat`, one transaction |
| creator's parameters | `views/diapyr.py` | none | `show_debates_detail` (POST), one transaction |
| creation | `actions/create_debat.py` | none | `do_create_debat` |
| poll widget | `web/shared/src/poll_data.ts` (in `src/`) | the options and selections a client displays | `new_option`, `vote` |
| moderation bot | `lib/moderate_debat.py` | counters in memory of the bot's listener thread | `handle_message` |

### The parts of Zulip that carry it

| part | source | state it keeps | operations |
|---|---|---|---|
| event queues | `tornado/event_queue.py`, `tornado/handlers.py`, `tornado/descriptors.py`, `tornado/views.py`, `management/commands/runtornado.py` | in the memory of one process: a descriptor with a queue for each browser window, the requests that wait; a file while the process is down | `push`, `contents`, `prune`, `fetch_events`, `add_event`, `gc_event_queues`, `dump_event_queues`, `load_event_queues` |
| polling loop of the web client | `web/src/server_events.js` (in `src/`) | queue id, last event id, the request in flight | `get_events`, `get_events_success`, `cleanup_event_queue` |
| missed-message worker | `worker/missedmessage_emails.py`, `worker/base.py`, `lib/queue.py`, `management/commands/process_queue.py` | the table `ScheduledMessageNotificationEmail`, a condition variable and two flags, the notice that is not acknowledged | `consume`, `background_loop`, `maybe_send_batched_emails`, `stop` |

How they interact:

- The **main loop** polls the tables every five seconds. When the registration
  of a debate is over it divides the participants, calls Zulip's HTTP API to
  make the channels, marks the debate `debat_created` and starts a **thread**
  for it. The loop and the threads share the database and nothing else.
- A **thread** repeats: sleep, vote, eliminate, archive the groups, next round.
- The **web server** writes the same rows from other processes: subscriptions
  and parameters read a `Debat` row and save *all* of it.
- The **members** answer the bot in private messages and submit their ballots
  to the poll that the bot posted in the group's channel.
- A message, a poll or a submission reaches the members as a **notice**: a web
  server publishes it to RabbitMQ, **Tornado** takes it from there and puts it
  as an event into the queue of each open page, and the page fetches it with a
  long poll. A message of a member whose queues are all gone goes on, through
  RabbitMQ again, to the **missed-message worker**, which e-mails it later.

What is hard here: processes that save stale copies of a row; a kill or SIGINT
between two steps of a creation; refused API calls in the middle of a round;
threads that die with an exception; counting while ballots move; submissions
that arrive early, late or twice; arithmetic at the boundaries; in the event
system, polls that are lost, repeated or supplanted and a process that is
restarted with its queues; in the worker, a condition variable between two
threads that exceptions and signals interrupt anywhere. There is no
test of Diapyr in the repository. `PROJECT.json` lists each hazard at its line
with the properties that are about it.

What makes each part correct:

- division: everybody in exactly one group, groups within the limit and
  balanced;
- engine: nobody in two groups of a round that are polled and counted; nobody in
  the channels of two groups, unless the round is divided twice; an eliminated
  participant stays out; one round of a debate open at a time; one thread in a
  round; what the tables record is a tournament; a debate that started ends;
- vote: nobody has more votes than there are voters; two thirds win; no seat is
  left empty while somebody with a vote is left out; nobody votes for another
  member; at most `max_representant` are elected, once; the vote ends, in
  one of the ways that are known;
- event queues: a page gets what was put into its queue, each event once and
  those of a kind in order; no request waits while there is something to
  fetch, and none waits unattended; no message is forgotten with the last queue
  of its reader; an open page catches up;
- missed-message worker: no notice is lost before it has its row; one batch for
  a user, also when the batching period changes; nothing is e-mailed twice; the worker thread wakes up; the table and
  the RabbitMQ queue empty.

### The rest

The rest of the repository is upstream Zulip: message sending, channels,
initial state, push notifications, billing, the web client. It is listed in
`PROJECT.json` with the reason it is left out.

## 2. Modules

| module | models | lines about it |
|---|---|---|
| `GroupSplit` | sizes and divisions of `split_into_groups`, the simulation of `phase2_preparation` | pure operators; the simulation is a recursive function on the number of participants |
| `SplitLoop` | the slicing loop, one iteration per step | extends `GroupSplit` |
| `DebateEngine` | tables, main loop, debate threads, subscription and parameter requests, SIGINT, kill and restart | extends `GroupSplit` |
| `Tournament` | *abstract*: the tournament that the tables of a debate record | implemented by `DebateEngine` (`IsATournament`) |
| `VoteRound` | the vote of one group, with the submissions of its members | |
| `Election` | *abstract*: at most `Seats` members are elected, once, or the vote fails | implemented by `VoteRound` (`IsAnElection`); it is all that `DebateEngine` assumes of a vote |
| `EventQueue` | class `EventQueue`: one queue of events | operators on a record |
| `Tornado` | the descriptors and queues of one user, RabbitMQ, the long polls, the browsers, restarts | extends `EventQueue` |
| `EventDelivery` | *abstract*: the events of a kind arrive once each and in order, unless the queue was cut | implemented by `Tornado` (`DeliversInOrder`) |
| `MissedMessages` | both threads of the missed-message worker, its broker, table, signals and restarts; the web processes that delete messages and change a user's batching period | |
| `MC...` | instances for TLC | |
| `DebateEngineProofs`, `DebateRoundsProofs` | theorems about `DebateEngine`: its tables and names; its rounds and the refinement of `Tournament` | the second extends the first |
| `SplitLoopProofs`, `VoteRoundProofs`, `MissedMessagesProofs` | theorems about `SplitLoop`, `VoteRound` and `MissedMessages` | |
| `EventQueueProofs` | lemmas about one queue of events | no theorem of its own is listed |
| `TornadoProofs`, `TornadoDeliveryProofs` | theorems about `Tornado`: its types and its polls; its queues, pages and messages, and that it implements `EventDelivery` | each extends the one before |

Definitions whose comment begins with "mutant" are altered copies of the
definition that follows them. Nothing uses them; they record, for every
property, a plausible mistake in the code that the property finds.

### DebateEngine

State: `row[d]` is the `Debat` row (`step`, `round`, `debat_created`,
`is_archived`, `vote_phase`, `max_per_group`, `max_representant`,
`start_date`); `joined`, `active` and `representative` are the `Participant`
rows and their two flags; `groups` is the `Group` table in the order of its
ids, where `stream` says that the one-to-one field to the channel is set;
`subscribed` has the pairs of a channel's name and a user for whom the bot asked
`add_subscriptions`.

A process that holds a `Debat` object holds a *copy of the row* in the model:
`main.todo[i].obj`, `threads[t].obj`, and `row` in each request. `save()`
assigns the whole copy, `save(update_fields=[f])` only the field. All
interleavings of these reads and writes are explored.

| action | code |
|---|---|
| `BeginCheck`, `PassOver`, `EndCheck` | the query, the skipped rows and the end of `check_and_create_channels`, with the installation of the signal handler after the first check |
| `Prepare`, `NotYet`, `Launch` | step 2 with the stale `save()`; the start date not reached; step 3, the save and `split_into_group_db`, with the `break` when there is one group |
| `MainSubscribe`, `MainLink`, `MainLinkFails`, `StartThread` | one group of `create_streams_for_groups_db_via_api`: the subscriptions, then the save of `Group.stream`; its `sys.exit`; `debat_created` and the new thread |
| `Finish`, `AskParticipants`, `SendPolls`, `CountVotes` (and `...Fails`) | `next_step` up to the end of `start_vote_procedure`, with the exceptions that end the thread |
| `Eliminate`, `OpenRound`, `ThreadSubscribe`, `ThreadLink`, `ThreadLinkFails`, `RoundOpened`, `Close` | elimination and archiving, the next round, the termination protocol |
| `Sigint`, `Interrupt`, `Restart` | `terminate_diapyr`; a SIGINT in the first check, before the handler is installed, which ends the main thread and not the threads it has started; the process killed and run again |
| `Subscribe`, `CommitSubscription`, `RepeatSubscription`, `RejectSubscription` | read and commit of `do_subscribe_user_to_debat`; what becomes of a second request of the same user: `add()` finds the first one and the stale row is saved all the same, or both insert and the unique constraint rejects one |
| `SubmitParameters`, `CommitParameters` | read and commit of `show_debates_detail` |

Abstractions: time is a small counter that every process reads; texts and
notifications are left out; the shuffle is a choice of any division with the
right sizes; a vote is any choice of at most `max_representant` members of each
group, which is what `Election` promises and `VoteRound` is shown to keep. The
elimination of all participants of a debate is one step: the flag it reads and
the flag it writes are written by no other process, except by the vote of
another debate. A channel keeps its name when it is archived, so that
a name is taken for good.

A group gets its channel in two steps. The API call subscribes the members to
the channel *of that name*, whoever made it (`Seats`); the save of
`Group.stream` follows, and fails if another group has that channel. So the
second division of a round, or the debate of a namesake, never links a group, but
its members are in the first one's channels by then. Therefore the statements
about groups are of two kinds. `LinkedGroupsDisjoint`, `GroupsInv` and
`IsATournament` are about the rows that are linked, which are those that the bot
polls, counts and archives. `ChannelsApart` is about the subscribers of channels,
and holds of rounds that were divided once. The call is refused at any time when
`ApiMayFail`, before it subscribes anybody or after it. Users who subscribe or
unsubscribe themselves are not modelled, nor is the bot's own subscription; that
the server may refuse to add somebody to an archived channel is left open.

### VoteRound

State: the columns of `GroupParticipant`, the `Vote` row (`state`, `linked` for
`vote_message`), `ballots` for the `GroupVote` rows, `shown` for the selections
that the poll displays, and the locals of the bot. A submission holds the row
lock of the poll's message until it commits, so it is one step; one that raises
is rolled back, so it is no step. The bot takes no lock: each of its queries is
a step of its own. A private message that cannot be fetched leaves
`is_interested` unset, which for `representant_candidates` is the same as a
refusal, so that under `ApiMayFail` any answer may count as one (`Collect`).

Four exceptions end the debate's thread in a vote, and are actions or outcomes:
a poll that is refused, or whose answer is lost after the message was posted
(`SendPollFails`, place `"refused"`); a sample that is larger than the group or whose
size is `None` (`ChooseFails`); and a comparison with `None` (`DecideFails`).
`max_representant` is null by default, and `Limited` says that it is not.

### EventQueue and Tornado

State: `clients[q]` is the descriptor of a queue, with its `event_queue` and its
`current_handler_id`; `handlers[h]` is the request with that handler id, which
waits or has its answer; `browser[b]` is a page with its queue id, its
`last_event_id` and its `get_events_xhr`. An event does not carry a payload but
the notices it stands for: several of them when updates of a message flag were
compressed into one virtual event, so that the properties can say which notices
a page got. Two kinds of notices are enough, one that is appended to the queue
and one that is compressed; heartbeats and restart events are made by the server.
The sort in `contents()` is `InIdOrder`: ids differ, so an event goes to the place
that the number of smaller ids gives it.

| action | code |
|---|---|
| `ProcessNotification` | `process_notification`, `add_event` for each queue of the user, and the acknowledgement after it; `receiver_is_off_zulip` for a user without a queue |
| `Poll` | `fetch_events`: unknown queue, refused id, answered at once, or waiting after the earlier poll was finished |
| `Receive`, `Abort` | `success`, `error` and `abort` of `get_events`; an answer whose page has gone is taken by nobody |
| `OnConnectionClose` | `on_connection_close`, at any time after the page went or the connection broke |
| `Heartbeat` | the time-out of `connect_handler` |
| `GcEventQueues`, `CleanupEventQueue` | `do_gc_event_queues` with `missedmessage_hook`, for any idle queues, or for one whose page was closed |
| `DumpEventQueues`, `Stop`, `SetupEventQueue` | the exit stack of `runtornado`, the end of the process (also without the dump), load and restart events |
| `Register`, `Leave` | the registration of a page that is loaded, and a page that goes without cleaning up |

Abstractions: one user, because descriptors of different users share nothing
but the handler ids; a queue that has no handler may be collected at any time,
which includes every order of time-outs; `finish_handler` schedules the answer
for the next turn of the loop, and here gives it at once, because the answer
holds the events already. Handler ids are reused once they are free, except 0,
which the code tests for truth: it is given to the first request of a process
only. `dont_block` is chosen freely at each poll. Retries of `wrapped_process_notification` are left out: nothing in
`process_event` raises in normal operation.

`sent` and `received` of `EventDelivery` are the histories `pushed` and `got`.
`cut` holds the queues that changed between the dump and the end of the process:
their page may be given old events again, and ids that mean something else.

### MissedMessages

State: `queue` and `unacked` are RabbitMQ's queue `missedmessage_emails`; `rows`
is the table; `main` and `worker` are the places of the two threads; `has_timeout`
and `stopping` the flags that `cv` guards; `batch` the rows locked by
`select_for_update`, and `outbox` the e-mails that `queue_event_on_commit` holds
back until the commit.

| action | code |
|---|---|
| `ReadPending`, `TakeLock`, `Create`, `Skip`, `Notify`, `Ack` | `consume` from the delivery to the acknowledgement |
| `ConsumeFails` | SIGALRM after `MAX_CONSUME_SECONDS`, or any exception: the notice goes to the file of errors and is acknowledged |
| `Loop`, `Wake`, `Timeout` | `background_loop` with `wait_condition` |
| `SelectBatch`, `DeleteBatch`, `SendEmails`, `BatchSent` | `maybe_send_batched_emails` up to the commit, and the callbacks after it, one for each recipient |
| `WorkerFails`, `Backoff` | an exception anywhere in the worker thread, and the wait of `work` |
| `Signal`, `Exit` | the handler of SIGTERM in the main thread, at any of its steps: `stop()`, the join, `sys.exit` with the nack on the way out |
| `Kill`, `KillTerminating`, `ConnectionLost`, `Start` | SIGKILL, that of supervisord after `stopwaitsecs`, `start_json_consumer` that raises, the next start |
| `Publish`, `DeleteMessage`, `Advance` | Tornado, a message that is deleted with its rows, time |
| `ChangePeriod` | `do_change_user_setting` for `email_notifications_batching_period_seconds`: a web process moves the rows of the user by the difference, without `cv` |

The main thread holds `cv` between two of its steps (`Held`), and then the worker
thread takes none that needs it; the worker thread holds it within one step
only. Time moves to the next moment at which something is due: what is due later
is alike. A change of the period waits for rows that `select_for_update` has
locked. When it falls between the two database operations of a `consume` for the
same user (`Consumes`), the user is recorded in `moved`. Two changes of one user at the same
time, and a `consume` that still has the old period from the cache, are not
modelled. Which recipients' e-mails `handle_missedmessage_emails` sends is a
choice, because it may find a message read meanwhile, or fail.

### What the types leave out

`max_per_group` 0 or below and a `start_date` of `None` would raise in the main
loop; the forms that write these columns refuse or always set them, so the types
do too. `eliminated` in `next_step` would be unbound if no participant were
active at the loop; `AskParticipants` has just found at least two, and only a second
thread of the same debate could eliminate them meanwhile, which
`OneThreadInARound` excludes.

## 3. Runs

Every passing run ends with the full state space explored. Between them they
take every action of every module.

| run | instance | what it shows |
|---|---|---|
| `split` | populations 0..17, limits 0..7 | the loop of `split_into_groups`; every remainder for every limit occurs, also 0 and more groups than the limit |
| `subscribe` | one debate, two participants and a late one with two requests, groups of one, API failures, one restart, two threads, two rounds | second division after a crash, partial rounds, SIGINT before and after its handler; a subscription committed at any time brings nobody back; the channels of a round that is divided once share nobody |
| `parameters` | one debate without `max_representant`, two participants, one request of the creator, start date after the registration | the request's stale row undoes `debat_created` and the debate is launched again while its thread runs |
| `ends` | two debates with one title, four participants in both, one representative for each group of two, fair bot | channels with one name; `GroupsInv`, the invariant of the proof; the debate that was started is archived |
| `vote_pair` | two members, and one seat and two names, three seats and one name, or no number of seats; one option added by each; requests of the bot that are refused | the vote, with every order of casting, withdrawing and counting; options that are hidden or added; the ways in which it fails |
| `events` | one or two pages of one user, five combinations of bounds: a restart with one queue; a restart and a second registration; two pages and the collection of both; a poll that supplants another; three notices with flags before and after a message | the delivery of events, the polls, the collection and the reload |
| `mails` | two messages for one user, batching periods of one and two; two starts and two failures, or one start, one failure and a change of the period | the missed-message worker, with every order of its two threads, of the faults and of the change |

Bounds, all named in the constants: `Horizon`, `MaxRequests`, `MaxThreads`,
`MaxRound`, `MaxGroups`, `MaxRestarts` in the engine, `MaxVoteCount` and
`MaxSelections` in the vote. Two participants in groups of one are the smallest
debate that is divided, votes and reaches a last round of one group; one
request in flight is enough for a lost update and two for the unique
constraint; one restart is enough for a second division, and a third one meets
the same taken names as the second. The five groups of `subscribe` are two
divisions of two participants and the group of the next round, or one division
of three and part of a second. In `VoteRound` a second vote count is
enough for a submission that is counted twice and for the votes of both members,
and two selections at once for one option of both or both options of one; selections
that are withdrawn make room for others. In `subscribe` and
`parameters`, users that are alike in the initial state are symmetric. The names
and seats of a vote are given in its initial state and never change, so that one
run covers several instances.

`Bounds` of `Tornado` is a set, for the same reason: the bounds of an instance
are chosen in the initial state, so that each hazard gets the notices, queues,
requests, heartbeats and starts that it needs, and no instance has all of them.
Two queues are enough for the order of a collection to matter, two requests for
one to supplant the other, and three notices for a compressed event that moves
over a message. `Bounds` of `MissedMessages` bounds the starts, the failures and the
changes of the period in the same way; two messages of one user are the smallest batch; the e-mails of different users
are independent.

Deadlock is not checked: every instance ends when its bounds are reached, the
vote of a group ends, the bot really stops after SIGINT or a refused call, and
with no more notices, pages or faults Tornado and the worker wait.

Fairness is used in four runs (`ends`, `vote_pair`, `events`, `mails`). `FairSpec` of the engine: time passes, the main
loop goes on (it sleeps five seconds and its calls return), and each thread
goes on (its waits are `time.sleep`). Nothing is assumed of users, requests,
SIGINT or restarts. `FairSpec` of the vote: the bot's thread goes on; nothing is
assumed of the members, who may toggle for ever or never answer. `FairSpec` of `Tornado`: the
loop processes its notices, supervisord starts the process again, the end of a
connection that its page left is noticed, and an attentive page polls and
receives. The last two are strong fairness: a poll is disabled while
another page has taken the requests of the bound, or while the process is down,
and an answer is so when its connection breaks; the page tries again for
ever (`get_events` schedules itself after every success and every error), and
one of infinitely many answers arrives. Nothing is assumed of heartbeats,
collections or users. `FairSpec` of `MissedMessages`: each thread goes on, time
passes, and supervisord starts the process and kills one that does not end
upon SIGTERM. Nothing is assumed of failures, signals or of a process that lost its
connection.

### Divergences

A comment, docstring or message in the repository says something that the code
does not do. Five of these statements are properties whose runs end in a
violation; `PROJECT.json` has both places under `findings`.

| run | statement that fails |
|---|---|
| `channels` | members are subscribed to their own group's channel only (`lib/diapyr.py:327`, of the internal twin of the function) |
| `elimination` | whoever goes on was elected by the vote that has just ended (`lib/diapyr.py:179`) |
| `vote_early` | a selection on the poll is counted (`actions/process_debat_form.py:85`) |
| `events_reload` | the queues are saved and reloaded when the server is restarted (`src/docs/subsystems/events-system.md:172`) |
| `mails_lost` | a row that is inserted beside a running batch is seen later (`worker/missedmessage_emails.py:69`) |

In `channels` it takes a kill between the first link and the save of
`debat_created`; two debates of one title (`SameTitle`) give the same without
any fault, as soon as both are divided.

Others need an instance of their own, which is easily made from a
configuration that is here:

- after SIGINT has archived a debate, its thread, which is no daemon and is told
  nothing, opens the groups of the next round (`lib/diapyr.py:53`), although the
  participants are told that the debate was stopped (l.48);
- with two representatives for each group of two (`max_representant = 2` in the
  row of `ends`), three survivors leave a group of one, `random.sample` raises
  (`lib/debat_vote.py:212`), and the debate is never archived, against
  `lib/diapyr.py:248`: `DebateEnds` fails;
- the key of an option that a member added is taken for the candidate with the
  same index (`actions/process_debat_form.py:33`), who gets a vote that the poll
  does not show for him, although the first message of the poll "contains all the
  options (Candidates) of the form" (l.56): the invariant `OwnChoice` fails with
  `AddedOptions = {1}`. `RowsAreShown` is what is left of it: nobody votes in the
  name of another member, and the number is that of a selection of his own;
- a change of the batching period between the read of a pending row and the insert
  of the next one (`worker/missedmessage_emails.py:59` and l.97,
  `actions/user_settings.py:424`) moves the first and not the second: the rows of
  one user have two timestamps, against "use the same scheduled timestamp"
  (`worker/missedmessage_emails.py:50`), and he gets two e-mails. `OneBatch` without the
  condition on `moved` fails in `mails`;
- a withdrawal that is submitted twice lowers `vote_count` twice, and the
  withdrawal of another member is then refused
  (`actions/process_debat_form.py:110`).

The models show others in one or two steps, and no run is spent on them:

- the debate opens one round more than `num_rounds`, which the creator was
  shown (`lib/split_into_groups.py:98`), because `eliminated` is computed from
  a list without the eliminated (`lib/diapyr.py:188`);
- the single group of that round has no `GroupParticipant`
  (`lib/diapyr.py:89`), though "a group is a collection of participants"
  (`models/debat.py:177`);
- a check takes a debate that could not be created from step 3 back to step 2
  (`lib/diapyr.py:392`);
- a debate with one group ends the check with `break`, so that the debates
  behind it in the list are never created (`lib/diapyr.py:406`);
- the row that a check read before the creator's request is saved whole after
  it (`lib/diapyr.py:393`): "updated successfully" (`views/diapyr.py:183`) is
  undone;
- a selection that is submitted twice raises `vote_count` twice
  (`actions/process_debat_form.py:100`), which is no more the "number of votes
  received" (`models/debat.py:234`);
- without a voter the threshold is 0 and a random sample is elected when there
  are more candidates than seats (`lib/debat_vote.py:145`), against l.209;
- ballots are added and removed after "le vote … est terminé"
  (`lib/debat_vote.py:254`), because the vote's state is never read
  (`actions/process_debat_form.py:48`);
- handler id 0 is false in `disconnect_handler` (`tornado/event_queue.py:291`): it
  stays in the table of handlers, and when its connection closes, the
  descriptor loses the handler it has by then, whose request waits unattended,
  without a heartbeat. `PollsAttended` names the exception;
- two queues of one user that are collected together both count as the last one,
  and the user is notified of their messages twice;
- the compression of flag updates moves them behind later events, as the code
  says itself (`tornado/event_queue.py:386`); `EventDelivery` promises the order
  within a kind only;
- `last_connection_time` is set by a poll that waits and not by one that is
  answered (`tornado/event_queue.py:277`), so that a page whose polls always find
  something may be collected;
- after `events_reload`, ids repeat: a page that acknowledges an id of the lost
  events may be refused for ever, or prune events it never got;
- a notice that SIGALRM interrupts between the row and `notify` has a row that
  nobody announces: the worker thread sleeps until the next notice (`WakesUp`
  names the exception);
- `stop()` joins the worker thread inside the signal handler. If the main thread
  was in `consume` and holds the lock, the worker thread cannot end: SIGALRM
  breaks the handler off, and the process consumes on without a worker thread,
  until SIGKILL;
- after a lost connection `sys.exit(1)` waits for the worker thread, which is not
  a daemon: the process stays without a consumer, and supervisord, which sees it
  run, does not start another one (`NoticesAreTaken` names it);
- e-mails are published after the commit that deletes their rows
  (`lib/email_notifications.py:600`): an exception or a kill in between loses them;
  the duplicates that the comment at `worker/missedmessage_emails.py:250` fears
  cannot happen any more.

## 4. Proofs

`DebateEngineProofs` proves, for all values of the constants that satisfy
`EngineAssumption` (finitely many users, initial rows and parameters of the
right types; nothing about the bounds but that they are numbers):

- `TypeCorrect`: `Spec => []TypeOK`;
- `GroupsCorrect`: `Spec => []GroupsInv`;
- `LinkedDisjoint`: `Spec => []LinkedGroupsDisjoint`, nobody is in two groups
  of one round whose rows are linked to a channel;
- `SubscribersApart`: `Spec => []ChannelsApart`, nobody is subscribed to the
  channels of two groups of one round, as long as it was divided once. It
  follows from `GroupsInv` and `SeatsInv`: whoever is in a channel is a member of
  a group with its name;
- `OutIsOut`: `Spec => EliminatedStayOut`, only a new subscription makes a
  participant active.

`LinkedGroupsDisjoint` alone is not inductive: it says nothing of groups that
wait for their channel. The strengthening `EngineInv` is the types, the
fact that the main loop visits a debate whenever it is past the query
(`Visiting`), and `GroupsInv`:

1. `Numbered`: the number of a group tells where its division begins in the
   table, and a group is linked only if the first one of its division is;
2. `NamesApart`: two groups with a channel have different names, which is the
   one-to-one field of `Group.stream`;
3. `DivisionsDisjoint`: the groups of one division share nobody, which is the
   slicing loop;
4. `InOrder`: the groups that the main loop or a thread still has to link come
   after the first one of their division, or begin with it.

Two linked groups of one debate and round then belong to one division: their
first groups are both linked and have the same name, hence are the same. So a
second division of the same participants, after a crash, a lost save or in a
second thread, cannot link its first group, and no other after it (its members are subscribed
before the link fails, which is why `ChannelsApart` needs its condition). There is one
lemma for each group of actions; those about the table (`AppendBatch`,
`LinkGroup`, `ArchiveTable`) are stated for any table of groups and used by the
main loop and by the threads. The run `ends` checks `GroupsInv`.

`DebateRoundsProofs` goes on from `EngineInv`. It needs one more assumption on the
constants, `FreshAssumption`: a debate begins in round 1, the default of
`Debat.round`.

- `OneThread`: `Spec => []OneThreadInARound`, although a second launch of the same
  debate may happen in several ways;
- `OneRoundOpen`: `Spec => []OnlyCurrentRoundOpen`;
- `DebatesImplementTournament`: `Spec => IsATournament`. The tournament is that of
  the rows that are linked to a channel, which decide who votes, is counted and
  goes on; who reads which channel is not part of it.

The main loop and the threads hold copies of the row, so that the round in the
database says little. The argument is about who *works* on a round: the main loop
while it links the first groups, a thread while it waits in a round or links the
next one. A worker *owns* the debate when the division it links has got past
its first group. `RoundsInv` has two parts, for each debate:

1. `TableOk`: every round before one that anybody knows of was open; until a
   known round opens, the groups of the one before are archived and the members
   of the new ones are in the debate; so are the groups of a thread that is about
   to open a round;
2. `WorkersOk`: what a worker has to link is of its debate and round, and of no
   other worker; there is one owner, its round is the highest that is known
   and the only one that is not archived.

A worker that is no owner cannot become one while another division of the round is
linked, because its first group has the name of a channel that exists
(`LinkerIsOwner`, from `GroupsInv`). Before the proof, TLC checked `RoundsInv` on the
instances of `parameters` and `subscribe`, and on two debates with one title.

For the refinement, `CommitSubscription` is a `Join`, the link of a group by the
main loop or by a thread is an `OpenGroup`, and `Eliminate` is `Eliminate`; every
other step stutters. `OpenGroup` is where `RoundsInv` is needed: the round before was open, no
later one is, and who is in the group is in the debate and in no other group of
the round.

`SplitLoopProofs` proves, for every number of participants and every
`max_per_group` (`SplitAssumption`: naturals), what the slicing loop returns:

- `TypeCorrect`, and `LoopCorrect`: `Spec => []LoopInv /\ []Cover`;
- `NobodyLostOrTwice`: everybody is in exactly one group;
- `GroupsBalanced`: no group is empty or above `max_per_group`, and sizes differ
  by one at most;
- `SizesAgree`: `GroupSize`, which `DebateEngine` divides by, is the size of the
  slice. It carries the results above over to the engine's `Divisions`.

The argument is arithmetic. The running variable `start` has a closed form,
`Begin(n, num_groups, i)`, which grows with `i` and is `n` at the end
(`BeginSums`, `BeginMonotone`); the size of a slice is bounded because
`ceil(n / max_per_group)` groups have enough seats (`EnoughGroups`,
`SizesBounded`). `LoopInv` says that the slices are the blocks between two
values of `Begin`, which makes them disjoint; `Cover`, that the slices cut so
far leave nobody behind, which the blocks alone would give only by an induction
on their number.

`VoteRoundProofs` proves, for any group, any names and seats and any bounds
(`VoteAssumption`):

- `TypeCorrect`;
- `CountCorrect`: `Spec => []CountedWithinVoters`. The bot counts the votes of each
  candidate and then the voters, with submissions in between; the invariant is
  that whoever has a ballot has voted, and that a withdrawal leaves the flag;
- `MajorityIsElected` and `SeatsAreFilled`: who is elected agrees with the numbers
  that were read, although the choice is a sort that is cut off;
- `RowsShown`: `Spec => []RowsAreShown`, and `OwnChoiceWithoutAdded`:
  `Spec => [](AddedOptions = {} => OwnChoice)`. The condition of the second is
  needed: an option that a member adds to the poll is read as the number of
  another one. `RowsInv` is stronger than either, the ballot is for the
  first of the homonyms, because a withdrawal deletes by the name;
- `VoteImplementsElection`: `Spec => IsAnElection`.

`MissedMessagesProofs` proves, for any finite or infinite sets of users and
messages, any periods and any number of changes of them, failures and restarts
(`MissedMessagesAssumption`):

- `TypeCorrect`: types, and one unacknowledged notice exactly while `consume`
  runs;
- `NoLostWakeUp`: `Spec => []WakesUp`;
- `BatchesStayTogether`: `Spec => []OneBatch`, for every user whose period did not
  change in the middle of a `consume`;
- `NoNoticeLost`: `Spec => []NoticesSurvive`;
- `NoSecondEmail`: `Spec => []EmailedOnce`.

None of the last four is inductive. For the first three, `IInv` adds to `OneBatch`
and `NoticesSurvive`:

1. `Broker`: there is one unacknowledged notice exactly while `consume` runs, so that
   an acknowledgement removes a notice that has its row or is in the file;
2. `Sleep`: a thread that waits without a timeout has `has_timeout` false, so that
   `consume` will notify it, and then the rows it does not know of are those of
   interrupted notices or the one about to be announced;
3. `Pending`: while `consume` holds a timestamp that it read without the lock, each
   row of that user has it, unless he is in `moved`. Only the main thread
   inserts, so rows can only go; and a change of the period moves all of them alike.

There is one lemma for each conjunct, with a step for each action. `NoSecondEmail`
has an invariant of its own, `OnceInv`: a message that was not delivered again
is in one place only, of the broker's queue, the unacknowledged notice, the rows
and the e-mails (`OnePlace`), and what the worker thread deletes are rows that it
has locked (`BatchIsDue`).

`EventQueueProofs` has the lemmas about one queue: `Push`, `Prune` and `Settle` keep
its type and the order of its ids; `Prune` takes events off the head that were
acknowledged, and no other; the notices of a sequence of events are those of its
members. Of `FlattenSeq`, which is defined by recursion on the length, that is
shown by the least length at which it would fail. The last part is about order:
of two rising sequences of numbers, one that has every number of the other below
its own is a prefix of it (`RisingPrefix`), and the notices of events that are
`Sorted` rise, also after a push that compresses (`PushSorted`, `NoticesInOrder`).

`TornadoProofs` proves, for any pages, any bounds and any mixture of faults
(`TornadoAssumption`, `EventAssumption`):

- `TypeCorrect`;
- `NobodyOversleeps`: `Spec => []SleepsOnlyWhenEmpty`. `SleepInv` adds to the property that no
  descriptor of the file has a handler, since loading clears them;
- `NobodyForgotten`: `Spec => []PollsAttended`. It takes `PollInv`: a queue has one
  page (`Owners`); a handler is that of one descriptor, and a process without
  requests has none (`ServerInv`); every handler number but 0 is in
  `descriptors_by_handler_id` only while it is the current one of that queue
  (`Attended`). The exception is the first request, whose number the code
  takes for no handler.

`TornadoDeliveryProofs` goes on from `PollInv`:

- `QueuesInOrder`: `Spec => []QueuesWellFormed`;
- `NothingLost`: `Spec => []NothingSkipped`, what was pushed into a queue is in it or
  its page has it;
- `MessagesReachSomebody`: `Spec => []NoMessageMissed`;
- `PagesGetOrder`: `Spec => DeliversInOrder`, the event system implements
  `EventDelivery`.

A prune is harmless when the page has what it acknowledges. `Covers(e, i, seen)`
says that of an id: the events up to `i` were seen, and what comes later gets a
higher id, also the compressed events that are not numbered for good. `QueuesInv`
has it of the last id that a page processed, and of each id in an answer on its
way, together with that answer. The same holds of the copies in the file of the
dump, as long as the queue has not changed since (`Stays`). Most steps are
`Smooth`: they change queues by operations that keep `Covers` and take answers away
or hand over a whole queue; those are treated by one lemma, and only dump,
stop, load, registration and reception by one each. `MessageInv` adds, for
messages, that one which is still open was pushed into every queue there is, so
that the last one to be collected has it or its page does.

For the refinement, `ProcessNotification` is a `Send`, `Receive` is a `Receive` and
`Stop` is a `Cut`; every other step stutters. What is to be shown is that the answer
a page takes makes what it has seen of a kind a longer prefix of what was pushed.
Notices are numbered as they are published, and `OrderInv` says, on top of
`QueuesInv`:

1. `PushedInOrder`: the numbers rise in RabbitMQ and in what was pushed, and what
   is still in RabbitMQ comes after what was pushed;
2. `TakenInOrder`: what a page has seen of a kind, with or without an answer on its
   way, is all that was pushed before it of that kind, in that order (`Takes`);
3. `LiveInOrder`, `SavedInOrder`: the events of a queue, in memory and in the file,
   are `Sorted` (`HoldsOf`), and so is what a virtual event will stand for;
4. `LiveApart`, `SavedApart`: what is behind the last acknowledged id, or behind the
   ids of an answer, stands for no notice that the page has or is about to have.

The fourth is where `Covers` is needed: an aborted or unanswered poll is repeated
with the old id, and gets again what the page has not seen and nothing else.
TLC checked `OrderInv` on instances of `events` before it was proved.

Left to TLC: liveness (`DebateEnds`, `VoteEnds`, `PagesCatchUp`,
`RowsGoOut`, `NoticesAreTaken`), which is beyond the prover, and what the recursive
simulation of `GroupSplit` computes.

## 5. Not modelled, and why

- `diapyr_update_debat_phase2` raises on `participants.count()` before it
  changes anything.
- `update_max_representant`, `get_status`, `create_streams_for_groups_db`,
  `set_default_parameters`, `archived_all_groups`: no caller.
- The texts and the delivery of notifications. (`terminate_diapyr` notifies
  `active_groups`, which is empty once the groups were archived.)
- The loss of a database connection: Django raises, which has the effect of a
  kill of the process or of the thread.
- The JSON-file bot in `lib/contrib_bots`, which the management command does not
  start.
- `do_create_debat`: one insert; the engine begins with the rows, and lets two
  debates have one title.
- `lib/moderate_debat.py`: one thread handles one message at a time and writes
  counters that nothing else reads, so there is no second actor. What is wrong
  shows in a reading: `envoyer_alerte` calls `external_client()`, which is no
  function (l.141), so that the timer of a low participation raises and the alert is
  never sent; `id_message_stats` is one message id for all channels, never
  forgotten, and the result of `update_message` is not looked at (l.178); an
  API error makes `handle_message` raise on the missing key and end the
  listener (l.71).
- In the event system: which clients accept which event, several shards
  (`cleanup_queue`), `web_reload_client`, and the retry of a notice that raised
  (`tornado/event_queue.py:1688`), which would put it into some queues twice.
- The other queue workers: most are a `consume` in the frame that
  `MissedMessages` has (delivery, exception, file of errors, acknowledgement), and
  `handle_missedmessage_emails` is a choice of who is e-mailed.
- The rest of Zulip, see `PROJECT.json`: sequential code behind one transaction,
  web pages, export and import, third-party protocols. The map covers a small part
  of the repository for that reason.

## 6. Plan

Done: division, engine, vote, event queues, the missed-message worker, their
abstract specifications; as theorems, every invariant and action property that a
passing run checks, and the three refinements. What TLC alone checks are the
liveness properties.

Models to add: `LoopQueueProcessingWorker` with its batches and
`retry_event`; several Tornado shards with `cleanup_queue`; the creation of
debates, as requests of the engine.
