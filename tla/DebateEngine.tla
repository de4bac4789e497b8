---------------------------- MODULE DebateEngine ----------------------------
(***************************************************************************)
(* The life of the debates: the rows of zerver/models/debat.py, the main   *)
(* loop and the debate threads of the bot (zerver/lib/diapyr.py), and the  *)
(* web handlers that write the same rows (actions/subscribe_debat.py,      *)
(* views/diapyr.py).                                                       *)
(*                                                                         *)
(* Every process works on its own copy of a Debat row, and a full save()   *)
(* writes the whole copy back: that is why rows travel in the state of the *)
(* main loop, of the threads and of the requests.                          *)
(***************************************************************************)
EXTENDS GroupSplit, Sequences

CONSTANTS
    Debates,
    Users,
    DebateOrder,          \* the order in which Debat.objects.all() lists them
    Title,                \* [Debates -> titles]: Debat.title
    SkipPreRegistration,  \* the debates with skip_pre_registration set
    SubscriptionEnd,      \* [Debates -> Nat]: Debat.subscription_end_date
    InitialRow,           \* [Debates -> Row]: the rows when the model begins
    InitialParticipants,  \* [Debates -> SUBSET Users]: who has subscribed then
    NullRepresentant,     \* max_representant = None, the column's default
    Submitted,            \* the parameters the creator may post (phase 2)
    ApiMayFail,           \* whether a call to the Zulip API may fail
    Horizon,              \* bound: the last instant of the clock
    MaxRequests,          \* bound: web requests in flight at once
    MaxThreads,           \* bound: debate threads ever started by a process
    MaxRound,             \* bound: the last round that is opened
    MaxGroups,            \* bound: the Group rows ever created
    MaxRestarts           \* bound: how often the bot is killed and restarted

NoUser == "no user"

VARIABLES
    clock,            \* the time all processes read
    subscribed,       \* the subscriptions to channels that the bot asked for
    \* the database
    row,              \* [Debates -> Row]
    joined,           \* [Debates -> SUBSET Users]: the Participant rows
    active,           \* ... of them with is_active_in_diapyr
    representative,   \* ... of them with is_representative
    groups,           \* the Group rows, in the order of their ids
    \* the bot's process
    main,             \* the main loop: pc, snapshot still to visit, batch
    threads,          \* the threads started by start_debate_process; `elected`
                      \* only records what the last vote of the thread decided
    restarts,
    \* the web server
    requests          \* transactions that have read a row and not committed

database == <<row, joined, active, representative, groups>>
vars == <<clock, subscribed, database, main, threads, restarts, requests>>

-----------------------------------------------------------------------------
Limits == 1..Cardinality(Users)
Representants == 0..Cardinality(Users) \cup {NullRepresentant}

Row == [step : 1..4, round : 1..MaxRound, created : BOOLEAN,
        archived : BOOLEAN, vote_phase : BOOLEAN,
        max_per_group : Limits, max_representant : Representants,
        start : 0..Horizon]

Group == [debat : Debates, round : 1..MaxRound, number : Nat,
          members : SUBSET Users, stream : BOOLEAN, archived : BOOLEAN]

Thread == [pc : {"sleep", "asking", "voting", "eliminate", "open", "streams",
                 "close", "done", "dead"},
           obj : Row, debat : Debates, users : SUBSET Users,
           polled : SUBSET Nat, elected : SUBSET Users, batch : Seq(Nat)]

Request == [worker : 1..MaxRequests, debat : Debates, user : Users \cup {NoUser}, row : Row]

ASSUME EngineAssumption ==
    /\ IsFiniteSet(Users)
    /\ DebateOrder \in Seq(Debates)
    /\ SubscriptionEnd \in [Debates -> Nat]
    /\ InitialRow \in [Debates -> Row]
    /\ InitialParticipants \in [Debates -> SUBSET Users]
    /\ Submitted \subseteq [max_per_group : Limits,
                            max_representant : Representants,
                            start : 0..Horizon]
    /\ {Horizon, MaxRequests, MaxThreads, MaxRound, MaxGroups, MaxRestarts}
          \subseteq Nat

\* no group exists when the model begins: every debate is in the first round,
\* the default of Debat.round
ASSUME FreshAssumption == \A d \in Debates : InitialRow[d].round = 1

GroupIds == DOMAIN groups
ThreadIds == DOMAIN threads

GroupsOf(d) == {g \in GroupIds : groups[g].debat = d}

\* Debat.active_groups
ActiveGroups(d) == {g \in GroupsOf(d) : ~groups[g].archived}

\* Group.group_name, which names the group's channel
GroupName(g) == <<Title[g.debat], g.round, g.number>>

\* mutant: a ForeignKey, many groups to one channel
StreamShared(g) == FALSE

\* Group.stream is a OneToOneField: one group per channel
StreamTaken(g) ==
    \E h \in GroupIds : /\ h # g
                        /\ groups[h].stream
                        /\ GroupName(groups[h]) = GroupName(groups[g])

\* what add_subscriptions is asked for: the members, in the channel of the name
Seats(g) == {GroupName(groups[g])} \X groups[g].members

\* split_into_group_db creates the rows of one round, none with a channel yet;
\* up to max_per_group users, it creates one group and gives it no participant
Batches(d, round, users, maxPerGroup) ==
    LET group(i, members) == [debat |-> d, round |-> round, number |-> i,
                              members |-> members, stream |-> FALSE,
                              archived |-> FALSE]
    IN  IF Cardinality(users) <= maxPerGroup
        THEN {<<group(1, {})>>}
        ELSE {[i \in DOMAIN division |-> group(i, division[i])] :
                division \in Divisions(users, maxPerGroup)}

\* the ids of a batch appended to the table
IdsOf(batch) == [i \in DOMAIN batch |-> Len(groups) + i]

\* archive_all_groups: a group without a channel raises, and is left as it is
ArchiveGroups(debates) ==
    groups' = [g \in GroupIds |->
                 IF groups[g].debat \in debates /\ groups[g].stream
                 THEN [groups[g] EXCEPT !.archived = TRUE]
                 ELSE groups[g]]

-----------------------------------------------------------------------------
Idle(armed) == [pc |-> "idle", todo |-> <<>>, batch |-> <<>>, armed |-> armed]

Init ==
    /\ clock = 0
    /\ subscribed = {}
    /\ row = InitialRow
    /\ joined = InitialParticipants
    /\ active = InitialParticipants
    /\ representative = [d \in Debates |-> {}]
    /\ groups = <<>>
    /\ main = Idle(FALSE)
    /\ threads = <<>>
    /\ restarts = 0
    /\ requests = {}

Tick ==
    /\ clock < Horizon
    /\ clock' = clock + 1
    /\ UNCHANGED <<subscribed, database, main, threads, restarts, requests>>

-----------------------------------------------------------------------------
(* The web server.                                                         *)

\* the worker processes of the web server, the first idle one of which serves
FirstIdle(w) ==
    /\ \A q \in requests : q.worker # w
    /\ \A v \in 1..w - 1 : \E q \in requests : q.worker = v

\* do_subscribe_user_to_debat up to its checks
Subscribe(d, u) ==
    /\ u \notin joined[d]
    /\ SubscriptionEnd[d] >= clock
    /\ ~row[d].archived
    /\ \E w \in 1..MaxRequests :
         /\ FirstIdle(w)
         /\ requests' = requests \cup
              {[worker |-> w, debat |-> d, user |-> u, row |-> row[d]]}
    /\ UNCHANGED <<clock, subscribed, database, main, threads, restarts>>

\* mutant: every participant of the debate is made active with the new one
CommitReactivating(q) ==
    /\ q.user # NoUser
    /\ q.user \notin joined[q.debat]
    /\ joined' = [joined EXCEPT ![q.debat] = @ \cup {q.user}]
    /\ active' = [active EXCEPT ![q.debat] = joined[q.debat] \cup {q.user}]
    /\ row' = [row EXCEPT ![q.debat] = q.row]
    /\ requests' = requests \ {q}
    /\ UNCHANGED <<clock, subscribed, representative, groups, main, threads,
                   restarts>>

\* debat_participants.add and debat.save(), committed together
CommitSubscription(q) ==
    /\ q.user # NoUser
    /\ q.user \notin joined[q.debat]
    /\ joined' = [joined EXCEPT ![q.debat] = @ \cup {q.user}]
    /\ active' = [active EXCEPT ![q.debat] = @ \cup {q.user}]
    /\ row' = [row EXCEPT ![q.debat] = q.row]
    /\ requests' = requests \ {q}
    /\ UNCHANGED <<clock, subscribed, representative, groups, main, threads,
                   restarts>>

\* add() found the participation of the other request: it inserts nothing, and
\* the whole row is saved all the same
RepeatSubscription(q) ==
    /\ q.user # NoUser
    /\ q.user \in joined[q.debat]
    /\ row' = [row EXCEPT ![q.debat] = q.row]
    /\ requests' = requests \ {q}
    /\ UNCHANGED <<clock, subscribed, joined, active, representative, groups,
                   main, threads, restarts>>

\* both inserted: the unique constraint on (user, debat) rejects the second
RejectSubscription(q) ==
    /\ q.user # NoUser
    /\ q.user \in joined[q.debat]
    /\ requests' = requests \ {q}
    /\ UNCHANGED <<clock, subscribed, database, main, threads, restarts>>

\* the parameters that phase2_preparation lets through, for n participants
Accepted ==
    {post \in {<<n, p>> : n \in 0..Cardinality(Users), p \in Submitted} :
       Acceptable(post[1], post[2].max_per_group, post[2].max_representant)}

\* show_debates_detail: the creator's parameters, simulated and accepted
SubmitParameters(d, p) ==
    /\ <<Cardinality(joined[d]), p>> \in Accepted
    /\ \E w \in 1..MaxRequests :
         /\ FirstIdle(w)
         /\ requests' = requests \cup
              {[worker |-> w, debat |-> d, user |-> NoUser,
                row |-> [row[d] EXCEPT !.max_per_group = p.max_per_group,
                                       !.max_representant = p.max_representant,
                                       !.start = p.start]]}
    /\ UNCHANGED <<clock, subscribed, database, main, threads, restarts>>

\* debat.save(), the whole row
CommitParameters(q) ==
    /\ q.user = NoUser
    /\ row' = [row EXCEPT ![q.debat] = q.row]
    /\ requests' = requests \ {q}
    /\ UNCHANGED <<clock, subscribed, joined, active, representative, groups,
                   main, threads, restarts>>

Web ==
    \/ \E d \in Debates, u \in Users : Subscribe(d, u)
    \/ \E d \in Debates, p \in Submitted : SubmitParameters(d, p)
    \/ \E q \in requests : \/ CommitSubscription(q)
                           \/ RepeatSubscription(q)
                           \/ RejectSubscription(q)
                           \/ CommitParameters(q)

-----------------------------------------------------------------------------
(* The main loop: check_and_create_channels every five seconds.            *)

\* for debat_obj in Debat.objects.all(): every row is read at once
BeginCheck ==
    /\ main.pc = "idle"
    /\ main' = [main EXCEPT
                  !.pc = "scan",
                  !.todo = [i \in DOMAIN DebateOrder |->
                              [debat |-> DebateOrder[i],
                               obj |-> row[DebateOrder[i]]]]]
    /\ UNCHANGED <<clock, subscribed, database, threads, restarts, requests>>

\* after the first check, the SIGINT handler is installed
EndCheck ==
    /\ main.pc = "scan"
    /\ main.todo = <<>>
    /\ main' = Idle(TRUE)
    /\ UNCHANGED <<clock, subscribed, database, threads, restarts, requests>>

Visited == Head(main.todo)

RegistrationOver ==
    /\ main.pc = "scan"
    /\ main.todo # <<>>
    /\ clock > SubscriptionEnd[Visited.debat]
    /\ ~Visited.obj.created

PassOver ==
    /\ main.pc = "scan"
    /\ main.todo # <<>>
    /\ \/ clock <= SubscriptionEnd[Visited.debat]
       \/ Visited.obj.created
    /\ main' = [main EXCEPT !.todo = Tail(@)]
    /\ UNCHANGED <<clock, subscribed, database, threads, restarts, requests>>

\* step 2: the copy read at the beginning of the check is saved whole
Prepare ==
    /\ RegistrationOver
    /\ row' = [row EXCEPT ![Visited.debat] = [Visited.obj EXCEPT !.step = 2]]
    /\ main' = [main EXCEPT !.pc = "prepared"]
    /\ UNCHANGED <<clock, subscribed, joined, active, representative, groups,
                   threads, restarts, requests>>

Starting == \/ Visited.obj.start < clock
            \/ Visited.debat \in SkipPreRegistration

NotYet ==
    /\ main.pc = "prepared"
    /\ ~Starting
    /\ main' = [main EXCEPT !.pc = "scan", !.todo = Tail(@)]
    /\ UNCHANGED <<clock, subscribed, database, threads, restarts, requests>>

\* step 3: save, split; one group only ends the whole check (break)
Launch ==
    /\ main.pc = "prepared"
    /\ Starting
    /\ LET d == Visited.debat
           obj == [Visited.obj EXCEPT !.step = 3]
       IN  /\ row' = [row EXCEPT ![d] = obj]
           /\ \E batch \in Batches(d, obj.round, active[d], obj.max_per_group) :
                /\ Len(groups) + Len(batch) <= MaxGroups
                /\ groups' = groups \o batch
                /\ main' = IF Len(batch) = 1
                           THEN Idle(TRUE)
                           ELSE [main EXCEPT !.pc = "streams",
                                             !.todo[1].obj = obj,
                                             !.batch = IdsOf(batch)]
    /\ UNCHANGED <<clock, subscribed, joined, active, representative, threads,
                   restarts, requests>>

\* mutant: every participant of the debate, as in bulk_add_subscriptions
MainSubscribeAll ==
    /\ main.pc = "streams"
    /\ main.batch # <<>>
    /\ LET g == Head(main.batch)
       IN  subscribed' = subscribed \cup
             {GroupName(groups[g])} \X active[groups[g].debat]
    /\ UNCHANGED <<clock, database, main, threads, restarts, requests>>

\* add_subscriptions creates the channel of the group, or finds one of its name
MainSubscribe ==
    /\ main.pc = "streams"
    /\ main.batch # <<>>
    /\ subscribed' = subscribed \cup Seats(Head(main.batch))
    /\ UNCHANGED <<clock, database, main, threads, restarts, requests>>

\* group.stream is saved, once the members are subscribed
MainLink ==
    /\ main.pc = "streams"
    /\ main.batch # <<>>
    /\ Seats(Head(main.batch)) \subseteq subscribed
    /\ ~StreamTaken(Head(main.batch))
    /\ groups' = [groups EXCEPT ![Head(main.batch)].stream = TRUE]
    /\ main' = [main EXCEPT !.batch = Tail(@)]
    /\ UNCHANGED <<clock, subscribed, row, joined, active, representative,
                   threads, restarts, requests>>

\* a refused call, or, after the subscriptions, the channel of another group,
\* which group.save() rejects: sys.exit(0)
MainLinkFails ==
    /\ main.pc = "streams"
    /\ main.batch # <<>>
    /\ \/ ApiMayFail
       \/ /\ Seats(Head(main.batch)) \subseteq subscribed
          /\ StreamTaken(Head(main.batch))
    /\ main' = [main EXCEPT !.pc = "down", !.todo = <<>>, !.batch = <<>>]
    /\ UNCHANGED <<clock, subscribed, database, threads, restarts, requests>>

\* debat_created is saved alone, and the thread keeps the object
StartThread ==
    /\ main.pc = "streams"
    /\ main.batch = <<>>
    /\ Len(threads) < MaxThreads
    /\ LET d == Visited.debat
       IN  /\ row' = [row EXCEPT ![d].created = TRUE]
           /\ threads' = Append(threads,
                [pc |-> "sleep", debat |-> d,
                 obj |-> [Visited.obj EXCEPT !.created = TRUE],
                 users |-> {}, polled |-> {}, elected |-> {},
                 batch |-> <<>>])
    /\ main' = [main EXCEPT !.pc = "scan", !.todo = Tail(@)]
    /\ UNCHANGED <<clock, subscribed, joined, active, representative, groups,
                   restarts, requests>>

MainLoop == BeginCheck \/ EndCheck \/ PassOver \/ Prepare \/ NotYet
              \/ Launch \/ MainSubscribe \/ MainLink \/ MainLinkFails
              \/ StartThread

\* terminate_diapyr: the main thread ends, the debate threads do not
Sigint ==
    /\ main.armed
    /\ main.pc # "down"
    /\ LET stopped == {d \in Debates : ~row[d].archived /\ row[d].step = 3}
       IN  /\ ArchiveGroups(stopped)
           /\ row' = [d \in Debates |->
                        IF d \in stopped THEN [row[d] EXCEPT !.archived = TRUE]
                        ELSE row[d]]
    /\ main' = [main EXCEPT !.pc = "down", !.todo = <<>>, !.batch = <<>>]
    /\ UNCHANGED <<clock, subscribed, joined, active, representative, threads,
                   restarts, requests>>

\* before the handler is installed, SIGINT ends the main thread alone
Interrupt ==
    /\ ~main.armed
    /\ main.pc # "down"
    /\ main' = [main EXCEPT !.pc = "down", !.todo = <<>>, !.batch = <<>>]
    /\ UNCHANGED <<clock, subscribed, database, threads, restarts, requests>>

\* the process is killed, with its threads, and the command is run again
Restart ==
    /\ restarts < MaxRestarts
    /\ restarts' = restarts + 1
    /\ main' = Idle(FALSE)
    /\ threads' = <<>>
    /\ UNCHANGED <<clock, subscribed, database, requests>>

-----------------------------------------------------------------------------
(* A debate thread: while next_step(debat) and debat.step < 4.             *)

Goto(t, pc) == threads' = [threads EXCEPT ![t].pc = pc]

NotEnough(users, obj) ==
    \/ Cardinality(users) <= obj.max_per_group
    \/ Cardinality(users) < 2

\* next_step returns False before any vote
Finish(t) ==
    /\ threads[t].pc = "sleep"
    /\ NotEnough(active[threads[t].debat], threads[t].obj)
    /\ Goto(t, "close")
    /\ UNCHANGED <<clock, subscribed, database, main, restarts, requests>>

\* vote_phase is set, every active participant is asked
AskParticipants(t) ==
    /\ threads[t].pc = "sleep"
    /\ LET d == threads[t].debat
       IN  /\ ~NotEnough(active[d], threads[t].obj)
           /\ row' = [row EXCEPT ![d].vote_phase = TRUE]
           /\ threads' = [threads EXCEPT ![t].pc = "asking",
                                         ![t].users = active[d]]
    /\ UNCHANGED <<clock, subscribed, joined, active, representative, groups,
                   main, restarts, requests>>

\* otherwise random.sample(members, max(max_representant, size)) raises
CanSample(t, g) ==
    /\ threads[t].obj.max_representant # NullRepresentant
    /\ threads[t].obj.max_representant <= Cardinality(groups[g].members)

\* two candidates volunteer, or the sample is taken among all the members
CanPoll(t, g) ==
    /\ groups[g].stream
    /\ Cardinality(groups[g].members) >= 2 \/ CanSample(t, g)

SendPolls(t) ==
    /\ threads[t].pc = "asking"
    /\ \A g \in ActiveGroups(threads[t].debat) : CanPoll(t, g)
    /\ threads' = [threads EXCEPT ![t].pc = "voting",
                                  ![t].polled = ActiveGroups(threads[t].debat)]
    /\ UNCHANGED <<clock, subscribed, database, main, restarts, requests>>

\* an exception in send_poll or in the sample ends the thread
SendPollsFails(t) ==
    /\ threads[t].pc = "asking"
    /\ \/ ApiMayFail
       \/ \E g \in ActiveGroups(threads[t].debat) :
             ~(groups[g].stream /\ CanSample(t, g))
       \/ \E o \in ThreadIds \ {t} : threads[o].debat = threads[t].debat
    /\ Goto(t, "dead")
    /\ UNCHANGED <<clock, subscribed, database, main, restarts, requests>>

\* process_poll_result elects up to max_representant members of each group
Elections(polled, limit) ==
    {elected \in SUBSET UNION {groups[g].members : g \in polled} :
       \A g \in polled : Cardinality(elected \cap groups[g].members) <= limit}

\* Participant.objects.filter(user=representant): whatever the debate
Marked(elected) ==
    [d \in Debates |-> representative[d] \cup (elected \cap joined[d])]

CountVotes(t) ==
    LET d == threads[t].debat
        polled == ActiveGroups(d)
        limit == threads[t].obj.max_representant
    IN  /\ threads[t].pc = "voting"
        /\ polled \subseteq threads[t].polled
        /\ polled = {} \/ limit # NullRepresentant
        /\ \E elected \in Elections(polled, limit) :
             /\ representative' = Marked(elected)
             /\ threads' = [threads EXCEPT ![t].pc = "eliminate",
                                           ![t].elected = elected]
        /\ row' = [row EXCEPT ![d].vote_phase = FALSE]
        /\ UNCHANGED <<clock, subscribed, joined, active, groups, main,
                       restarts, requests>>

\* len(selected) > None raises at once; a group that is not in candidates_list
\* raises after the representatives of the groups before it were marked
CountVotesFails(t) ==
    LET polled == ActiveGroups(threads[t].debat)
        limit == threads[t].obj.max_representant
    IN  /\ threads[t].pc = "voting"
        /\ \/ /\ limit = NullRepresentant
              /\ polled # {}
              /\ UNCHANGED representative
           \/ /\ limit # NullRepresentant
              /\ ~(polled \subseteq threads[t].polled)
              /\ \E elected \in Elections(polled \cap threads[t].polled, limit) :
                   representative' = Marked(elected)
        /\ Goto(t, "dead")
        /\ UNCHANGED <<clock, subscribed, row, joined, active, groups, main,
                       restarts, requests>>

\* [user for user in debat.active_participants if not user.is_active_in_diapyr]
Eliminated(d) == {u \in active'[d] : u \notin active'[d]}

\* mutant: archive_all_groups is left out
EliminateOnly(t) ==
    /\ threads[t].pc = "eliminate"
    /\ LET d == threads[t].debat
       IN  /\ active' = [active EXCEPT ![d] = @ \cap representative[d]]
           /\ Goto(t, "open")
    /\ UNCHANGED <<clock, subscribed, row, joined, representative, groups,
                   main, restarts, requests>>

\* whoever is not a representative is made inactive; the groups are archived
Eliminate(t) ==
    /\ threads[t].pc = "eliminate"
    /\ LET d == threads[t].debat
       IN  /\ active' = [active EXCEPT ![d] = @ \cap representative[d]]
           /\ ArchiveGroups({d})
           /\ Goto(t, IF Cardinality(threads[t].users \ Eliminated(d))
                           <= threads[t].obj.max_per_group
                      THEN "close" ELSE "open")
    /\ UNCHANGED <<clock, subscribed, row, joined, representative, main,
                   restarts, requests>>

\* mutant: debat.participants is divided, and registered as active again
OpenRoundForAll(t) ==
    LET d == threads[t].debat
        round == threads[t].obj.round + 1
    IN  /\ threads[t].pc = "open"
        /\ round <= MaxRound
        /\ row' = [row EXCEPT ![d].round = round]
        /\ active' = [active EXCEPT ![d] = joined[d]]
        /\ \E batch \in Batches(d, round, joined[d],
                                threads[t].obj.max_per_group) :
             /\ Len(groups) + Len(batch) <= MaxGroups
             /\ groups' = groups \o batch
             /\ threads' = [threads EXCEPT ![t].pc = "streams",
                                           ![t].obj.round = round,
                                           ![t].batch = IdsOf(batch)]
        /\ UNCHANGED <<clock, subscribed, joined, representative, main,
                       restarts, requests>>

\* round += 1 is saved alone, then the survivors are split again
OpenRound(t) ==
    LET d == threads[t].debat
        round == threads[t].obj.round + 1
    IN  /\ threads[t].pc = "open"
        /\ round <= MaxRound
        /\ row' = [row EXCEPT ![d].round = round]
        /\ \E batch \in Batches(d, round, active[d],
                                threads[t].obj.max_per_group) :
             /\ Len(groups) + Len(batch) <= MaxGroups
             /\ groups' = groups \o batch
             /\ threads' = [threads EXCEPT ![t].pc = "streams",
                                           ![t].obj.round = round,
                                           ![t].batch = IdsOf(batch)]
        /\ UNCHANGED <<clock, subscribed, joined, active, representative,
                       main, restarts, requests>>

ThreadSubscribe(t) ==
    /\ threads[t].pc = "streams"
    /\ threads[t].batch # <<>>
    /\ subscribed' = subscribed \cup Seats(Head(threads[t].batch))
    /\ UNCHANGED <<clock, database, main, threads, restarts, requests>>

ThreadLink(t) ==
    /\ threads[t].pc = "streams"
    /\ threads[t].batch # <<>>
    /\ Seats(Head(threads[t].batch)) \subseteq subscribed
    /\ ~StreamTaken(Head(threads[t].batch))
    /\ groups' = [groups EXCEPT ![Head(threads[t].batch)].stream = TRUE]
    /\ threads' = [threads EXCEPT ![t].batch = Tail(@)]
    /\ UNCHANGED <<clock, subscribed, row, joined, active, representative,
                   main, restarts, requests>>

\* sys.exit(0) in a thread ends that thread only
ThreadLinkFails(t) ==
    /\ threads[t].pc = "streams"
    /\ threads[t].batch # <<>>
    /\ \/ ApiMayFail
       \/ /\ Seats(Head(threads[t].batch)) \subseteq subscribed
          /\ StreamTaken(Head(threads[t].batch))
    /\ Goto(t, "dead")
    /\ UNCHANGED <<clock, subscribed, database, main, restarts, requests>>

RoundOpened(t) ==
    /\ threads[t].pc = "streams"
    /\ threads[t].batch = <<>>
    /\ Goto(t, IF threads[t].obj.step < 4 THEN "sleep" ELSE "close")
    /\ UNCHANGED <<clock, subscribed, database, main, restarts, requests>>

\* mutant: the debate is not archived
CloseUnarchived(t) ==
    /\ threads[t].pc = "close"
    /\ row' = [row EXCEPT ![threads[t].debat] = [threads[t].obj EXCEPT !.step = 4]]
    /\ Goto(t, "done")
    /\ UNCHANGED <<clock, subscribed, joined, active, representative, groups,
                   main, restarts, requests>>

\* mutant: one step more for each session, instead of step 4
CloseCounting(t) ==
    /\ threads[t].pc = "close"
    /\ row' = [row EXCEPT ![threads[t].debat] =
                 [threads[t].obj EXCEPT !.archived = TRUE,
                                        !.step = 3 + threads[t].obj.round]]
    /\ Goto(t, "done")
    /\ UNCHANGED <<clock, subscribed, joined, active, representative, groups,
                   main, restarts, requests>>

\* archive_debat() saves the thread's whole copy, then step = 4
Close(t) ==
    /\ threads[t].pc = "close"
    /\ row' = [row EXCEPT ![threads[t].debat] =
                 [threads[t].obj EXCEPT !.archived = TRUE, !.step = 4]]
    /\ Goto(t, "done")
    /\ UNCHANGED <<clock, subscribed, joined, active, representative, groups,
                   main, restarts, requests>>

RunSteps(t) ==
    \/ Finish(t) \/ AskParticipants(t) \/ SendPolls(t) \/ SendPollsFails(t)
    \/ CountVotes(t) \/ CountVotesFails(t) \/ Eliminate(t) \/ OpenRound(t)
    \/ ThreadSubscribe(t) \/ ThreadLink(t) \/ ThreadLinkFails(t)
    \/ RoundOpened(t) \/ Close(t)

-----------------------------------------------------------------------------
Next == Tick \/ Web \/ MainLoop \/ Sigint \/ Interrupt \/ Restart
          \/ \E t \in ThreadIds : RunSteps(t)

Spec == Init /\ [][Next]_vars

\* time passes, the bot's loop sleeps five seconds at most, and a thread's
\* waits are bounded sleeps; the web's users owe nothing
FairSpec == /\ Spec
            /\ WF_vars(Tick)
            /\ WF_vars(MainLoop)
            /\ \A t \in 1..MaxThreads : WF_vars(t \in ThreadIds /\ RunSteps(t))

-----------------------------------------------------------------------------
ChannelNames == {Title[d] : d \in Debates} \X (1..MaxRound) \X Nat

MainType == [pc : {"idle", "scan", "prepared", "streams", "down"},
             todo : Seq([debat : Debates, obj : Row]),
             batch : Seq(Nat), armed : BOOLEAN]

EngineType ==
    /\ clock \in 0..Horizon
    /\ row \in [Debates -> Row]
    /\ joined \in [Debates -> SUBSET Users]
    /\ active \in [Debates -> SUBSET Users]
    /\ representative \in [Debates -> SUBSET Users]
    /\ groups \in Seq(Group)
    /\ main \in MainType
    /\ threads \in Seq(Thread)
    /\ restarts \in 0..MaxRestarts
    /\ requests \subseteq Request

TypeOK ==
    /\ EngineType
    /\ subscribed \subseteq ChannelNames \X Users

(***************************************************************************)
(* Nobody is in two groups that the bot polls and counts: two groups of one*)
(* round of a debate whose rows are linked to a channel share no           *)
(* participant.  A restart or a lost debat_created makes                   *)
(* check_and_create_channels divide the same participants again; only the  *)
(* one-to-one link between a group and its channel keeps the rows of the   *)
(* second division from being linked (l.296-312).  It is about the rows:   *)
(* who is subscribed to the channels by then is ChannelsApart's subject.   *)
(***************************************************************************)
LinkedGroupsDisjoint ==
    \A g, h \in GroupIds :
      /\ g # h
      /\ groups[g].stream /\ groups[h].stream
      /\ groups[g].debat = groups[h].debat
      /\ groups[g].round = groups[h].round
      => groups[g].members \cap groups[h].members = {}

(***************************************************************************)
(* Why: a group's number tells where the division it belongs to begins,    *)
(* the groups of one division are disjoint, and a division is linked from  *)
(* its first group on.  A second division of the same participants cannot  *)
(* get past its first group, whose name is taken.                          *)
(***************************************************************************)
First(gs, g) == g - gs[g].number + 1

Numbered(gs) ==
    \A g \in DOMAIN gs :
      LET f == First(gs, g)
      IN  /\ f \in DOMAIN gs
          /\ gs[f].number = 1
          /\ gs[f].debat = gs[g].debat
          /\ gs[f].round = gs[g].round
          /\ gs[g].stream => gs[f].stream

NamesApart(gs) ==
    \A g, h \in DOMAIN gs :
      g # h /\ gs[g].stream /\ gs[h].stream
        => GroupName(gs[g]) # GroupName(gs[h])

DivisionsDisjoint(gs) ==
    \A g, h \in DOMAIN gs :
      g # h /\ First(gs, g) = First(gs, h)
        => gs[g].members \cap gs[h].members = {}

\* the groups still to be linked: their first one comes first, or is linked
InOrder(gs, batch) ==
    \A i \in DOMAIN batch :
      /\ batch[i] \in DOMAIN gs
      /\ \/ gs[First(gs, batch[i])].stream
         \/ First(gs, batch[i]) = batch[1]

GroupsInv ==
    /\ Numbered(groups)
    /\ NamesApart(groups)
    /\ DivisionsDisjoint(groups)
    /\ InOrder(groups, main.batch)
    /\ \A t \in ThreadIds : InOrder(groups, threads[t].batch)

(***************************************************************************)
(* The subscribers of a channel, the bot aside: all that its members see.  *)
(***************************************************************************)
Subscribers(g) == {u \in Users : <<GroupName(groups[g]), u>> \in subscribed}

\* the round of g was divided a single time, by one debate of its title
DividedOnce(g) ==
    \A h, k \in GroupIds :
      /\ GroupName(groups[h]) = <<Title[groups[g].debat], groups[g].round, 1>>
      /\ GroupName(groups[k]) = GroupName(groups[h])
      => h = k

(***************************************************************************)
(* The groups of a round do not see each other: as long as the round was   *)
(* divided once, two of its channels have no subscriber in common, wherever*)
(* the creation was interrupted, or refused, and whoever subscribed to the *)
(* debate meanwhile (l.113-121, l.283-305).  After a second division only  *)
(* the rows stay apart (LinkedGroupsDisjoint): see OnlyOwnChannel.         *)
(***************************************************************************)
ChannelsApart ==
    \A g, h \in GroupIds :
      /\ g # h
      /\ groups[g].debat = groups[h].debat
      /\ groups[g].round = groups[h].round
      /\ DividedOnce(g)
      => Subscribers(g) \cap Subscribers(h) = {}

\* why: whoever is subscribed to a channel is a member of a group of its name
SeatsInv ==
    \A seat \in subscribed : \E g \in GroupIds : seat \in Seats(g)

(***************************************************************************)
(* Two threads never run the same debate between them: of the threads of a *)
(* debate, at most one is past the opening of its round (the others are    *)
(* ended, or about to fail on the channels of their round).                *)
(***************************************************************************)
InARound(t) ==
    threads[t].pc \in {"sleep", "asking", "voting", "eliminate", "open"}

OneThreadInARound ==
    \A t, o \in ThreadIds :
      t # o /\ threads[t].debat = threads[o].debat
        => ~(InARound(t) /\ InARound(o))

(***************************************************************************)
(* A participant who is not active anymore stays out for good, whichever   *)
(* process writes: nobody is reactivated, a subscription aside (l.180-186).*)
(***************************************************************************)
EliminatedStayOut ==
    [][\A d \in Debates : active'[d] \ active[d] \subseteq joined'[d] \ joined[d]]_vars

(***************************************************************************)
(* A debate has one round open at a time: while a thread waits in a round, *)
(* every group that has its channel and is not archived belongs to that    *)
(* round.  Otherwise the next vote would poll, and count, the groups of    *)
(* two rounds at once (l.129-143, l.195, debat_vote.py l.187-238).         *)
(***************************************************************************)
OnlyCurrentRoundOpen ==
    \A t \in ThreadIds : threads[t].pc \in {"sleep", "asking", "voting"} =>
      \A g \in ActiveGroups(threads[t].debat) :
        groups[g].stream => groups[g].round = threads[t].obj.round

(***************************************************************************)
(* A debate that is started ends: its thread reaches the termination that  *)
(* run_steps announces for every way out of its loop (l.244-262), unless   *)
(* the bound on rounds stops the model first.                              *)
(***************************************************************************)
AtRoundBound(d) == \E t \in ThreadIds : /\ threads[t].debat = d
                                        /\ threads[t].pc = "open"
                                        /\ threads[t].obj.round = MaxRound

DebateEnds ==
    \A d \in Debates : row[d].created ~> (row[d].archived \/ AtRoundBound(d))

-----------------------------------------------------------------------------
(* The debate of the tables: the groups whose rows are linked to a channel,*)
(* which are those that the bot polls, counts and archives.                *)

Floor == [d \in Debates |-> [r \in 1..MaxRound |->
            {groups[g].members : g \in {h \in GroupsOf(d) :
                                          groups[h].round = r /\ groups[h].stream}}]]

Abstract == INSTANCE Tournament WITH alive <- active, floor <- Floor

(***************************************************************************)
(* Whatever is killed, written back stale or divided twice, the groups     *)
(* whose rows are linked are those of one tournament: in the order of the  *)
(* rounds, disjoint, and among the participants who are still active.      *)
(* These rows decide who votes, is counted and goes on; it says nothing of *)
(* the subscribers of the channels.                                        *)
(***************************************************************************)
IsATournament == Abstract!Spec

-----------------------------------------------------------------------------
(* What the code's comments, docstrings and messages say of a debate.      *)

(***************************************************************************)
(* next_step: "We eliminates every user who are not a representative": who *)
(* goes on was elected by the vote that has just ended.                    *)
(***************************************************************************)
OnlyRepresentativesGoOn ==
    \A t \in ThreadIds :
      threads[t].pc = "open" => active[threads[t].debat] \subseteq threads[t].elected

(***************************************************************************)
(* create_streams_for_groups_db, the internal twin of the function that the*)
(* bot calls: "Subscribe all current group members + the bot user ONLY to  *)
(* their own group's stream."  The one group that is linked to a channel   *)
(* holds all its subscribers.                                              *)
(***************************************************************************)
OnlyOwnChannel ==
    \A g \in GroupIds :
      groups[g].stream => Subscribers(g) \subseteq groups[g].members

=============================================================================
