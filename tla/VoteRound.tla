----------------------------- MODULE VoteRound -----------------------------
(***************************************************************************)
(* The vote of one group in one round: the bot's start_vote_procedure      *)
(* (zerver/lib/debat_vote.py), interleaved with the answers of the members *)
(* and with the ballots they submit to the poll through the web server     *)
(* (zerver/actions/process_debat_form.py).  A submission holds the lock of *)
(* the poll's message until it commits, so it is one step; the bot takes   *)
(* no lock.                                                                *)
(***************************************************************************)
EXTENDS Integers, Sequences, FiniteSets, SequencesExt

CONSTANTS
    Members,           \* the GroupParticipants of the group
    Given,             \* the names of the members and the seats considered
    AddedOptions,      \* idx of the options that members add to the poll
    NullRepresentant,  \* max_representant = None, the column's default
    ApiMayFail,        \* the server may refuse the bot's requests
    MaxVoteCount,      \* bound: duplicate submissions stop there
    MaxSelections      \* bound: the selections the poll displays at once

ASSUME VoteAssumption ==
    /\ IsFiniteSet(Members)
    /\ \A g \in Given :
         /\ DOMAIN g.full_name = Members
         /\ g.max_representant \in Nat \cup {NullRepresentant}
    /\ ApiMayFail \in BOOLEAN
    /\ MaxVoteCount \in Nat
    /\ MaxSelections \in Nat
    /\ AddedOptions \subseteq Nat \ {0}

VARIABLES
    given,         \* full_name, which the poll's options show, and
                   \* max_representant: nothing changes them
    pc,            \* of the bot
    reply,         \* the last private message between each member and the bot:
                   \* "oui", or "other", which includes the bot's question
    is_interested, \* GroupParticipant columns
    has_voted,
    vote_count,
    candidates,    \* the bot's candidates_list for the group
    options,       \* the candidates, in the order of the poll's options
    state,         \* Vote.state, "none" before the row exists
    linked,        \* Vote.vote_message is set
    ballots,       \* the GroupVote rows: <<participant, vote_for>>
    shown,         \* the selections the poll displays: <<member, key>>
    counted,       \* the bot's vote_count dict
    num_voters,    \* Group.num_voters as the bot reads it
    elected        \* selected_representants

bot == <<pc, candidates, counted, num_voters, elected>>
poll == <<options, state, linked, shown>>
tables == <<has_voted, vote_count, ballots>>
asking == <<reply, is_interested>>
vars == <<given, bot, poll, tables, asking>>

FullName(m) == given.full_name[m]

max_representant == given.max_representant

Unanswered == "unanswered"
Uncounted == -1

\* "canned,i" is the i-th option of the command, "sender,idx" one added later
Keys == ({"canned"} \X (0..Cardinality(Members))) \cup ({"added"} \X AddedOptions)

Init ==
    /\ given \in Given
    /\ pc = "ask"
    /\ reply = [m \in Members |-> "other"]
    /\ is_interested = [m \in Members |-> Unanswered]
    /\ has_voted = [m \in Members |-> FALSE]
    /\ vote_count = [m \in Members |-> 0]
    /\ candidates = {}
    /\ options = <<>>
    /\ state = "none"
    /\ linked = FALSE
    /\ ballots = {}
    /\ shown = {}
    /\ counted = [m \in Members |-> Uncounted]
    /\ num_voters = 0
    /\ elected = {}

-----------------------------------------------------------------------------
(* The bot.                                                                *)

\* the question becomes the last message of every conversation
Ask ==
    /\ pc = "ask"
    /\ pc' = "collect"
    /\ reply' = [m \in Members |-> "other"]
    /\ UNCHANGED <<candidates, counted, num_voters, elected, poll, tables,
                   is_interested>>

\* Vote.objects.create, at the end of the delay
CreateVote ==
    /\ pc = "collect"
    /\ state = "none"
    /\ state' = "pending"
    /\ UNCHANGED <<bot, options, linked, shown, tables, asking>>

\* collect_responses, one member: anything but "oui" counts as a refusal, and
\* so does an answer that cannot be fetched
Collect(m) ==
    /\ pc = "collect"
    /\ state = "pending"
    /\ is_interested[m] = Unanswered
    /\ \/ is_interested' = [is_interested EXCEPT ![m] =
                             IF reply[m] = "oui" THEN "yes" ELSE "no"]
       \/ ApiMayFail /\ is_interested' = [is_interested EXCEPT ![m] = "no"]
    /\ UNCHANGED <<bot, poll, tables, reply>>

Volunteers == {m \in Members : is_interested[m] = "yes"}

Collected ==
    /\ pc = "collect"
    /\ \A m \in Members : is_interested[m] # Unanswered

\* max and > do not take None
Limited == max_representant # NullRepresentant

\* at least two volunteers, or random.sample of max(max_representant, size)
Choose ==
    /\ Collected
    /\ \/ /\ Cardinality(Volunteers) >= 2
          /\ candidates' = Volunteers
       \/ /\ Cardinality(Volunteers) < 2
          /\ Limited
          /\ max_representant <= Cardinality(Members)
          /\ candidates' = Members
    /\ pc' = "send"
    /\ UNCHANGED <<counted, num_voters, elected, poll, tables, asking>>

\* TypeError, or "Sample larger than population": the exception ends the
\* debate's thread
ChooseFails ==
    /\ Collected
    /\ Cardinality(Volunteers) < 2
    /\ Limited => max_representant > Cardinality(Members)
    /\ pc' = "failed"
    /\ UNCHANGED <<candidates, counted, num_voters, elected, poll, tables,
                   asking>>

\* send_poll: the message exists, and can be voted on, from here
SendPoll ==
    /\ pc = "send"
    /\ options' = SetToSeq(candidates)
    /\ pc' = "link"
    /\ UNCHANGED <<candidates, counted, num_voters, elected, state, linked,
                   shown, tables, asking>>

\* a request that is refused ends the debate's thread too; the message may
\* exist nevertheless, if only the answer was lost
SendPollFails ==
    /\ pc = "send"
    /\ ApiMayFail
    /\ options' \in {options, SetToSeq(candidates)}
    /\ pc' = "refused"
    /\ UNCHANGED <<candidates, counted, num_voters, elected, state, linked,
                   shown, tables, asking>>

\* the message id comes back, and vote_message is saved
LinkPoll ==
    /\ pc = "link"
    /\ ~linked
    /\ linked' = TRUE
    /\ UNCHANGED <<bot, options, state, shown, tables, asking>>

OpenVote ==
    /\ pc = "link"
    /\ linked
    /\ state' = "voting"
    /\ pc' = "tally"
    /\ UNCHANGED <<candidates, counted, num_voters, elected, options, linked,
                   shown, tables, asking>>

\* process_poll_result: one query for each candidate ...
VotesFor(c) == {m \in Members : <<m, c>> \in ballots}

Count(c) ==
    /\ pc = "tally"
    /\ c \in candidates
    /\ counted[c] = Uncounted
    /\ counted' = [counted EXCEPT ![c] = Cardinality(VotesFor(c))]
    /\ UNCHANGED <<pc, candidates, num_voters, elected, poll, tables, asking>>

\* ... and then one for the number of voters
Voters == {m \in Members : has_voted[m]}

CountVoters ==
    /\ pc = "tally"
    /\ \A c \in candidates : counted[c] # Uncounted
    /\ num_voters' = Cardinality(Voters)
    /\ pc' = "decide"
    /\ UNCHANGED <<candidates, counted, elected, poll, tables, asking>>

\* math.ceil(num_voters * (2 / 3))
Threshold == (2 * num_voters + 2) \div 3

OverThreshold == {c \in candidates : counted[c] >= Threshold}

\* the max_representant best of a stable sort, among those with a vote
BestOf(c, chosen) ==
    \A o \in chosen : \A r \in c \ chosen : counted[o] >= counted[r]

\* mutant: the sample above the threshold is not taken
DecideUnlimited ==
    /\ pc = "decide"
    /\ Limited
    /\ elected' = OverThreshold
    /\ pc' = "complete"
    /\ UNCHANGED <<candidates, counted, num_voters, poll, tables, asking>>

\* mutant: sorted without reverse=True
DecideWorst ==
    /\ pc = "decide"
    /\ Limited
    /\ LET voted == {c \in candidates : counted[c] >= 1}
           seats == IF Cardinality(voted) < max_representant
                    THEN Cardinality(voted) ELSE max_representant
       IN  elected' \in {s \in SUBSET voted :
                           /\ Cardinality(s) = seats
                           /\ \A o \in s, r \in voted \ s : counted[o] <= counted[r]}
    /\ pc' = "complete"
    /\ UNCHANGED <<candidates, counted, num_voters, poll, tables, asking>>

\* mutant: nobody is elected below the threshold
DecideStrict ==
    /\ pc = "decide"
    /\ Limited
    /\ elected' = IF Cardinality(OverThreshold) > max_representant THEN {}
                  ELSE OverThreshold
    /\ pc' = "complete"
    /\ UNCHANGED <<candidates, counted, num_voters, poll, tables, asking>>

Decide ==
    /\ pc = "decide"
    /\ Limited
    /\ \/ /\ Cardinality(OverThreshold) > max_representant
          /\ elected' \in {s \in SUBSET OverThreshold :
                             Cardinality(s) = max_representant}
       \/ /\ Cardinality(OverThreshold) <= max_representant
          /\ LET voted == {c \in candidates : counted[c] >= 1}
             IN  \/ Cardinality(voted) <= max_representant /\ elected' = voted
                 \/ /\ Cardinality(voted) > max_representant
                    /\ elected' \in {s \in SUBSET voted :
                                       /\ Cardinality(s) = max_representant
                                       /\ BestOf(voted, s)}
    /\ pc' = "complete"
    /\ UNCHANGED <<candidates, counted, num_voters, poll, tables, asking>>

\* len(selected) > None: raised again, and the debate's thread ends
DecideFails ==
    /\ pc = "decide"
    /\ ~Limited
    /\ pc' = "failed"
    /\ UNCHANGED <<candidates, counted, num_voters, elected, poll, tables,
                   asking>>

\* mutant: the row stays in state "voting"
CompleteSilently ==
    /\ pc = "complete"
    /\ pc' = "done"
    /\ UNCHANGED <<candidates, counted, num_voters, elected, poll, tables,
                   asking>>

\* the members are told that the vote is over; the row is completed
Complete ==
    /\ pc = "complete"
    /\ state' = "completed"
    /\ pc' = "done"
    /\ UNCHANGED <<candidates, counted, num_voters, elected, options, linked,
                   shown, tables, asking>>

Bot ==
    /\ UNCHANGED given
    /\ \/ Ask \/ CreateVote \/ Choose \/ ChooseFails \/ SendPoll
       \/ SendPollFails \/ LinkPoll \/ OpenVote \/ CountVoters \/ Decide
       \/ DecideFails \/ Complete
       \/ \E m \in Members : Collect(m) \/ Count(m)

-----------------------------------------------------------------------------
(* The members.                                                            *)

Answer(m, text) ==
    /\ pc = "collect"
    /\ is_interested[m] = Unanswered    \* a later answer is never read
    /\ reply' = [reply EXCEPT ![m] = text]
    /\ UNCHANGED <<bot, poll, tables, is_interested>>

\* the widget hides an option whose text is already there
Displayed(key) ==
    /\ options # <<>>
    /\ \/ key[1] = "added"
       \/ /\ key[1] = "canned"
          /\ key[2] < Len(options)
          /\ \A i \in 1..key[2] :
                FullName(options[i]) # FullName(options[key[2] + 1])

\* the server keeps only what follows the comma of the key
HasCandidate(key) == key[2] < Len(options)

\* .filter(full_name = option).first(): the first of the homonyms
MembersInOrder == SetToSeq(Members)

CandidateOf(key) ==
    LET named == {i \in 1..Len(MembersInOrder) :
                    FullName(MembersInOrder[i]) = FullName(options[key[2] + 1])}
    IN  MembersInOrder[CHOOSE i \in named : \A j \in named : i <= j]

\* the submessage of a poll that no Vote is linked to: kept, and not counted
SubmitUnlinked(m, key, flag) ==
    /\ Displayed(key)
    /\ ~linked
    /\ shown' = IF flag = 1 THEN shown \cup {<<m, key>>}
                ELSE shown \ {<<m, key>>}
    /\ Cardinality(shown') <= MaxSelections
    /\ UNCHANGED <<bot, options, state, linked, tables, asking>>

\* vote_flag 1: get_or_create, has_voted, and vote_count += 1 in any case
CastVote(m, key) ==
    LET c == CandidateOf(key)
    IN  /\ Displayed(key)
        /\ linked
        /\ HasCandidate(key)
        /\ vote_count[c] < MaxVoteCount
        /\ ballots' = ballots \cup {<<m, c>>}
        /\ has_voted' = [has_voted EXCEPT ![m] = TRUE]
        /\ vote_count' = [vote_count EXCEPT ![c] = @ + 1]
        /\ shown' = shown \cup {<<m, key>>}
        /\ Cardinality(shown') <= MaxSelections
        /\ UNCHANGED <<bot, options, state, linked, asking>>

\* mutant: a withdrawal takes has_voted back
WithdrawVoter(m, key) ==
    LET c == CandidateOf(key)
    IN  /\ Displayed(key)
        /\ linked
        /\ HasCandidate(key)
        /\ vote_count[c] >= 1
        /\ ballots' = ballots \ {<<m, c>>}
        /\ vote_count' = [vote_count EXCEPT ![c] = @ - 1]
        /\ has_voted' = [has_voted EXCEPT ![m] = FALSE]
        /\ shown' = shown \ {<<m, key>>}
        /\ UNCHANGED <<bot, options, state, linked, asking>>

\* mutant: the row is not deleted
WithdrawCountOnly(m, key) ==
    LET c == CandidateOf(key)
    IN  /\ Displayed(key)
        /\ linked
        /\ HasCandidate(key)
        /\ vote_count[c] >= 1
        /\ vote_count' = [vote_count EXCEPT ![c] = @ - 1]
        /\ shown' = shown \ {<<m, key>>}
        /\ UNCHANGED <<bot, options, state, linked, ballots, has_voted, asking>>

\* mutant: the count is not checked before it is decremented
WithdrawUnchecked(m, key) ==
    LET c == CandidateOf(key)
    IN  /\ Displayed(key)
        /\ linked
        /\ HasCandidate(key)
        /\ ballots' = ballots \ {<<m, c>>}
        /\ vote_count' = [vote_count EXCEPT ![c] = @ - 1]
        /\ shown' = shown \ {<<m, key>>}
        /\ UNCHANGED <<bot, options, state, linked, has_voted, asking>>

\* vote_flag -1; a count that would become negative rolls everything back
WithdrawVote(m, key) ==
    LET c == CandidateOf(key)
    IN  /\ Displayed(key)
        /\ linked
        /\ HasCandidate(key)
        /\ vote_count[c] >= 1
        /\ ballots' = ballots \ {<<m, c>>}
        /\ vote_count' = [vote_count EXCEPT ![c] = @ - 1]
        /\ shown' = shown \ {<<m, key>>}
        /\ UNCHANGED <<bot, options, state, linked, has_voted, asking>>

Group ==
    /\ UNCHANGED given
    /\ \E m \in Members :
         \/ \E text \in {"oui", "other"} : Answer(m, text)
         \/ \E key \in Keys : \/ CastVote(m, key)
                              \/ WithdrawVote(m, key)
                              \/ \E flag \in {1, -1} : SubmitUnlinked(m, key, flag)

-----------------------------------------------------------------------------
Next == Bot \/ Group

Spec == Init /\ [][Next]_vars

\* the thread runs on whatever the members do: every wait is a bounded sleep
FairSpec == Spec /\ WF_vars(Bot)

-----------------------------------------------------------------------------
TypeOK ==
    /\ given \in Given
    /\ pc \in {"ask", "collect", "send", "link", "tally", "decide",
               "complete", "done", "failed", "refused"}
    /\ reply \in [Members -> {"oui", "other"}]
    /\ is_interested \in [Members -> {"yes", "no", Unanswered}]
    /\ has_voted \in [Members -> BOOLEAN]
    /\ vote_count \in [Members -> 0..MaxVoteCount]
    /\ candidates \subseteq Members
    /\ options \in Seq(Members)
    /\ state \in {"none", "pending", "voting", "completed"}
    /\ linked \in BOOLEAN
    /\ ballots \subseteq Members \X Members
    /\ shown \subseteq Members \X Keys
    /\ counted \in [Members -> Nat \cup {Uncounted}]
    /\ num_voters \in Nat
    /\ elected \subseteq Members

(***************************************************************************)
(* The count is not atomic: ballots move while the candidates are counted  *)
(* one after the other, and the voters are counted last.  Still nobody is  *)
(* counted more votes than there are voters, so that the threshold of two  *)
(* thirds can be reached exactly by the candidates it is meant for: this   *)
(* needs has_voted to survive a withdrawal (l.97-99, debat_vote l.137-146).*)
(***************************************************************************)
CountedWithinVoters ==
    /\ \A c \in Members : counted[c] <= Cardinality(Voters)
    /\ pc \in {"decide", "complete", "done"} =>
         \A c \in Members : counted[c] <= num_voters

(***************************************************************************)
(* Whoever reaches two thirds of the voters is elected, unless all seats   *)
(* are taken by others who reach it too: sampling above the threshold and  *)
(* sorting below it agree on that (l.144-161).                             *)
(***************************************************************************)
MajorityElected ==
    pc \in {"complete", "done"} =>
      \A c \in OverThreshold \ elected :
        counted[c] >= 1 =>
          /\ Cardinality(elected) = max_representant
          /\ elected \subseteq OverThreshold

(***************************************************************************)
(* No seat is left empty while a candidate with a vote is left out.        *)
(***************************************************************************)
SeatsFilled ==
    pc \in {"complete", "done"} =>
      \/ Cardinality(elected) = max_representant
      \/ \A c \in candidates : counted[c] >= 1 => c \in elected

(***************************************************************************)
(* Nobody votes for a member: every row of GroupVote comes from a          *)
(* selection that the poll displays for that very member, and that carries *)
(* the number of the candidate's option, whoever toggles and from however  *)
(* many devices (process_debat_form l.90-114).  The selection may be of an *)
(* option that was added under that number: see OwnChoice.                 *)
(***************************************************************************)
RowsAreShown ==
    \A b \in ballots : \E key \in Keys :
      /\ <<b[1], key>> \in shown
      /\ HasCandidate(key)
      /\ FullName(options[key[2] + 1]) = FullName(b[2])

(***************************************************************************)
(* A vote is the member's own choice: every row of GroupVote is a          *)
(* selection, displayed for that member, of an option of the poll command, *)
(* the one that shows the candidate's name.  Members may add options of    *)
(* their own (poll_data.ts l.128), and the server reads the number of an   *)
(* added one as that of an option of the command (process_debat_form l.33, *)
(* l.69-70), so that a selection of it votes for somebody else.            *)
(***************************************************************************)
OwnChoice ==
    \A b \in ballots : \E key \in Keys :
      /\ key[1] = "canned"
      /\ <<b[1], key>> \in shown
      /\ FullName(options[key[2] + 1]) = FullName(b[2])

(***************************************************************************)
(* Once the poll is linked, a selection made on it is counted: what the    *)
(* poll displays for a member is in GroupVote.                             *)
(***************************************************************************)
ShownIsCounted ==
    pc = "decide" => \A s \in shown : \E b \in ballots :
      b[1] = s[1] /\ FullName(b[2]) = FullName(options[s[2][2] + 1])

(***************************************************************************)
(* The vote is completed, however long the members keep toggling their     *)
(* selections, unless the poll is refused (l.111-112, l.127-129).  It need *)
(* not be where max_representant is null, or exceeds the group: then the   *)
(* sample (l.212) or the decision (l.147) may raise.                       *)
(***************************************************************************)
VoteEnds ==
    Limited /\ max_representant <= Cardinality(Members) =>
      <>(state = "completed" \/ pc = "refused")

-----------------------------------------------------------------------------
(* The election that the debate sees.                                      *)

Stage ==
    CASE pc \in {"ask", "collect", "send"} -> "asking"
      [] pc \in {"link", "tally", "decide"} -> "voting"
      [] pc \in {"complete", "done"} -> "closed"
      [] pc \in {"failed", "refused"} -> "failed"

Abstract == INSTANCE Election WITH
                seats <- max_representant, stage <- Stage, elected <- elected

(***************************************************************************)
(* Every vote is an election of at most max_representant members, decided  *)
(* once: all that DebateEngine assumes of it when it counts the votes.     *)
(***************************************************************************)
IsAnElection == Abstract!Spec
=============================================================================
