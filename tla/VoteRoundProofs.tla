-------------------------- MODULE VoteRoundProofs --------------------------
(***************************************************************************)
(* Proofs about VoteRound, for any group, names, seats and bounds: its     *)
(* type invariant, that the count stays within the voters although it is   *)
(* not atomic, that who is elected agrees with the count, that the ballots *)
(* are what the poll displays, and that every vote is an Election.         *)
(***************************************************************************)
EXTENDS VoteRound, FiniteSetTheorems, SequenceTheorems, TLAPS

-----------------------------------------------------------------------------
(* The order of a finite set, and the first of the homonyms.               *)

(***************************************************************************)
(* A set of natural numbers that is not empty has a least element.         *)
(***************************************************************************)
LEMMA LeastNatural ==
    ASSUME NEW S \in SUBSET Nat, S # {}
    PROVE  \E i \in S : \A j \in S : i <= j
<1>1. PICK i \in S : \A j \in S : ~(<<j, i>> \in OpToRel(<, Nat))
  BY NatLessThanWellFounded, WFMin
<1>2. \A j \in S : ~(j < i)
  BY <1>1 DEF OpToRel
<1> QED
  BY <1>2

(***************************************************************************)
(* SetToSeq lists the elements of a finite set, all of them.               *)
(***************************************************************************)
LEMMA SetToSeqLists ==
    ASSUME NEW S, IsFiniteSet(S)
    PROVE  /\ SetToSeq(S) \in Seq(S)
           /\ Len(SetToSeq(S)) = Cardinality(S)
           /\ \A e \in S : \E i \in 1..Len(SetToSeq(S)) : SetToSeq(S)[i] = e
<1> DEFINE n == Cardinality(S)
           s == SetToSeq(S)
<1>1. n \in Nat /\ ExistsBijection(1..n, S)
  BY FS_CardinalityType
<1>2. \E f \in [1..n -> S] : IsInjective(f)
  BY <1>1 DEF ExistsBijection, Bijection, Injection
<1>3. s \in [1..n -> S] /\ IsInjective(s)
  BY <1>2 DEF SetToSeq
<1>4. s \in Seq(S) /\ Len(s) = n
  BY <1>1, <1>3
<1>5. ASSUME NEW e \in S, \A i \in 1..n : s[i] # e
      PROVE  FALSE
  <2>1. s \in [1..n -> S \ {e}]
    BY <1>3, <1>5
  <2>2. s \in Injection(1..n, S \ {e})
    BY <2>1, <1>3 DEF Injection
  <2>3. IsFiniteSet(S \ {e}) /\ Cardinality(S \ {e}) = n - 1
    BY FS_RemoveElement
  <2>4. Cardinality(1..n) <= n - 1
    BY <2>2, <2>3, FS_Injection
  <2>5. Cardinality(1..n) = n
    BY <1>1, FS_Interval
  <2> QED
    BY <1>1, <2>4, <2>5
<1> HIDE DEF s, n
<1> QED
  BY <1>4, <1>5 DEF s, n

(***************************************************************************)
(* The number of the members of a part of the group.                       *)
(***************************************************************************)
LEMMA PartsAreFinite ==
    ASSUME NEW part \in SUBSET Members
    PROVE  IsFiniteSet(part) /\ Cardinality(part) \in Nat
BY VoteAssumption, FS_Subset, FS_CardinalityType

(***************************************************************************)
(* A key of the poll that HasCandidate stands for a member, of the name    *)
(* that the option shows.                                                  *)
(***************************************************************************)
LEMMA CandidateIsNamed ==
    ASSUME options \in Seq(Members), NEW key \in Keys, HasCandidate(key)
    PROVE  /\ key[2] + 1 \in 1..Len(options)
           /\ CandidateOf(key) \in Members
           /\ FullName(CandidateOf(key)) = FullName(options[key[2] + 1])
<1> DEFINE all == MembersInOrder
           name == FullName(options[key[2] + 1])
           named == {i \in 1..Len(all) : FullName(all[i]) = name}
<1>1. key[2] \in Nat
  <2>1. Cardinality(Members) \in Nat
    BY VoteAssumption, FS_CardinalityType
  <2>2. CASE key \in {"canned"} \X (0..Cardinality(Members))
    BY <2>1, <2>2
  <2>3. CASE key \in {"added"} \X AddedOptions
    BY <2>3, VoteAssumption
  <2> QED
    BY <2>2, <2>3 DEF Keys
<1>2. key[2] + 1 \in 1..Len(options)
  BY <1>1 DEF HasCandidate
<1>3. options[key[2] + 1] \in Members
  BY <1>2
<1>4. /\ all \in Seq(Members)
      /\ \A m \in Members : \E i \in 1..Len(all) : all[i] = m
  BY VoteAssumption, SetToSeqLists DEF MembersInOrder
<1>5. named # {} /\ named \in SUBSET Nat
  <2>1. PICK i \in 1..Len(all) : all[i] = options[key[2] + 1]
    BY <1>3, <1>4
  <2>2. i \in named
    BY <2>1
  <2>3. named \in SUBSET Nat
    OBVIOUS
  <2> QED
    BY <2>2, <2>3
<1>6. \E i \in named : \A j \in named : i <= j
  BY <1>5, LeastNatural
<1> DEFINE first == CHOOSE i \in named : \A j \in named : i <= j
<1>7. first \in named
  BY <1>6
<1>8. CandidateOf(key) = all[first]
  BY DEF CandidateOf
<1>9. first \in 1..Len(all) /\ FullName(all[first]) = name
  BY <1>7
<1> QED
  BY <1>2, <1>4, <1>8, <1>9

-----------------------------------------------------------------------------
(* Types.                                                                  *)

(***************************************************************************)
(* What is considered initially has its type.                              *)
(***************************************************************************)
LEMMA TypeInit == Init => TypeOK
<1> SUFFICES ASSUME Init
             PROVE  TypeOK
  OBVIOUS
<1>1. options \in Seq(Members)
  BY EmptySeq DEF Init
<1>2. /\ vote_count \in [Members -> 0..MaxVoteCount]
      /\ counted \in [Members -> Nat \cup {Uncounted}]
      /\ num_voters \in Nat
  BY VoteAssumption DEF Init
<1>3. /\ reply \in [Members -> {"oui", "other"}]
      /\ is_interested \in [Members -> {"yes", "no", Unanswered}]
      /\ has_voted \in [Members -> BOOLEAN]
  BY DEF Init
<1> QED
  BY <1>1, <1>2, <1>3 DEF Init, TypeOK

(***************************************************************************)
(* The steps of the bot keep the types.                                    *)
(***************************************************************************)
LEMMA BotType == TypeOK /\ Bot => TypeOK'
<1> SUFFICES ASSUME TypeOK, Bot
             PROVE  TypeOK'
  OBVIOUS
<1> USE DEF TypeOK, bot, poll, tables, asking
<1>0. given' = given
  BY DEF Bot
<1>1. CASE Ask
  BY <1>0, <1>1 DEF Ask
<1>2. CASE CreateVote
  BY <1>0, <1>2 DEF CreateVote
<1>3. CASE Choose
  <2>1. candidates' \subseteq Members
    BY <1>3 DEF Choose, Volunteers
  <2> QED
    BY <1>0, <1>3, <2>1 DEF Choose
<1>4. CASE ChooseFails
  BY <1>0, <1>4 DEF ChooseFails
<1>5. CASE SendPoll
  <2>1. SetToSeq(candidates) \in Seq(candidates)
    BY PartsAreFinite, SetToSeqLists
  <2>2. options' \in Seq(Members)
    BY <1>5, <2>1 DEF SendPoll
  <2> QED
    BY <1>0, <1>5, <2>2 DEF SendPoll
<1>5a. CASE SendPollFails
  <2>1. SetToSeq(candidates) \in Seq(candidates)
    BY PartsAreFinite, SetToSeqLists
  <2>2. options' \in Seq(Members)
    BY <1>5a, <2>1 DEF SendPollFails
  <2> QED
    BY <1>0, <1>5a, <2>2 DEF SendPollFails
<1>6. CASE LinkPoll
  BY <1>0, <1>6 DEF LinkPoll
<1>7. CASE OpenVote
  BY <1>0, <1>7 DEF OpenVote
<1>8. CASE CountVoters
  <2>1. num_voters' \in Nat
    BY <1>8, PartsAreFinite DEF CountVoters, Voters
  <2> QED
    BY <1>0, <1>8, <2>1 DEF CountVoters
<1>9. CASE Decide
  <2>1. elected' \subseteq Members
    BY <1>9 DEF Decide, OverThreshold
  <2> QED
    BY <1>0, <1>9, <2>1 DEF Decide
<1>9a. CASE DecideFails
  BY <1>0, <1>9a DEF DecideFails
<1>10. CASE Complete
  BY <1>0, <1>10 DEF Complete
<1>11. ASSUME NEW m \in Members, Collect(m)
       PROVE  TypeOK'
  BY <1>0, <1>11 DEF Collect
<1>12. ASSUME NEW m \in Members, Count(m)
       PROVE  TypeOK'
  <2>1. Cardinality(VotesFor(m)) \in Nat
    BY PartsAreFinite DEF VotesFor
  <2> QED
    BY <1>0, <1>12, <2>1 DEF Count
<1> QED
  BY <1>1, <1>2, <1>3, <1>4, <1>5, <1>5a, <1>6, <1>7, <1>8, <1>9, <1>9a,
     <1>10, <1>11, <1>12 DEF Bot

(***************************************************************************)
(* The answers and the submissions of the members keep the types.          *)
(***************************************************************************)
LEMMA GroupType == TypeOK /\ Group => TypeOK'
<1> SUFFICES ASSUME TypeOK, UNCHANGED given, NEW m \in Members
             PROVE  /\ \A text \in {"oui", "other"} : Answer(m, text) => TypeOK'
                    /\ \A key \in Keys :
                         /\ CastVote(m, key) => TypeOK'
                         /\ WithdrawVote(m, key) => TypeOK'
                         /\ \A flag \in {1, -1} :
                              SubmitUnlinked(m, key, flag) => TypeOK'
  BY DEF Group
<1> USE DEF TypeOK, bot, poll, tables, asking
<1>1. ASSUME NEW text \in {"oui", "other"}, Answer(m, text)
      PROVE  TypeOK'
  BY <1>1 DEF Answer
<1>2. ASSUME NEW key \in Keys, CastVote(m, key)
      PROVE  TypeOK'
  <2>1. CandidateOf(key) \in Members
    BY <1>2, CandidateIsNamed DEF CastVote
  <2>2. vote_count[CandidateOf(key)] + 1 \in 0..MaxVoteCount
    BY <1>2, <2>1, VoteAssumption DEF CastVote
  <2>3. /\ vote_count' \in [Members -> 0..MaxVoteCount]
        /\ ballots' \subseteq Members \X Members
        /\ has_voted' \in [Members -> BOOLEAN]
        /\ shown' \subseteq Members \X Keys
    BY <1>2, <2>1, <2>2 DEF CastVote
  <2> QED
    BY <1>2, <2>3 DEF CastVote
<1>3. ASSUME NEW key \in Keys, WithdrawVote(m, key)
      PROVE  TypeOK'
  <2>1. CandidateOf(key) \in Members
    BY <1>3, CandidateIsNamed DEF WithdrawVote
  <2>2. vote_count[CandidateOf(key)] - 1 \in 0..MaxVoteCount
    BY <1>3, <2>1, VoteAssumption DEF WithdrawVote
  <2>3. /\ vote_count' \in [Members -> 0..MaxVoteCount]
        /\ ballots' \subseteq Members \X Members
        /\ shown' \subseteq Members \X Keys
    BY <1>3, <2>1, <2>2 DEF WithdrawVote
  <2> QED
    BY <1>3, <2>3 DEF WithdrawVote
<1>4. ASSUME NEW key \in Keys, NEW flag \in {1, -1}, SubmitUnlinked(m, key, flag)
      PROVE  TypeOK'
  BY <1>4 DEF SubmitUnlinked
<1> QED
  BY <1>1, <1>2, <1>3, <1>4

(***************************************************************************)
(* Every variable keeps its type: the counters of the votes never leave    *)
(* their bounds, and the poll, the ballots and the elected are about       *)
(* members of the group only.                                              *)
(***************************************************************************)
THEOREM TypeCorrect == Spec => []TypeOK
<1>1. TypeOK /\ UNCHANGED vars => TypeOK'
  BY DEF TypeOK, vars, bot, poll, tables, asking
<1>2. TypeOK /\ [Next]_vars => TypeOK'
  BY <1>1, BotType, GroupType DEF Next
<1> QED
  BY TypeInit, <1>2, PTL DEF Spec

-----------------------------------------------------------------------------
(* The count.                                                              *)

\* a withdrawal leaves has_voted: whoever has a row in GroupVote is a voter
VotersHaveVoted == \A b \in ballots : has_voted[b[1]]

CountInv == TypeOK /\ VotersHaveVoted /\ CountedWithinVoters

\* pc of the bot once the voters are counted
Counted == {"decide", "complete", "done"}

(***************************************************************************)
(* A candidate has at most as many votes as there are voters.              *)
(***************************************************************************)
LEMMA VotesWithinVoters ==
    ASSUME TypeOK, VotersHaveVoted, NEW c
    PROVE  Cardinality(VotesFor(c)) <= Cardinality(Voters)
<1>1. VotesFor(c) \in SUBSET Voters
  BY DEF VotesFor, Voters, VotersHaveVoted
<1>2. IsFiniteSet(Voters)
  BY PartsAreFinite DEF Voters
<1> QED
  BY <1>1, <1>2, FS_Subset

(***************************************************************************)
(* The steps that neither vote nor count.                                  *)
(***************************************************************************)
LEMMA QuietKeepsCount ==
    ASSUME VotersHaveVoted, CountedWithinVoters,
           UNCHANGED <<ballots, has_voted, counted, num_voters>>,
           pc' \in Counted => pc \in Counted
    PROVE  VotersHaveVoted' /\ CountedWithinVoters'
BY DEF VotersHaveVoted, CountedWithinVoters, Voters, Counted

(***************************************************************************)
(* The bot counts one candidate after the other, and then the voters.      *)
(***************************************************************************)
LEMMA BotKeepsCount ==
    CountInv /\ Bot => VotersHaveVoted' /\ CountedWithinVoters'
<1> SUFFICES ASSUME CountInv, Bot
             PROVE  VotersHaveVoted' /\ CountedWithinVoters'
  OBVIOUS
<1> USE DEF CountInv
<1>1. CASE Ask
  BY <1>1, QuietKeepsCount DEF Ask, tables, Counted
<1>2. CASE CreateVote
  BY <1>2, QuietKeepsCount DEF CreateVote, tables, bot
<1>3. CASE Choose
  BY <1>3, QuietKeepsCount DEF Choose, tables, Counted
<1>4. CASE ChooseFails
  BY <1>4, QuietKeepsCount DEF ChooseFails, tables, Counted
<1>5. CASE SendPoll
  BY <1>5, QuietKeepsCount DEF SendPoll, tables, Counted
<1>5a. CASE SendPollFails
  BY <1>5a, QuietKeepsCount DEF SendPollFails, tables, Counted
<1>6. CASE LinkPoll
  BY <1>6, QuietKeepsCount DEF LinkPoll, tables, bot
<1>7. CASE OpenVote
  BY <1>7, QuietKeepsCount DEF OpenVote, tables, Counted
<1>8. CASE CountVoters
  BY <1>8 DEF CountVoters, tables, VotersHaveVoted, CountedWithinVoters, Voters
<1>9. CASE Decide
  BY <1>9, QuietKeepsCount DEF Decide, tables, Counted
<1>9a. CASE DecideFails
  BY <1>9a, QuietKeepsCount DEF DecideFails, tables, Counted
<1>10. CASE Complete
  BY <1>10, QuietKeepsCount DEF Complete, tables, Counted
<1>11. ASSUME NEW m \in Members, Collect(m)
       PROVE  VotersHaveVoted' /\ CountedWithinVoters'
  BY <1>11, QuietKeepsCount DEF Collect, tables, bot
<1>12. ASSUME NEW m \in Members, Count(m)
       PROVE  VotersHaveVoted' /\ CountedWithinVoters'
  <2>1. counted' = [counted EXCEPT ![m] = Cardinality(VotesFor(m))]
    BY <1>12 DEF Count
  <2>2. \A c \in Members : counted'[c] <= Cardinality(Voters)
    BY <2>1, VotesWithinVoters DEF TypeOK, CountedWithinVoters
  <2>3. pc = "tally" /\ UNCHANGED <<pc, ballots, has_voted>>
    BY <1>12 DEF Count, tables
  <2> QED
    BY <2>2, <2>3 DEF VotersHaveVoted, CountedWithinVoters, Voters
<1> QED
  BY <1>1, <1>2, <1>3, <1>4, <1>5, <1>5a, <1>6, <1>7, <1>8, <1>9, <1>9a,
     <1>10, <1>11, <1>12 DEF Bot

(***************************************************************************)
(* A vote adds a voter at most; a withdrawal takes none away.              *)
(***************************************************************************)
LEMMA GroupKeepsCount ==
    CountInv /\ Group => VotersHaveVoted' /\ CountedWithinVoters'
<1> SUFFICES ASSUME CountInv, NEW m \in Members
             PROVE  /\ \A text \in {"oui", "other"} : Answer(m, text) =>
                         VotersHaveVoted' /\ CountedWithinVoters'
                    /\ \A key \in Keys :
                         /\ CastVote(m, key) =>
                              VotersHaveVoted' /\ CountedWithinVoters'
                         /\ WithdrawVote(m, key) =>
                              VotersHaveVoted' /\ CountedWithinVoters'
                         /\ \A flag \in {1, -1} : SubmitUnlinked(m, key, flag) =>
                              VotersHaveVoted' /\ CountedWithinVoters'
  BY DEF Group
<1> USE DEF CountInv
<1>1. ASSUME NEW text \in {"oui", "other"}, Answer(m, text)
      PROVE  VotersHaveVoted' /\ CountedWithinVoters'
  BY <1>1, QuietKeepsCount DEF Answer, tables, bot
<1>2. ASSUME NEW key \in Keys, CastVote(m, key)
      PROVE  VotersHaveVoted' /\ CountedWithinVoters'
  <2>1. /\ ballots' = ballots \cup {<<m, CandidateOf(key)>>}
        /\ has_voted' = [has_voted EXCEPT ![m] = TRUE]
        /\ UNCHANGED bot
    BY <1>2 DEF CastVote
  <2>2. VotersHaveVoted'
    BY <2>1 DEF VotersHaveVoted, TypeOK
  <2>3. Voters \in SUBSET Voters' /\ Voters' \in SUBSET Members
    BY <2>1 DEF Voters, TypeOK
  <2>4. Cardinality(Voters) <= Cardinality(Voters')
    BY <2>3, PartsAreFinite, FS_Subset
  <2>5. Cardinality(Voters) \in Nat /\ Cardinality(Voters') \in Nat
    BY <2>3, PartsAreFinite DEF Voters
  <2>6. \A c \in Members : counted[c] \in Int
    BY DEF TypeOK, Uncounted
  <2> HIDE DEF Voters
  <2> QED
    BY <2>1, <2>2, <2>4, <2>5, <2>6 DEF CountedWithinVoters, bot
<1>3. ASSUME NEW key \in Keys, WithdrawVote(m, key)
      PROVE  VotersHaveVoted' /\ CountedWithinVoters'
  BY <1>3 DEF WithdrawVote, VotersHaveVoted, CountedWithinVoters, Voters, bot
<1>4. ASSUME NEW key \in Keys, NEW flag \in {1, -1}, SubmitUnlinked(m, key, flag)
      PROVE  VotersHaveVoted' /\ CountedWithinVoters'
  BY <1>4, QuietKeepsCount DEF SubmitUnlinked, tables, bot
<1> QED
  BY <1>1, <1>2, <1>3, <1>4

(***************************************************************************)
(* Nobody is counted more votes than there are voters, whatever the        *)
(* members do while process_poll_result counts: has_voted survives a       *)
(* withdrawal, and the voters are counted after the candidates.            *)
(***************************************************************************)
THEOREM CountCorrect == Spec => []CountedWithinVoters
<1>1. Init => CountInv
  <2> SUFFICES ASSUME Init
               PROVE  VotersHaveVoted /\ CountedWithinVoters
    BY TypeInit DEF CountInv
  <2>1. Cardinality(Voters) \in Nat
    BY PartsAreFinite DEF Voters
  <2> HIDE DEF Voters
  <2> QED
    BY <2>1 DEF Init, VotersHaveVoted, CountedWithinVoters, Uncounted
<1>2. CountInv /\ UNCHANGED vars => CountInv'
  BY DEF CountInv, TypeOK, VotersHaveVoted, CountedWithinVoters, Voters, vars,
         bot, poll, tables, asking
<1>3. CountInv /\ [Next]_vars => CountInv'
  BY <1>2, BotType, GroupType, BotKeepsCount, GroupKeepsCount
     DEF Next, CountInv
<1>4. CountInv => CountedWithinVoters
  BY DEF CountInv
<1> QED
  BY <1>1, <1>3, <1>4, PTL DEF Spec

-----------------------------------------------------------------------------
(* Who is elected.                                                         *)

\* candidates with a vote
Voted == {c \in candidates : counted[c] >= 1}

\* the bot has chosen the representants
Decided == {"complete", "done"}

ElectionInv == TypeOK /\ MajorityElected /\ SeatsFilled

(***************************************************************************)
(* The three ways in which the representants are chosen: a sample of those *)
(* who reach the threshold, everybody with a vote, or the best of those    *)
(* with a vote.  They never take more than the seats.                      *)
(***************************************************************************)
LEMMA DecideCases ==
    ASSUME TypeOK, Decide
    PROVE  /\ Cardinality(elected') <= max_representant
           /\ elected' \subseteq candidates
           /\ \/ /\ elected' \subseteq OverThreshold
                 /\ Cardinality(elected') = max_representant
              \/ elected' = Voted
              \/ /\ elected' \subseteq Voted
                 /\ Cardinality(elected') = max_representant
                 /\ BestOf(Voted, elected')
<1>1. max_representant \in Nat
  BY VoteAssumption DEF TypeOK, max_representant, Decide, Limited
<1>2. Cardinality(OverThreshold) \in Nat
  BY PartsAreFinite DEF TypeOK, OverThreshold
<1>3. CASE Cardinality(OverThreshold) > max_representant
  <2>1. elected' \in {s \in SUBSET OverThreshold :
                        Cardinality(s) = max_representant}
    BY <1>1, <1>3, <1>2 DEF Decide
  <2> QED
    BY <1>1, <2>1 DEF OverThreshold
<1>4. CASE ~(Cardinality(OverThreshold) > max_representant)
  <2>1. \/ Cardinality(Voted) <= max_representant /\ elected' = Voted
        \/ elected' \in {s \in SUBSET Voted :
                           /\ Cardinality(s) = max_representant
                           /\ BestOf(Voted, s)}
    BY <1>4 DEF Decide, Voted
  <2> QED
    BY <1>1, <2>1 DEF Voted
<1> QED
  BY <1>3, <1>4

(***************************************************************************)
(* The decision agrees with the count.                                     *)
(***************************************************************************)
LEMMA DecideElects ==
    TypeOK /\ UNCHANGED given /\ Decide => MajorityElected' /\ SeatsFilled'
<1> SUFFICES ASSUME TypeOK, UNCHANGED given, Decide
             PROVE  MajorityElected' /\ SeatsFilled'
  OBVIOUS
<1>1. UNCHANGED <<candidates, counted, num_voters>>
  BY DEF Decide
<1>2. /\ candidates \subseteq Members
      /\ \A c \in candidates : counted[c] \in Int
      /\ Threshold \in Int
  BY DEF TypeOK, Uncounted, Threshold
<1>3. OverThreshold' = OverThreshold
  BY <1>1 DEF OverThreshold, Threshold
<1>4. max_representant' = max_representant
  BY DEF max_representant
<1>5. CASE /\ elected' \subseteq OverThreshold
           /\ Cardinality(elected') = max_representant
  BY <1>3, <1>4, <1>5 DEF MajorityElected, SeatsFilled
<1>6. CASE elected' = Voted
  BY <1>1, <1>3, <1>6 DEF MajorityElected, SeatsFilled, Voted, OverThreshold
<1>7. CASE /\ elected' \subseteq Voted
           /\ Cardinality(elected') = max_representant
           /\ BestOf(Voted, elected')
  <2>1. ASSUME NEW c \in OverThreshold \ elected', counted[c] >= 1
        PROVE  elected' \subseteq OverThreshold
    <3>1. c \in Voted \ elected'
      BY <2>1 DEF OverThreshold, Voted
    <3>2. \A o \in elected' : counted[o] >= counted[c]
      BY <1>7, <3>1 DEF BestOf
    <3>3. counted[c] >= Threshold
      BY <2>1 DEF OverThreshold
    <3> QED
      BY <1>2, <1>7, <2>1, <3>2, <3>3 DEF OverThreshold, Voted
  <2> QED
    BY <1>1, <1>3, <1>4, <1>7, <2>1 DEF MajorityElected, SeatsFilled
<1> QED
  BY <1>5, <1>6, <1>7, DecideCases

(***************************************************************************)
(* Once the representants are chosen, nothing that the decision was made   *)
(* from changes; before, there is nothing to keep.                         *)
(***************************************************************************)
LEMMA OthersKeepElection ==
    ASSUME ElectionInv,
           \/ pc' \notin Decided
           \/ UNCHANGED <<given, candidates, counted, num_voters, elected>>
              /\ pc \in Decided
    PROVE  MajorityElected' /\ SeatsFilled'
<1>1. CASE pc' \notin Decided
  BY <1>1 DEF MajorityElected, SeatsFilled, Decided
<1>2. CASE UNCHANGED <<given, candidates, counted, num_voters, elected>> /\ pc \in Decided
  <2>1. /\ OverThreshold' = OverThreshold
        /\ max_representant' = max_representant
    BY <1>2 DEF OverThreshold, Threshold, max_representant
  <2> QED
    BY <1>2, <2>1 DEF ElectionInv, MajorityElected, SeatsFilled, Decided
<1> QED
  BY <1>1, <1>2

(***************************************************************************)
(* Every step of the vote keeps what is known of the elected.              *)
(***************************************************************************)
LEMMA NextKeepsElection ==
    ElectionInv /\ [Next]_vars => MajorityElected' /\ SeatsFilled'
<1> SUFFICES ASSUME ElectionInv, [Next]_vars
             PROVE  MajorityElected' /\ SeatsFilled'
  OBVIOUS
<1> USE DEF Decided
<1>1. CASE Bot
  <2>0. UNCHANGED given
    BY <1>1 DEF Bot
  <2>1. CASE Ask
    BY <2>1, OthersKeepElection DEF Ask
  <2>2. CASE CreateVote
    BY <2>0, <2>2, OthersKeepElection DEF CreateVote, bot
  <2>3. CASE Choose
    BY <2>3, OthersKeepElection DEF Choose
  <2>4. CASE ChooseFails
    BY <2>4, OthersKeepElection DEF ChooseFails
  <2>5. CASE SendPoll
    BY <2>5, OthersKeepElection DEF SendPoll
  <2>5a. CASE SendPollFails
    BY <2>5a, OthersKeepElection DEF SendPollFails
  <2>6. CASE LinkPoll
    BY <2>6, OthersKeepElection DEF LinkPoll, bot
  <2>7. CASE OpenVote
    BY <2>7, OthersKeepElection DEF OpenVote
  <2>8. CASE CountVoters
    BY <2>8, OthersKeepElection DEF CountVoters
  <2>9. CASE Decide
    BY <2>0, <2>9, DecideElects DEF ElectionInv
  <2>9a. CASE DecideFails
    BY <2>9a, OthersKeepElection DEF DecideFails
  <2>10. CASE Complete
    <3>1. UNCHANGED <<given, candidates, counted, num_voters, elected>> /\ pc \in Decided
      BY <2>0, <2>10 DEF Complete
    <3> QED
      BY <3>1, OthersKeepElection
  <2>11. ASSUME NEW m \in Members, Collect(m)
         PROVE  MajorityElected' /\ SeatsFilled'
    BY <2>11, OthersKeepElection DEF Collect, bot
  <2>12. ASSUME NEW m \in Members, Count(m)
         PROVE  MajorityElected' /\ SeatsFilled'
    BY <2>12, OthersKeepElection DEF Count
  <2> QED
    BY <1>1, <2>1, <2>2, <2>3, <2>4, <2>5, <2>5a, <2>6, <2>7, <2>8, <2>9,
       <2>9a, <2>10, <2>11, <2>12 DEF Bot
<1>2. CASE Group \/ UNCHANGED vars
  <2>1. UNCHANGED given /\ UNCHANGED bot
    BY <1>2 DEF Group, Answer, CastVote, WithdrawVote, SubmitUnlinked, vars
  <2> QED
    BY <2>1, OthersKeepElection DEF bot
<1> QED
  BY <1>1, <1>2 DEF Next

(***************************************************************************)
(* The inductive invariant of the elections, for the two theorems below.   *)
(***************************************************************************)
LEMMA ElectionInvAlways == Spec => []ElectionInv
<1>1. Init => ElectionInv
  BY TypeInit DEF Init, ElectionInv, MajorityElected, SeatsFilled
<1>2. ElectionInv /\ [Next]_vars => ElectionInv'
  <2>1. TypeOK /\ UNCHANGED vars => TypeOK'
    BY DEF TypeOK, vars, bot, poll, tables, asking
  <2> QED
    BY <2>1, BotType, GroupType, NextKeepsElection DEF Next, ElectionInv
<1> QED
  BY <1>1, <1>2, PTL DEF Spec

(***************************************************************************)
(* Whoever has a vote and reaches two thirds of the voters is elected,     *)
(* unless all the seats are taken by others who reach them too (debat_vote *)
(* l.144-161), for any number of seats and of candidates.                  *)
(***************************************************************************)
THEOREM MajorityIsElected == Spec => []MajorityElected
<1>1. ElectionInv => MajorityElected
  BY DEF ElectionInv
<1> QED
  BY <1>1, ElectionInvAlways, PTL

(***************************************************************************)
(* No seat is left empty while a candidate with a vote is left out.        *)
(***************************************************************************)
THEOREM SeatsAreFilled == Spec => []SeatsFilled
<1>1. ElectionInv => SeatsFilled
  BY DEF ElectionInv
<1> QED
  BY <1>1, ElectionInvAlways, PTL

-----------------------------------------------------------------------------
(* The refinement of Election.                                             *)

(***************************************************************************)
(* Both modules count alike.                                               *)
(***************************************************************************)
LEMMA SameCardinality ==
    ASSUME NEW S
    PROVE  Abstract!Cardinality(S) = Cardinality(S)
BY DEF Cardinality, Abstract!Cardinality

\* nobody is elected before the decision
UndecidedElectsNobody ==
    pc \notin Decided => elected = {}

(***************************************************************************)
(* The bot chooses the representants in one step, and never again.         *)
(***************************************************************************)
LEMMA BotRefines ==
    ASSUME TypeOK, UndecidedElectsNobody, Bot
    PROVE  UndecidedElectsNobody' /\ [Abstract!Next]_(Abstract!vars)
<1> USE DEF UndecidedElectsNobody, Decided, Abstract!vars
<1>0. max_representant' = max_representant
  BY DEF Bot, max_representant
<1>1. CASE Ask
  BY <1>0, <1>1 DEF Ask, Stage
<1>2. CASE CreateVote
  BY <1>0, <1>2 DEF CreateVote, bot, Stage
<1>3. CASE Choose
  BY <1>0, <1>3 DEF Choose, Collected, Stage
<1>4. CASE ChooseFails
  BY <1>0, <1>4 DEF ChooseFails, Collected, Stage, Abstract!Next, Abstract!Fail
<1>5. CASE SendPoll
  BY <1>0, <1>5 DEF SendPoll, Stage, Abstract!Next, Abstract!OpenPoll
<1>5a. CASE SendPollFails
  BY <1>0, <1>5a DEF SendPollFails, Stage, Abstract!Next, Abstract!Fail
<1>6. CASE LinkPoll
  BY <1>0, <1>6 DEF LinkPoll, bot, Stage
<1>7. CASE OpenVote
  BY <1>0, <1>7 DEF OpenVote, Stage
<1>8. CASE CountVoters
  BY <1>0, <1>8 DEF CountVoters, Stage
<1>9. CASE Decide
  <2>1. /\ Cardinality(elected') <= max_representant
        /\ elected' \subseteq Members
    BY <1>9, DecideCases DEF TypeOK
  <2>2. /\ pc = "decide" /\ pc' = "complete"
        /\ max_representant # NullRepresentant
    BY <1>9 DEF Decide, Limited
  <2> QED
    BY <1>0, <2>1, <2>2, SameCardinality DEF Stage, Abstract!Next, Abstract!Elect
<1>9a. CASE DecideFails
  BY <1>0, <1>9a DEF DecideFails, Stage, Abstract!Next, Abstract!Fail
<1>10. CASE Complete
  BY <1>0, <1>10 DEF Complete, Stage
<1>11. ASSUME NEW m \in Members, Collect(m)
       PROVE  UndecidedElectsNobody' /\ [Abstract!Next]_(Abstract!vars)
  BY <1>0, <1>11 DEF Collect, bot, Stage
<1>12. ASSUME NEW m \in Members, Count(m)
       PROVE  UndecidedElectsNobody' /\ [Abstract!Next]_(Abstract!vars)
  BY <1>0, <1>12 DEF Count, Stage
<1> QED
  BY <1>1, <1>2, <1>3, <1>4, <1>5, <1>5a, <1>6, <1>7, <1>8, <1>9, <1>9a,
     <1>10, <1>11, <1>12 DEF Bot

(***************************************************************************)
(* Every vote is an election of at most max_representant members, decided  *)
(* once, whatever its members do with the poll: what the debate engine     *)
(* assumes of the elections that it counts.                                *)
(***************************************************************************)
THEOREM VoteImplementsElection == Spec => IsAnElection
<1>1. Init => Abstract!Init /\ UndecidedElectsNobody
  BY VoteAssumption DEF Init, Abstract!Init, Stage, max_representant,
     UndecidedElectsNobody, Decided
<1>2. TypeOK /\ UndecidedElectsNobody /\ [Next]_vars =>
        UndecidedElectsNobody' /\ [Abstract!Next]_(Abstract!vars)
  <2> SUFFICES ASSUME TypeOK, UndecidedElectsNobody, [Next]_vars
               PROVE  UndecidedElectsNobody' /\ [Abstract!Next]_(Abstract!vars)
    OBVIOUS
  <2>1. CASE Bot
    BY <2>1, BotRefines
  <2>2. CASE Group \/ UNCHANGED vars
    <3>1. UNCHANGED given /\ UNCHANGED bot
      BY <2>2 DEF Group, Answer, CastVote, WithdrawVote, SubmitUnlinked, vars
    <3> QED
      BY <3>1 DEF bot, UndecidedElectsNobody, Decided, Abstract!vars, Stage,
         max_representant
  <2> QED
    BY <2>1, <2>2 DEF Next
<1> QED
  BY <1>1, <1>2, TypeCorrect, PTL DEF Spec, IsAnElection, Abstract!Spec

-----------------------------------------------------------------------------
(* The ballots and the poll.                                               *)

\* the poll is linked after it is sent, and there is no ballot before that
BallotsAfterLink ==
    /\ pc \in {"ask", "collect", "send"} => ~linked
    /\ ~linked => ballots = {}

\* b is a selection that the poll displays, under that key
Selected(b, key) ==
    /\ HasCandidate(key)
    /\ b[2] = CandidateOf(key)
    /\ <<b[1], key>> \in shown

(***************************************************************************)
(* Stronger than RowsAreShown: the candidate of a row is the very one that *)
(* the key stands for, the first of the homonyms, so that a withdrawal     *)
(* deletes the row of its own key.                                         *)
(***************************************************************************)
RowsAreSelected == \A b \in ballots : \E key \in Keys : Selected(b, key)

RowsInv == TypeOK /\ BallotsAfterLink /\ RowsAreSelected

(***************************************************************************)
(* A step that leaves the poll and its ballots, or that precedes all       *)
(* ballots.                                                                *)
(***************************************************************************)
LEMMA QuietKeepsRows ==
    ASSUME RowsAreSelected,
           \/ UNCHANGED <<given, options, ballots, shown>>
           \/ ballots' = {}
    PROVE  RowsAreSelected'
<1>1. CASE UNCHANGED <<given, options, ballots, shown>>
  <2>1. ASSUME NEW b, NEW key
        PROVE  Selected(b, key)' = Selected(b, key)
    BY <1>1 DEF Selected, HasCandidate, CandidateOf, FullName
  <2> QED
    BY <1>1, <2>1 DEF RowsAreSelected
<1>2. CASE ballots' = {}
  BY <1>2 DEF RowsAreSelected
<1> QED
  BY <1>1, <1>2

(***************************************************************************)
(* The bot sends the poll before it links it, and touches no ballot.       *)
(***************************************************************************)
LEMMA BotKeepsRows ==
    RowsInv /\ Bot => BallotsAfterLink' /\ RowsAreSelected'
<1> SUFFICES ASSUME RowsInv, Bot
             PROVE  BallotsAfterLink' /\ RowsAreSelected'
  OBVIOUS
<1> USE DEF RowsInv, BallotsAfterLink
<1>1. UNCHANGED given
  BY DEF Bot
<1>2. CASE Ask
  BY <1>1, <1>2, QuietKeepsRows DEF Ask, poll, tables
<1>3. CASE CreateVote
  BY <1>1, <1>3, QuietKeepsRows DEF CreateVote, bot, tables
<1>4. CASE Choose
  BY <1>1, <1>4, QuietKeepsRows DEF Choose, Collected, poll, tables
<1>5. CASE ChooseFails
  BY <1>1, <1>5, QuietKeepsRows DEF ChooseFails, Collected, poll, tables
<1>6. CASE SendPoll
  BY <1>1, <1>6, QuietKeepsRows DEF SendPoll, tables
<1>6a. CASE SendPollFails
  BY <1>1, <1>6a, QuietKeepsRows DEF SendPollFails, tables
<1>7. CASE LinkPoll
  BY <1>1, <1>7, QuietKeepsRows DEF LinkPoll, bot, tables
<1>8. CASE OpenVote
  BY <1>1, <1>8, QuietKeepsRows DEF OpenVote, tables
<1>9. CASE CountVoters
  BY <1>1, <1>9, QuietKeepsRows DEF CountVoters, poll, tables
<1>10. CASE Decide
  BY <1>1, <1>10, QuietKeepsRows DEF Decide, poll, tables
<1>10a. CASE DecideFails
  BY <1>1, <1>10a, QuietKeepsRows DEF DecideFails, poll, tables
<1>11. CASE Complete
  BY <1>1, <1>11, QuietKeepsRows DEF Complete, tables
<1>12. ASSUME NEW m \in Members, Collect(m)
       PROVE  BallotsAfterLink' /\ RowsAreSelected'
  BY <1>1, <1>12, QuietKeepsRows DEF Collect, bot, poll, tables
<1>13. ASSUME NEW m \in Members, Count(m)
       PROVE  BallotsAfterLink' /\ RowsAreSelected'
  BY <1>1, <1>13, QuietKeepsRows DEF Count, poll, tables
<1> QED
  BY <1>2, <1>3, <1>4, <1>5, <1>6, <1>6a, <1>7, <1>8, <1>9, <1>10, <1>10a,
     <1>11, <1>12, <1>13 DEF Bot

(***************************************************************************)
(* A vote adds the row of a selection; a withdrawal deletes the row of the *)
(* selection that it takes back, and of no other.                          *)
(***************************************************************************)
LEMMA GroupKeepsRows ==
    RowsInv /\ Group => BallotsAfterLink' /\ RowsAreSelected'
<1> SUFFICES ASSUME RowsInv, UNCHANGED given, NEW m \in Members
             PROVE  /\ \A text \in {"oui", "other"} : Answer(m, text) =>
                         BallotsAfterLink' /\ RowsAreSelected'
                    /\ \A key \in Keys :
                         /\ CastVote(m, key) =>
                              BallotsAfterLink' /\ RowsAreSelected'
                         /\ WithdrawVote(m, key) =>
                              BallotsAfterLink' /\ RowsAreSelected'
                         /\ \A flag \in {1, -1} : SubmitUnlinked(m, key, flag) =>
                              BallotsAfterLink' /\ RowsAreSelected'
  BY DEF Group
<1> USE DEF RowsInv
<1>1. ASSUME NEW text \in {"oui", "other"}, Answer(m, text)
      PROVE  BallotsAfterLink' /\ RowsAreSelected'
  BY <1>1, QuietKeepsRows DEF Answer, BallotsAfterLink, bot, poll, tables
<1>2. ASSUME UNCHANGED options, NEW key
      PROVE  /\ HasCandidate(key)' = HasCandidate(key)
             /\ CandidateOf(key)' = CandidateOf(key)
  BY <1>2 DEF HasCandidate, CandidateOf, FullName
<1>3. ASSUME NEW key \in Keys, CastVote(m, key)
      PROVE  BallotsAfterLink' /\ RowsAreSelected'
  <2>1. /\ HasCandidate(key)
        /\ linked
        /\ ballots' = ballots \cup {<<m, CandidateOf(key)>>}
        /\ shown' = shown \cup {<<m, key>>}
        /\ UNCHANGED <<pc, options, linked>>
    BY <1>3 DEF CastVote, bot
  <2>2. \A b : b = <<m, CandidateOf(key)>> => Selected(b, key)'
    BY <1>2, <2>1 DEF Selected
  <2>3. \A b \in ballots, k \in Keys : Selected(b, k) => Selected(b, k)'
    BY <1>2, <2>1 DEF Selected
  <2>4. ASSUME NEW b \in ballots'
        PROVE  \E k \in Keys : Selected(b, k)'
    <3>1. CASE b = <<m, CandidateOf(key)>>
      BY <2>2, <3>1
    <3>2. CASE b \in ballots
      BY <2>3, <3>2 DEF RowsAreSelected
    <3> QED
      BY <2>1, <3>1, <3>2
  <2> QED
    BY <2>1, <2>4 DEF BallotsAfterLink, RowsAreSelected
<1>4. ASSUME NEW key \in Keys, WithdrawVote(m, key)
      PROVE  BallotsAfterLink' /\ RowsAreSelected'
  <2>1. /\ linked
        /\ ballots' = ballots \ {<<m, CandidateOf(key)>>}
        /\ shown' = shown \ {<<m, key>>}
        /\ UNCHANGED <<pc, options, linked>>
    BY <1>4 DEF WithdrawVote, bot
  <2>2. ASSUME NEW b \in ballots', NEW k \in Keys, Selected(b, k)
        PROVE  Selected(b, k)'
    <3>1. b = <<b[1], b[2]>>
      BY <2>1 DEF TypeOK
    <3>2. <<b[1], k>> # <<m, key>>
      BY <2>1, <2>2, <3>1 DEF Selected
    <3> QED
      BY <1>2, <2>1, <2>2, <3>2 DEF Selected
  <2> QED
    BY <2>1, <2>2 DEF BallotsAfterLink, RowsAreSelected
<1>5. ASSUME NEW key \in Keys, NEW flag \in {1, -1}, SubmitUnlinked(m, key, flag)
      PROVE  BallotsAfterLink' /\ RowsAreSelected'
  BY <1>5, QuietKeepsRows DEF SubmitUnlinked, BallotsAfterLink, bot, tables
<1> QED
  BY <1>1, <1>3, <1>4, <1>5

(***************************************************************************)
(* Every row of GroupVote is a selection that the poll displays for that   *)
(* member, on the option or on the number of an added one.                 *)
(***************************************************************************)
LEMMA RowsInvAlways == Spec => []RowsInv
<1>1. Init => RowsInv
  BY TypeInit DEF Init, RowsInv, BallotsAfterLink, RowsAreSelected
<1>2. RowsInv /\ UNCHANGED vars => RowsInv'
  <2>1. TypeOK /\ UNCHANGED vars => TypeOK'
    BY DEF TypeOK, vars, bot, poll, tables, asking
  <2> QED
    BY <2>1, QuietKeepsRows DEF RowsInv, BallotsAfterLink, vars, bot, poll, tables
<1>3. RowsInv /\ [Next]_vars => RowsInv'
  BY <1>2, BotType, GroupType, BotKeepsRows, GroupKeepsRows DEF Next, RowsInv
<1> QED
  BY <1>1, <1>3, PTL DEF Spec

(***************************************************************************)
(* Nobody votes for a member: every row of GroupVote comes from a          *)
(* selection displayed for that member with the number of the candidate's  *)
(* option, whatever the members add to the poll, and whoever toggles, in   *)
(* whatever order.                                                         *)
(***************************************************************************)
THEOREM RowsShown == Spec => []RowsAreShown
<1>1. RowsInv => RowsAreShown
  <2> SUFFICES ASSUME RowsInv, NEW b \in ballots
               PROVE  \E key \in Keys :
                        /\ <<b[1], key>> \in shown
                        /\ HasCandidate(key)
                        /\ FullName(options[key[2] + 1]) = FullName(b[2])
    BY DEF RowsAreShown
  <2>1. PICK key \in Keys : Selected(b, key)
    BY DEF RowsInv, RowsAreSelected
  <2>2. FullName(CandidateOf(key)) = FullName(options[key[2] + 1])
    BY <2>1, CandidateIsNamed DEF RowsInv, TypeOK, Selected
  <2> QED
    BY <2>1, <2>2 DEF Selected
<1> QED
  BY <1>1, RowsInvAlways, PTL

(***************************************************************************)
(* As long as the members add no option to the poll, a vote is the         *)
(* member's own choice.  An added option breaks it: the server reads its   *)
(* number as that of an option of the command (process_debat_form l.33).   *)
(***************************************************************************)
THEOREM OwnChoiceWithoutAdded == Spec => [](AddedOptions = {} => OwnChoice)
<1>1. RowsInv => (AddedOptions = {} => OwnChoice)
  <2> SUFFICES ASSUME RowsInv, AddedOptions = {}, NEW b \in ballots
               PROVE  \E key \in Keys :
                        /\ key[1] = "canned"
                        /\ <<b[1], key>> \in shown
                        /\ FullName(options[key[2] + 1]) = FullName(b[2])
    BY DEF OwnChoice
  <2>1. PICK key \in Keys : Selected(b, key)
    BY DEF RowsInv, RowsAreSelected
  <2>2. key[1] = "canned"
    BY DEF Keys
  <2>3. FullName(CandidateOf(key)) = FullName(options[key[2] + 1])
    BY <2>1, CandidateIsNamed DEF RowsInv, TypeOK, Selected
  <2> QED
    BY <2>1, <2>2, <2>3 DEF Selected
<1> QED
  BY <1>1, RowsInvAlways, PTL
=============================================================================
