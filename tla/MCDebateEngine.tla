--------------------------- MODULE MCDebateEngine ---------------------------
EXTENDS DebateEngine, TLC

CONSTANTS d1, d2, u1, u2, u3, u4, u5

FreshRow(limit, representants) ==
    [step |-> 1, round |-> 1, created |-> FALSE, archived |-> FALSE,
     vote_phase |-> FALSE, max_per_group |-> limit,
     max_representant |-> representants, start |-> 1]

OneDebate == <<d1>>
TwoDebates == <<d1, d2>>

OwnTitles == [d \in Debates |-> d]
SameTitle == [d \in Debates |-> "title"]
EndAtZero == [d \in Debates |-> 0]

Rows_1_1 == [d \in Debates |-> FreshRow(1, 1)]
Rows_2_1 == [d \in Debates |-> FreshRow(2, 1)]
\* a debate whose creator never posted parameters, beside one that has them
Rows_Null == [d \in Debates |-> FreshRow(1, IF d = d1 THEN NullRepresentant ELSE 1)]

Everybody == [d \in Debates |-> Users]
AllButU3 == [d \in Debates |-> Users \ {u3}]

Params(limits, representants, starts) ==
    [max_per_group : limits, max_representant : representants, start : starts]
NoParams == {}
Params_1_1_1 == Params({1}, {1}, {1})

SymmetryButU3 == Permutations(Users \ {u3})
Symmetry == Permutations(Users)
=============================================================================
