-------------------------- MODULE MCResearchPipeline --------------------------
(* Two runs of one ticker over five articles of two sources: the first two *)
(* are similar, and only the less reliable of them is about the ticker; of *)
(* the others one repeats the first, and one has too short a headline.     *)
(* The pure blocks of the report are checked over bounded inputs beside    *)
(* the runs.                                                               *)
EXTENDS ResearchPipeline, CardReport, AnalogSetups

MCOrder == <<"wire", "blog", "copy", "peer", "stub">>
Retold == {"wire", "blog", "copy"}
MCFrom == [a \in ToSet(MCOrder) |-> IF a \in Retold THEN "finnhub" ELSE "newsapi"]
MCReliability == [a \in ToSet(MCOrder) |-> IF a = "blog" THEN 60 ELSE 90]
MCFingerprint == [a \in ToSet(MCOrder) |->
                    CASE a = "copy" -> "wire" [] a = "stub" -> "short" [] OTHER -> a]
MCSimilar == {p \in Retold \X Retold : p[1] # p[2]}
MCMentions ==
  [a \in ToSet(MCOrder) |-> IF a = "blog" THEN {"ticker", "macro"} ELSE {}]

Symmetry == Permutations(Run)

\* A story is never lost to the deduplication.
StoryKept == Init => StoryIsKept(4)

\* The options block of a report is sound in itself, and so is its history: the expected
\* value fits the maximum loss, the breakevens lie inside the wings, the score falls as
\* circumstances get worse; the analogs are the best found, and their counts of wins, losses
\* and shares retained fit each other.  That the two speak of the same loss is not said here
\* and does not hold (LostSetupsLose).
BlocksAreSound ==
  Init => /\ ValueFitsTheLoss /\ BreakevensAreInside /\ SafetyIsMonotone
          /\ AnalogsAreTheBest /\ AnalogsAddUp

\* A setup the history counts as the maximum loss earns nothing by the payout of the block,
\* for the structure at its own price: "maximum loss is inside the body", "Wings limit loss
\* beyond" (structure_geometry.py).  Does not hold: between the wings the payout of
\* position_risk.py rises to the whole credit, and it loses the wing beyond them.
LostSetupsLose ==
  Init =>
    \A structure \in Structures, last \in Path :
      LET g == Geometry(structure.body, structure.wing, structure.credit)
      IN \A o \in Outcome(structure, structure.spot, <<last>>) : o.lost => Payoff(g, last) <= 0

\* The cards and the explanations drawn from one block agree with each other and add up.
CardsAreConsistent ==
  Init => /\ TwoCardsAgree /\ ExplanationsAddUp
          /\ TriggersNameTheCause /\ StanceIsFair /\ WorseIsNotEasier
=============================================================================
