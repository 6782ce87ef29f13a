------------------------ MODULE DeliberationPanelProofs ------------------------
(***************************************************************************)
(* Proofs about DeliberationPanel, for panels of every size.               *)
(***************************************************************************)
EXTENDS DeliberationPanel, FiniteSetTheorems, WellFoundedInduction, TLAPS

\* What a member of the panel that sits may have said.
Said(reply, extra) == reply \in Voice \cup {Unheard, Lost} \cup extra

Shape ==
  /\ stage \in {"start", "desks", "layered", "read"} \cup Panels
  /\ desk \in [Desks -> {"asked", "valid", "error"}]
  /\ round \in 1 .. 3
  /\ DOMAIN opinion = Member /\ DOMAIN revision = Member
  /\ \A m \in Sitting : Said(opinion[m], {}) /\ Said(revision[m], {None})
  /\ \A m \in Council : stage = "council" => revision[m] # None
  /\ critiqued \subseteq Sitting

\* What the rounds before the present one have left.
Rounds ==
  /\ stage \notin Panels => round = 1 /\ critiqued = {} /\ opinion = Silent /\ revision = Silent
  /\ round = 1 => critiqued = {}
  /\ round < 3 => \A m \in Sitting : revision[m] = Unheard
  /\ \A m \in Sitting : opinion[m] = Lost => revision[m] \in {Unheard, Lost}
  /\ round > 1 => Quorum /\ \A m \in Sitting : opinion[m] # Unheard
  /\ round = 3 => critiqued = Sitting

\* A verdict is reached only in a panel or after one, and none sits without evidence.
Evidence ==
  /\ stage \in {"start", "desks", "team"} => layer.team = None
  /\ stage \notin {"layered", "read"} => layer.council = None
  /\ stage \in Panels \/ layer.team # None \/ layer.council # None
       => Cardinality(ValidDesks) >= MinModels

\* The package and the layer carry the same assessment from the team on.
Package ==
  /\ DOMAIN layer = {"status", "team", "council"}
  /\ intel = layer.team
  /\ card # None /\ layer.team # None => card.body = layer.team
  /\ stage # "read" => card = None

IInv == Shape /\ Rounds /\ Evidence /\ Package

-----------------------------------------------------------------------------

\* The strengthening holds in every reachable state.
LEMMA Invariant == Spec => []IInv
<1> USE PanelAssumption
<1> USE DEF Panels, Member, Sitting, Voice, Said, Silent, Clear, Sit, Complete
<1>1. Init => IInv
  <2> SUFFICES ASSUME Init PROVE IInv
    OBVIOUS
  <2>1. Shape
    BY DEF Init, Shape
  <2>2. Rounds
    BY DEF Init, Rounds
  <2>3. Evidence
    BY DEF Init, Evidence
  <2>4. Package
    BY DEF Init, Package
  <2> QED
    BY <2>1, <2>2, <2>3, <2>4 DEF IInv
<1>2. IInv /\ [Next]_vars => IInv'
  <2> SUFFICES ASSUME IInv, [Next]_vars PROVE IInv'
    OBVIOUS
  <2> USE DEF IInv
  <2>1. CASE Open
    <3>1. Shape'
      BY <2>1 DEF Open, Shape, panel
    <3>2. Rounds'
      BY <2>1 DEF Open, Rounds, Shape, panel
    <3>3. Evidence'
      BY <2>1 DEF Open, Evidence, ValidDesks, Package
    <3>4. Package'
      BY <2>1 DEF Open, Package, outputs
    <3> QED
      BY <3>1, <3>2, <3>3, <3>4
  <2>2. ASSUME NEW d \in Desks, DeskReports(d) PROVE IInv'
    <3>1. Shape'
      BY <2>2 DEF DeskReports, Shape, panel
    <3>2. Rounds'
      BY <2>2 DEF DeskReports, Rounds, panel, Valid, Quorum, Required
    <3>3. Evidence'
      BY <2>2 DEF DeskReports, Evidence
    <3>4. Package'
      BY <2>2 DEF DeskReports, Package, outputs
    <3> QED
      BY <3>1, <3>2, <3>3, <3>4
  <2>3. CASE DesksDone
    <3>1. Shape'
      BY <2>3 DEF DesksDone, Shape, panel
    <3>2. Rounds'
      BY <2>3 DEF DesksDone, Rounds, Shape, panel
    <3>3. Evidence'
      BY <2>3 DEF DesksDone, Evidence, ValidDesks, Package
    <3>4. Package'
      BY <2>3 DEF DesksDone, Package, Evidence, outputs
    <3> QED
      BY <3>1, <3>2, <3>3, <3>4
  <2>4. ASSUME NEW m \in Member, Opines(m) PROVE IInv'
    <3>1. Shape'
      BY <2>4 DEF Opines, Shape
    <3>2. Rounds'
      BY <2>4 DEF Opines, Rounds
    <3>3. Evidence'
      BY <2>4 DEF Opines, Evidence, ValidDesks
    <3>4. Package'
      BY <2>4 DEF Opines, Package, outputs
    <3> QED
      BY <3>1, <3>2, <3>3, <3>4
  <2>5. ASSUME NEW m \in Member, Critiques(m) PROVE IInv'
    <3>1. Shape'
      BY <2>5 DEF Critiques, Shape
    <3>2. Rounds'
      BY <2>5 DEF Critiques, Rounds, Quorum, Required, Valid
    <3>3. Evidence'
      BY <2>5 DEF Critiques, Evidence, ValidDesks
    <3>4. Package'
      BY <2>5 DEF Critiques, Package, outputs
    <3> QED
      BY <3>1, <3>2, <3>3, <3>4
  <2>6. ASSUME NEW m \in Member, Revises(m) PROVE IInv'
    <3>1. Shape'
      BY <2>6 DEF Revises, Shape
    <3>2. Rounds'
      BY <2>6 DEF Revises, Rounds, Quorum, Required, Valid
    <3>3. Evidence'
      BY <2>6 DEF Revises, Evidence, ValidDesks
    <3>4. Package'
      BY <2>6 DEF Revises, Package, outputs
    <3> QED
      BY <3>1, <3>2, <3>3, <3>4
  <2>7. CASE RoundOver
    <3>1. Shape'
      BY <2>7 DEF RoundOver, Shape
    <3>2. Rounds'
      <4>1. Quorum' <=> Quorum
        BY <2>7 DEF RoundOver, Quorum, Required, Valid
      <4>2. Quorum
        BY <2>7 DEF RoundOver, Rounds, Shape
      <4>3. stage \in Panels /\ stage' = stage /\ round \in {1, 2} /\ round' = round + 1
        BY <2>7 DEF RoundOver, Shape
      <4>4. CASE round = 1
        BY <4>1, <4>2, <4>3, <4>4, <2>7 DEF RoundOver, Rounds, Answered
      <4>5. CASE round = 2
        BY <4>1, <4>2, <4>3, <4>5, <2>7 DEF RoundOver, Rounds, Answered
      <4> QED
        BY <4>3, <4>4, <4>5
    <3>3. Evidence'
      BY <2>7 DEF RoundOver, Evidence, ValidDesks
    <3>4. Package'
      BY <2>7 DEF RoundOver, Package, outputs
    <3> QED
      BY <3>1, <3>2, <3>3, <3>4
  <2>8. CASE TeamDone
    <3>1. Shape'
      BY <2>8 DEF TeamDone, Shape
    <3>2. Rounds'
      BY <2>8 DEF TeamDone, Rounds, Shape
    <3>3. Evidence'
      <4>1. layer'.council = None
        BY <2>8 DEF TeamDone, Evidence, Package
      <4>2. Cardinality(ValidDesks') >= MinModels
        BY <2>8 DEF TeamDone, Evidence, ValidDesks
      <4>3. stage' \in {"layered", "council"}
        BY <2>8 DEF TeamDone
      <4> QED
        BY <4>1, <4>2, <4>3 DEF Evidence
    <3>4. Package'
      BY <2>8 DEF TeamDone, Package, outputs
    <3> QED
      BY <3>1, <3>2, <3>3, <3>4
  <2>9. CASE CouncilDone
    <3>1. Shape'
      BY <2>9 DEF CouncilDone, Shape
    <3>2. Rounds'
      BY <2>9 DEF CouncilDone, Rounds, Shape
    <3>3. Evidence'
      BY <2>9 DEF CouncilDone, Evidence, ValidDesks
    <3>4. Package'
      BY <2>9 DEF CouncilDone, Package, outputs
    <3> QED
      BY <3>1, <3>2, <3>3, <3>4
  <2>10. CASE BuildCard
    <3>1. Shape'
      BY <2>10 DEF BuildCard, Shape, panel
    <3>2. Rounds'
      BY <2>10 DEF BuildCard, Rounds, Shape, panel
    <3>3. Evidence'
      BY <2>10 DEF BuildCard, Evidence, ValidDesks
    <3>4. Package'
      BY <2>10 DEF BuildCard, Package
    <3> QED
      BY <3>1, <3>2, <3>3, <3>4
  <2>11. CASE Extract
    <3>1. Shape'
      BY <2>11 DEF Extract, Shape, panel
    <3>2. Rounds'
      BY <2>11 DEF Extract, Rounds, Shape, panel
    <3>3. Evidence'
      BY <2>11 DEF Extract, Evidence, ValidDesks
    <3>4. Package'
      BY <2>11 DEF Extract, Package
    <3> QED
      BY <3>1, <3>2, <3>3, <3>4
  <2>12. CASE UNCHANGED vars
    <3>1. Shape'
      BY <2>12 DEF vars, panel, outputs, Shape
    <3>2. Rounds'
      BY <2>12 DEF vars, panel, outputs, Rounds, Quorum, Required, Valid
    <3>3. Evidence'
      BY <2>12 DEF vars, panel, outputs, Evidence, ValidDesks
    <3>4. Package'
      BY <2>12 DEF vars, panel, outputs, Package
    <3> QED
      BY <3>1, <3>2, <3>3, <3>4
  <2> QED
    BY <2>1, <2>2, <2>3, <2>4, <2>5, <2>6, <2>7, <2>8, <2>9, <2>10, <2>11, <2>12
    DEF Next, Run, Speaks, Read
<1> QED
  BY <1>1, <1>2, PTL DEF Spec

-----------------------------------------------------------------------------

\* No member of a panel speaks in a round before every member has spoken in the one
\* before it (the barrier of asyncio.gather).
THEOREM RoundsAreInStep == Spec => []InStep
<1>1. IInv => InStep
  BY DEF IInv, Shape, Rounds, InStep, Sitting, Silent, Member, Panels
<1> QED
  BY <1>1, Invariant, PTL

\* No panel sits and no layer carries a verdict on the evidence of fewer than
\* MinModels desks (the early return of DeliberationOrchestrator.run).
THEOREM NoVerdictWithoutEvidence == Spec => []VerdictsHaveEvidence
<1>1. IInv => VerdictsHaveEvidence
  BY DEF IInv, Evidence, VerdictsHaveEvidence
<1> QED
  BY <1>1, Invariant, PTL

\* The council's verdict on a trade is the plurality of the last words of its members,
\* of whom a quorum has given one; a tie is never a verdict to enter or to avoid.
THEOREM VerdictsArePluralities == Spec => VerdictIsPlurality
<1> USE PanelAssumption
<1> DEFINE Promise(verdict) ==
      /\ Cardinality({m \in Council : LastWord(m) # {}}) >= MinCouncil
      /\ \A d \in {"ENTER", "AVOID"} :
           verdict = d <=> \A e \in Decision \ {d} : Backing(e) < Backing(d)
<1>1. ASSUME IInv, CouncilDone, round = 3 PROVE Promise(CouncilDecision)
  <2>1. stage = "council" /\ Sitting = Council /\ Voice = Decision
    BY <1>1 DEF CouncilDone, Sitting, Voice
  <2>2. \A m \in Council :
          /\ opinion[m] \in Decision \cup {Lost}
          /\ revision[m] \in Decision \cup {Lost}
          /\ opinion[m] = Lost => revision[m] = Lost
    BY <1>1, <2>1 DEF CouncilDone, PanelOver, Answered, IInv, Shape, Said, Rounds
  <2>3. Lost \notin Decision /\ None \notin Decision
    OBVIOUS
  <2>4. Valid = {m \in Council : LastWord(m) # {}}
    <3>1. ASSUME NEW m \in Council PROVE opinion[m] # Lost <=> LastWord(m) # {}
      <4>1. CASE opinion[m] = Lost
        BY <2>2, <2>3, <4>1 DEF LastWord
      <4>2. CASE opinion[m] \in Decision /\ revision[m] \in Decision
        BY <2>3, <4>2 DEF LastWord
      <4>3. CASE opinion[m] \in Decision /\ revision[m] \notin Decision
        BY <2>3, <4>3 DEF LastWord
      <4> QED
        BY <2>2, <4>1, <4>2, <4>3
    <3> QED
      BY <2>1, <3>1 DEF Valid
  <2>5. ASSUME NEW d \in Decision PROVE Votes(d) = Backing(d) /\ Backing(d) \in Nat
    <3>1. {m \in Valid : Final(m) = d} = {m \in Council : d \in LastWord(m)}
      <4>1. ASSUME NEW m \in Council
            PROVE opinion[m] # Lost /\ Final(m) = d <=> d \in LastWord(m)
        <5> /\ opinion[m] \in Decision \cup {Lost}
            /\ revision[m] \in Decision \cup {Lost}
          BY <2>2
        <5>1. CASE opinion[m] = Lost
          BY <2>2, <2>3, <5>1 DEF LastWord
        <5>2. CASE opinion[m] # Lost /\ revision[m] = Lost
          BY <2>2, <2>3, <5>2 DEF LastWord, Final
        <5>3. CASE opinion[m] # Lost /\ revision[m] \in Decision
          BY <2>2, <2>3, <5>3 DEF LastWord, Final
        <5> QED
          BY <5>1, <5>2, <5>3
      <4> QED
        BY <2>1, <4>1 DEF Valid
    <3>2. IsFiniteSet({m \in Council : d \in LastWord(m)})
      BY FS_Subset
    <3> QED
      BY <3>1, <3>2, FS_CardinalityType DEF Votes, Backing
  <2> DEFINE winners == {d \in Decision : \A e \in Decision : Votes(e) <= Votes(d)}
  <2>6. CouncilDecision = IF Cardinality(winners) = 1 THEN CHOOSE d \in winners : TRUE ELSE "WAIT"
    BY DEF CouncilDecision
  <2>7. Cardinality(Valid) >= MinCouncil
    BY <1>1, <2>1 DEF IInv, Rounds, Quorum, Required
  <2>8. ASSUME NEW d \in {"ENTER", "AVOID"}, CouncilDecision = d, NEW e \in Decision \ {d}
        PROVE Backing(e) < Backing(d)
    <3>1. d # "WAIT" /\ d \in Decision
      BY DEF Decision
    <3>2. Cardinality(winners) = 1 /\ d = CHOOSE x \in winners : TRUE
      BY <2>6, <2>8, <3>1
    <3>3. IsFiniteSet(Decision) /\ IsFiniteSet(winners)
      <4>1. IsFiniteSet(Decision)
        <5>1. IsFiniteSet({"ENTER"})
          BY FS_Singleton
        <5>2. IsFiniteSet({"ENTER"} \cup {"WAIT"})
          BY <5>1, FS_AddElement
        <5>3. IsFiniteSet({"ENTER"} \cup {"WAIT"} \cup {"AVOID"})
          BY <5>2, FS_AddElement
        <5> QED
          BY <5>3 DEF Decision
      <4> QED
        BY <4>1, FS_Subset
    <3>4. PICK x : winners = {x}
      BY <3>2, <3>3, FS_Singleton
    <3>5. x = d
      BY <3>2, <3>4
    <3>6. \A f \in Decision : Votes(f) <= Votes(d)
      BY <3>4, <3>5
    <3>7. e \notin winners
      BY <3>4, <3>5
    <3>8. PICK f \in Decision : ~(Votes(f) <= Votes(e))
      BY <3>7
    <3> QED
      BY <2>5, <3>1, <3>6, <3>8
  <2>9. ASSUME NEW d \in {"ENTER", "AVOID"}, \A e \in Decision \ {d} : Backing(e) < Backing(d)
        PROVE CouncilDecision = d
    <3>1. d \in Decision
      BY DEF Decision
    <3>2. \A e \in Decision \ {d} : Votes(e) < Votes(d) /\ Votes(e) \in Nat /\ Votes(d) \in Nat
      BY <2>5, <2>9, <3>1
    <3>3. Votes(d) \in Nat
      BY <2>5, <3>1
    <3>4. winners = {d}
      <4>1. d \in winners
        BY <3>1, <3>2, <3>3
      <4>2. ASSUME NEW e \in winners PROVE e = d
        BY <3>1, <3>2, <4>2
      <4> QED
        BY <4>1, <4>2
    <3>5. Cardinality(winners) = 1
      BY <3>4, FS_Singleton
    <3> QED
      BY <2>6, <3>4, <3>5
  <2> QED
    BY <2>4, <2>7, <2>8, <2>9
<1>2. IInv /\ [Next]_vars => (layer'.council # layer.council => Promise(layer'.council))
  <2> SUFFICES ASSUME IInv, [Next]_vars, layer'.council # layer.council
               PROVE Promise(layer'.council)
    OBVIOUS
  <2> HIDE DEF Promise
  <2> USE DEF IInv, Evidence, Package, Complete, Panels, outputs
  <2>1. CASE CouncilDone
    BY <2>1, <1>1 DEF CouncilDone
  <2>2. CASE Open
    BY <2>2 DEF Open
  <2>3. CASE DesksDone
    BY <2>3 DEF DesksDone
  <2>4. CASE RoundOver
    BY <2>4 DEF RoundOver
  <2>5. CASE TeamDone
    BY <2>5 DEF TeamDone
  <2>6. CASE BuildCard \/ Extract
    BY <2>6 DEF BuildCard, Extract
  <2>7. CASE \E d \in Desks : DeskReports(d)
    BY <2>7 DEF DeskReports
  <2>8. CASE \E m \in Member : Speaks(m)
    BY <2>8 DEF Speaks, Opines, Critiques, Revises
  <2>9. CASE UNCHANGED vars
    BY <2>9 DEF vars
  <2> QED
    BY <2>1, <2>2, <2>3, <2>4, <2>5, <2>6, <2>7, <2>8, <2>9 DEF Next, Run, Read
<1>3. IInv /\ [Next]_vars =>
        [ layer'.council # layer.council => Promise(layer'.council) ]_vars
  BY <1>2
<1> QED
  BY <1>3, Invariant, PTL DEF Spec, VerdictIsPlurality

\* The council decides on the body the card shows, whenever there is an assessment.
THEOREM CouncilIsTold == Spec => []CouncilReadsTheCard
<1>1. IInv => CouncilReadsTheCard
  BY DEF IInv, Package, CouncilReadsTheCard
<1> QED
  BY <1>1, Invariant, PTL

-----------------------------------------------------------------------------
(* The consensus of the team.                                              *)

\* A set of numbers has a least one.
LEMMA LeastNumber ==
  ASSUME NEW S \in SUBSET Nat, S # {}
  PROVE  \E x \in S : \A y \in S : x <= y
<1>1. PICK x \in S : \A y \in S : ~(<<y, x>> \in OpToRel(<, Nat))
  BY NatLessThanWellFounded, WFMin
<1>2. \A y \in S : x \in Nat /\ y \in Nat /\ ~(y < x)
  BY <1>1 DEF OpToRel
<1>3. QED
  BY <1>2

\* After the third round every member that counts has a card for its last word.
LEMMA LastCards ==
  ASSUME IInv, stage = "team", round = 3, Answered
  PROVE  /\ Valid \subseteq Team /\ IsFiniteSet(Valid)
         /\ \A m \in Valid : Final(m) \in Body
<1>1. Sitting = Team /\ Voice = Cards /\ Cards \subseteq Body
  BY PanelAssumption DEF Sitting, Voice
<1>2. \A m \in Team : /\ opinion[m] \in Cards \cup {Lost}
                      /\ revision[m] \in Cards \cup {Lost, None}
  BY <1>1 DEF IInv, Shape, Rounds, Said, Answered
<1>3. Valid \subseteq Team /\ \A m \in Valid : opinion[m] # Lost
  BY <1>1 DEF Valid
<1>4. IsFiniteSet(Valid)
  BY <1>3, PanelAssumption, FS_Subset
<1>5. \A m \in Valid : Final(m) \in Body
  BY <1>1, <1>2, <1>3 DEF Final
<1>6. QED
  BY <1>3, <1>4, <1>5

\* The k-th smallest of the scores exists: the least s with k scores up to it is one.
LEMMA KthIsAScore ==
  ASSUME IInv, stage = "team", round = 3, Answered, NEW k \in Nat, 1 <= k, k <= Cardinality(Valid)
  PROVE  KthScore(k) \in 0 .. 100
<1> DEFINE Scores == {Final(m).score : m \in Valid}
           S == {s \in Nat : ScoresUpTo(s) >= k}
<1>1. /\ IsFiniteSet(Valid) /\ Cardinality(Valid) \in Nat
      /\ \A m \in Valid : Final(m).score \in 0 .. 100
  BY LastCards, FS_CardinalityType DEF Body
<1>2. ASSUME NEW s \in Int PROVE ScoresUpTo(s) \in Nat
  <2>1. {m \in Valid : Final(m).score <= s} \in SUBSET Valid
    OBVIOUS
  <2>2. QED
    BY <1>1, <2>1, FS_Subset, FS_CardinalityType DEF ScoresUpTo
<1>3. 100 \in S
  <2>1. {m \in Valid : Final(m).score <= 100} = Valid
    BY <1>1
  <2>2. QED
    BY <2>1 DEF ScoresUpTo
<1>4. PICK s \in S : \A t \in S : s <= t
  <2> HIDE DEF S
  <2>1. S \in SUBSET Nat
    BY DEF S
  <2>2. QED
    BY <1>3, <2>1, LeastNumber
<1>5. s \in Nat /\ ScoresUpTo(s) >= k /\ ScoresUpTo(s) \in Nat /\ ScoresUpTo(s - 1) \in Nat
  BY <1>2, <1>4
<1>6. ScoresUpTo(s - 1) < k
  <2>1. CASE s = 0
    <3>1. {m \in Valid : Final(m).score <= s - 1} = {}
      BY <1>1, <2>1
    <3>2. ScoresUpTo(s - 1) = 0
      BY <3>1, FS_EmptySet DEF ScoresUpTo
    <3>3. QED
      BY <3>2
  <2>2. CASE s > 0
    <3>1. s - 1 \in Nat /\ s - 1 \notin S
      BY <1>4, <1>5, <2>2
    <3>2. QED
      BY <1>5, <3>1
  <2>3. QED
    BY <1>5, <2>1, <2>2
<1>7. s \in Scores
  <2>1. SUFFICES ASSUME s \notin Scores PROVE FALSE
    OBVIOUS
  <2>2. {m \in Valid : Final(m).score <= s} = {m \in Valid : Final(m).score <= s - 1}
    BY <1>1, <1>5, <2>1
  <2>3. ScoresUpTo(s) = ScoresUpTo(s - 1)
    BY <2>2 DEF ScoresUpTo
  <2>4. QED
    BY <1>5, <1>6, <2>3
<1> DEFINE Good(x) == ScoresUpTo(x) >= k /\ ScoresUpTo(x - 1) < k
<1>8. Good(s)
  BY <1>5, <1>6
<1>9. KthScore(k) = CHOOSE x \in Scores : Good(x)
  BY DEF KthScore
<1>10. Scores \subseteq 0 .. 100
  BY <1>1
<1> HIDE DEF Scores, Good
<1>11. QED
  BY <1>7, <1>8, <1>9, <1>10

\* The mode exists: one of three counts is the greatest, and of the greatest one is last.
LEMMA ModeExists ==
  ASSUME IsFiniteSet(Valid)
  PROVE  /\ ModalRisk \in Risk
         /\ \A q \in Risk : RiskVotes(q) <= RiskVotes(ModalRisk)
         /\ \A q \in Risk : RiskVotes(q) = RiskVotes(ModalRisk) => q <= ModalRisk
<1> DEFINE Good(r) == /\ \A q \in Risk : RiskVotes(q) <= RiskVotes(r)
                      /\ \A q \in Risk : RiskVotes(q) = RiskVotes(r) => q <= r
<1>1. ASSUME NEW r PROVE RiskVotes(r) \in Nat
  <2>1. {m \in Valid : Final(m).risk = r} \in SUBSET Valid
    OBVIOUS
  <2>2. QED
    BY <2>1, FS_Subset, FS_CardinalityType DEF RiskVotes
<1>2. RiskVotes(1) \in Nat /\ RiskVotes(2) \in Nat /\ RiskVotes(3) \in Nat
  BY <1>1
<1>3. Risk = {1, 2, 3}
  BY DEF Risk
<1>4. \E r \in Risk : Good(r)
  <2>1. CASE RiskVotes(3) >= RiskVotes(1) /\ RiskVotes(3) >= RiskVotes(2)
    <3>1. Good(3) /\ 3 \in Risk
      BY <1>2, <1>3, <2>1
    <3>2. QED
      BY <3>1
  <2>2. CASE RiskVotes(2) > RiskVotes(3) /\ RiskVotes(2) >= RiskVotes(1)
    <3>1. Good(2) /\ 2 \in Risk
      BY <1>2, <1>3, <2>2
    <3>2. QED
      BY <3>1
  <2>3. CASE RiskVotes(1) > RiskVotes(3) /\ RiskVotes(1) > RiskVotes(2)
    <3>1. Good(1) /\ 1 \in Risk
      BY <1>2, <1>3, <2>3
    <3>2. QED
      BY <3>1
  <2>4. QED
    BY <1>2, <2>1, <2>2, <2>3
<1>5. ModalRisk = CHOOSE r \in Risk : Good(r)
  BY DEF ModalRisk
<1>6. ModalRisk \in Risk /\ Good(ModalRisk)
  <2> HIDE DEF Good
  <2>1. QED
    BY <1>4, <1>5
<1>7. QED
  BY <1>6

\* Once a round of the team is answered its consensus on the body is a level.
LEMMA ConsensusIsABody ==
  ASSUME IInv, stage = "team", round = 3, Answered
  PROVE  TeamConsensus \in Body \cup {None}
<1>1. SUFFICES ASSUME Valid # {} PROVE TeamConsensus \in Body
  BY DEF TeamConsensus
<1>2. IsFiniteSet(Valid) /\ Cardinality(Valid) \in Nat /\ Cardinality(Valid) # 0
  BY <1>1, LastCards, FS_CardinalityType, FS_EmptySet
<1> DEFINE n == Cardinality(Valid)
<1>3. /\ (n + 1) \div 2 \in Nat /\ 1 <= (n + 1) \div 2 /\ (n + 1) \div 2 <= n
      /\ n \div 2 + 1 \in Nat /\ 1 <= n \div 2 + 1 /\ n \div 2 + 1 <= n
  BY <1>2
<1>4. KthScore((n + 1) \div 2) \in 0 .. 100 /\ KthScore(n \div 2 + 1) \in 0 .. 100
  BY <1>3, KthIsAScore
<1>5. MedianScore \in 0 .. 100
  BY <1>4 DEF MedianScore
<1>6. QED
  BY <1>1, <1>2, <1>5, ModeExists DEF TeamConsensus, Body

\* Only a panel that is over changes the team's verdict, from none.
LEMMA TeamSettles ==
  ASSUME IInv, [Next]_vars, layer'.team # layer.team
  PROVE  TeamDone /\ round = 3 /\ Answered /\ Valid # {} /\ layer'.team = TeamConsensus
<1> USE DEF IInv, Evidence, Package, Complete, Panels, outputs
<1>1. CASE TeamDone
  BY <1>1 DEF TeamDone, PanelOver, TeamConsensus
<1>2. CASE CouncilDone
  BY <1>2 DEF CouncilDone
<1>3. CASE Open
  BY <1>3 DEF Open
<1>4. CASE DesksDone
  BY <1>4 DEF DesksDone
<1>5. CASE RoundOver
  BY <1>5 DEF RoundOver
<1>6. CASE BuildCard \/ Extract
  BY <1>6 DEF BuildCard, Extract
<1>7. CASE \E d \in Desks : DeskReports(d)
  BY <1>7 DEF DeskReports
<1>8. CASE \E m \in Member : Speaks(m)
  BY <1>8 DEF Speaks, Opines, Critiques, Revises
<1>9. CASE UNCHANGED vars
  BY <1>9 DEF vars
<1>10. QED
  BY <1>1, <1>2, <1>3, <1>4, <1>5, <1>6, <1>7, <1>8, <1>9 DEF Next, Run, Read

\* The team's risk is the most voted one, and the highest of those: whatever the members
\* say and however many are lost, the card never shows less risk than they voted for.
THEOREM TeamIsNeverLenient == Spec => TeamNeverOverstates
<1> DEFINE Step == layer'.team # layer.team =>
                     \A r \in Risk : RiskVotes(r) >= RiskVotes(layer'.team.risk)
                                       => r <= layer'.team.risk
<1>1. IInv /\ [Next]_vars => Step
  <2> SUFFICES ASSUME IInv, [Next]_vars, layer'.team # layer.team
               PROVE  \A r \in Risk : RiskVotes(r) >= RiskVotes(layer'.team.risk)
                                        => r <= layer'.team.risk
    OBVIOUS
  <2>1. TeamDone /\ round = 3 /\ Answered /\ Valid # {} /\ layer'.team = TeamConsensus
    BY TeamSettles
  <2>2. IsFiniteSet(Valid)
    BY <2>1, LastCards DEF TeamDone
  <2>3. layer'.team.risk = ModalRisk
    BY <2>1 DEF TeamConsensus
  <2>4. \A q \in Risk : RiskVotes(q) \in Nat
    <3>1. \A q : {m \in Valid : Final(m).risk = q} \in SUBSET Valid
      OBVIOUS
    <3>2. QED
      BY <2>2, <3>1, FS_Subset, FS_CardinalityType DEF RiskVotes
  <2>5. QED
    BY <2>2, <2>3, <2>4, ModeExists
<1> HIDE DEF Step
<1>2. IInv /\ [Next]_vars => [Step]_vars
  BY <1>1
<1>3. Spec => [][Step]_vars
  BY <1>2, Invariant, PTL DEF Spec
<1>4. QED
  BY <1>3 DEF TeamNeverOverstates, Step

-----------------------------------------------------------------------------
(* Types.                                                                  *)

\* What the council decides is enter, wait or avoid, whatever its verdicts.
LEMMA CouncilDecisionType == CouncilDecision \in Decision
<1> DEFINE winners == {d \in Decision : \A e \in Decision : Votes(e) <= Votes(d)}
<1>1. ASSUME Cardinality(winners) = 1 PROVE winners # {}
  BY <1>1, FS_EmptySet
<1>2. CouncilDecision = IF Cardinality(winners) = 1 THEN CHOOSE d \in winners : TRUE ELSE "WAIT"
  BY DEF CouncilDecision
<1>3. winners \subseteq Decision /\ "WAIT" \in Decision
  BY DEF Decision
<1> HIDE DEF winners
<1>4. QED
  BY <1>1, <1>2, <1>3

\* The variables of the panel that sits, and the others.
PanelTyped ==
  /\ opinion \in [Member -> Voice \cup {Unheard, Lost}]
  /\ revision \in [Member -> Voice \cup {Unheard, Lost, None}]
  /\ \A m \in Member \ Sitting : opinion[m] = Unheard /\ revision[m] = Unheard

OutputsTyped ==
  /\ enabled \in SUBSET Panels
  /\ intel \in Body \cup {None}
  /\ layer \in [status : {"none", "skipped", "failed", "complete"},
                team : Body \cup {None}, council : Decision \cup {None}]
  /\ card \in [body : Body, decision : Dashboard] \cup {None}
  /\ summary \in SummaryLabel \cup {None}

Typed == PanelTyped /\ OutputsTyped

\* Every variable has its type at the start.
LEMMA TypeInit == Init => Typed
<1>1. Init => PanelTyped
  BY DEF Init, PanelTyped, Silent
<1>2. Init => OutputsTyped
  BY DEF Init, OutputsTyped
<1>3. QED
  BY <1>1, <1>2 DEF Typed

\* Nobody has spoken when a panel sits down or the last one has risen.
LEMMA ClearIsTyped ==
  ASSUME Clear
  PROVE  PanelTyped'
BY DEF Clear, PanelTyped, Silent, Voice, Sitting

\* Every step keeps the types of the round and of the opinions of the panel.
LEMMA PanelStep ==
  ASSUME IInv, PanelTyped, [Next]_vars
  PROVE  PanelTyped'
<1>1. CASE stage' = stage /\ UNCHANGED <<opinion, revision>>
  BY <1>1 DEF PanelTyped, Voice, Sitting
<1>2. CASE stage \notin Panels /\ stage' \notin Panels /\ UNCHANGED <<opinion, revision>>
  BY <1>2 DEF PanelTyped, Voice, Sitting, Panels
<1>3. CASE Open \/ BuildCard \/ Extract
  BY <1>2, <1>3 DEF Open, BuildCard, Extract, panel, Panels
<1>4. CASE DesksDone
  <2>1. Clear \/ (stage \notin Panels /\ stage' \notin Panels /\ UNCHANGED <<opinion, revision>>)
    BY <1>4 DEF DesksDone, Sit, Complete, panel, Panels
  <2>2. QED
    BY <1>2, <2>1, ClearIsTyped
<1>5. CASE TeamDone \/ CouncilDone
  <2>1. Clear
    BY <1>5 DEF TeamDone, CouncilDone, Sit
  <2>2. QED
    BY <2>1, ClearIsTyped
<1>6. CASE RoundOver \/ \E d \in Desks : DeskReports(d)
  BY <1>1, <1>6 DEF RoundOver, DeskReports, panel
<1>7. ASSUME NEW m \in Member, Opines(m)
      PROVE  PanelTyped'
  BY <1>7 DEF Opines, PanelTyped, Voice, Sitting
<1>8. ASSUME NEW m \in Member, Critiques(m)
      PROVE  PanelTyped'
  BY <1>1, <1>8 DEF Critiques
<1>9. ASSUME NEW m \in Member, Revises(m)
      PROVE  PanelTyped'
  BY <1>9 DEF Revises, PanelTyped, Voice, Sitting
<1>10. CASE UNCHANGED vars
  BY <1>1, <1>10 DEF vars, panel
<1>11. QED
  BY <1>3, <1>4, <1>5, <1>6, <1>7, <1>8, <1>9, <1>10 DEF Next, Run, Speaks, Read

\* Every step keeps the types of the package, the layer, the card and the summary.
LEMMA OutputsStep ==
  ASSUME IInv, OutputsTyped, [Next]_vars
  PROVE  OutputsTyped'
<1> USE DEF OutputsTyped
<1>1. CASE UNCHANGED <<enabled, intel, layer, card, summary>>
  BY <1>1
<1>2. CASE Open
  BY <1>2 DEF Open, outputs
<1>3. CASE DesksDone
  BY <1>3 DEF DesksDone, Complete, outputs
<1>4. CASE TeamDone
  <2>1. /\ stage = "team" /\ PanelOver
        /\ intel' = IF round = 3 THEN TeamConsensus ELSE None
        /\ UNCHANGED <<enabled, card, summary>>
        /\ \/ layer' = [layer EXCEPT !.team = intel']
           \/ layer' = [status |-> "complete", team |-> intel', council |-> None]
    BY <1>4 DEF TeamDone, Complete, outputs
  <2>2. intel' \in Body \cup {None}
    BY <2>1, ConsensusIsABody DEF PanelOver
  <2>3. QED
    BY <2>1, <2>2
<1>5. CASE CouncilDone
  <2>1. /\ UNCHANGED <<enabled, intel, card, summary>>
        /\ \E d \in {CouncilDecision, None} :
             layer' = [status |-> "complete", team |-> layer.team, council |-> d]
    BY <1>5 DEF CouncilDone, Complete, outputs
  <2>2. QED
    BY <2>1, CouncilDecisionType
<1>6. CASE BuildCard
  <2>1. PICK projected \in Cards :
          card' = [body |-> IF layer.team # None THEN layer.team ELSE projected,
                   decision |-> IF layer.council # None THEN ToDashboard[layer.council]
                                ELSE Fallback(IF layer.team # None THEN layer.team ELSE projected)]
    BY <1>6 DEF BuildCard
  <2>2. (IF layer.team # None THEN layer.team ELSE projected) \in Body
    BY PanelAssumption
  <2>3. \A body : Fallback(body) \in Dashboard
    BY DEF Fallback, Dashboard
  <2>4. layer.council # None => ToDashboard[layer.council] \in Dashboard
    BY DEF ToDashboard, Dashboard, Decision
  <2>5. UNCHANGED <<enabled, intel, layer, summary>>
    BY <1>6 DEF BuildCard
  <2>6. QED
    BY <2>1, <2>2, <2>3, <2>4, <2>5
<1>7. CASE Extract
  BY <1>7 DEF Extract
<1>8. CASE RoundOver \/ \E d \in Desks : DeskReports(d)
  BY <1>1, <1>8 DEF RoundOver, DeskReports, outputs
<1>9. CASE \E m \in Member : Speaks(m)
  BY <1>1, <1>9 DEF Speaks, Opines, Critiques, Revises, outputs
<1>10. CASE UNCHANGED vars
  BY <1>1, <1>10 DEF vars, outputs
<1>11. QED
  BY <1>2, <1>3, <1>4, <1>5, <1>6, <1>7, <1>8, <1>9, <1>10 DEF Next, Run, Read

\* Every variable of a deliberation keeps its type for panels of every size: in
\* particular the team's median is a score and its mode a risk, whoever is lost.
THEOREM TypeCorrect == Spec => []TypeOK
<1>1. Typed /\ IInv /\ [Next]_vars => Typed'
  BY PanelStep, OutputsStep DEF Typed
<1>2. Spec => []Typed
  BY <1>1, TypeInit, Invariant, PTL DEF Spec
<1>3. IInv /\ Typed => TypeOK
  BY DEF IInv, Shape, Typed, PanelTyped, OutputsTyped, TypeOK
<1>4. QED
  BY <1>2, <1>3, Invariant, PTL
================================================================================
