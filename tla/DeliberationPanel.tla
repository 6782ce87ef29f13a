--------------------------- MODULE DeliberationPanel ---------------------------
(***************************************************************************)
(* One deliberation: DeliberationOrchestrator.run and what is made of its  *)
(* layer.  The desks read the report (the regime desk first); if a trigger *)
(* asks for a decision, the assessment team settles the body of the card   *)
(* and the council then decides the trade.  A panel speaks in three rounds *)
(* (opinion, critique, revision), its members in parallel within a round;  *)
(* the fourth round is a computation.  The batch makes a card of the layer *)
(* and the research task an executive summary.                             *)
(*                                                                         *)
(* A call to a provider chain either brings a reply or fails; the chains   *)
(* themselves are ProviderRouting.  A card body stands for the fields the  *)
(* team merges: scores by their median, labels by vote, here the risk.     *)
(***************************************************************************)
EXTENDS Integers, FiniteSets

CONSTANTS
  Provider, Desks, Regime, Team, Council,
  Cards,         \* the card bodies a member may write
  MinModels,     \* DIL_MIN_MODELS
  MinTeam,       \* DIL_ASSESSMENT_MIN_MEMBERS
  MinCouncil,    \* DIL_COUNCIL_MIN_MEMBERS
  Unheard, Lost, None

Risk == 1 .. 3   \* Low, Medium, High: _RISK_ORDER
Body == [score : 0 .. 100, risk : Risk]   \* the credit safety score in tenths

Decision == {"ENTER", "WAIT", "AVOID"}
Dashboard == {"Enter", "Wait", "Avoid"}
SummaryLabel == {"SAFE", "WATCH", "AVOID"}

Panels == {"team", "council"}
Member == Team \cup Council

ASSUME PanelAssumption ==
  /\ IsFiniteSet(Desks) /\ IsFiniteSet(Team) /\ IsFiniteSet(Council)
  /\ Team \cap Council = {}
  /\ Cards \subseteq Body
  /\ {MinModels, MinTeam, MinCouncil} \subseteq Nat
  /\ \A e \in {Unheard, Lost, None} :
       e \notin Body /\ e \notin Decision /\ e \notin Dashboard /\ e \notin SummaryLabel
  /\ Unheard # Lost /\ Unheard # None /\ Lost # None

VARIABLES
  enabled,     \* the panels the settings switch on
  stage,       \* where run() is
  desk,        \* desk[d]: what became of the analysis of desk d
  round,       \* the round of the panel that sits
  opinion,     \* opinion[m]: the reply of round 1 of the panel that sits
  critiqued,   \* its members whose round 2 is over
  revision,    \* revision[m]: the reply of round 3; None: no revised opinion in it
  intel,       \* the assessment in the intelligence package, or None
  layer,       \* the deliberation layer
  card,        \* the card of the batch, or None
  summary      \* the decision of the executive summary, or None

panel == <<round, opinion, critiqued, revision>>
outputs == <<card, summary>>
vars == <<enabled, stage, desk, panel, intel, layer, outputs>>

Silent == [m \in Member |-> Unheard]
Sitting == IF stage = "team" THEN Team ELSE Council
Voice == IF stage = "team" THEN Cards ELSE Decision

Valid == {m \in Sitting : opinion[m] # Lost}
ValidDesks == {d \in Desks : desk[d] = "valid"}

\* QuorumEvaluator.evaluate.
Required == IF stage = "team" THEN MinTeam ELSE MinCouncil
Quorum == Cardinality(Valid) >= Required

-----------------------------------------------------------------------------
(* Round 4.                                                                *)

\* _final_decisions, _final_opinions: a member's revision, or else its opinion.
Final(m) == IF revision[m] \in {Lost, None} THEN opinion[m] ELSE revision[m]

Votes(d) == Cardinality({m \in Valid : Final(m) = d})

\* Mutant: the first of the tied decisions wins.
CouncilDecision_FirstWins ==
  CHOOSE d \in Decision :
    /\ \A e \in Decision : Votes(e) <= Votes(d)
    /\ Votes("ENTER") = Votes(d) => d = "ENTER"

\* synthesize_council_consensus: the most votes, and WAIT when they are tied.
CouncilDecision ==
  LET winners == {d \in Decision : \A e \in Decision : Votes(e) <= Votes(d)}
  IN  IF Cardinality(winners) = 1 THEN CHOOSE d \in winners : TRUE ELSE "WAIT"

RiskVotes(r) == Cardinality({m \in Valid : Final(m).risk = r})

\* Mutant: ties resolve toward the safer label.
ModalRisk_Lenient ==
  CHOOSE r \in Risk :
    /\ \A q \in Risk : RiskVotes(q) <= RiskVotes(r)
    /\ \A q \in Risk : RiskVotes(q) = RiskVotes(r) => r <= q

\* _modal: the most votes, and the later label of the order when they are tied.
ModalRisk ==
  CHOOSE r \in Risk :
    /\ \A q \in Risk : RiskVotes(q) <= RiskVotes(r)
    /\ \A q \in Risk : RiskVotes(q) = RiskVotes(r) => q <= r

ScoresUpTo(s) == Cardinality({m \in Valid : Final(m).score <= s})
KthScore(k) == CHOOSE s \in {Final(m).score : m \in Valid} :
                 ScoresUpTo(s) >= k /\ ScoresUpTo(s - 1) < k

\* Halves of a tenth, which round() takes to either side, go down.
MedianScore ==
  LET n == Cardinality(Valid)
  IN  (KthScore((n + 1) \div 2) + KthScore(n \div 2 + 1)) \div 2

\* synthesize_assessment_consensus.
TeamConsensus ==
  IF Valid = {} THEN None ELSE [score |-> MedianScore, risk |-> ModalRisk]

\* council_to_dashboard.
ToDashboard == [ENTER |-> "Enter", WAIT |-> "Wait", AVOID |-> "Avoid"]

-----------------------------------------------------------------------------
(* DeliberationOrchestrator.run.                                           *)

\* The replies are local to a panel's run.
Clear ==
  /\ round' = 1
  /\ opinion' = Silent
  /\ critiqued' = {}
  /\ revision' = Silent

Sit(p) == stage' = p /\ Clear

\* No panel sits any more: the rest is computed, and the layer is complete.
Complete(team, council) ==
  /\ stage' = "layered"
  /\ layer' = [status |-> "complete", team |-> team, council |-> council]

\* With too few clients nothing is asked.
Open ==
  /\ stage = "start"
  /\ \E clients \in SUBSET Provider :
       IF Cardinality(clients) < MinModels
       THEN /\ stage' = "layered"
            /\ layer' = [layer EXCEPT !.status = "skipped"]
       ELSE stage' = "desks" /\ UNCHANGED layer
  /\ UNCHANGED <<enabled, desk, panel, intel, outputs>>

\* _run_one_desk: the regime desk is awaited before the others are asked.
DeskReports(d) ==
  /\ stage = "desks"
  /\ desk[d] = "asked"
  /\ d # Regime /\ Regime \in Desks => desk[Regime] # "asked"
  /\ \E report \in {"valid", "error"} : desk' = [desk EXCEPT ![d] = report]
  /\ UNCHANGED <<enabled, stage, panel, intel, layer, outputs>>

\* All desks are in.  evaluate_decision_trigger looks at the report only.
DesksDone ==
  /\ stage = "desks"
  /\ \A d \in Desks : desk[d] # "asked"
  /\ \/ /\ Cardinality(ValidDesks) < MinModels
        /\ stage' = "layered"
        /\ layer' = [layer EXCEPT !.status = "failed"]
        /\ UNCHANGED panel
     \/ /\ Cardinality(ValidDesks) >= MinModels
        /\ \E fires \in BOOLEAN :
             IF fires /\ enabled # {}
             THEN Sit(IF "team" \in enabled THEN "team" ELSE "council") /\ UNCHANGED layer
             ELSE Complete(None, None) /\ Clear
  /\ UNCHANGED <<enabled, desk, intel, outputs>>

\* Round 1: each member on its own.
Opines(m) ==
  /\ stage \in Panels
  /\ m \in Sitting
  /\ round = 1
  /\ opinion[m] = Unheard
  /\ \E reply \in Voice \cup {Lost} : opinion' = [opinion EXCEPT ![m] = reply]
  /\ UNCHANGED <<enabled, stage, desk, round, critiqued, revision, intel, layer, outputs>>

\* Round 2: a critique of the peers, or the note that there is none; what the code
\* does next is the same.
Critiques(m) ==
  /\ stage \in Panels
  /\ m \in Sitting \ critiqued
  /\ round = 2
  /\ critiqued' = critiqued \cup {m}
  /\ UNCHANGED <<enabled, stage, desk, round, opinion, revision, intel, layer, outputs>>

\* Round 3: a member lost in round 1 is not called.  In the team a revision may come
\* without an opinion; in the council its decision is required.
Revises(m) ==
  /\ stage \in Panels
  /\ m \in Sitting
  /\ round = 3
  /\ revision[m] = Unheard
  /\ \E reply \in Voice \cup {Lost, None} :
       /\ opinion[m] = Lost => reply = Lost
       /\ stage = "council" => reply # None
       /\ revision' = [revision EXCEPT ![m] = reply]
  /\ UNCHANGED <<enabled, stage, desk, round, opinion, critiqued, intel, layer, outputs>>

Answered ==
  CASE round = 1 -> \A m \in Sitting : opinion[m] # Unheard
    [] round = 2 -> critiqued = Sitting
    [] round = 3 -> \A m \in Sitting : revision[m] # Unheard

\* asyncio.gather returns when the last member has: after round 1 a quorum goes on.
RoundOver ==
  /\ stage \in Panels
  /\ round < 3
  /\ Answered
  /\ round = 1 => Quorum
  /\ round' = round + 1
  /\ UNCHANGED <<enabled, stage, desk, opinion, critiqued, revision, intel, layer, outputs>>

PanelOver == Answered /\ (round = 3 \/ (round = 1 /\ ~Quorum))

\* Mutant: the council is given the package built before the team sat.
TeamDone_OldPackage ==
  /\ stage = "team"
  /\ PanelOver
  /\ LET consensus == IF round = 3 THEN TeamConsensus ELSE None
     IN  IF "council" \in enabled
         THEN Sit("council") /\ layer' = [layer EXCEPT !.team = consensus]
         ELSE Complete(consensus, None) /\ Clear
  /\ UNCHANGED <<enabled, desk, intel, outputs>>

\* run_assessment_team returns; the council reads its consensus, if there is one.
TeamDone ==
  /\ stage = "team"
  /\ PanelOver
  /\ LET consensus == IF round = 3 THEN TeamConsensus ELSE None
     IN  /\ intel' = consensus
         /\ IF "council" \in enabled
            THEN Sit("council") /\ layer' = [layer EXCEPT !.team = consensus]
            ELSE Complete(consensus, None) /\ Clear
  /\ UNCHANGED <<enabled, desk, outputs>>

\* run_decision_council returns.
CouncilDone ==
  /\ stage = "council"
  /\ PanelOver
  /\ Complete(layer.team, IF round = 3 THEN CouncilDecision ELSE None)
  /\ Clear
  /\ UNCHANGED <<enabled, desk, intel, outputs>>

-----------------------------------------------------------------------------
(* The readers of the layer.                                               *)

\* fallback_decision_from_consensus.
Fallback(body) ==
  CASE body.score >= 70 /\ body.risk = 1 -> "Enter"
    [] body.score < 40 \/ body.risk = 3 -> "Avoid"
    [] OTHER -> "Wait"

\* WatchlistBatchService._build_summary; the projector computes a body from the report.
BuildCard ==
  /\ stage = "layered"
  /\ stage' = "read"
  /\ \E projected \in Cards :
       LET body == IF layer.team # None THEN layer.team ELSE projected
       IN  card' = [body |-> body,
                    decision |-> IF layer.council # None THEN ToDashboard[layer.council]
                                 ELSE Fallback(body)]
  /\ UNCHANGED <<enabled, desk, panel, intel, layer, summary>>

\* execute_deliberation: of a complete layer an executive summary is extracted.  The
\* label of the report's credit safety is the decision unless mapped_decision is one
\* of the summary's own labels.
Extract ==
  /\ stage = "layered"
  /\ stage' = "read"
  /\ \E credit \in SummaryLabel :
       summary' = IF layer.status # "complete" THEN None
                  ELSE IF layer.council # None /\ ToDashboard[layer.council] \in SummaryLabel
                  THEN ToDashboard[layer.council]
                  ELSE credit
  /\ UNCHANGED <<enabled, desk, panel, intel, layer, card>>

-----------------------------------------------------------------------------

Init ==
  /\ enabled \in SUBSET Panels
  /\ stage = "start"
  /\ desk = [d \in Desks |-> "asked"]
  /\ round = 1
  /\ opinion = Silent
  /\ critiqued = {}
  /\ revision = Silent
  /\ intel = None
  /\ layer = [status |-> "none", team |-> None, council |-> None]
  /\ card = None
  /\ summary = None

Run == Open \/ DesksDone \/ RoundOver \/ TeamDone \/ CouncilDone \/ BuildCard \/ Extract
Speaks(m) == Opines(m) \/ Critiques(m) \/ Revises(m)
Read == stage = "read" /\ UNCHANGED vars

Next ==
  \/ Run
  \/ \E d \in Desks : DeskReports(d)
  \/ \E m \in Member : Speaks(m)
  \/ Read

\* A call ends: every request has a timeout and the retries are bounded.  The event
\* loop resumes the orchestrator.
Fairness ==
  /\ WF_vars(Run)
  /\ \A d \in Desks : WF_vars(DeskReports(d))
  /\ \A m \in Member : WF_vars(Speaks(m))

Spec == Init /\ [][Next]_vars /\ Fairness

-----------------------------------------------------------------------------
(* Properties.                                                             *)

\* Every variable holds a value of its kind; only a member that sits has spoken.
TypeOK ==
  /\ enabled \in SUBSET Panels
  /\ stage \in {"start", "desks", "layered", "read"} \cup Panels
  /\ desk \in [Desks -> {"asked", "valid", "error"}]
  /\ round \in 1 .. 3
  /\ opinion \in [Member -> Voice \cup {Unheard, Lost}]
  /\ critiqued \subseteq Sitting
  /\ revision \in [Member -> Voice \cup {Unheard, Lost, None}]
  /\ \A m \in Member \ Sitting : opinion[m] = Unheard /\ revision[m] = Unheard
  /\ intel \in Body \cup {None}
  /\ layer \in [status : {"none", "skipped", "failed", "complete"},
                team : Body \cup {None}, council : Decision \cup {None}]
  /\ card \in [body : Body, decision : Dashboard] \cup {None}
  /\ summary \in SummaryLabel \cup {None}

\* Nobody criticises before every member of the panel has given its opinion, and
\* nobody revises before every critique is in (the barriers the gathers make).
InStep ==
  /\ critiqued # {} => \A m \in Sitting : opinion[m] # Unheard
  /\ (\E m \in Sitting : revision[m] # Unheard) => critiqued = Sitting

\* A panel sits, and the layer carries a verdict, only on the evidence of enough
\* desks (the order of the early returns of run).
VerdictsHaveEvidence ==
  stage \in Panels \/ layer.team # None \/ layer.council # None
    => Cardinality(ValidDesks) >= MinModels

\* The last word of a member of the council.
LastWord(m) ==
  IF revision[m] \in Decision THEN {revision[m]} ELSE {opinion[m]} \cap Decision
Backing(d) == Cardinality({m \in Council : d \in LastWord(m)})

\* The council enters or avoids a trade exactly when, by the last word of its members
\* and with a quorum of them, that has more support than either alternative.
VerdictIsPlurality ==
  [][ layer'.council # layer.council =>
        /\ Cardinality({m \in Council : LastWord(m) # {}}) >= MinCouncil
        /\ \A d \in {"ENTER", "AVOID"} :
             layer'.council = d <=> \A e \in Decision \ {d} : Backing(e) < Backing(d) ]_vars

\* When the team settles on a risk, no higher one had as many members behind it ("so
\* the card never overstates safety").
TeamNeverOverstates ==
  [][ layer'.team # layer.team =>
        \A r \in Risk : RiskVotes(r) >= RiskVotes(layer'.team.risk) => r <= layer'.team.risk ]_vars

\* What the council was told of the card is what the card shows.
CouncilReadsTheCard ==
  card # None /\ layer.council # None /\ layer.team # None => intel = card.body

\* A deliberation comes to an end and is read, whichever calls fail.
Settles == <>(stage = "read")

\* The decision of the executive summary is the council's, when there is one, in the
\* vocabulary of the summary.
SummaryFollowsCouncil ==
  summary # None /\ layer.council # None =>
    summary = [ENTER |-> "SAFE", WAIT |-> "WATCH", AVOID |-> "AVOID"][layer.council]
================================================================================
