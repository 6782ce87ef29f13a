------------------------------ MODULE CardReport ------------------------------
(***************************************************************************)
(* What the dashboard and the full report make of one options block: the   *)
(* deterministic card, the executive summary, and the explanations beside  *)
(* them.  None of them may contradict another.                             *)
(*                                                                         *)
(* x is a block of OptionStructure; r holds the other facts of the report  *)
(* and s the card the explanations stand beside.  Scores of the card are   *)
(* in tenths, deltas and thresholds of scores in hundredths.               *)
(***************************************************************************)
EXTENDS OptionStructure, SequencesExt

Level == {"Low", "Medium", "High"}
Height == [Low |-> 0, Medium |-> 1, High |-> 2]
Higher(a, b) == IF Height[a] >= Height[b] THEN a ELSE b

Size(n) == IF n < 0 THEN -n ELSE n
Total(f) == SumOver(f, DOMAIN f)

-----------------------------------------------------------------------------
(* The deterministic card: summary_projector.                              *)

\* The bucket of a chance of a 3 % move, none counts as 0.
Chance(p) == IF p < 150 THEN "Low" ELSE IF p < 300 THEN "Medium" ELSE "High"

CardConfidence(r) ==
  IF r.articles < 5 \/ r.limited THEN "Low" ELSE IF r.live THEN "High" ELSE "Medium"

CardOutlook(r, restless) ==
  CASE r.bias = "bullish" -> "Bullish" [] r.bias = "bearish" -> "Bearish"
    [] OTHER -> IF r.regime = "high" THEN restless ELSE "Sideways"

CardIv(sigma) == IF sigma < 100 THEN "Poor" ELSE IF sigma < 250 THEN "Average" ELSE "Good"

\* project_assessment_consensus.  The risk is of the score before it is rounded.
Card(x, r) ==
  [score |-> (x.score + 5) \div 10,
   risk |-> IF x.score >= 700 THEN "Low" ELSE IF x.score >= 400 THEN "Medium" ELSE "High",
   confidence |-> CardConfidence(r),
   today |-> CardOutlook(r, "Choppy"), next |-> CardOutlook(r, "Volatile"),
   up |-> Chance(r.up3), down |-> Chance(r.down3),
   pin |-> x.pin.label, event |-> x.event.label, iv |-> CardIv(x.sigma),
   liquidity |-> IF r.tier \in {"tier-1", "tier-2"} THEN "Good" ELSE "Average"]

\* _dynamics_sentences, one topic for each of the four sentences.
Dynamics(c) ==
  <<Higher(c.up, c.down),
    IF c.up = c.down THEN "balanced" ELSE IF Higher(c.up, c.down) = c.up THEN "up" ELSE "down",
    IF c.pin = "High" \/ c.risk = "High" THEN "risky"
    ELSE IF c.pin = "Medium" THEN "moderate" ELSE "defensible",
    IF c.event = "High" THEN "catalyst" ELSE c.iv>>

\* Mutant: the risk is not looked at.
FallbackDecision_ScoreOnly(c) ==
  IF c.score >= 70 THEN "Enter" ELSE IF c.score < 40 THEN "Avoid" ELSE "Wait"

\* fallback_decision_from_consensus, with the rounded score.
FallbackDecision(c) ==
  IF c.score >= 70 /\ c.risk = "Low" THEN "Enter"
  ELSE IF c.score < 40 \/ c.risk = "High" THEN "Avoid" ELSE "Wait"

-----------------------------------------------------------------------------
(* The executive summary: extractor.                                       *)

MoveLevel(p) == IF p >= 400 THEN "High" ELSE IF p >= 200 THEN "Medium" ELSE "Low"

DecisionOf(label, mapped) ==
  IF mapped # "none" THEN mapped
  ELSE CASE label = "SAFE" -> "SAFE" [] label = "CAUTION" -> "WATCH" [] OTHER -> "AVOID"

\* The higher of the risk of the label and the uncertainty of the desks' consensus.
RiskOf(label, uncertainty) ==
  LET own == CASE label = "SAFE" -> "Low" [] label = "CAUTION" -> "Medium" [] OTHER -> "High"
  IN IF uncertainty \in Level THEN Higher(own, uncertainty) ELSE own

OutlookOf(stance, regime, bias) ==
  LET word == IF stance = "none" THEN bias ELSE stance
  IN CASE regime = "high" -> "Volatile"
       [] regime # "high" /\ word = "bullish" -> "Bullish"
       [] regime # "high" /\ word = "bearish" -> "Bearish"
       [] regime # "high" /\ word = "mixed" -> "Mixed"
       [] OTHER -> "Sideways"

ConfidenceOf(value) == IF value >= 650 THEN "High" ELSE IF value >= 350 THEN "Medium" ELSE "Low"

IvGrade(regime, conf, live) ==
  LET step == IF conf >= 700 THEN 2 ELSE IF conf >= 400 THEN 1 ELSE 0
      grade == <<"Poor", "Fair", "Good", "Excellent">>
  IN IF live THEN (IF step = 2 THEN "Excellent" ELSE "Good")
     ELSE grade[step + (IF regime = "low" THEN 2 ELSE 1)]

LiquidityOf(volume) ==
  IF volume >= 150 THEN "Excellent" ELSE IF volume >= 100 THEN "Good"
  ELSE IF volume >= 60 THEN "Fair" ELSE "Poor"

\* extract_executive_summary.
Executive(x, r) ==
  [decision |-> DecisionOf(x.label, r.mapped), score |-> x.score,
   outlook |-> OutlookOf(r.stance, r.regime, r.bias),
   risk |-> RiskOf(x.label, r.uncertainty), confidence |-> ConfidenceOf(r.calibration),
   plus |-> MoveLevel(r.up2), minus |-> MoveLevel(r.down2),
   pin |-> x.pin.label, event |-> x.event.label,
   iv |-> IvGrade(r.regime, r.conf, r.live), liquidity |-> LiquidityOf(r.volume)]

-----------------------------------------------------------------------------
(* Why the score: credit_safety_breakdown.                                 *)

\* 10 for a move of none, 0 for one of 8 %.
Anchor(sigma) == Bounded(RoundDiv(4000 - 5 * sigma, 4), 0, 1000)

PinImpact(n) == IF n >= 700 THEN -250 ELSE IF n >= 400 THEN -120 ELSE IF n >= 200 THEN -40 ELSE 20

EventImpact(n) ==
  IF n >= 700 THEN -200 ELSE IF n >= 450 THEN -100 ELSE IF n >= 200 THEN -30 ELSE 10

VolImpact(regime) ==
  CASE regime = "high" -> -150 [] regime = "medium" -> -40 [] regime = "low" -> 40
    [] OTHER -> -10

BodyImpact(label) == CASE label = "High" -> -200 [] label = "Medium" -> -90 [] OTHER -> 30

LiquidityImpact(grade) == CASE grade = "Good" -> 50 [] grade = "Average" -> 0 [] OTHER -> -60

Impacts(x, s) ==
  <<PinImpact(x.pin.score), EventImpact(x.event.score), VolImpact(x.regime),
    BodyImpact(x.body.label), LiquidityImpact(s.liquidity)>>

\* The impacts times target / total, a factor kept between -2 and 2.
Fitted(raw, target) ==
  LET total == Total(raw)
      factor(d) == IF total = 0 THEN 0
                   ELSE IF Size(target) > 2 * Size(total)
                     THEN IF (target < 0) = (total < 0) THEN 2 * d ELSE -2 * d
                   ELSE RoundDiv(d * target, total)
  IN [k \in DOMAIN raw |-> factor(raw[k])]

\* Mutant: what rounding and the clamp leave over is not put on the last row.
Breakdown_NoResidual(x, s) ==
  LET anchor == Anchor(x.sigma)
  IN [anchor |-> anchor, rows |-> Fitted(Impacts(x, s), x.score - anchor), final |-> x.score]

\* build_credit_safety_breakdown.  The row of liquidity takes the residual.
Breakdown(x, s) ==
  LET anchor == Anchor(x.sigma)
      rows == Fitted(Impacts(x, s), x.score - anchor)
      residual == x.score - anchor - Total(rows)
  IN [anchor |-> anchor, rows |-> [rows EXCEPT ![5] = @ + residual], final |-> x.score]

-----------------------------------------------------------------------------
(* What the decision stands on: decision_sensitivity.                      *)

\* _collect_raw_drivers: the components of the score are shares of safety, not of risk.
Magnitudes(x, s) ==
  LET c == x.components
  IN <<c.pin_risk, c.event_risk, c.vol_regime, c.body_danger,
       CASE s.liquidity = "Poor" -> 600 [] s.liquidity = "Average" -> 250 [] OTHER -> 0>>

\* The share of each driver in tenths of a percent, rows below 1 % dropped.
Shares(magnitudes) ==
  LET pct == [k \in DOMAIN magnitudes |-> RoundDiv(1000 * magnitudes[k], Total(magnitudes))]
  IN [k \in {k \in DOMAIN magnitudes : pct[k] >= 10} |-> pct[k]]

\* Mutant: the rows that are left are not scaled up again.
Bars_AsTheyAre(magnitudes) ==
  IF Total(magnitudes) = 0 THEN [k \in {1} |-> 1000] ELSE Shares(magnitudes)

\* build_key_drivers: the bar of each driver that is left, in tenths of a percent, scaled to
\* 100 % again unless they are within 0.2 % of it; one bar when nothing weighs.
Bars(magnitudes) ==
  LET rows == Shares(magnitudes)
      seen == Total(rows)
  IN IF Total(magnitudes) = 0 THEN [k \in {1} |-> 1000]
     ELSE IF seen > 0 /\ Size(seen - 1000) > 2
       THEN [k \in DOMAIN rows |-> RoundDiv(1000 * rows[k], seen)]
     ELSE rows

\* build_assumptions: those of high fragility.
Fragile(x, r) ==
  {a \in {"IV", "macro", "event", "pin", "oil"} :
     CASE a = "IV" -> r.spread > 50
       [] a = "macro" -> r.shock
       [] a = "event" -> r.catalyst \/ x.event.label = "High"
       [] a = "pin" -> x.pin.label = "High" \/ r.near
       [] OTHER -> r.energy /\ r.shock}

\* Conditions are pairs, in the order they are tried: whether one is to be met, and its name.
Open(conditions) == {k \in DOMAIN conditions : conditions[k][1]}

\* The names of the first ones that are to be met.
FirstOpen(conditions, limit) ==
  {conditions[k][2] : k \in {k \in Open(conditions) :
                               Cardinality(Open(conditions) \cap 1 .. k) <= limit}}

ToEnter(x, s) ==
  <<<<TRUE, "breakeven">>, <<s.pin # "Low", "pin">>, <<s.event # "Low", "event">>,
    <<x.score < 700, "safety">>, <<s.liquidity = "Poor", "liquidity">>,
    <<s.iv = "Poor", "iv">>, <<x.body.lo <= x.close /\ x.close <= x.body.hi, "body">>>>

ToAvoid(x, s) ==
  <<<<~(x.body.lo <= x.close /\ x.close <= x.body.hi), "body">>,
    <<s.pin # "High", "pin">>, <<s.event # "High", "event">>, <<TRUE, "volatility">>,
    <<s.score >= 40, "safety">>, <<s.liquidity # "Poor", "liquidity">>>>

ToWait(s) ==
  IF s.decision = "Enter"
    THEN <<<<s.pin = "Low", "pin">>, <<s.event = "Low", "event">>, <<s.score >= 70, "safety">>>>
    ELSE <<<<s.pin = "High", "pin">>, <<s.event = "High", "event">>, <<s.score < 40, "safety">>>>

\* Mutant: three conditions of a branch are shown.
Triggers_Three(x, s) ==
  LET branch == [Enter |-> ToEnter(x, s), Avoid |-> ToAvoid(x, s), Wait |-> ToWait(s)]
  IN [t \in {t \in DOMAIN branch : t # s.decision /\ Open(branch[t]) # {}} |->
        FirstOpen(branch[t], 3)]

\* build_triggers: the branches of the other two decisions, at most five conditions each.
Triggers(x, s) ==
  LET branch == [Enter |-> ToEnter(x, s), Avoid |-> ToAvoid(x, s), Wait |-> ToWait(s)]
  IN [t \in {t \in DOMAIN branch : t # s.decision /\ Open(branch[t]) # {}} |->
        FirstOpen(branch[t], 5)]

-----------------------------------------------------------------------------
(* How the members differ, and how easily the position trades.             *)

\* Mutant: a high chance down counts also beside a high chance up.
Stance_DownAnyway(o) ==
  LET bull == Cardinality({k \in {"today", "next"} : o[k] = "Bullish"})
              + (IF o.up = "High" /\ o.down # "High" THEN 1 ELSE 0)
      bear == Cardinality({k \in {"today", "next"} : o[k] = "Bearish"})
              + (IF o.down = "High" THEN 1 ELSE 0)
  IN IF bull > bear THEN "Bullish" ELSE IF bear > bull THEN "Bearish" ELSE "Neutral"

\* _classify_stance of one member's card.
Stance(o) ==
  LET bull == Cardinality({k \in {"today", "next"} : o[k] = "Bullish"})
              + (IF o.up = "High" /\ o.down # "High" THEN 1 ELSE 0)
      bear == Cardinality({k \in {"today", "next"} : o[k] = "Bearish"})
              + (IF o.down = "High" /\ o.up # "High" THEN 1 ELSE 0)
  IN IF bull > bear THEN "Bullish" ELSE IF bear > bull THEN "Bearish" ELSE "Neutral"

\* The views of the team after the revision round; a revision that failed, or that brought
\* no opinion, leaves the first view.
Revised(round1, round3) ==
  [role \in DOMAIN round1 |->
     LET new == IF role \in DOMAIN round3 THEN round3[role] ELSE {}
     IN IF new = {} THEN round1[role] ELSE CHOOSE o \in new : TRUE]

Foremost(themes) ==
  LET times(t) == Cardinality({k \in DOMAIN themes : themes[k] = t})
  IN {t \in ToSet(themes) : \A u \in ToSet(themes) : times(u) <= times(t)}

\* _main_conflict_phrase: the theme most criticised in words and the one in numbers.
Conflict(round2) ==
  LET Pick(themes) == IF themes = <<>> THEN {{}} ELSE {{t} : t \in Foremost(themes)}
  IN {e \cup n : e \in Pick(round2.enums), n \in Pick(round2.numbers)}

\* build_analyst_disagreement: none without a first round.
Disagreement(round1, round2, round3) ==
  LET used == Revised(round1, round3)
      stances == [role \in DOMAIN used |-> Stance(used[role])]
      converged == Cardinality({stances[role] : role \in DOMAIN used}) <= 1
      counts == [t \in {"Bullish", "Bearish", "Neutral"} |->
                   Cardinality({role \in DOMAIN used : stances[role] = t})]
  IN IF DOMAIN round1 = {} THEN {}
     ELSE {[stances |-> stances, counts |-> counts, converged |-> converged, conflict |-> c] :
             c \in (IF converged THEN {{}} ELSE Conflict(round2))}

\* The grades of the three axes: volume (in thousands), the label of the score, the exit.
Axes(x, volume) ==
  [underlying |-> IF volume >= 1000 THEN 3 ELSE IF volume >= 200 THEN 2 ELSE 1,
   options |-> CASE x.label = "SAFE" -> 3 [] x.label = "CAUTION" -> 2 [] OTHER -> 1,
   execution |->
     IF x.pin.score >= 700 \/ x.pin.label = "High" \/ x.body.label = "High" THEN 1
     ELSE IF x.pin.score >= 400 \/ x.pin.label = "Medium" \/ x.body.label = "Medium" THEN 2 ELSE 3]

\* _compose_reason: the axis the reason is about.
Reason(axes) ==
  CASE axes.underlying = 3 /\ axes.options = 3 /\ axes.execution = 3 -> "none"
    [] axes.execution = 1 -> "execution"
    [] axes.execution # 1 /\ axes.options = 1 -> "options"
    [] axes.execution # 1 /\ axes.options # 1 /\ axes.underlying = 1 -> "underlying"
    [] OTHER -> "mixed"

\* build_liquidity_assessment: the volume of the desks goes before that of the snapshot, and
\* a card that is more generous raises the grade of the tape from 2 to 3.
Assessment(x, s, r) ==
  LET axes == Axes(x, IF r.desk > 0 THEN r.desk ELSE r.tape)
      raised == IF axes.underlying = 2 /\ s.liquidity = "Good"
                  THEN [axes EXCEPT !.underlying = 3] ELSE axes
  IN [axes |-> raised, reason |-> Reason(raised)]

-----------------------------------------------------------------------------
(* The whole layer.                                                        *)

\* build_decision_sensitivity
Sensitivity(x, cards, r) ==
  {[bars |-> Bars(Magnitudes(x, s)), fragile |-> Fragile(x, r), triggers |-> Triggers(x, s),
    disagreement |-> Disagreement(r.round1, r.round2, r.round3)] : s \in cards}

\* What the breakdown and the liquidity take for the card when there is none.
Graded(cards) == IF cards = {} THEN {[liquidity |-> "Average"]} ELSE cards

\* ExplainabilityAssembler.build for a report with an options block: a builder that raises
\* leaves its own slot empty, and without a card there is no sensitivity.
Layer(x, cards, r, broken) ==
  LET Over(slot, S) == IF slot \in broken THEN {} ELSE S
  IN [breakdown |-> Over("breakdown", {Breakdown(x, s) : s \in Graded(cards)}),
      sensitivity |-> Over("sensitivity", Sensitivity(x, cards, r)),
      liquidity |-> Over("liquidity", {Assessment(x, s, r) : s \in Graded(cards)})]

-----------------------------------------------------------------------------
(* Properties.                                                             *)

Blocks ==
  UNION {Intelligence(10000, half, ratio, events, prob, sigma, regime) :
           half \in {0, 300}, ratio \in {0, 1, 30, 31, 71, 200}, prob \in Chances,
           events \in {<<>>, <<[token |-> FALSE, weight |-> 800]>>,
                       <<[token |-> TRUE, weight |-> 250]>>, <<[token |-> TRUE, weight |-> 1000]>>},
           sigma \in {0, 240, 900}, regime \in Regime}

Cards ==
  [decision : {"Enter", "Wait", "Avoid"}, score : {0, 39, 40, 69, 70, 100}, pin : Level,
   event : Level, liquidity : {"Poor", "Average", "Good"}, iv : {"Poor", "Good"}]

Facts ==
  [articles |-> 9, limited |-> FALSE, live |-> FALSE, bias |-> "neutral", regime |-> "low",
   up3 |-> 100, down3 |-> 200, up2 |-> 200, down2 |-> 300, tier |-> "tier-3", mapped |-> "none",
   uncertainty |-> "none", stance |-> "none", calibration |-> 500, conf |-> 680,
   volume |-> 100, spread |-> 0, shock |-> FALSE, catalyst |-> FALSE, near |-> FALSE,
   energy |-> FALSE, tape |-> 500, desk |-> 0,
   round1 |-> <<>>, round2 |-> [enums |-> <<>>, numbers |-> <<>>], round3 |-> <<>>]

\* The fallback decision of the card of a block and the decision of its summary are the same,
\* and the summary never claims less risk than the card.
CardsAgree(x, r) ==
  /\ Executive(x, r).decision
       = [Enter |-> "SAFE", Wait |-> "WATCH", Avoid |-> "AVOID"][FallbackDecision(Card(x, r))]
  /\ Higher(Executive(x, r).risk, Card(x, r).risk) = Executive(x, r).risk

\* A card that says Enter does not call its own body risky.
EntersAreDefensible(x, r) ==
  FallbackDecision(Card(x, r)) = "Enter" => Dynamics(Card(x, r))[3] # "risky"

\* The two cards drawn from one block agree, also where rounding takes the score of the card
\* over a threshold.
TwoCardsAgree ==
  /\ \A score \in 0 .. 1000, uncertainty \in Level \cup {"none"} :
       CardsAgree([score |-> score, label |-> SafetyLabel(score), sigma |-> 100,
                   pin |-> [label |-> "Low"], event |-> [label |-> "Low"]],
                  [Facts EXCEPT !.uncertainty = uncertainty])
  /\ \A x \in Blocks : EntersAreDefensible(x, Facts)

\* The rows of the breakdown add up to the score of the card to the hundredth, whatever
\* rounding and the clamp do to them, the bars of the drivers to 100 % within 0.3, and a
\* builder that fails takes none of the others with it.
LayerAddsUp(layer, cards, broken) ==
  /\ "breakdown" \notin broken => layer.breakdown # {}
  /\ \A b \in layer.breakdown : b.anchor + Total(b.rows) = b.final
  /\ layer.sensitivity = {} <=> cards = {}
  /\ \A t \in layer.sensitivity : Size(Total(t.bars) - 1000) <= 3

\* So do those of every layer of a block and a card of middling risk, or no card.
ExplanationsAddUp ==
  LET middling == {s \in Cards : s.decision = "Wait" /\ s.score = 40 /\ s.pin = "Low"
                                  /\ s.event = "Low" /\ s.iv = "Good"}
  IN \A x \in Blocks, cards \in {{}} \cup {{s} : s \in middling},
        broken \in SUBSET {"breakdown", "liquidity"} :
       LayerAddsUp(Layer(x, cards, Facts, broken), cards, broken)

\* Credit safety is named among the at most five conditions wherever it is what keeps the
\* decision from another one: a score below 7 on the way to Enter, one of 4 or more on the
\* way to Avoid.
TriggersNameTheCause ==
  \A s \in Cards, score \in {395, 399, 695, 700} :
    LET x == [score |-> score, close |-> 100, body |-> [lo |-> 97, hi |-> 103]]
        t == Triggers(x, s)
    IN /\ s.decision # "Enter" /\ score < 700 => "safety" \in t["Enter"]
       /\ s.decision # "Avoid" /\ s.score >= 40 => "safety" \in t["Avoid"]

Turned == [Bullish |-> "Bearish", Bearish |-> "Bullish", Neutral |-> "Neutral"]

Mirror(o) ==
  LET turn == [Bullish |-> "Bearish", Bearish |-> "Bullish", Sideways |-> "Sideways"]
  IN [today |-> turn[o.today], next |-> turn[o.next], up |-> o.down, down |-> o.up]

\* d is what a team is shown to disagree about, and m the same for the mirror image of its
\* views: the stances are turned, every member counts once, and the team has converged where
\* one stance has all of it.
ShownFairly(d, m, team) ==
  /\ \A role \in team : m.stances[role] = Turned[d.stances[role]]
  /\ \A t \in DOMAIN Turned : m.counts[Turned[t]] = d.counts[t]
  /\ d.counts.Bullish + d.counts.Bearish + d.counts.Neutral = Cardinality(team)
  /\ d.converged <=> \E t \in DOMAIN Turned : d.counts[t] = Cardinality(team)

\* The team is shown fairly, also where a revision failed, and where it differs a theme is
\* named that was criticised most.
StanceIsFair ==
  LET Views == [today : {"Bullish", "Bearish", "Sideways"}, next : {"Bullish", "Sideways"},
                up : {"High", "Low"}, down : {"High", "Medium"}]
      said == [enums |-> <<"event", "event", "pin">>, numbers |-> <<"pin">>]
  IN \A round1 \in [{"desk", "judge"} -> Views], new \in {{}} \cup {{o} : o \in Views} :
       LET turned == [role \in DOMAIN round1 |-> Mirror(round1[role])]
           shown == Disagreement(round1, said, [role \in {"judge"} |-> new])
           back == Disagreement(turned, said, [role \in {"judge"} |-> {Mirror(o) : o \in new}])
       IN /\ shown # {}
          /\ \A d \in shown, m \in back :
               /\ ShownFairly(d, m, {"desk", "judge"})
               /\ d.conflict = (IF d.converged THEN {} ELSE {"event", "pin"})
               /\ new = {} => d.stances["judge"] = Stance(round1["judge"])

\* As the pin and the event of a block get worse no assumption becomes less fragile and no
\* grade of the exit better, and where an axis is poor the reason names a poor one.
WorseIsNotEasier ==
  LET some == {x \in Blocks : x.sigma = 0 /\ x.regime = "low"}
  IN \A x \in some, y \in some :
       /\ y.body = x.body /\ y.score <= x.score
       /\ y.pin.score >= x.pin.score /\ y.event.score >= x.event.score
       =>
         /\ Fragile(x, Facts) \subseteq Fragile(y, Facts)
         /\ \A s \in {s \in Cards : s.decision = "Wait" /\ s.score = 40 /\ s.pin = "Low"
                                    /\ s.event = "Low" /\ s.iv = "Good"}, v \in {100, 500, 2000} :
              LET a == Assessment(x, s, [Facts EXCEPT !.desk = v])
                  b == Assessment(y, s, [Facts EXCEPT !.desk = v])
              IN /\ b.axes.execution <= a.axes.execution /\ b.axes.options <= a.axes.options
                 /\ 1 \in {a.axes[k] : k \in DOMAIN a.axes} =>
                      a.reason \in DOMAIN a.axes /\ a.axes[a.reason] = 1

\* A row of the breakdown keeps the direction of its impact.  Does not hold: the factor may
\* be negative.
DirectionsAreKept ==
  \A x \in Blocks : LET s == [liquidity |-> "Average"] IN
    \A k \in 1 .. 4 : Impacts(x, s)[k] * Breakdown(x, s).rows[k] >= 0

\* Every other decision has a branch.  Does not hold on the way from Avoid to Wait.
EveryDecisionHasABranch ==
  \A x \in Blocks :
    LET c == [decision |-> FallbackDecision(Card(x, Facts))] @@ Card(x, Facts)
    IN DOMAIN Triggers(x, c) = {"Enter", "Wait", "Avoid"} \ {c.decision}
=============================================================================
