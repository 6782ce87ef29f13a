--------------------------- MODULE OptionStructure ---------------------------
(***************************************************************************)
(* OptionsIntelligenceService.compute: the pure block of a report that     *)
(* rates a credit structure, a short body between two wings, from the      *)
(* price, the volatility and the events of a ticker.                       *)
(*                                                                         *)
(* Shares of one are in thousandths, scores of 0 to 10 in hundredths,      *)
(* percentages in hundredths of a point.  What the code rounds to these    *)
(* units is rounded, a tie up.  The log-normal distribution of the price   *)
(* at expiry is any distribution over a grid of prices; the code           *)
(* approximates it twice, by quadrature for the value and in closed form   *)
(* for the chances, and the model takes both from one.                     *)
(***************************************************************************)
EXTENDS Integers, Sequences, FiniteSets, FiniteSetsExt, FiniteSums

CONSTANTS
  Prices,  \* the grid of prices at expiry
  Mass     \* the weights a price can have in a distribution

ASSUME StructureAssumption ==
  Prices \subseteq Nat /\ IsFiniteSet(Prices) /\ Mass \subseteq Nat

Regime == {"low", "medium", "high", "unknown"}
Share == 0 .. 1000

Bounded(x, low, high) == IF x < low THEN low ELSE IF x > high THEN high ELSE x

\* round: a / b to the nearest integer, a tie up.
RoundDiv(a, b) == IF b < 0 THEN (b - 2 * a) \div (-2 * b) ELSE (2 * a + b) \div (2 * b)

Worse(a, b) == \* regimes and labels, from the worst to the best
  LET rank == [high |-> 0, unknown |-> 1, medium |-> 2, low |-> 3,
               UNSAFE |-> 0, CAUTION |-> 1, SAFE |-> 2,
               High |-> 0, Medium |-> 1, Low |-> 2]
  IN rank[a] < rank[b]

-----------------------------------------------------------------------------
(* The five scores of the block.                                           *)

\* pin_risk: the distance of the next round price, in hundredths of the expected move.
PinRisk(ratio) ==
  CASE ratio <= 30 -> [label |-> "High", score |-> Bounded(850 + (30 - ratio) * 5, 0, 1000)]
    [] ratio > 30 /\ ratio <= 70 -> [label |-> "Medium", score |-> 450 + (70 - ratio) * 8]
    [] OTHER -> [label |-> "Low", score |-> Bounded(300 - (ratio - 70) * 3, 0, 1000)]

\* body_danger_zone, in cents: the body is a band around the close itself.
BodyDanger(close, half) ==
  LET lo == close - half
      hi == IF half > 0 THEN close + half ELSE lo + Max({1, close \div 1000})
      off == Max({2 * close - (lo + hi), lo + hi - 2 * close})
  IN [lo |-> lo, hi |-> hi,
      label |-> IF 10 * off <= 3 * (hi - lo) THEN "High"
                ELSE IF 100 * off <= 65 * (hi - lo) THEN "Medium" ELSE "Low"]

BodyShare(label) == CASE label = "High" -> 850 [] label = "Medium" -> 500 [] OTHER -> 150

\* event_risk_score: an event has a weight, and may name a high-impact token.  The first ten
\* count.
EventRisk(events) ==
  LET one(e) == IF e.token THEN 550 + RoundDiv(2 * e.weight, 5)
                ELSE 200 + RoundDiv(3 * e.weight, 10)
      score == Max({0} \cup {one(events[k]) : k \in DOMAIN events \cap 1 .. 10})
  IN [score |-> score,
      label |-> IF score >= 650 THEN "High" ELSE IF score >= 350 THEN "Medium" ELSE "Low"]

VolScore(regime) ==
  CASE regime = "low" -> 850 [] regime = "medium" -> 550 [] regime = "high" -> 200
    [] OTHER -> 450

Components(prob, pin, body, event, regime) ==
  [prob_block |-> prob, pin_risk |-> 1000 - pin, body_danger |-> 1000 - body,
   event_risk |-> 1000 - event, vol_regime |-> VolScore(regime)]

\* Mutant: the event risk is not inverted.
CreditSafety_EventsHelp(c) ==
  RoundDiv(35 * c.prob_block + 20 * c.pin_risk + 20 * c.body_danger
           + 15 * (1000 - c.event_risk) + 10 * c.vol_regime, 100)

\* credit_safety_score of the components, with the default weights.
CreditSafety(c) ==
  RoundDiv(35 * c.prob_block + 20 * c.pin_risk + 20 * c.body_danger
           + 15 * c.event_risk + 10 * c.vol_regime, 100)

SafetyLabel(score) ==
  IF score >= 700 THEN "SAFE" ELSE IF score >= 400 THEN "CAUTION" ELSE "UNSAFE"

-----------------------------------------------------------------------------
(* The suggested structure.                                                *)

\* reverse_bwb_suitability: safety and the room the expected move leaves.
Suitability(safety, sigma) == RoundDiv(6 * safety + Bounded(4000 - 5 * sigma, 0, 4000), 10)

SuggestedWing(sigma) ==
  IF sigma >= 500 THEN 300 ELSE IF sigma >= 300 THEN 250 ELSE IF sigma >= 150 THEN 200 ELSE 150

SuggestedDte(regime, event) ==
  LET base == CASE regime = "low" -> 14 [] regime = "high" -> 4 [] OTHER -> 7
  IN IF event >= 700 THEN Max({2, base - 3})
     ELSE IF event >= 450 THEN Max({3, base - 1}) ELSE base

\* compute_structure_geometry of a body, a wing and a credit.
Geometry(body, wing, credit) ==
  [body |-> body, wing |-> wing, credit |-> credit,
   max_loss |-> Max({0, wing - credit}),
   upper_breakeven |-> body + credit, lower_breakeven |-> body - credit]

\* The credit the service assumes: 45 % of the wing.
AssumedCredit(wing) == RoundDiv(45 * wing, 100)

-----------------------------------------------------------------------------
(* position_risk of a geometry, under a distribution w over Prices.        *)

Weight(w, S) == SumOver(w, S)

Within(w, lo, hi) == Weight(w, {s \in Prices : lo < s /\ s <= hi})

\* Mutant: beyond the wings the loss goes on.
Payoff_NoWings(g, s) == g.credit - (IF s >= g.body THEN s - g.body ELSE g.body - s)

\* The payout per share at expiry.
Payoff(g, s) ==
  Bounded(IF s >= g.body + g.wing \/ s < g.body - g.wing THEN g.credit - g.wing
          ELSE g.credit - (IF s >= g.body THEN s - g.body ELSE g.body - s),
          -g.max_loss, g.credit)

\* The probabilities and the expected value, each times the weight of all prices; profit
\* is counted twice over for its half.
PositionRisk(g, w) ==
  LET all == Weight(w, Prices)
      body == Within(w, g.body - g.wing, g.body + g.wing)
      even == Within(w, g.lower_breakeven, g.upper_breakeven)
  IN [all |-> all,
      profit2 |-> Bounded(2 * all - 2 * body + even, 0, 2 * all),
      touch |-> Bounded(2 * body, 0, all),
      breakeven |-> even,
      max_loss |-> all - body,
      value |-> SumOver([s \in Prices |-> w[s] * Payoff(g, s)], Prices)]

\* compute: the block of a report, or none without a price.
Intelligence(close, half, ratio, events, prob, sigma, regime) ==
  IF close <= 0 THEN {}
  ELSE LET pin == PinRisk(ratio)
           event == EventRisk(events)
           body == BodyDanger(close, half)
           parts == Components(prob, pin.score, BodyShare(body.label), event.score, regime)
           safety == CreditSafety(parts)
       IN {[pin |-> pin, event |-> event, body |-> body, components |-> parts,
            score |-> safety, label |-> SafetyLabel(safety), sigma |-> sigma,
            regime |-> regime, close |-> close,
            suitability |-> SafetyLabel(Suitability(safety, sigma)),
            dte |-> SuggestedDte(regime, event.score)]}

-----------------------------------------------------------------------------
(* Properties.                                                             *)

Geometries ==
  {Geometry(body, wing, credit) : body \in Prices, wing \in {1, 3, 4}, credit \in {0, 1, 2}}

\* The figures of position_risk fit each other: the expected value stays within the maximum
\* loss and the credit, and every price beyond the wings costs it the whole wing.  Where the
\* history of the report puts the loss is another matter (LostSetupsLose).
ValueFitsTheLoss ==
  \A g \in Geometries, w \in [Prices -> Mass] :
    g.credit <= g.wing =>
      LET r == PositionRisk(g, w)
      IN /\ -g.max_loss * r.all <= r.value
         /\ r.value <= g.credit * r.all - g.wing * r.max_loss

\* With the assumed credit the breakevens lie between the wings.
BreakevensAreInside ==
  \A wing \in 1 .. 200 :
    LET g == Geometry(500, wing, AssumedCredit(wing))
    IN /\ 500 - wing < g.lower_breakeven /\ g.upper_breakeven < 500 + wing
       /\ g.max_loss + g.credit = wing

\* The chances of a one-sigma range of a log-normal price.
Chances == {0, 390, 680, 700}
Ratios == {0, 29, 30, 31, 70, 71, 100, 200}
EventScores == {EventRisk(<<>>), EventRisk(<<[token |-> FALSE, weight |-> 250]>>),
                EventRisk(<<[token |-> FALSE, weight |-> 800]>>),
                EventRisk(<<[token |-> TRUE, weight |-> 250]>>),
                EventRisk(<<[token |-> TRUE, weight |-> 1000]>>)}

Situations ==
  [prob : Chances, ratio : Ratios, body : {"Low", "Medium", "High"},
   event : EventScores, regime : Regime]

Rated(x) ==
  CreditSafety(Components(x.prob, PinRisk(x.ratio).score, BodyShare(x.body),
                          x.event.score, x.regime))

\* Whatever single circumstance gets worse, the round price closer, the body label, an
\* event, the regime, the chance of staying in the range lower: the score does not rise, its
\* label does not improve and the suggested term does not get longer.
SafetyIsMonotone ==
  \A x \in Situations :
    LET nearer == {[x EXCEPT !.ratio = v] : v \in {v \in Ratios : v < x.ratio}}
        body == {[x EXCEPT !.body = v] : v \in {v \in {"Low", "Medium", "High"} : Worse(v, x.body)}}
        event == {[x EXCEPT !.event = v] : v \in {v \in EventScores : v.score > x.event.score}}
        chance == {[x EXCEPT !.prob = v] : v \in {v \in Chances : v < x.prob}}
        regime == {[x EXCEPT !.regime = v] : v \in {v \in Regime : Worse(v, x.regime)}}
    IN \A y \in nearer \cup body \cup event \cup chance \cup regime :
         /\ Rated(y) <= Rated(x)
         /\ ~Worse(SafetyLabel(Rated(x)), SafetyLabel(Rated(y)))
         /\ SuggestedDte(y.regime, y.event.score) <= SuggestedDte(x.regime, x.event.score)

\* The profit of the block is one: only prices with a payout that is no loss count for it.
\* This is what the comment says, and it does not hold: prices beyond the wings count.
ProfitIsProfit ==
  \A g \in Geometries, w \in [Prices -> Mass] :
    PositionRisk(g, w).profit2 <= 2 * Weight(w, {s \in Prices : Payoff(g, s) >= 0})
=============================================================================
