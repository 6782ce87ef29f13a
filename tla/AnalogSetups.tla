----------------------------- MODULE AnalogSetups -----------------------------
(***************************************************************************)
(* The historical analogs of a report: AnalogService blends what three     *)
(* searches find, and the simulator lays the structure of the report over  *)
(* the prices that followed each of them.                                  *)
(*                                                                         *)
(* An article is a record with a key, the headline and the day it stands   *)
(* for.  Match scores are in hundredths, shares in tenths of a percent,    *)
(* strikes in any unit of price.                                           *)
(***************************************************************************)
EXTENDS Integers, FiniteSetsExt, SequencesExt, FiniteSums

CONSTANTS
  Keys,   \* the headlines with their days
  Path    \* the prices that follow an analog

ASSUME AnalogAssumption == IsFiniteSet(Keys) /\ Path \subseteq Nat

Nothing == [n |-> 0, wins |-> 0, losses |-> 0, touches |-> 0, retained |-> 0]

Best(S) == {a \in S : \A b \in S : a.score >= b.score}

-----------------------------------------------------------------------------
(* The blend.                                                              *)

\* Both detectors need one kind of hint; a fall in price counts only beside earnings.
Detect(rows, reason) ==
  CASE reason = "earnings_beat_sell_off" ->
         {[key |-> k, reason |-> reason, score |-> 85] :
            k \in {k \in DOMAIN rows : {"earnings", "selloff"} \subseteq rows[k]}}
    [] reason = "sector_rotation" ->
         {[key |-> k, reason |-> reason, score |-> 70] :
            k \in {k \in DOMAIN rows : "rotation" \in rows[k]}}

\* The rows a detector found replace those of a lower score.
Override(found, rows) ==
  {c \in found : \A d \in rows : d.key = c.key => d.score < c.score}
  \cup {c \in rows : \A d \in found : d.key = c.key => d.score <= c.score}

\* One more neighbour in the vectors is added; a row that is there, also from an earlier
\* neighbour of the same headline and day, gets 0.15 more, at most 1 in all.
Met(rows, d) ==
  LET same == {c \in rows : c.key = d.key}
  IN IF same = {} THEN rows \cup {d}
     ELSE (rows \ same) \cup {[c EXCEPT !.score = Min({100, @ + 15})] : c \in same}

\* The neighbours are added one after the other.
Boosted(rows, near) ==
  LET after[k \in 0 .. Len(near)] == IF k = 0 THEN rows ELSE Met(after[k - 1], near[k])
  IN after[Len(near)]

\* Mutant: the second detector replaces whatever the first one found.
Candidates_Replace(exact, corpus, near) ==
  LET sold == Override(Detect(corpus, "earnings_beat_sell_off"),
                       {[key |-> k, reason |-> "exact_event_type", score |-> 40] : k \in exact})
      rotated == Detect(corpus, "sector_rotation")
  IN Boosted(rotated \cup {c \in sold : \A d \in rotated : d.key # c.key}, near)

\* fetch_analogs up to the ranking: rows of the same event, patterns, then vectors.
Candidates(exact, corpus, near) ==
  Boosted(Override(Detect(corpus, "sector_rotation"),
            Override(Detect(corpus, "earnings_beat_sell_off"),
              {[key |-> k, reason |-> "exact_event_type", score |-> 40] : k \in exact})),
          near)

\* A result of fetch_analogs: the rows by descending score, ties in any order.
Ranked(rows, limit) ==
  {S \in SUBSET rows :
     /\ Cardinality(S) = Min({limit, Cardinality(rows)})
     /\ \A a \in S, b \in rows \ S : a.score >= b.score}

-----------------------------------------------------------------------------
(* The simulation.                                                         *)

\* _scale_strikes_to_analog, times the spot: the strikes keep their distance in percent.
Scaled(structure, close) ==
  [body |-> close * structure.body,
   low |-> close * (structure.body - structure.wing),
   high |-> close * (structure.body + structure.wing)]

\* Mutant: the touch of the body is looked at first.
Outcome_TouchFirst(structure, close, path) ==
  LET at == Scaled(structure, close)
      spot == structure.spot
      touched == \E k \in DOMAIN path :
                   LET away == path[k] * spot - at.body
                   IN 10 * Max({away, -away}) <= 4 * structure.wing * spot
      last == path[Len(path)]
      lost == at.low < last * spot /\ last * spot < at.high
  IN IF close <= 0 \/ path = <<>> THEN {}
     ELSE {[touched |-> touched, lost |-> lost,
            retained |-> IF structure.credit = 0 THEN 0
                         ELSE IF touched THEN 550 ELSE IF lost THEN 0 ELSE 1000]}

\* _simulate_one_analog: whether a price came within 0.4 wings of the body, in dollars of
\* today, and whether the last one is inside the wings.
Outcome(structure, close, path) ==
  LET at == Scaled(structure, close)
      spot == structure.spot
      touched == \E k \in DOMAIN path :
                   LET away == path[k] * spot - at.body
                   IN 10 * Max({away, -away}) <= 4 * structure.wing * spot
      last == path[Len(path)]
      lost == at.low < last * spot /\ last * spot < at.high
  IN IF close <= 0 \/ path = <<>> THEN {}
     ELSE {[touched |-> touched, lost |-> lost,
            retained |-> IF structure.credit = 0 \/ lost THEN 0
                         ELSE IF touched THEN 550 ELSE 1000]}

\* simulate_analog_setups: the counts and the sum of the shares retained over the rows that
\* have a close and a path, at most 25 of them.
Aggregate(outcomes) ==
  LET valid == {k \in 1 .. Min({25, Len(outcomes)}) : outcomes[k] # {}}
      of == [k \in valid |-> AnyOf(outcomes[k])]
  IN IF valid = {} THEN Nothing
     ELSE [n |-> Cardinality(valid),
           wins |-> Cardinality({k \in valid : ~of[k].lost}),
           losses |-> Cardinality({k \in valid : of[k].lost}),
           touches |-> Cardinality({k \in valid : of[k].touched}),
           retained |-> SumOver([k \in valid |-> of[k].retained], valid)]

\* build_historical_analogs_explain: the rows shown, and a warning for a small sample.
Explain(rows, aggregates) ==
  IF rows = 0 THEN {}
  ELSE {[shown |-> Min({10, rows}), warned |-> aggregates.n < 8]}

-----------------------------------------------------------------------------
(* Properties.                                                             *)

Corpora == [Keys -> SUBSET {"earnings", "selloff", "rotation"}]

\* A story is listed once, with no less than the best score the events or the patterns alone
\* give it and no more than 1, and no row left out by the limit beats a row that is kept.
ListsTheBest(exact, corpus, near) ==
  LET rows == Candidates(exact, corpus, near)
      alone == {Candidates(exact, [k \in Keys |-> {}], <<>>), Candidates({}, corpus, <<>>)}
  IN /\ \A c \in rows, d \in rows : c.key = d.key => c = d
     /\ \A one \in alone : \A a \in one :
          \E c \in rows : c.key = a.key /\ c.score >= a.score /\ c.score <= 100
     /\ \A c \in rows : "selloff" \in corpus[c.key] /\ "earnings" \in corpus[c.key] =>
          c.score >= 85
     /\ \A kept \in Ranked(rows, 1) : kept \subseteq Best(rows)

\* However the searches overlap, the blend lists the best of them.
AnalogsAreTheBest ==
  \A exact \in SUBSET Keys, corpus \in Corpora, close \in UNION {[1 .. n -> Keys] : n \in 0 .. 2} :
    ListsTheBest(exact, corpus,
      [k \in DOMAIN close |-> [key |-> close[k], reason |-> "semantic", score |-> 90]])

Structures ==
  [spot : {10}, body : {10}, wing : {3}, credit : {0, 1}]

Paths == UNION {[1 .. n -> Path] : n \in 0 .. 2}

Outcomes(structure) ==
  {Outcome(structure, close, path) : close \in {0, 5, 10, 20}, path \in Paths}

\* Every analog that counts is a win or a loss, a loss retains nothing, and with a credit a
\* win retains between 55 % and all of it.
AddsUp(credit, sum) ==
  /\ sum.wins + sum.losses = sum.n /\ sum.touches <= sum.n
  /\ sum.retained <= 1000 * sum.wins
  /\ credit > 0 => sum.retained >= 550 * sum.wins

\* The aggregates of a report tell one story: the average retained lies between 55 % and
\* 100 % of the share of wins, and a small sample is marked as one.
AnalogsAddUp ==
  \A structure \in Structures :
    \A a \in Outcomes(structure), b \in Outcomes(structure) :
      /\ AddsUp(structure.credit, Aggregate(<<a, {}, b>>))
      /\ \A shown \in Explain(3, Aggregate(<<a, {}, b>>)) : shown.warned

\* The outcome is of the structure in percent: a history at twice the price has the outcome
\* of the history itself.  Does not hold, the reach of the body is in dollars of today.
OutcomesScale ==
  \A structure \in Structures, path \in Paths :
    Outcome(structure, 20, [k \in DOMAIN path |-> 2 * path[k]]) = Outcome(structure, 10, path)

\* That two searches agree on a story never lowers it, as the comment on the boost says.
\* Does not hold: an exact row stays below what its similarity alone would give it.
AgreementHelps ==
  \A k \in Keys, score \in {40, 90} :
    LET near == <<[key |-> k, reason |-> "semantic", score |-> score]>>
    IN \A c \in Candidates({k}, [j \in Keys |-> {}], near) : c.score >= score
=============================================================================
