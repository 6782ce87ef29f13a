-------------------------- MODULE OpportunityEngine --------------------------
(***************************************************************************)
(* What one generate() of the opportunity engine computes: the Reverse BWB *)
(* combinations of an option chain, the rows its quotes price, the margin  *)
(* of each row in closed form and, for the best rows and within a budget,  *)
(* by an IBKR WhatIf order, the score that ranks them; and the placeholder *)
(* rows that stand in when there are no live ones.                         *)
(*                                                                         *)
(* Prices, strikes, premiums and margins are integers of one unit per      *)
(* share.  A combination buys one a, sells two body and buys one b.  All   *)
(* the expirations of a chain get the same combinations: one stands for    *)
(* them.                                                                   *)
(***************************************************************************)
EXTENDS Integers, FiniteSets, Sequences, SequencesExt

CONSTANTS
  MaxDistance,      \* OPP_MAX_STRIKE_DIST_PCT
  WingMin, WingMax, \* OPP_WING_MIN_STRIKES and OPP_WING_MAX_STRIKES
  MaxLegs,          \* OPP_MAX_DISTINCT_LEGS
  MinCredit,        \* OPP_MIN_CREDIT_USD, per share
  MinLegOi,         \* OPP_MIN_LEG_OI
  TopN,             \* OPP_WHATIF_TOP_N
  WhatIfMax,        \* OPP_WHATIF_MAX_PER_MIN
  Window,           \* the minute of the budget
  Amounts           \* what a strike, a price or a premium can be, and a time

ASSUME EngineAssumption ==
  /\ MaxDistance \in Nat /\ MaxLegs \in Nat /\ MinCredit \in Nat \ {0} /\ MinLegOi \in Nat
  /\ WingMin \in Nat \ {0} /\ WingMax \in Nat /\ WingMin <= WingMax
  /\ Amounts \subseteq Nat /\ Amounts # {} /\ IsFiniteSet(Amounts)
  /\ TopN \in Nat \ {0} /\ WhatIfMax \in Nat \ {0} /\ Window \in Nat \ {0}

Unknown == -1    \* a field of a quote that IBKR did not send

Known == Amounts \cup {Unknown}

Larger(x, y) == IF x >= y THEN x ELSE y
Smaller(x, y) == IF x <= y THEN x ELSE y
Apart(x, y) == Larger(x - y, y - x)

\* A stable sort: the numbers of S by ascending key, at place k the one with k - 1 before it.
SortedBy(key, S) ==
  LET Before(x) == {y \in S : key[y] < key[x] \/ (key[y] = key[x] /\ y < x)}
  IN [k \in 1 .. Cardinality(S) |-> CHOOSE x \in S : Cardinality(Before(x)) = k - 1]

Ascending(S) == SortedBy([s \in S |-> s], S)

-----------------------------------------------------------------------------
(* The combinations of a chain.                                            *)

InRange(strikes, price) == {s \in strikes : 100 * Apart(s, price) <= MaxDistance * price}

OnSide(side, strikes, price) ==
  {s \in strikes : IF side = "call" THEN s >= price ELSE s <= price}

\* The triples of a sorted chain, the wings counted in its strikes.
Triples(side, own) ==
  LET Wings == [at : 1 .. Len(own), left : WingMin .. WingMax, right : WingMin .. WingMax]
  IN {[side |-> side, a |-> own[w.at - w.left], body |-> own[w.at], b |-> own[w.at + w.right]] :
        w \in {v \in Wings : v.left < v.at /\ v.at + v.right <= Len(own)}}

\* Mutant: only the body has to lie on its side of the price.
Enumerated_AnyWing(side, strikes, price) ==
  {c \in Triples(side, Ascending(strikes)) : c.body \in OnSide(side, strikes, price)}

\* enumerate_candidates
Enumerated(side, strikes, price) ==
  Triples(side, Ascending(OnSide(side, strikes, price)))

\* The strike window and both sides of generate().
Candidates(strikes, price) ==
  UNION {Enumerated(side, InRange(strikes, price), price) : side \in {"call", "put"}}

Strikes(c) == {c.a, c.body, c.b}

\* The legs to quote; past the cap, those nearest to the price, ties in any order.
Quotable(candidates, price) ==
  LET legs == UNION {{[side |-> c.side, strike |-> s] : s \in Strikes(c)} : c \in candidates}
      Far(l) == Apart(l.strike, price)
  IN IF Cardinality(legs) <= MaxLegs THEN {legs}
     ELSE {kept \in kSubset(MaxLegs, legs) : \A k \in kept, l \in legs \ kept : Far(k) <= Far(l)}

-----------------------------------------------------------------------------
(* A row: what the quotes of its three legs make of a combination.         *)

\* _compute_premium: negative is a credit.
Premium(qa, qbody, qb) == qa.mid + qb.mid - 2 * qbody.mid

\* compute_liquidity_profile: a leg without a bid size is left out.
Liquidity(qa, qbody, qb) ==
  LET known == {x \in {qa.bid, qb.bid} : x # Unknown}
                 \cup {x \div 2 : x \in {qbody.bid} \ {Unknown}}
  IN IF known = {} THEN 0 ELSE Min(known)

\* Mutant: the narrower wing is the one that caps the loss.
Margin_Narrower(left, right, premium) ==
  Larger(Smaller(left, right) - Larger(-premium, 0), 0)

\* deterministic_margin
Margin(left, right, premium) ==
  Larger(Larger(left, right) - Smaller(left, right) - Larger(-premium, 0), 0)

\* A combination is kept when its legs have a price, the credit is worth it and every
\* leg that shows its open interest has enough of it.
Kept(qa, qbody, qb) ==
  /\ Unknown \notin {qa.mid, qbody.mid, qb.mid}
  /\ Premium(qa, qbody, qb) <= -MinCredit
  /\ \A q \in {qa, qbody, qb} : q.oi # Unknown => q.oi >= MinLegOi

Row(c, qa, qbody, qb) ==
  [combo |-> c, premium |-> Premium(qa, qbody, qb), liquidity |-> Liquidity(qa, qbody, qb),
   margin |-> Margin(c.body - c.a, c.b - c.body, Premium(qa, qbody, qb))]

\* The pricing loop of generate(), over the quotes that came.
Rows(candidates, quotes) ==
  LET Leg(c, s) == [side |-> c.side, strike |-> s]
      Quoted == {c \in candidates : \A s \in Strikes(c) : Leg(c, s) \in DOMAIN quotes}
      Q(c, s) == quotes[Leg(c, s)]
  IN {Row(c, Q(c, c.a), Q(c, c.body), Q(c, c.b)) :
        c \in {x \in Quoted : Kept(Q(x, x.a), Q(x, x.body), Q(x, x.b))}}

-----------------------------------------------------------------------------
(* The ranking score, as 10 * median * price times the code's number (the  *)
(* same factor for a whole batch), the median being twice the code's.  log *)
(* is log1p, any increasing function.                                      *)

\* _credit_efficiency, in percent
CreditEfficiency(premium, margin) ==
  IF margin <= 0 \/ premium >= 0 THEN 0 ELSE (100 * (-premium)) \div margin

Score(row, median, price, log) ==
  4 * CreditEfficiency(row.premium, row.margin) * median * price
    + 3 * log[row.liquidity] * median * price
    - 4 * row.margin * price - Smaller(Apart(row.combo.body, price), price) * median

\* Twice the median of the margins above zero; without one every penalty is 0.
Median(margins) ==
  LET above == {i \in DOMAIN margins : margins[i] > 0}
      place == SortedBy(margins, above)
      n == Cardinality(above)
  IN IF n = 0 THEN 1 ELSE margins[place[(n + 1) \div 2]] + margins[place[(n + 2) \div 2]]

\* score_candidates
Scores(rows, price, log) ==
  LET median == Median([i \in DOMAIN rows |-> rows[i].margin])
  IN [i \in DOMAIN rows |-> Score(rows[i], median, price, log)]

-----------------------------------------------------------------------------
(* The WhatIf orders: a budget of so many in any minute.                   *)

Recent(granted, now) == {t \in DOMAIN granted : granted[t] > now - Window}

\* Mutant: the budget starts anew when a minute has passed since its first order.
Acquired_Restarted(granted, now) ==
  LET kept == IF granted # <<>> /\ granted[1] <= now - Window THEN <<>> ELSE granted
  IN IF Len(kept) < WhatIfMax THEN Append(kept, now) ELSE kept

\* WhatIfBudget.acquire
Acquired(granted, now) ==
  IF Cardinality(Recent(granted, now)) < WhatIfMax THEN Append(granted, now) ELSE granted

\* An order asked for at each of the times in turn: the times it was granted.
Grants(times) ==
  LET granted[n \in 0 .. Len(times)] ==
        IF n = 0 THEN <<>> ELSE Acquired(granted[n - 1], times[n])
  IN granted[Len(times)]

\* The requests of a side with a better score, or the same one and an earlier place.
Ahead(requests, i) ==
  {j \in DOMAIN requests : /\ requests[j].side = requests[i].side
                           /\ \/ requests[j].score > requests[i].score
                              \/ requests[j].score = requests[i].score /\ j < i}

\* The best TopN of each side get an order while the budget lasts, the calls before the
\* puts; free is how many the budget grants before it first refuses.
Attempted(requests, free) ==
  LET calls == Cardinality({i \in DOMAIN requests : requests[i].side = "call"})
      Place(i) == Cardinality(Ahead(requests, i))
                    + (IF requests[i].side = "call" THEN 0 ELSE Smaller(TopN, calls))
  IN {i \in DOMAIN requests : Cardinality(Ahead(requests, i)) < TopN /\ Place(i) < free}

\* Mutant: the answers are handed to the rows in turn, not to the rows they were asked for.
Margins_InTurn(requests, free) ==
  LET answered == {i \in Attempted(requests, free) : requests[i].whatif # Unknown}
  IN [i \in DOMAIN requests |->
        IF i <= Cardinality(answered) THEN requests[Ascending(answered)[i]].whatif
        ELSE requests[i].margin]

\* compute_batch: an order that fails leaves the row its closed-form margin.
Margins(requests, free) ==
  [i \in DOMAIN requests |->
     IF i \in Attempted(requests, free) /\ requests[i].whatif # Unknown
     THEN requests[i].whatif ELSE requests[i].margin]

\* The places of the rows of a side, by descending score and then in their order.
Sorted(side, rows, scores) ==
  SortedBy([i \in DOMAIN rows |-> -scores[i]], {i \in DOMAIN rows : rows[i].combo.side = side})

\* The end of generate(): the rows of a batch with their margins refined and scored again;
\* the sequence of a side is its ranking.
Batch(rows, whatif, free, price, log) ==
  LET first == Scores(rows, price, log)
      margins == Margins([i \in DOMAIN rows |->
                            [side |-> rows[i].combo.side, score |-> first[i],
                             margin |-> rows[i].margin, whatif |-> whatif[i]]], free)
      final == [i \in DOMAIN rows |-> [rows[i] EXCEPT !.margin = margins[i]]]
      scores == Scores(final, price, log)
  IN [rows |-> final, call |-> Sorted("call", final, scores), put |-> Sorted("put", final, scores)]

-----------------------------------------------------------------------------
(* The source of a card's opportunities.                                   *)

\* Half goes to the even multiple, as Python rounds.
Nearest(x, step) ==
  LET down == x \div step
  IN step * (IF 2 * (x % step) > step \/ (2 * (x % step) = step /\ down % 2 = 1)
             THEN down + 1 ELSE down)

\* One side of the placeholder: two combinations whose near wing is half a sigma and a
\* whole one from the price, and whose far wing is twice as wide as the near one.
Placeholder(side, price, sigma, step, credit) ==
  LET sign == IF side = "call" THEN 1 ELSE -1
      wing == Larger(step, Nearest(sigma \div 2, step))
      Combo(inner) == [side |-> side, a |-> Smaller(inner, inner + sign * 3 * wing),
                       body |-> inner + sign * wing, b |-> Larger(inner, inner + sign * 3 * wing)]
  IN {[combo |-> Combo(Nearest(price + sign * off, step)), premium |-> -credit,
       margin |-> Larger(wing - credit, 0)] : off \in {sigma \div 2, sigma}}

\* The report's price, the one overridden by the live quote first.
Sought(snapshot, options) == IF snapshot > 0 THEN snapshot ELSE options

\* IbkrOpportunitySource: live rows for that price; the placeholder's, which needs the
\* price of the options block, when there are none.  live[p] is what generate() returns
\* for the price p.
Shown(snapshot, options, live, placeholder) ==
  LET price == Sought(snapshot, options)
  IN IF price > 0 /\ live[price] # {} THEN live[price]
     ELSE IF options > 0 THEN placeholder ELSE {}

-----------------------------------------------------------------------------
(* What they promise.                                                      *)

Intrinsic(side, strike, x) == Larger(IF side = "call" THEN x - strike ELSE strike - x, 0)

\* What a combination is worth when the underlying ends at x.
Payoff(c, x) ==
  Intrinsic(c.side, c.a, x) + Intrinsic(c.side, c.b, x) - 2 * Intrinsic(c.side, c.body, x)

Butterflies == {c \in [side : {"call", "put"}, a : Amounts, body : Amounts, b : Amounts] :
                  c.a < c.body /\ c.body < c.b}

\* The margin of a row covers what its combination can lose at expiry, wherever the
\* underlying ends (margin_engine.py calls it the maximum theoretical loss).
MarginCoversLoss ==
  \A c \in Butterflies, ma, mbody, mb \in Known :
    LET Quote(mid) == [mid |-> mid, bid |-> Unknown, oi |-> Unknown]
        row == Row(c, Quote(ma), Quote(mbody), Quote(mb))
    IN Kept(Quote(ma), Quote(mbody), Quote(mb))
         => \A x \in Amounts : row.premium - Payoff(c, x) <= row.margin

\* The most a row's combination can lose: below its strikes, at the body or above them.
Loss(row) ==
  Max({row.premium - Payoff(row.combo, x) : x \in {row.combo.a - 1, row.combo.body, row.combo.b + 1}})

Synthetic(options, sigma, step, credit) ==
  UNION {Placeholder(side, options, sigma, step, credit) : side \in {"call", "put"}}

\* The margin of a placeholder row is what its combination can lose.  On an even and on an
\* uneven chain, whatever quotes came for whatever legs, in whatever order the rows were
\* priced and whichever orders were granted and answered: a row that a card shows has a
\* margin that covers its loss, unless it is the broker's answer to the order for that very
\* row (which may be any number).
ShownMarginsAreBacked ==
  /\ \A options, half, credit \in Amounts, step \in Amounts \ {0} :
       \A row \in Synthetic(options, 2 * half, step, credit) : row.margin = Larger(Loss(row), 0)
  /\ \A strikes \in {Amounts, Amounts \ {2, 3}}, snapshot \in Amounts, options \in {0, Max(Amounts)} :
       LET asked == Sought(snapshot, options)
           candidates == Candidates(strikes, asked)
           Figures == [mid : {0, MinCredit}, bid : {1}, oi : {MinLegOi}]
       IN \A legs \in Quotable(candidates, asked) : \A quotes \in [legs -> Figures] :
          \A rows \in SetToSeqs(Rows(candidates, quotes)) :
          \A whatif \in [DOMAIN rows -> {Unknown, 0}], free \in 1 .. TopN :
            LET batch == Batch(rows, whatif, free, asked, [n \in {0, 1} |-> n])
                live == [p \in Amounts |-> IF p = asked THEN ToSet(batch.rows) ELSE {}]
                Answered(row) == \E i \in DOMAIN rows : /\ rows[i].combo = row.combo
                                                       /\ whatif[i] # Unknown
                                                       /\ row.margin = whatif[i]
            IN \A row \in Shown(snapshot, options, live, Synthetic(options, 0, 1, MinCredit)) :
                 row.margin >= Loss(row) \/ Answered(row)

\* The search visits every combination whose strikes lie on one side of the price, each
\* wing from WingMin to WingMax strikes wide, and no other.
EnumerationIsComplete ==
  \A side \in {"call", "put"}, strikes \in SUBSET Amounts, price \in Amounts :
    LET Wide(lo, hi) == Cardinality({s \in strikes : lo < s /\ s <= hi}) \in WingMin .. WingMax
    IN Enumerated(side, strikes, price) =
         {c \in Butterflies : /\ c.side = side /\ Wide(c.a, c.body) /\ Wide(c.body, c.b)
                              /\ Strikes(c) \subseteq OnSide(side, strikes, price)}

\* A row's liquidity is the most combinations the sizes its legs show can fill.
LiquidityIsFillable ==
  \A sa, sbody, sb \in Known :
    LET Quote(size) == [mid |-> 1, bid |-> size, oi |-> Unknown]
        n == Liquidity(Quote(sa), Quote(sbody), Quote(sb))
        Fills(k) == /\ sa # Unknown => k <= sa
                    /\ sbody # Unknown => 2 * k <= sbody
                    /\ sb # Unknown => k <= sb
    IN {sa, sbody, sb} # {Unknown} => Fills(n) /\ ~Fills(n + 1)

\* However the orders come, no minute has more than WhatIfMax of them, and none is refused
\* while its minute has room.
BudgetIsKept ==
  /\ \A times \in [1 .. WhatIfMax + 2 -> Amounts] :
       (\A i \in 1 .. Len(times) - 1 : times[i] <= times[i + 1]) =>
         LET granted == Grants(times)
             Within(now) == Cardinality({i \in DOMAIN granted : granted[i] > now - Window /\ granted[i] <= now})
         IN /\ \A now \in Amounts : Within(now) <= WhatIfMax
            /\ \A i \in DOMAIN times :
                 Cardinality({j \in DOMAIN granted : granted[j] = times[i]})
                     < Cardinality({j \in DOMAIN times : times[j] = times[i]})
                   => Within(times[i]) = WhatIfMax

\* A batch spends what the budget grants it, all of it, on the best rows of each side.
OrdersGoToTheBest ==
  \A scores \in [1 .. 2 * TopN + 1 -> 1 .. 3], calls \in 0 .. 2 * TopN + 1, free \in 0 .. 2 * TopN + 1 :
    LET requests == [i \in DOMAIN scores |->
                       [side |-> IF i <= calls THEN "call" ELSE "put", score |-> scores[i]]]
        sent == Attempted(requests, free)
        Of(side) == {i \in DOMAIN requests : requests[i].side = side}
    IN /\ \A side \in {"call", "put"} : \A i \in sent \cap Of(side), j \in Of(side) \ sent :
            requests[i].score >= requests[j].score
       /\ Cardinality(sent) = Smaller(free, Smaller(TopN, Cardinality(Of("call")))
                                              + Smaller(TopN, Cardinality(Of("put"))))

\* A row that is no worse than another of its batch in premium, margin, liquidity and
\* distance from the price is ranked no lower, when its margin is above zero: a row that
\* cannot lose has no credit efficiency.
RankingIsMonotone ==
  LET Few == {x \in Amounts : x % 2 = 0}
      Figures == [premium : {-x : x \in Few}, margin : Few, liquidity : Few, body : Few]
      AsRow(f) == [combo |-> [body |-> f.body], premium |-> f.premium, margin |-> f.margin,
                   liquidity |-> f.liquidity]
      identity == [n \in Amounts |-> n]
      price == Max(Amounts)
  IN \A better, worse \in Figures, median \in Few \ {0} :
       /\ better.margin > 0 /\ better.margin <= worse.margin
       /\ better.premium <= worse.premium
       /\ better.liquidity >= worse.liquidity
       /\ Apart(better.body, price) <= Apart(worse.body, price)
       => Score(AsRow(better), median, price, identity) >= Score(AsRow(worse), median, price, identity)

\* Where only some rows of a batch get the margin of a WhatIf order, every row still has
\* one place on its side, and none stands behind a row that is no better in the margin
\* shown, the premium, the liquidity and the distance from the price.
RanksFitTheMargins ==
  LET identity == [n \in {1} |-> n]
      price == Max(Amounts \cup {1})
      Figures == [premium : {-1, -2}, margin : {1, 3}, body : {price}]
  IN \A figures \in [1 .. 3 -> Figures], whatif \in [1 .. 3 -> {Unknown, 2, 5}],
        calls \in 2 .. 3, free \in 0 .. 2 :
       LET rows == [i \in 1 .. 3 |->
                      [combo |-> [side |-> IF i <= calls THEN "call" ELSE "put",
                                  body |-> figures[i].body],
                       premium |-> figures[i].premium, margin |-> figures[i].margin,
                       liquidity |-> 1]]
           result == Batch(rows, whatif, free, price, identity)
           Figure(side, k) == result.rows[result[side][k]]
       IN /\ ToSet(result.call) = 1 .. calls /\ ToSet(result.put) = (1 .. 3) \ (1 .. calls)
          /\ \A side \in {"call", "put"} : \A k, l \in DOMAIN result[side] :
               LET ahead == Figure(side, k)
                   behind == Figure(side, l)
               IN k < l => ~(behind.margin < ahead.margin /\ behind.premium <= ahead.premium)
=============================================================================
