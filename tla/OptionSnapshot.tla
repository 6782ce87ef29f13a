---------------------------- MODULE OptionSnapshot ----------------------------
(***************************************************************************)
(* What MarketDataService brings the opportunity engine from IBKR: an      *)
(* option chain, one snapshot of the quotes of its legs, and the margin of *)
(* a WhatIf order.  A contract the engine asks for need not be listed, and *)
(* any field of an answer may be missing.                                  *)
(***************************************************************************)
EXTENDS OpportunityEngine

CONSTANTS
  Enough,      \* strikes from which the chain of SMART is taken for whole
  NoContract   \* what ib_async returns for a contract that is not listed

ASSUME SnapshotAssumption ==
  Enough \in Nat /\ NoContract \notin [side : {"call", "put"}, strike : Nat]

NaN == -2      \* an unset field of an ib_async ticker

Raw == Amounts \cup {Unknown, NaN}

-----------------------------------------------------------------------------
(* The chain.                                                              *)

Width(c) == Cardinality(c.strikes)

Widest(chains) == {c \in ToSet(chains) : \A d \in ToSet(chains) : Width(d) <= Width(c)}

\* snapshot_chain: SMART's chain when it is wide enough, else the widest one; the first of
\* those as wide, here any.  A SMART chain no narrower is kept.
Chosen(chains) ==
  LET smart == {chains[i] : i \in {j \in DOMAIN chains : /\ chains[j].exchange = "SMART"
                                                         /\ \A k \in 1 .. j - 1 : chains[k].exchange # "SMART"}}
  IN IF \E s \in smart : Width(s) >= Enough \/ s \in Widest(chains) THEN smart
     ELSE {c \in Widest(chains) : c.strikes # {}}

\* _filter_expirations: of the days to each expiration those in the range, ascending.
Expirations(days, lo, hi) == Ascending({d \in days : lo <= d /\ d <= hi})

\* The result of snapshot_chain, if there is one.
Chain(connected, chains, lo, hi) ==
  IF ~connected THEN {}
  ELSE {[expirations |-> Expirations(c.days, lo, hi), strikes |-> Ascending(c.strikes)] :
          c \in Chosen(chains)}

-----------------------------------------------------------------------------
(* The quotes.                                                             *)

\* _safe_float and _safe_int
Field(v) == IF v < 0 THEN Unknown ELSE v

\* _extract_open_interest: of the two fields the first above zero; zero is "not sent".
OpenInterest(t) ==
  IF t.callOi > 0 THEN t.callOi ELSE IF t.putOi > 0 THEN t.putOi ELSE Unknown

\* OptionQuote.mid, twice the price: the last trade stands in for a missing side.
Mid2(bid, ask, last) ==
  IF bid > 0 /\ ask > 0 THEN bid + ask ELSE IF last = Unknown THEN Unknown ELSE 2 * last

AsQuote(con, t) ==
  [con |-> con, mid |-> Mid2(Field(t.bid), Field(t.ask), Field(t.last)),
   bid |-> Field(t.bidSize), oi |-> OpenInterest(t)]

\* qualifyContractsAsync keeps the places of the contracts that are not listed.
Qualify(legs, listed) ==
  [i \in DOMAIN legs |-> IF legs[i] \in listed THEN legs[i] ELSE NoContract]

\* Mutant: the contracts that are listed are paired with the legs from the first on.
Snapshot_Compacted(legs, listed, tickers) ==
  LET found == SelectSeq(legs, LAMBDA l : l \in listed)
  IN [leg \in {legs[i] : i \in DOMAIN found} |->
        LET i == CHOOSE j \in DOMAIN found : legs[j] = leg IN AsQuote(found[i], tickers[found[i]])]

\* snapshot_option_quotes: the legs paired by place with the contracts and their tickers.
Snapshot(legs, listed, tickers) ==
  LET qualified == Qualify(legs, listed)
      sent == {i \in DOMAIN legs : qualified[i] # NoContract}
  IN [leg \in {legs[i] : i \in sent} |->
        LET i == CHOOSE j \in sent : legs[j] = leg IN AsQuote(qualified[i], tickers[qualified[i]])]

-----------------------------------------------------------------------------
(* The margin of a WhatIf order.                                           *)

Huge == 1000   \* stands for the largest double, which IBKR sends for "not applicable"

\* _parse_margin: the size of the change.
ParseMargin(v) ==
  IF v = NaN \/ v >= Huge \/ v <= -Huge THEN Unknown ELSE Larger(v, -v)

\* _whatif_one and what_if_margin: no order without the contracts of all three legs.
WhatIf(cons, connected, answer) ==
  IF NoContract \in cons \/ ~connected THEN Unknown ELSE ParseMargin(answer)

-----------------------------------------------------------------------------
(* What they promise.                                                      *)

\* A narrow chain is never taken beside a wider one: the strikes are as many as any
\* exchange lists, or SMART's and enough.  Expirations ascend and lie in the range.
ChainIsWhole ==
  \A one, two \in [exchange : {"SMART", "CBOE"}, strikes : SUBSET (1 .. 3), days : {{0, 2, 4, 7}}] :
    \A chains \in {<<>>, <<one>>, <<one, two>>} :
      /\ (\E c \in ToSet(chains) : c.strikes # {}) => Chosen(chains) # {}
      /\ \A c \in Chosen(chains), d \in ToSet(chains) :
           /\ Width(c) >= Width(d) \/ (c.exchange = "SMART" /\ Width(c) >= Enough)
           /\ d.exchange = "SMART" /\ Width(d) >= Enough => c.exchange = "SMART"
      /\ \A chain \in Chain(TRUE, chains, 1, 5) : chain.expirations = <<2, 4>>
      /\ Chain(FALSE, chains, 1, 5) = {}

\* Whatever legs are not listed, a row is priced with the quotes of its own three strikes,
\* and a combination is dropped only if one of its strikes is not listed or is not worth
\* it: the answers are paired with the legs by place.
RowsAreOfTheirLegs ==
  \A side \in {"call", "put"}, listed \in SUBSET (0 .. 4), peak \in Amounts :
    LET combos == Triples(side, <<0, 1, 2, 3, 4>>)
        Leg(s) == [side |-> side, strike |-> s]
        legs == [i \in 1 .. 5 |-> Leg(i - 1)]
        Cost(s) == IF s = peak THEN 5 ELSE s
        tickers == [l \in ToSet(legs) |->
                      [bid |-> Cost(l.strike), ask |-> Cost(l.strike), last |-> Cost(l.strike),
                       bidSize |-> 1, callOi |-> NaN, putOi |-> NaN]]
        rows == Rows(combos, Snapshot(legs, {Leg(s) : s \in listed}, tickers))
        Worth(c) == Cost(c.a) + Cost(c.b) - 2 * Cost(c.body)
    IN /\ \A row \in rows : row.premium = 2 * Worth(row.combo)
       /\ {row.combo : row \in rows}
            = {c \in combos : Strikes(c) \subseteq listed /\ 2 * Worth(c) <= -MinCredit}

\* No figure of a quote or a WhatIf order is negative but Unknown; a mid lies between the
\* two sides of the market when both are there; a WhatIf margin needs all three contracts.
FieldsAreSound ==
  /\ \A bid, ask, last, size, oi \in Raw :
       LET q == AsQuote("leg", [bid |-> bid, ask |-> ask, last |-> last, bidSize |-> size,
                              callOi |-> oi, putOi |-> NaN])
       IN /\ {q.mid, q.bid, q.oi} \subseteq Nat \cup {Unknown}
          /\ 0 < bid /\ bid <= ask => 2 * bid <= q.mid /\ q.mid <= 2 * ask
          /\ q.mid = Unknown => last < 0
  /\ \A cons \in SUBSET {"a", "body", "b", NoContract}, v \in {NaN, -3, 0, 3, Huge, -Huge} :
       LET m == WhatIf(cons, TRUE, v)
       IN m >= 0 \/ (m = Unknown /\ (NoContract \in cons \/ v \notin {-3, 0, 3}))

\* Every row kept has at least MinLegOi open contracts on each leg that was answered, as
\* the filter by OPP_MIN_LEG_OI says.  Does not hold: an open interest of zero counts as
\* one that was not sent.
FloorIsKept ==
  \A oi \in Amounts :
    LET q == AsQuote("leg", [bid |-> 1, ask |-> 1, last |-> 1, bidSize |-> 1, callOi |-> oi,
                           putOi |-> NaN])
        body == [q EXCEPT !.mid = 2 + MinCredit]
    IN Kept(q, body, q) => oi >= MinLegOi
=============================================================================
