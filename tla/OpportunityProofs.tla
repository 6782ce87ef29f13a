------------------------- MODULE OpportunityProofs -------------------------
(***************************************************************************)
(* Proofs about the opportunity worker, for any prices, volatilities and   *)
(* times: a price move is measured from the stored rows, and the age alone *)
(* triggers no recalculation too soon; and about what it computes, for any *)
(* strikes, premiums and sizes: every combination is tried, a row's margin *)
(* covers its loss, its liquidity can be filled, better rows rank higher,  *)
(* and the orders of the budget go to the best rows.                       *)
(***************************************************************************)
EXTENDS MCOpportunityRecalc, FiniteSetTheorems, WellFoundedInduction, TLAPS

-----------------------------------------------------------------------------
(* The worker.                                                             *)

\* Between the commit and the update of the state the result in hand is what is stored.
BasisInv ==
  /\ BasisIsLive
  /\ doing \in {"call", "put", "updating"} => liveOf = basis.price

\* Every step keeps BasisInv.
LEMMA BasisStep == BasisInv /\ [Next]_vars => BasisInv'
<1> SUFFICES ASSUME BasisInv, [Next]_vars PROVE BasisInv'
  OBVIOUS
<1> USE DEF BasisInv, BasisIsLive, state, job, store, past, JobOver
<1>1. CASE Time \/ Quote \/ Volatility
  BY <1>1 DEF Time, Quote, Volatility
<1>2. CASE FirstCycle \/ Decide \/ Skipped \/ Generated \/ Raises
  BY <1>2 DEF FirstCycle, Decide, Skipped, Generated, Raises
<1>3. CASE Commit
  BY <1>3 DEF Commit
<1>4. ASSUME NEW s \in Side, Announce(s) PROVE BasisInv'
  BY <1>4 DEF Announce, Side
<1>5. CASE Update
  BY <1>5 DEF Update
<1>6. CASE Restart
  BY <1>6 DEF Restart
<1>7. CASE UNCHANGED vars
  BY <1>7 DEF vars
<1>8. QED
  BY <1>1, <1>2, <1>3, <1>4, <1>5, <1>6, <1>7 DEF Next, Work

\* Whatever fails between the generation and the update of the state, the worker measures
\* a price move from the price of the rows that are stored.
THEOREM MovesAreFromTheRows == Spec => []BasisIsLive
<1>1. Init => BasisInv
  BY DEF Init, BasisInv, BasisIsLive
<1>2. BasisInv => BasisIsLive
  BY DEF BasisInv
<1>3. QED
  BY <1>1, <1>2, BasisStep, PTL DEF Spec

\* Unless it ended in an exception, the last recalculation is dated by the state.
SpacingInv ==
  /\ now \in Nat /\ at \in Int /\ tried \in Int
  /\ at <= now /\ tried <= now
  /\ ~raised => tried <= at

\* Every step keeps SpacingInv.
LEMMA SpacingStep == SpacingInv /\ [Next]_vars => SpacingInv'
<1> SUFFICES ASSUME SpacingInv, [Next]_vars PROVE SpacingInv'
  OBVIOUS
<1> USE DEF SpacingInv, state, job, store, past, JobOver
<1>1. CASE Time \/ Quote \/ Volatility
  BY <1>1, RecalcAssumption DEF Time, Quote, Volatility
<1>2. CASE FirstCycle \/ Decide \/ Generated \/ Commit
  BY <1>2 DEF FirstCycle, Decide, Generated, Commit
<1>3. CASE Skipped \/ Raises \/ Update
  BY <1>3 DEF Skipped, Raises, Update
<1>4. ASSUME NEW s \in Side, Announce(s) PROVE SpacingInv'
  BY <1>4 DEF Announce
<1>5. CASE Restart
  BY <1>5 DEF Restart
<1>6. CASE UNCHANGED vars
  BY <1>6 DEF vars
<1>7. QED
  BY <1>1, <1>2, <1>3, <1>4, <1>5, <1>6 DEF Next, Work

\* After a recalculation or a skip, the age alone triggers no sooner than MaxAge later.
THEOREM SkipsStaySpaced == Spec => SkipsAreSpaced
<1>1. Init => SpacingInv
  BY DEF Init, SpacingInv
<1>2. SpacingInv /\ [Next]_vars => [StaleBegins /\ ~raised => now - tried >= MaxAge]_vars
  <2> SUFFICES ASSUME SpacingInv, [Next]_vars, StaleBegins, ~raised
               PROVE  now - tried >= MaxAge
    OBVIOUS
  <2>1. Decide
    BY DEF StaleBegins, Next, Work, Time, Quote, Volatility, FirstCycle, Decide, Skipped,
           Generated, Raises, Commit, Announce, Update, Restart, JobOver, job, vars
  <2>2. Decided(price) = "stale"
    BY <2>1 DEF Decide, StaleBegins
  <2>3. now - at >= MaxAge
    BY <2>2 DEF Decided
  <2>4. QED
    BY <2>3, RecalcAssumption DEF SpacingInv
<1>3. QED
  BY <1>1, <1>2, SpacingStep, PTL DEF Spec, SkipsAreSpaced

-----------------------------------------------------------------------------
(* The margin.                                                             *)

\* A butterfly has a side and three strikes in ascending order.
LEMMA Combination ==
  ASSUME NEW c \in Butterflies
  PROVE  /\ c.side \in {"call", "put"} /\ c.a \in Int /\ c.body \in Int /\ c.b \in Int
         /\ c.a < c.body /\ c.body < c.b
<1>1. /\ c \in [side : {"call", "put"}, a : Amounts, body : Amounts, b : Amounts]
      /\ c.a < c.body /\ c.body < c.b
  BY DEF Butterflies
<1>2. c.side \in {"call", "put"} /\ c.a \in Amounts /\ c.body \in Amounts /\ c.b \in Amounts
  BY <1>1
<1>3. Amounts \subseteq Int
  BY EngineAssumption
<1>4. QED
  BY <1>1, <1>2, <1>3

\* The worst a combination is worth at expiry: the difference of its wings, when the wing
\* away from the price is the wider, and otherwise nothing.
LEMMA PayoffIsBounded ==
  ASSUME NEW c \in Butterflies, NEW x \in Int
  PROVE  -Payoff(c, x) <= Larger(c.body - c.a, c.b - c.body) - Smaller(c.body - c.a, c.b - c.body)
<1>1. /\ c.side \in {"call", "put"} /\ c.a \in Int /\ c.body \in Int /\ c.b \in Int
      /\ c.a < c.body /\ c.body < c.b
  BY Combination
<1>2. CASE c.side = "call"
  BY <1>1, <1>2 DEF Payoff, Intrinsic, Larger, Smaller
<1>3. CASE c.side = "put"
  BY <1>1, <1>3 DEF Payoff, Intrinsic, Larger, Smaller
<1>4. QED
  BY <1>1, <1>2, <1>3

\* The margin of a kept combination, less its credit, is at least the width by which one
\* wing exceeds the other.
LEMMA MarginOfCredit ==
  ASSUME NEW left \in Int, NEW right \in Int, NEW premium \in Int, premium <= 0
  PROVE  premium + Larger(left, right) - Smaller(left, right) <= Margin(left, right, premium)
BY DEF Margin, Larger, Smaller

\* Whatever strikes, mids and final prices there are: a row that is kept has a closed-form
\* margin no smaller than what its combination loses at expiry (deterministic_margin).
THEOREM MarginsCoverLosses == MarginCoversLoss
<1> SUFFICES ASSUME NEW c \in Butterflies, NEW ma \in Known, NEW mbody \in Known, NEW mb \in Known,
                    NEW qa, NEW qbody, NEW qb,
                    qa = [mid |-> ma, bid |-> Unknown, oi |-> Unknown],
                    qbody = [mid |-> mbody, bid |-> Unknown, oi |-> Unknown],
                    qb = [mid |-> mb, bid |-> Unknown, oi |-> Unknown],
                    Kept(qa, qbody, qb), NEW x \in Amounts
             PROVE  Row(c, qa, qbody, qb).premium - Payoff(c, x) <= Row(c, qa, qbody, qb).margin
  BY DEF MarginCoversLoss
<1> DEFINE premium == Premium(qa, qbody, qb)
<1>1. premium \in Int /\ premium <= 0
  BY EngineAssumption DEF Kept, Premium, Known, Unknown
<1>2. /\ c.a \in Int /\ c.body \in Int /\ c.b \in Int /\ x \in Int /\ Payoff(c, x) \in Int
  BY Combination, EngineAssumption DEF Payoff, Intrinsic, Larger
<1>3. premium + Larger(c.body - c.a, c.b - c.body) - Smaller(c.body - c.a, c.b - c.body)
        <= Margin(c.body - c.a, c.b - c.body, premium)
  BY <1>1, <1>2, MarginOfCredit
<1>4. Margin(c.body - c.a, c.b - c.body, premium) \in Int
  BY <1>1, <1>2 DEF Margin, Larger, Smaller
<1>5. premium - Payoff(c, x) <= Margin(c.body - c.a, c.b - c.body, premium)
  <2> HIDE DEF premium
  <2> QED
    BY <1>1, <1>2, <1>3, <1>4, PayoffIsBounded DEF Larger, Smaller
<1>6. QED
  BY <1>5 DEF Row

-----------------------------------------------------------------------------
(* Liquidity.                                                              *)

\* The least of up to three sizes.
LEMMA LeastOfThree ==
  ASSUME NEW x \in Int, NEW y \in Int, NEW z \in Int, NEW S \in SUBSET {x, y, z}, S # {}
  PROVE  Min(S) \in S /\ \A n \in S : Min(S) <= n
<1>0. x \in S \/ y \in S \/ z \in S
  OBVIOUS
<1>1. \/ x \in S /\ (y \in S => x <= y) /\ (z \in S => x <= z)
      \/ y \in S /\ (x \in S => y <= x) /\ (z \in S => y <= z)
      \/ z \in S /\ (x \in S => z <= x) /\ (y \in S => z <= y)
  BY <1>0
<1>2. \E m \in S : \A n \in S : m <= n
  BY <1>1
<1>3. QED
  BY <1>2 DEF Min

\* Whatever sizes the legs show: the liquidity of a row is a number of combinations that
\* they can fill, and one more is too many (compute_liquidity_profile).
THEOREM LiquidityIsFilled == LiquidityIsFillable
<1> SUFFICES ASSUME NEW sa \in Known, NEW sbody \in Known, NEW sb \in Known,
                    NEW qa, NEW qbody, NEW qb,
                    qa = [mid |-> 1, bid |-> sa, oi |-> Unknown],
                    qbody = [mid |-> 1, bid |-> sbody, oi |-> Unknown],
                    qb = [mid |-> 1, bid |-> sb, oi |-> Unknown],
                    {sa, sbody, sb} # {Unknown},
                    NEW n, n = Liquidity(qa, qbody, qb)
             PROVE  /\ sa # Unknown => n <= sa
                    /\ sbody # Unknown => 2 * n <= sbody
                    /\ sb # Unknown => n <= sb
                    /\ ~(/\ sa # Unknown => n + 1 <= sa
                         /\ sbody # Unknown => 2 * (n + 1) <= sbody
                         /\ sb # Unknown => n + 1 <= sb)
  BY DEF LiquidityIsFillable
<1> DEFINE S == {x \in {sa, sb} : x # Unknown} \cup {x \div 2 : x \in {sbody} \ {Unknown}}
<1>1. sa \in Int /\ sbody \in Int /\ sb \in Int /\ sbody \div 2 \in Int
  BY EngineAssumption DEF Known, Unknown
<1>2. S # {} /\ S \subseteq {sa, sb, sbody \div 2}
  OBVIOUS
<1>3. n = Min(S)
  BY <1>2 DEF Liquidity
<1>4. Min(S) \in S /\ \A m \in S : Min(S) <= m
  <2> HIDE DEF S
  <2>1. S \in SUBSET {sa, sb, sbody \div 2}
    BY <1>2
  <2>2. QED
    BY <1>1, <1>2, <2>1, LeastOfThree
<1>5. n \in Int
  BY <1>1, <1>2, <1>3, <1>4
<1>6. CASE sbody = Unknown
  BY <1>1, <1>3, <1>4, <1>5, <1>6
<1>7. CASE sbody # Unknown
  <2>1. sbody \div 2 \in S
    BY <1>7
  <2>2. n <= sbody \div 2
    BY <1>3, <1>4, <2>1
  <2>3. 2 * n <= sbody
    BY <1>1, <1>5, <2>2
  <2>4. n \in {sa, sb} \ {Unknown} \/ n = sbody \div 2
    BY <1>3, <1>4
  <2>5. CASE n = sbody \div 2
    <3>1. sa # Unknown => n <= sa
      BY <1>3, <1>4
    <3>2. sb # Unknown => n <= sb
      BY <1>3, <1>4
    <3>3. ~(2 * (n + 1) <= sbody)
      BY <1>1, <2>5
    <3>4. QED
      BY <1>7, <2>3, <3>1, <3>2, <3>3
  <2>6. CASE n \in {sa, sb} \ {Unknown}
    BY <1>1, <1>3, <1>4, <1>5, <2>3, <2>6
  <2>7. QED
    BY <2>4, <2>5, <2>6
<1>8. QED
  BY <1>6, <1>7

-----------------------------------------------------------------------------
(* Sorting.                                                                *)

\* x stands before y: its key is smaller, or it is the smaller of two with the same key.
Precedes(key, x, y) == key[x] < key[y] \/ (key[x] = key[y] /\ x < y)

\* How many of S stand before x.
Before(key, S, x) == {y \in S : Precedes(key, y, x)}

Keyed(key, S) == IsFiniteSet(S) /\ S \subseteq Int /\ \A x \in S : key[x] \in Int

\* The order of a key with ties broken is strict and total.
LEMMA PrecedesIsTotal ==
  ASSUME NEW key, NEW S, Keyed(key, S)
  PROVE  /\ \A x \in S : ~Precedes(key, x, x)
         /\ \A x, y, z \in S : Precedes(key, x, y) /\ Precedes(key, y, z) => Precedes(key, x, z)
         /\ \A x, y \in S : x = y \/ Precedes(key, x, y) \/ Precedes(key, y, x)
<1>1. \A x \in S : x \in Int /\ key[x] \in Int
  BY DEF Keyed
<1>2. QED
  BY <1>1 DEF Precedes

\* The number of those before x tells x from all others, and grows along the order.
LEMMA BeforeGrows ==
  ASSUME NEW key, NEW S, Keyed(key, S)
  PROVE  /\ Cardinality(S) \in Nat
         /\ \A x \in S : /\ IsFiniteSet(Before(key, S, x))
                         /\ Cardinality(Before(key, S, x)) \in 0 .. Cardinality(S) - 1
         /\ \A x, y \in S : Precedes(key, x, y)
                              => Cardinality(Before(key, S, x)) < Cardinality(Before(key, S, y))
<1>1. IsFiniteSet(S) /\ Cardinality(S) \in Nat
  BY FS_CardinalityType DEF Keyed
<1>2. ASSUME NEW x \in S
      PROVE  /\ IsFiniteSet(Before(key, S, x)) /\ Cardinality(Before(key, S, x)) \in Nat
             /\ Cardinality(Before(key, S, x)) < Cardinality(S)
  <2>1. Before(key, S, x) \in SUBSET S /\ x \notin Before(key, S, x)
    BY PrecedesIsTotal DEF Before
  <2>2. IsFiniteSet(Before(key, S, x)) /\ Cardinality(Before(key, S, x)) <= Cardinality(S)
        /\ Cardinality(Before(key, S, x)) # Cardinality(S)
    BY <1>1, <2>1, FS_Subset
  <2>3. Cardinality(Before(key, S, x)) \in Nat
    BY <2>2, FS_CardinalityType
  <2>4. QED
    BY <1>1, <2>2, <2>3
<1>3. ASSUME NEW x \in S, NEW y \in S, Precedes(key, x, y)
      PROVE  Cardinality(Before(key, S, x)) < Cardinality(Before(key, S, y))
  <2>1. /\ Before(key, S, x) \in SUBSET Before(key, S, y)
        /\ x \in Before(key, S, y) /\ x \notin Before(key, S, x)
    BY <1>3, PrecedesIsTotal DEF Before
  <2>2. IsFiniteSet(Before(key, S, y)) /\ Cardinality(Before(key, S, y)) \in Nat
        /\ Cardinality(Before(key, S, x)) \in Nat
    BY <1>2
  <2>3. /\ Cardinality(Before(key, S, x)) <= Cardinality(Before(key, S, y))
        /\ Cardinality(Before(key, S, x)) # Cardinality(Before(key, S, y))
    BY <2>1, <2>2, FS_Subset
  <2>4. QED
    BY <2>2, <2>3
<1>4. QED
  BY <1>1, <1>2, <1>3

\* So every place is taken: for each number below the size of S some member has as many
\* before it.
LEMMA EveryPlaceIsTaken ==
  ASSUME NEW key, NEW S, Keyed(key, S), NEW k \in 0 .. Cardinality(S) - 1
  PROVE  \E x \in S : Cardinality(Before(key, S, x)) = k
<1> DEFINE n == Cardinality(S)
           f == [x \in S |-> Cardinality(Before(key, S, x)) + 1]
<1>1. IsFiniteSet(S) /\ n \in Nat
  BY BeforeGrows DEF Keyed
<1>2. \A x \in S : Cardinality(Before(key, S, x)) \in 0 .. n - 1
  BY BeforeGrows
<1>3. f \in Injection(S, 1 .. n)
  <2>1. f \in [S -> 1 .. n]
    BY <1>1, <1>2
  <2>2. ASSUME NEW x \in S, NEW y \in S, f[x] = f[y] PROVE x = y
    <3>1. Cardinality(Before(key, S, x)) = Cardinality(Before(key, S, y))
      BY <1>1, <1>2, <2>2
    <3>2. ~Precedes(key, x, y) /\ ~Precedes(key, y, x)
      BY <1>1, <1>2, <3>1, BeforeGrows
    <3>3. QED
      BY <3>2, PrecedesIsTotal
  <2>3. QED
    BY <2>1, <2>2 DEF Injection, IsInjective
<1>4. IsFiniteSet(1 .. n) /\ Cardinality(1 .. n) = n
  BY <1>1, FS_Interval
<1>5. f \in Surjection(S, 1 .. n)
  <2> HIDE DEF f
  <2>1. QED
    BY <1>3, <1>4, FS_Injection
<1>6. PICK x \in S : f[x] = k + 1
  <2>1. k + 1 \in 1 .. n
    BY <1>1
  <2>2. QED
    BY <1>5, <2>1 DEF Surjection
<1>7. Cardinality(Before(key, S, x)) = k
  BY <1>1, <1>2, <1>6
<1>8. QED
  BY <1>7

\* A sort lists every member once, in ascending order.
LEMMA SortedByOrders ==
  ASSUME NEW key, NEW S, Keyed(key, S)
  PROVE  /\ Cardinality(S) \in Nat
         /\ SortedBy(key, S) \in [1 .. Cardinality(S) -> S]
         /\ \A k \in 1 .. Cardinality(S) : Cardinality(Before(key, S, SortedBy(key, S)[k])) = k - 1
         /\ \A k, l \in 1 .. Cardinality(S) :
              k < l => Precedes(key, SortedBy(key, S)[k], SortedBy(key, S)[l])
         /\ \A x \in S : /\ Cardinality(Before(key, S, x)) + 1 \in 1 .. Cardinality(S)
                         /\ SortedBy(key, S)[Cardinality(Before(key, S, x)) + 1] = x
<1> DEFINE n == Cardinality(S)
           r == SortedBy(key, S)
           c(x) == Cardinality(Before(key, S, x))
<1>1. /\ n \in Nat /\ \A x \in S : c(x) \in 0 .. n - 1
      /\ \A x, y \in S : Precedes(key, x, y) => c(x) < c(y)
  BY BeforeGrows
<1>2. r = [k \in 1 .. n |-> CHOOSE x \in S : c(x) = k - 1]
  BY DEF SortedBy, Before, Precedes
<1>3. \A k \in 1 .. n : \E x \in S : c(x) = k - 1
  <2> TAKE k \in 1 .. n
  <2>1. k - 1 \in 0 .. n - 1
    BY <1>1
  <2>2. QED
    BY <2>1, EveryPlaceIsTaken
<1> HIDE DEF r, c, n
<1>4. \A k \in 1 .. n : r[k] \in S /\ c(r[k]) = k - 1
  BY <1>2, <1>3
<1>5. r \in [1 .. n -> S]
  BY <1>2, <1>4
<1>6. ASSUME NEW x \in S, NEW y \in S, c(x) < c(y) PROVE Precedes(key, x, y)
  <2>1. x # y /\ ~(c(y) < c(x))
    BY <1>1, <1>6
  <2>2. QED
    BY <1>1, <2>1, PrecedesIsTotal
<1>7. \A k, l \in 1 .. n : k < l => Precedes(key, r[k], r[l])
  <2> SUFFICES ASSUME NEW k \in 1 .. n, NEW l \in 1 .. n, k < l PROVE Precedes(key, r[k], r[l])
    OBVIOUS
  <2>1. c(r[k]) < c(r[l])
    BY <1>1, <1>4
  <2>2. QED
    BY <1>4, <1>6, <2>1
<1>8. ASSUME NEW x \in S PROVE c(x) + 1 \in 1 .. n /\ r[c(x) + 1] = x
  <2>1. c(x) + 1 \in 1 .. n /\ (c(x) + 1) - 1 = c(x)
    BY <1>1
  <2>2. r[c(x) + 1] \in S /\ c(r[c(x) + 1]) = c(x)
    BY <1>4, <2>1
  <2>3. ~Precedes(key, x, r[c(x) + 1]) /\ ~Precedes(key, r[c(x) + 1], x)
    BY <1>1, <2>2
  <2>4. QED
    BY <2>1, <2>2, <2>3, PrecedesIsTotal
<1>9. QED
  BY <1>1, <1>4, <1>5, <1>7, <1>8 DEF r, c, n

\* Ascending lists a finite set of integers without repetition and in order.
LEMMA AscendingOrders ==
  ASSUME NEW S, IsFiniteSet(S), S \subseteq Int
  PROVE  /\ Cardinality(S) \in Nat
         /\ Ascending(S) \in Seq(S) /\ Len(Ascending(S)) = Cardinality(S)
         /\ \A k \in 1 .. Cardinality(S) : Ascending(S)[k] \in S /\ Ascending(S)[k] \in Int
         /\ \A k, l \in 1 .. Cardinality(S) : k < l => Ascending(S)[k] < Ascending(S)[l]
<1> DEFINE key == [s \in S |-> s]
           n == Cardinality(S)
           r == Ascending(S)
<1>1. Keyed(key, S)
  BY DEF Keyed
<1>2. r = SortedBy(key, S)
  BY DEF Ascending
<1> HIDE DEF key, r
<1>3. n \in Nat /\ r \in [1 .. n -> S] /\ \A k, l \in 1 .. n : k < l => Precedes(key, r[k], r[l])
  BY <1>1, <1>2, SortedByOrders
<1>4. \A k, l \in 1 .. n : k < l => r[k] < r[l]
  <2> SUFFICES ASSUME NEW k \in 1 .. n, NEW l \in 1 .. n, k < l PROVE r[k] < r[l]
    OBVIOUS
  <2>1. r[k] \in S /\ r[l] \in S /\ r[k] \in Int /\ r[l] \in Int
    BY <1>3
  <2>2. key[r[k]] = r[k] /\ key[r[l]] = r[l]
    BY <2>1 DEF key
  <2>3. QED
    BY <1>3, <2>1, <2>2 DEF Precedes
<1> HIDE DEF n
<1>5. r \in Seq(S) /\ Len(r) = n
  BY <1>3
<1>6. \A k \in 1 .. n : r[k] \in S /\ r[k] \in Int
  BY <1>3
<1>7. QED
  BY <1>3, <1>4, <1>5, <1>6 DEF r, n

-----------------------------------------------------------------------------
(* The combinations of a chain.                                            *)

\* The strikes above one and up to another are as many as their places are apart.
LEMMA PlacesApart ==
  ASSUME NEW S, IsFiniteSet(S), S \subseteq Int, NEW i \in 1 .. Cardinality(S), NEW j \in 1 .. Cardinality(S),
         i < j
  PROVE  Cardinality({s \in S : Ascending(S)[i] < s /\ s <= Ascending(S)[j]}) = j - i
<1> DEFINE n == Cardinality(S)
           r == Ascending(S)
           T == {s \in S : r[i] < s /\ s <= r[j]}
           f == [k \in i + 1 .. j |-> r[k]]
<1>1. /\ n \in Nat /\ r \in Seq(S) /\ Len(r) = n
      /\ \A k, l \in 1 .. n : k < l => r[k] < r[l]
  BY AscendingOrders
<1>2. \A k \in 1 .. n : r[k] \in S /\ r[k] \in Int
  BY AscendingOrders
<1>3. \A s \in S : \E k \in 1 .. n : r[k] = s
  <2> DEFINE key == [s \in S |-> s]
  <2>1. Keyed(key, S) /\ r = SortedBy(key, S)
    BY DEF Keyed, Ascending
  <2> HIDE DEF key, r
  <2>2. QED
    BY <2>1, SortedByOrders
<1> HIDE DEF n, r
<1>4. f \in Injection(i + 1 .. j, T)
  <2>1. \A k \in i + 1 .. j : k \in 1 .. n /\ r[k] \in T
    <3> SUFFICES ASSUME NEW k \in i + 1 .. j PROVE k \in 1 .. n /\ r[k] \in T
      OBVIOUS
    <3>1. k \in 1 .. n /\ i < k /\ (k < j \/ k = j)
      BY <1>1 DEF n
    <3>2. r[i] < r[k] /\ r[k] <= r[j]
      BY <1>1, <1>2, <3>1 DEF n
    <3>3. QED
      BY <1>2, <3>1, <3>2
  <2>2. \A k, l \in i + 1 .. j : r[k] = r[l] => k = l
    <3> SUFFICES ASSUME NEW k \in i + 1 .. j, NEW l \in i + 1 .. j, k # l PROVE r[k] # r[l]
      OBVIOUS
    <3>1. k \in 1 .. n /\ l \in 1 .. n /\ (k < l \/ l < k)
      BY <2>1
    <3>2. QED
      BY <1>1, <1>2, <3>1
  <2> HIDE DEF T
  <2>3. QED
    BY <2>1, <2>2 DEF Injection, IsInjective
<1>5. f \in Surjection(i + 1 .. j, T)
  <2> SUFFICES ASSUME NEW s \in T PROVE \E k \in i + 1 .. j : f[k] = s
    BY <1>4 DEF Surjection, Injection
  <2>1. PICK k \in 1 .. n : r[k] = s
    BY <1>3
  <2>2. ~(k < i) /\ k # i
    BY <1>1, <1>2, <2>1 DEF n
  <2>3. ~(j < k)
    BY <1>1, <1>2, <2>1 DEF n
  <2>4. k \in i + 1 .. j
    BY <1>1, <2>2, <2>3
  <2>5. QED
    BY <2>1, <2>4
<1>6. IsFiniteSet(i + 1 .. j) /\ Cardinality(i + 1 .. j) = j - i
  BY FS_Interval
<1>7. f \in Bijection(i + 1 .. j, T)
  BY <1>4, <1>5 DEF Bijection
<1>8. Cardinality(T) = Cardinality(i + 1 .. j)
  <2>1. ExistsBijection(i + 1 .. j, T)
    BY <1>7 DEF ExistsBijection
  <2> HIDE DEF T
  <2>2. QED
    BY <1>6, <2>1, FS_Bijection
<1>9. QED
  BY <1>6, <1>8 DEF r

\* The strikes of a side are finite in number, and none between two of them is left out.
LEMMA SideIsFinite ==
  ASSUME NEW side \in {"call", "put"}, NEW strikes \in SUBSET Amounts, NEW spot \in Amounts
  PROVE  /\ IsFiniteSet(OnSide(side, strikes, spot)) /\ OnSide(side, strikes, spot) \subseteq Int
         /\ OnSide(side, strikes, spot) \subseteq Amounts
         /\ \A lo, hi \in OnSide(side, strikes, spot) : \A s \in strikes :
              lo < s /\ s <= hi => s \in OnSide(side, strikes, spot)
<1>1. OnSide(side, strikes, spot) \in SUBSET Amounts
  BY DEF OnSide
<1>2. IsFiniteSet(OnSide(side, strikes, spot)) /\ OnSide(side, strikes, spot) \subseteq Int
  <2>1. IsFiniteSet(Amounts) /\ Amounts \subseteq Int
    BY EngineAssumption
  <2>2. IsFiniteSet(OnSide(side, strikes, spot))
    BY <1>1, <2>1, FS_Subset
  <2>3. QED
    BY <1>1, <2>1, <2>2
<1>3. \A s \in strikes : s \in Int
  BY EngineAssumption
<1>4. spot \in Int
  BY EngineAssumption
<1>5. ASSUME NEW lo \in OnSide(side, strikes, spot), NEW hi \in OnSide(side, strikes, spot),
             NEW s \in strikes, lo < s, s <= hi
      PROVE  s \in OnSide(side, strikes, spot)
  BY <1>2, <1>3, <1>4, <1>5 DEF OnSide
<1>6. QED
  BY <1>1, <1>2, <1>5

\* A strike of the side stands at some place of its chain.
LEMMA PlaceOf ==
  ASSUME NEW S, IsFiniteSet(S), S \subseteq Int, NEW s \in S
  PROVE  \E k \in 1 .. Cardinality(S) : Ascending(S)[k] = s
<1> DEFINE key == [x \in S |-> x]
<1>1. Keyed(key, S) /\ Ascending(S) = SortedBy(key, S)
  BY DEF Keyed, Ascending
<1> HIDE DEF key
<1>2. QED
  BY <1>1, SortedByOrders

\* The wing between two places holds as many strikes of the chain as the places are apart.
LEMMA WingIsWide ==
  ASSUME NEW side \in {"call", "put"}, NEW strikes \in SUBSET Amounts, NEW spot \in Amounts,
         NEW i \in 1 .. Cardinality(OnSide(side, strikes, spot)),
         NEW j \in 1 .. Cardinality(OnSide(side, strikes, spot)), i < j
  PROVE  LET own == Ascending(OnSide(side, strikes, spot))
         IN Cardinality({s \in strikes : own[i] < s /\ s <= own[j]}) = j - i
<1> DEFINE S == OnSide(side, strikes, spot)
           own == Ascending(S)
<1>1. /\ IsFiniteSet(S) /\ S \subseteq Int /\ S \subseteq strikes
      /\ \A lo, hi \in S : \A s \in strikes : lo < s /\ s <= hi => s \in S
  BY SideIsFinite DEF OnSide
<1> HIDE DEF S
<1>2. own[i] \in S /\ own[j] \in S
  BY <1>1, AscendingOrders DEF S
<1>3. Cardinality({s \in S : own[i] < s /\ s <= own[j]}) = j - i
  BY <1>1, PlacesApart DEF S
<1>4. {s \in S : own[i] < s /\ s <= own[j]} = {s \in strikes : own[i] < s /\ s <= own[j]}
  BY <1>1, <1>2
<1>5. QED
  BY <1>3, <1>4 DEF S

\* The combinations of one side of a chain whose wings are of an allowed width.
Complete(side, strikes, spot) ==
  LET Wide(lo, hi) == Cardinality({s \in strikes : lo < s /\ s <= hi}) \in WingMin .. WingMax
  IN {c \in Butterflies : /\ c.side = side /\ Wide(c.a, c.body) /\ Wide(c.body, c.b)
                          /\ Strikes(c) \subseteq OnSide(side, strikes, spot)}

\* The loops over the wings of one side visit the complete combinations and no other.
LEMMA CombinationsOfASide ==
  ASSUME NEW side \in {"call", "put"}, NEW strikes \in SUBSET Amounts, NEW spot \in Amounts
  PROVE  Enumerated(side, strikes, spot) = Complete(side, strikes, spot)
<1> SUFFICES LET Wide(lo, hi) == Cardinality({s \in strikes : lo < s /\ s <= hi}) \in WingMin .. WingMax
             IN Enumerated(side, strikes, spot) =
                  {c \in Butterflies : /\ c.side = side /\ Wide(c.a, c.body) /\ Wide(c.body, c.b)
                                       /\ Strikes(c) \subseteq OnSide(side, strikes, spot)}
  BY DEF Complete
<1> DEFINE S == OnSide(side, strikes, spot)
           own == Ascending(S)
           n == Cardinality(S)
           Wide(lo, hi) == Cardinality({s \in strikes : lo < s /\ s <= hi}) \in WingMin .. WingMax
           All == {c \in Butterflies : /\ c.side = side /\ Wide(c.a, c.body) /\ Wide(c.body, c.b)
                                       /\ Strikes(c) \subseteq S}
           Wings == [at : 1 .. n, left : WingMin .. WingMax, right : WingMin .. WingMax]
           Combo(w) == [side |-> side, a |-> own[w.at - w.left], body |-> own[w.at], b |-> own[w.at + w.right]]
<1>1. /\ IsFiniteSet(S) /\ S \subseteq Int /\ S \subseteq Amounts
  BY SideIsFinite
<1>2. /\ n \in Nat /\ own \in Seq(S) /\ Len(own) = n /\ \A k, l \in 1 .. n : k < l => own[k] < own[l]
  BY <1>1, AscendingOrders
<1>own. \A k \in 1 .. n : own[k] \in S /\ own[k] \in Int
  BY <1>1, AscendingOrders
<1>3. WingMin \in Nat \ {0} /\ WingMax \in Nat
  BY EngineAssumption
<1>4. Enumerated(side, strikes, spot) = {Combo(w) : w \in {v \in Wings : v.left < v.at /\ v.at + v.right <= n}}
  BY <1>2 DEF Enumerated, Triples
<1>5. \A i, j \in 1 .. n : i < j => Cardinality({s \in strikes : own[i] < s /\ s <= own[j]}) = j - i
  BY WingIsWide
<1>6. \A s \in S : \E k \in 1 .. n : own[k] = s
  BY <1>1, PlaceOf
<1> HIDE DEF n, own, S
<1>7. ASSUME NEW w \in Wings, w.left < w.at, w.at + w.right <= n PROVE Combo(w) \in All
  <2>1. /\ w.at \in 1 .. n /\ w.left \in Nat /\ w.right \in Nat /\ w.left > 0 /\ w.right > 0
        /\ w.left \in WingMin .. WingMax /\ w.right \in WingMin .. WingMax
    BY <1>3
  <2>2. /\ w.at - w.left \in 1 .. n /\ w.at + w.right \in 1 .. n
        /\ w.at - w.left < w.at /\ w.at < w.at + w.right
    BY <1>2, <1>7, <2>1
  <2> DEFINE a == own[w.at - w.left]
             body == own[w.at]
             b == own[w.at + w.right]
  <2>3. a \in S /\ body \in S /\ b \in S /\ a < body /\ body < b
    BY <1>own, <1>2, <2>1, <2>2
  <2>4. Wide(a, body) /\ Wide(body, b)
    <3>1. Cardinality({s \in strikes : a < s /\ s <= body}) = w.at - (w.at - w.left)
      BY <1>5, <2>1, <2>2
    <3>2. Cardinality({s \in strikes : body < s /\ s <= b}) = (w.at + w.right) - w.at
      BY <1>5, <2>1, <2>2
    <3>3. w.at - (w.at - w.left) = w.left /\ (w.at + w.right) - w.at = w.right
      BY <2>1
    <3>4. QED
      BY <2>1, <3>1, <3>2, <3>3
  <2> HIDE DEF a, body, b, Wide
  <2>5. /\ Combo(w).side = side /\ Combo(w).a = a /\ Combo(w).body = body /\ Combo(w).b = b
        /\ Combo(w) \in Butterflies
    BY <1>1, <2>3 DEF Butterflies, a, body, b
  <2> HIDE DEF Combo
  <2>6. QED
    BY <2>3, <2>4, <2>5 DEF Strikes
<1>8. ASSUME NEW c \in All
      PROVE  \E w \in Wings : w.left < w.at /\ w.at + w.right <= n /\ c = Combo(w)
  <2>1. /\ c \in [side : {"call", "put"}, a : Amounts, body : Amounts, b : Amounts]
        /\ c.a < c.body /\ c.body < c.b /\ c.side = side
        /\ c.a \in S /\ c.body \in S /\ c.b \in S /\ Wide(c.a, c.body) /\ Wide(c.body, c.b)
    BY DEF Butterflies, Strikes
  <2>2. PICK i \in 1 .. n : own[i] = c.a
    BY <1>6, <2>1
  <2>3. PICK j \in 1 .. n : own[j] = c.body
    BY <1>6, <2>1
  <2>4. PICK k \in 1 .. n : own[k] = c.b
    BY <1>6, <2>1
  <2>5. \A x \in 1 .. n : own[x] \in Int
    BY <1>own
  <2>6. i < j /\ j < k
    <3>1. ~(j < i) /\ j # i
      BY <1>2, <2>1, <2>2, <2>3, <2>5
    <3>2. ~(k < j) /\ k # j
      BY <1>2, <2>1, <2>3, <2>4, <2>5
    <3>3. QED
      BY <1>2, <3>1, <3>2
  <2> DEFINE w == [at |-> j, left |-> j - i, right |-> k - j]
  <2>7. j - i \in WingMin .. WingMax /\ k - j \in WingMin .. WingMax
    <3>1. Cardinality({s \in strikes : c.a < s /\ s <= c.body}) = j - i
      BY <1>5, <2>2, <2>3, <2>6
    <3>2. Cardinality({s \in strikes : c.body < s /\ s <= c.b}) = k - j
      BY <1>5, <2>3, <2>4, <2>6
    <3>3. QED
      BY <2>1, <3>1, <3>2
  <2>8. w \in Wings /\ w.at = j /\ w.at - w.left = i /\ w.at + w.right = k /\ w.left < w.at /\ w.at + w.right <= n
    BY <1>2, <2>7
  <2> HIDE DEF w
  <2>9. c = Combo(w)
    <3>1. Combo(w) = [side |-> c.side, a |-> c.a, body |-> c.body, b |-> c.b]
      BY <2>1, <2>2, <2>3, <2>4, <2>8
    <3>2. c = [side |-> c.side, a |-> c.a, body |-> c.body, b |-> c.b]
      BY <2>1
    <3>3. QED
      BY <3>1, <3>2
  <2>10. QED
    BY <2>8, <2>9
<1> HIDE DEF Combo, Wings
<1>9. Enumerated(side, strikes, spot) = All
  <2> HIDE DEF All
  <2>1. Enumerated(side, strikes, spot) \subseteq All
    BY <1>4, <1>7
  <2>2. All \subseteq Enumerated(side, strikes, spot)
    BY <1>4, <1>8
  <2>3. QED
    BY <2>1, <2>2
<1>10. QED
  BY <1>9 DEF S

\* For every chain, price and side: the search visits the combinations whose strikes lie on
\* the side and whose wings are within the bounds, counted in strikes, and no other
\* (enumerate_candidates).
THEOREM EveryCombinationIsTried == EnumerationIsComplete
<1> SUFFICES ASSUME NEW side \in {"call", "put"}, NEW strikes \in SUBSET Amounts, NEW spot \in Amounts
             PROVE  LET Wide(lo, hi) == Cardinality({s \in strikes : lo < s /\ s <= hi}) \in WingMin .. WingMax
                    IN Enumerated(side, strikes, spot) =
                         {c \in Butterflies : /\ c.side = side /\ Wide(c.a, c.body) /\ Wide(c.body, c.b)
                                              /\ Strikes(c) \subseteq OnSide(side, strikes, spot)}
  BY DEF EnumerationIsComplete
<1>1. Enumerated(side, strikes, spot) = Complete(side, strikes, spot)
  BY CombinationsOfASide
<1>2. QED
  BY <1>1 DEF Complete

-----------------------------------------------------------------------------
(* The ranking score.                                                      *)

\* Division by a smaller number of a larger one gives no less.
LEMMA QuotientGrows ==
  ASSUME NEW a \in Nat, NEW b \in Nat, NEW m \in Nat \ {0}, NEW n \in Nat \ {0}, b <= a, m <= n
  PROVE  b \div n <= a \div m /\ a \div m \in Nat /\ b \div n \in Nat
<1> DEFINE q == b \div n
<1>1. q \in Nat /\ n * q <= b
  OBVIOUS
<1> HIDE DEF q
<1>2. m * q <= n * q
  BY <1>1
<1>3. m * q \in Int /\ n * q \in Int
  BY <1>1
<1>4. m * q <= a
  BY <1>1, <1>2, <1>3
<1>5. q <= a \div m
  BY <1>1, <1>4
<1>6. a \div m \in Nat
  OBVIOUS
<1>7. QED
  BY <1>1, <1>5, <1>6 DEF q

\* A greater credit for a smaller margin is no less efficient.
LEMMA EfficiencyGrows ==
  ASSUME NEW p \in Int, NEW q \in Int, NEW m \in Nat \ {0}, NEW n \in Nat, p <= q, q <= 0, m <= n
  PROVE  /\ CreditEfficiency(p, m) \in Nat /\ CreditEfficiency(q, n) \in Nat
         /\ CreditEfficiency(q, n) <= CreditEfficiency(p, m)
<1>1. n > 0 /\ n \in Nat \ {0}
  OBVIOUS
<1>2. 100 * (-q) \in Nat /\ 100 * (-p) \in Nat /\ 100 * (-q) <= 100 * (-p)
  OBVIOUS
<1>3. (100 * (-q)) \div n <= (100 * (-p)) \div m /\ (100 * (-p)) \div m \in Nat /\ (100 * (-q)) \div n \in Nat
  BY <1>1, <1>2, QuotientGrows
<1>4. CASE q < 0
  BY <1>1, <1>3, <1>4 DEF CreditEfficiency
<1>5. CASE q = 0
  BY <1>1, <1>3, <1>5 DEF CreditEfficiency
<1>6. QED
  BY <1>4, <1>5

\* A product with a factor that is no less is no less.
LEMMA ProductGrows ==
  ASSUME NEW a \in Int, NEW b \in Int, NEW c \in Nat, a <= b
  PROVE  a * c <= b * c /\ a * c \in Int /\ b * c \in Int
OBVIOUS

\* A product with a greater factor is greater.
LEMMA ProductGrowsMore ==
  ASSUME NEW a \in Int, NEW b \in Int, NEW c \in Nat, a < b, c > 0
  PROVE  a * c < b * c
OBVIOUS

\* The score of a row, and that of one no worse.
LEMMA ScoreGrows ==
  ASSUME NEW better, NEW worse, NEW median \in Nat, NEW spot \in Nat, NEW log,
         /\ better.premium \in Int /\ worse.premium \in Int
         /\ better.margin \in Nat \ {0} /\ worse.margin \in Nat
         /\ log[better.liquidity] \in Int /\ log[worse.liquidity] \in Int
         /\ better.combo.body \in Int /\ worse.combo.body \in Int,
         better.premium <= worse.premium, worse.premium <= 0,
         better.margin <= worse.margin,
         log[worse.liquidity] <= log[better.liquidity],
         Apart(better.combo.body, spot) <= Apart(worse.combo.body, spot)
  PROVE  /\ Score(better, median, spot, log) \in Int /\ Score(worse, median, spot, log) \in Int
         /\ Score(worse, median, spot, log) <= Score(better, median, spot, log)
         /\ spot > 0 /\ better.margin < worse.margin
              => Score(worse, median, spot, log) < Score(better, median, spot, log)
<1> DEFINE ce(x) == CreditEfficiency(x.premium, x.margin)
           lq(x) == log[x.liquidity]
           far(x) == Smaller(Apart(x.combo.body, spot), spot)
<1>1. ce(better) \in Nat /\ ce(worse) \in Nat /\ ce(worse) <= ce(better)
  BY EfficiencyGrows
<1>2. far(better) \in Int /\ far(worse) \in Int /\ far(better) <= far(worse)
  BY DEF Apart, Smaller, Larger
<1>3. lq(better) \in Int /\ lq(worse) \in Int /\ lq(worse) <= lq(better)
  OBVIOUS
<1>4. ASSUME NEW x \in {better, worse}
      PROVE  Score(x, median, spot, log)
               = 4 * ce(x) * median * spot + 3 * lq(x) * median * spot
                   - 4 * x.margin * spot - far(x) * median
  BY DEF Score
<1> HIDE DEF ce, lq, far
<1>5. /\ 4 * ce(worse) * median * spot <= 4 * ce(better) * median * spot
      /\ 4 * ce(worse) * median * spot \in Int /\ 4 * ce(better) * median * spot \in Int
  <2>1. 4 * ce(worse) <= 4 * ce(better) /\ 4 * ce(worse) \in Int /\ 4 * ce(better) \in Int
    BY <1>1
  <2>2. /\ 4 * ce(worse) * median <= 4 * ce(better) * median
        /\ 4 * ce(worse) * median \in Int /\ 4 * ce(better) * median \in Int
    BY <2>1, ProductGrows
  <2>3. QED
    BY <2>2, ProductGrows
<1>6. /\ 3 * lq(worse) * median * spot <= 3 * lq(better) * median * spot
      /\ 3 * lq(worse) * median * spot \in Int /\ 3 * lq(better) * median * spot \in Int
  <2>1. 3 * lq(worse) <= 3 * lq(better) /\ 3 * lq(worse) \in Int /\ 3 * lq(better) \in Int
    BY <1>3
  <2>2. /\ 3 * lq(worse) * median <= 3 * lq(better) * median
        /\ 3 * lq(worse) * median \in Int /\ 3 * lq(better) * median \in Int
    BY <2>1, ProductGrows
  <2>3. QED
    BY <2>2, ProductGrows
<1>7. /\ 4 * better.margin * spot <= 4 * worse.margin * spot
      /\ 4 * better.margin * spot \in Int /\ 4 * worse.margin * spot \in Int
      /\ spot > 0 /\ better.margin < worse.margin => 4 * better.margin * spot < 4 * worse.margin * spot
  <2>1. 4 * better.margin <= 4 * worse.margin /\ 4 * better.margin \in Int /\ 4 * worse.margin \in Int
    OBVIOUS
  <2>2. ASSUME spot > 0, better.margin < worse.margin
        PROVE  4 * better.margin * spot < 4 * worse.margin * spot
    <3>1. 4 * better.margin < 4 * worse.margin
      BY <2>2
    <3>2. QED
      BY <2>1, <2>2, <3>1, ProductGrowsMore
  <2>3. QED
    BY <2>1, <2>2, ProductGrows
<1>8. /\ far(better) * median <= far(worse) * median
      /\ far(better) * median \in Int /\ far(worse) * median \in Int
  BY <1>2, ProductGrows
<1>9. \A a1, a2, b1, b2, c1, c2, d1, d2 \in Int :
        a1 <= a2 /\ b1 <= b2 /\ c2 <= c1 /\ d2 <= d1
          => /\ a1 + b1 - c1 - d1 <= a2 + b2 - c2 - d2
             /\ a1 + b1 - c1 - d1 \in Int /\ a2 + b2 - c2 - d2 \in Int
             /\ c2 < c1 => a1 + b1 - c1 - d1 < a2 + b2 - c2 - d2
  OBVIOUS
<1>10. QED
  BY <1>4, <1>5, <1>6, <1>7, <1>8, <1>9

\* The largest of a finite set is one of it.
LEMMA LargestMember ==
  ASSUME NEW S, IsFiniteSet(S), S \subseteq Nat, S # {}
  PROVE  Max(S) \in S /\ Max(S) \in Nat /\ \A x \in S : x <= Max(S)
<1>1. S \subseteq Nat /\ S # {} /\ IsFiniteSet(S) /\ S \subseteq Int
  OBVIOUS
<1> DEFINE n == Cardinality(S)
           r == Ascending(S)
<1>order. /\ Cardinality(S) \in Nat
          /\ \A k \in 1 .. Cardinality(S) : Ascending(S)[k] \in S /\ Ascending(S)[k] \in Int
          /\ \A k, l \in 1 .. Cardinality(S) : k < l => Ascending(S)[k] < Ascending(S)[l]
  BY <1>1, AscendingOrders
<1>2. /\ n \in Nat /\ \A k, l \in 1 .. n : k < l => r[k] < r[l]
      /\ \A k \in 1 .. n : r[k] \in S /\ r[k] \in Int
  BY <1>order
<1>3. \A x \in S : \E k \in 1 .. n : r[k] = x
  BY <1>1, PlaceOf
<1> HIDE DEF n, r
<1>4. n \in 1 .. n
  <2>1. PICK x \in S : TRUE
    BY <1>1
  <2>2. PICK k \in 1 .. n : r[k] = x
    BY <1>3, <2>1
  <2>3. n \in Nat
    BY <1>2
  <2>4. QED
    BY <2>2, <2>3
<1>5. ASSUME NEW x \in S PROVE r[n] >= x
  <2>1. PICK k \in 1 .. n : r[k] = x
    BY <1>3
  <2>2. k < n \/ k = n
    BY <1>2
  <2>3. QED
    BY <1>2, <1>4, <2>1, <2>2
<1>6. \E m \in S : \A x \in S : m >= x
  BY <1>2, <1>4, <1>5
<1>7. QED
  BY <1>1, <1>6 DEF Max

\* For all amounts: a row no worse than another in premium, margin, liquidity and distance is
\* ranked no lower, unless its margin is zero (compute_ranking_score).
THEOREM BetterRowsRankHigher == RankingIsMonotone
<1> DEFINE Few == {x \in Amounts : x % 2 = 0}
           Figures == [premium : {-x : x \in Few}, margin : Few, liquidity : Few, body : Few]
           AsRow(f) == [combo |-> [body |-> f.body], premium |-> f.premium, margin |-> f.margin,
                        liquidity |-> f.liquidity]
           identity == [n \in Amounts |-> n]
           spot == Max(Amounts)
<1> SUFFICES ASSUME NEW better \in Figures, NEW worse \in Figures, NEW median \in Few \ {0},
                    better.margin > 0, better.margin <= worse.margin,
                    better.premium <= worse.premium,
                    better.liquidity >= worse.liquidity,
                    Apart(better.body, spot) <= Apart(worse.body, spot)
             PROVE  Score(AsRow(better), median, spot, identity) >= Score(AsRow(worse), median, spot, identity)
  BY DEF RankingIsMonotone
<1>1. spot \in Nat
  BY EngineAssumption, LargestMember
<1>2. Few \subseteq Nat /\ Few \subseteq Amounts /\ median \in Nat
  BY EngineAssumption
<1>3. ASSUME NEW f \in Figures
      PROVE  /\ f.premium \in Int /\ f.premium <= 0 /\ f.margin \in Nat
             /\ f.liquidity \in Amounts /\ f.liquidity \in Nat /\ f.body \in Nat
  <2>1. f.premium \in {-x : x \in Few} /\ f.margin \in Few /\ f.liquidity \in Few /\ f.body \in Few
    OBVIOUS
  <2>2. QED
    BY <1>2, <2>1
<1> HIDE DEF spot, Figures, Few
<1>4. /\ AsRow(better).premium \in Int /\ AsRow(worse).premium \in Int
      /\ AsRow(better).margin \in Nat \ {0} /\ AsRow(worse).margin \in Nat
      /\ identity[AsRow(better).liquidity] \in Int /\ identity[AsRow(worse).liquidity] \in Int
      /\ AsRow(better).combo.body \in Int /\ AsRow(worse).combo.body \in Int
  BY <1>3
<1>5. /\ AsRow(better).premium <= AsRow(worse).premium /\ AsRow(worse).premium <= 0
      /\ AsRow(better).margin <= AsRow(worse).margin
      /\ identity[AsRow(worse).liquidity] <= identity[AsRow(better).liquidity]
      /\ Apart(AsRow(better).combo.body, spot) <= Apart(AsRow(worse).combo.body, spot)
  BY <1>3
<1> HIDE DEF AsRow, identity
<1>6. /\ Score(AsRow(better), median, spot, identity) \in Int
      /\ Score(AsRow(worse), median, spot, identity) \in Int
      /\ Score(AsRow(worse), median, spot, identity) <= Score(AsRow(better), median, spot, identity)
  BY <1>1, <1>2, <1>4, <1>5, ScoreGrows
<1>7. QED
  BY <1>6

-----------------------------------------------------------------------------
(* The rows a card shows.                                                  *)

\* The maximum of three integers is one of them and no less than any.
LEMMA LargestOfThree ==
  ASSUME NEW x \in Int, NEW y \in Int, NEW z \in Int
  PROVE  /\ Max({x, y, z}) \in {x, y, z} /\ Max({x, y, z}) \in Int
         /\ Max({x, y, z}) >= x /\ Max({x, y, z}) >= y /\ Max({x, y, z}) >= z
<1> DEFINE S == {x, y, z}
<1>1. \E m \in S : \A n \in S : m >= n
  <2>1. \/ x >= y /\ x >= z
        \/ y >= x /\ y >= z
        \/ z >= x /\ z >= y
    OBVIOUS
  <2>2. QED
    BY <2>1
<1>2. Max(S) \in S /\ \A n \in S : Max(S) >= n
  BY <1>1 DEF Max
<1>3. QED
  BY <1>2

\* The worst case is one of three: below the wings, at the body or above the wings.
LEMMA WorstIsOneOfThree ==
  ASSUME NEW row,
         \A x \in {row.combo.a - 1, row.combo.body, row.combo.b + 1} : row.premium - Payoff(row.combo, x) \in Int
  PROVE  LET low == row.premium - Payoff(row.combo, row.combo.a - 1)
             mid == row.premium - Payoff(row.combo, row.combo.body)
             high == row.premium - Payoff(row.combo, row.combo.b + 1)
         IN Loss(row) \in {low, mid, high} /\ Loss(row) \in Int
              /\ Loss(row) >= low /\ Loss(row) >= mid /\ Loss(row) >= high
<1> DEFINE low == row.premium - Payoff(row.combo, row.combo.a - 1)
           mid == row.premium - Payoff(row.combo, row.combo.body)
           high == row.premium - Payoff(row.combo, row.combo.b + 1)
<1>1. Loss(row) = Max({low, mid, high})
  <2>1. {row.premium - Payoff(row.combo, x) : x \in {row.combo.a - 1, row.combo.body, row.combo.b + 1}}
          = {low, mid, high}
    OBVIOUS
  <2>2. QED
    BY <2>1 DEF Loss
<1>2. low \in Int /\ mid \in Int /\ high \in Int
  OBVIOUS
<1> HIDE DEF low, mid, high
<1>3. /\ Max({low, mid, high}) \in {low, mid, high} /\ Max({low, mid, high}) \in Int
      /\ Max({low, mid, high}) >= low /\ Max({low, mid, high}) >= mid /\ Max({low, mid, high}) >= high
  BY <1>2, LargestOfThree
<1>4. QED
  BY <1>1, <1>3 DEF low, mid, high

\* Rounding to a step gives an integer.
LEMMA NearestIsInt ==
  ASSUME NEW x \in Int, NEW step \in Nat \ {0}
  PROVE  Nearest(x, step) \in Int
<1>1. x \div step \in Int
  OBVIOUS
<1>2. \A n, m \in Int : n * m \in Int
  OBVIOUS
<1>3. QED
  BY <1>1, <1>2 DEF Nearest

\* A combination whose far wing is twice its near one loses the near wing beyond the far one.
LEMMA WorstOfPlaceholder ==
  ASSUME NEW side \in {"call", "put"}, NEW inner \in Int, NEW wing \in Nat \ {0}, NEW credit \in Nat, NEW row,
         row.premium = -credit,
         row.combo = [side |-> side,
                      a |-> IF side = "call" THEN inner ELSE inner - 3 * wing,
                      body |-> IF side = "call" THEN inner + wing ELSE inner - wing,
                      b |-> IF side = "call" THEN inner + 3 * wing ELSE inner]
  PROVE  Loss(row) = wing - credit
<1> DEFINE low == row.premium - Payoff(row.combo, row.combo.a - 1)
           mid == row.premium - Payoff(row.combo, row.combo.body)
           high == row.premium - Payoff(row.combo, row.combo.b + 1)
<1>1. CASE side = "call"
  <2>1. /\ row.combo.side = "call" /\ row.combo.a = inner /\ row.combo.body = inner + wing
        /\ row.combo.b = inner + 3 * wing
    BY <1>1
  <2>2. low = -credit /\ mid = -credit - wing /\ high = wing - credit
    BY <2>1 DEF Payoff, Intrinsic, Larger
  <2>3. \A x \in {row.combo.a - 1, row.combo.body, row.combo.b + 1} : row.premium - Payoff(row.combo, x) \in Int
    BY <2>2
  <2>4. Loss(row) \in {low, mid, high} /\ Loss(row) >= low /\ Loss(row) >= mid /\ Loss(row) >= high
    BY <2>3, WorstIsOneOfThree
  <2>5. QED
    BY <2>2, <2>4
<1>2. CASE side = "put"
  <2>1. /\ row.combo.side = "put" /\ row.combo.a = inner - 3 * wing /\ row.combo.body = inner - wing
        /\ row.combo.b = inner
    BY <1>2
  <2>2. high = -credit /\ mid = -credit - wing /\ low = wing - credit
    BY <2>1 DEF Payoff, Intrinsic, Larger
  <2>3. \A x \in {row.combo.a - 1, row.combo.body, row.combo.b + 1} : row.premium - Payoff(row.combo, x) \in Int
    BY <2>2
  <2>4. Loss(row) \in {low, mid, high} /\ Loss(row) >= low /\ Loss(row) >= mid /\ Loss(row) >= high
    BY <2>3, WorstIsOneOfThree
  <2>5. QED
    BY <2>2, <2>4
<1>3. QED
  BY <1>1, <1>2

\* The margin of a placeholder row is what its combination can lose.
LEMMA PlaceholderCovers ==
  ASSUME NEW side \in {"call", "put"}, NEW spot \in Nat, NEW sigma \in Nat, NEW step \in Nat \ {0},
         NEW credit \in Nat, NEW row \in Placeholder(side, spot, sigma, step, credit)
  PROVE  row.margin = Larger(Loss(row), 0) /\ Loss(row) \in Int
<1> DEFINE sign == IF side = "call" THEN 1 ELSE -1
           wing == Larger(step, Nearest(sigma \div 2, step))
           Combo(inner) == [side |-> side, a |-> Smaller(inner, inner + sign * 3 * wing),
                            body |-> inner + sign * wing, b |-> Larger(inner, inner + sign * 3 * wing)]
<1>1. PICK off \in {sigma \div 2, sigma} :
        row = [combo |-> Combo(Nearest(spot + sign * off, step)), premium |-> -credit,
               margin |-> Larger(wing - credit, 0)]
  BY DEF Placeholder
<1>2. off \in Int /\ sigma \div 2 \in Int
  OBVIOUS
<1> DEFINE inner == Nearest(spot + sign * off, step)
<1>3. inner \in Int
  <2>1. spot + sign * off \in Int
    BY <1>2
  <2> HIDE DEF sign
  <2>2. QED
    BY <2>1, NearestIsInt
<1>4. wing \in Nat \ {0}
  <2>1. Nearest(sigma \div 2, step) \in Int
    BY <1>2, NearestIsInt
  <2>2. QED
    BY <2>1 DEF Larger
<1>5. /\ row.premium = -credit /\ row.margin = Larger(wing - credit, 0)
      /\ row.combo = Combo(inner)
  BY <1>1
<1> HIDE DEF wing, inner
<1>6. Combo(inner) = [side |-> side,
                      a |-> IF side = "call" THEN inner ELSE inner - 3 * wing,
                      body |-> IF side = "call" THEN inner + wing ELSE inner - wing,
                      b |-> IF side = "call" THEN inner + 3 * wing ELSE inner]
  <2>1. CASE side = "call"
    BY <1>3, <1>4, <2>1 DEF Smaller, Larger
  <2>2. CASE side = "put"
    BY <1>3, <1>4, <2>2 DEF Smaller, Larger
  <2>3. QED
    BY <2>1, <2>2
<1>7. Loss(row) = wing - credit
  <2> HIDE DEF Combo
  <2>1. QED
    BY <1>3, <1>4, <1>5, <1>6, WorstOfPlaceholder
<1>8. QED
  BY <1>4, <1>5, <1>7

\* The rows of an engine run are of combinations of the chain, at any price of the report.
LEMMA CandidatesAreButterflies ==
  ASSUME NEW chain \in SUBSET Amounts, NEW spot \in Amounts
  PROVE  \A c \in Candidates(chain, spot) : c \in Butterflies
<1>1. InRange(chain, spot) \in SUBSET Amounts
  BY DEF InRange
<1>2. \A side \in {"call", "put"}, strikes \in SUBSET Amounts : Enumerated(side, strikes, spot) \subseteq Butterflies
  <2> SUFFICES ASSUME NEW side \in {"call", "put"}, NEW strikes \in SUBSET Amounts
               PROVE  Enumerated(side, strikes, spot) \subseteq Butterflies
    OBVIOUS
  <2>1. Enumerated(side, strikes, spot) = Complete(side, strikes, spot)
    BY CombinationsOfASide
  <2>2. QED
    BY <2>1 DEF Complete
<1>3. QED
  BY <1>1, <1>2 DEF Candidates

\* The margin of a live row is no less than what its combination can lose at the prices
\* kept.
LEMMA LiveRowCovers ==
  ASSUME NEW c \in Butterflies, NEW qa, NEW qbody, NEW qb, Kept(qa, qbody, qb),
         qa.mid \in Int, qbody.mid \in Int, qb.mid \in Int
  PROVE  Row(c, qa, qbody, qb).margin >= Loss(Row(c, qa, qbody, qb))
<1> DEFINE row == Row(c, qa, qbody, qb)
           premium == Premium(qa, qbody, qb)
<1>1. premium \in Int /\ premium <= 0
  <2>2. premium \in Int
    BY DEF Premium
  <2>3. premium <= -MinCredit
    BY DEF Kept
  <2> HIDE DEF premium
  <2>4. QED
    BY <2>2, <2>3, EngineAssumption
<1>2. /\ c.a \in Int /\ c.body \in Int /\ c.b \in Int
      /\ c.side \in {"call", "put"} /\ c.a < c.body /\ c.body < c.b
  BY Combination
<1>3. \A x \in Int : Payoff(c, x) \in Int
  BY <1>2 DEF Payoff, Intrinsic, Larger
<1>4. row.combo = c /\ row.premium = premium /\ row.margin = Margin(c.body - c.a, c.b - c.body, premium)
  BY DEF Row
<1>5. premium + Larger(c.body - c.a, c.b - c.body) - Smaller(c.body - c.a, c.b - c.body) <= row.margin
      /\ row.margin \in Int
  <2>1. premium + Larger(c.body - c.a, c.b - c.body) - Smaller(c.body - c.a, c.b - c.body)
          <= Margin(c.body - c.a, c.b - c.body, premium)
    <3>1. c.body - c.a \in Int /\ c.b - c.body \in Int
      BY <1>2
    <3> HIDE DEF premium
    <3>2. QED
      BY <1>1, <3>1, MarginOfCredit
  <2>2. Margin(c.body - c.a, c.b - c.body, premium) \in Int
    BY <1>1, <1>2 DEF Margin, Larger, Smaller
  <2> HIDE DEF row, premium
  <2>3. QED
    BY <1>4, <2>1, <2>2
<1> HIDE DEF row, premium
<1>6. \A x \in Int : premium - Payoff(c, x) <= row.margin /\ premium - Payoff(c, x) \in Int
  <2> SUFFICES ASSUME NEW x \in Int
               PROVE  premium - Payoff(c, x) <= row.margin /\ premium - Payoff(c, x) \in Int
    OBVIOUS
  <2>1. -Payoff(c, x) <= Larger(c.body - c.a, c.b - c.body) - Smaller(c.body - c.a, c.b - c.body)
    BY PayoffIsBounded
  <2>2. Larger(c.body - c.a, c.b - c.body) \in Int /\ Smaller(c.body - c.a, c.b - c.body) \in Int
    BY <1>2 DEF Larger, Smaller
  <2>3. QED
    BY <1>1, <1>3, <1>5, <2>1, <2>2
<1>7. c.a - 1 \in Int /\ c.b + 1 \in Int
  BY <1>2
<1>8. /\ \A x \in {c.a - 1, c.body, c.b + 1} : premium - Payoff(c, x) \in Int
      /\ \A x \in {c.a - 1, c.body, c.b + 1} : premium - Payoff(c, x) <= row.margin
  BY <1>2, <1>6, <1>7
<1>9. Loss(row) \in {premium - Payoff(c, c.a - 1), premium - Payoff(c, c.body), premium - Payoff(c, c.b + 1)}
  BY <1>4, <1>8, WorstIsOneOfThree
<1>10. QED
  BY <1>5, <1>8, <1>9 DEF row

\* A batch leaves a row its combination and premium; its margin is the closed form or the
\* answer to its own order (compute_batch).
LEMMA BatchKeepsRows ==
  ASSUME NEW rows, NEW whatif, NEW free, NEW spot, NEW log, NEW i \in DOMAIN rows,
         NEW c, NEW qa, NEW qbody, NEW qb, rows[i] = Row(c, qa, qbody, qb)
  PROVE  LET row == Batch(rows, whatif, free, spot, log).rows[i]
         IN /\ row.combo = rows[i].combo /\ row.premium = rows[i].premium
            /\ row.margin = rows[i].margin \/ (whatif[i] # Unknown /\ row.margin = whatif[i])
<1> DEFINE first == Scores(rows, spot, log)
           requests == [k \in DOMAIN rows |->
                          [side |-> rows[k].combo.side, score |-> first[k],
                           margin |-> rows[k].margin, whatif |-> whatif[k]]]
           m == Margins(requests, free)[i]
<1>1. Batch(rows, whatif, free, spot, log).rows[i] = [rows[i] EXCEPT !.margin = m]
  BY DEF Batch
<1>2. m = rows[i].margin \/ (whatif[i] # Unknown /\ m = whatif[i])
  <2>1. /\ DOMAIN requests = DOMAIN rows
        /\ requests[i].margin = rows[i].margin /\ requests[i].whatif = whatif[i]
    BY Zenon
  <2> HIDE DEF requests
  <2>2. QED
    BY <2>1 DEF Margins
<1> HIDE DEF m
<1>3. [rows[i] EXCEPT !.margin = m]
        = [combo |-> rows[i].combo, premium |-> rows[i].premium, liquidity |-> rows[i].liquidity, margin |-> m]
  <2>1. rows[i] = [combo |-> rows[i].combo, premium |-> rows[i].premium,
                   liquidity |-> rows[i].liquidity, margin |-> rows[i].margin]
    BY DEF Row
  <2>2. QED
    BY <2>1
<1>4. QED
  BY <1>1, <1>2, <1>3

\* For every price, step and credit: the placeholder's margin is its loss, and whatever
\* quotes come for whatever legs are asked, in whatever order the rows are and whichever
\* orders are answered: a margin that a card shows covers the loss of its row or is the
\* answer to that row's order (generate, compute_batch, IbkrOpportunitySource).
THEOREM ShownMarginsStayBacked == ShownMarginsAreBacked
<1>1. /\ Amounts \subseteq Nat /\ MinCredit \in Nat /\ 1 \in Nat \ {0}
      /\ Max(Amounts) \in Amounts
  <2>1. IsFiniteSet(Amounts) /\ Amounts \subseteq Nat /\ Amounts # {} /\ MinCredit \in Nat
    BY EngineAssumption
  <2>2. Max(Amounts) \in Amounts
    BY <2>1, LargestMember
  <2>3. QED
    BY <2>1, <2>2
<1>2. ASSUME NEW options \in Nat, NEW sigma \in Nat, NEW step \in Nat \ {0}, NEW credit \in Nat,
             NEW row \in Synthetic(options, sigma, step, credit)
      PROVE  row.margin = Larger(Loss(row), 0) /\ Loss(row) \in Int
  <2>1. PICK side \in {"call", "put"} : row \in Placeholder(side, options, sigma, step, credit)
    BY <1>2 DEF Synthetic
  <2>2. QED
    BY <2>1, PlaceholderCovers
<1>3. ASSUME NEW options \in Amounts, NEW half \in Amounts, NEW credit \in Amounts, NEW step \in Amounts \ {0},
             NEW row \in Synthetic(options, 2 * half, step, credit)
      PROVE  row.margin = Larger(Loss(row), 0)
  <2>1. options \in Nat /\ 2 * half \in Nat /\ step \in Nat \ {0} /\ credit \in Nat
    BY <1>1
  <2>2. QED
    BY <1>2, <1>3, <2>1
<1>4. ASSUME NEW strikes \in {Amounts, Amounts \ {2, 3}}, NEW snapshot \in Amounts, NEW options \in {0, Max(Amounts)},
             NEW legs \in Quotable(Candidates(strikes, Sought(snapshot, options)), Sought(snapshot, options)),
             NEW quotes \in [legs -> [mid : {0, MinCredit}, bid : {1}, oi : {MinLegOi}]],
             NEW rows \in SetToSeqs(Rows(Candidates(strikes, Sought(snapshot, options)), quotes)),
             NEW whatif \in [DOMAIN rows -> {Unknown, 0}], NEW free \in 1 .. TopN,
             NEW row \in Shown(snapshot, options,
                              [p \in Amounts |-> IF p = Sought(snapshot, options)
                                                 THEN ToSet(Batch(rows, whatif, free, Sought(snapshot, options),
                                                                  [n \in {0, 1} |-> n]).rows)
                                                 ELSE {}],
                              Synthetic(options, 0, 1, MinCredit))
      PROVE  \/ row.margin >= Loss(row)
             \/ \E i \in DOMAIN rows : /\ rows[i].combo = row.combo
                                      /\ whatif[i] # Unknown
                                      /\ row.margin = whatif[i]
  <2> DEFINE log == [n \in {0, 1} |-> n]
             given == [p \in Amounts |-> IF p = Sought(snapshot, options)
                                        THEN ToSet(Batch(rows, whatif, free, Sought(snapshot, options), log).rows)
                                        ELSE {}]
  <2>1. strikes \in SUBSET Amounts
    OBVIOUS
  <2>2. Sought(snapshot, options) > 0 => Sought(snapshot, options) \in Amounts
    BY <1>1 DEF Sought
  <2>3. row \in Shown(snapshot, options, given, Synthetic(options, 0, 1, MinCredit))
    BY <1>4
  <2>4. \/ row \in given[Sought(snapshot, options)] /\ Sought(snapshot, options) \in Amounts
        \/ row \in Synthetic(options, 0, 1, MinCredit)
    <3> HIDE DEF given
    <3> QED
      BY <2>2, <2>3 DEF Shown
  <2>5. \/ row \in ToSet(Batch(rows, whatif, free, Sought(snapshot, options), log).rows)
        \/ row \in Synthetic(options, 0, 1, MinCredit)
    BY <2>4
  <2> HIDE DEF given, log
  <2> DEFINE asked == Sought(snapshot, options)
             R == Rows(Candidates(strikes, asked), quotes)
             final == Batch(rows, whatif, free, asked, log).rows
  <2>6. options \in Nat /\ asked \in Amounts
    <3>1. options \in {0} \cup Amounts /\ (snapshot > 0 \/ snapshot = 0)
      BY <1>1
    <3>2. QED
      BY <1>1, <3>1 DEF Sought
  <2>7. CASE row \in Synthetic(options, 0, 1, MinCredit)
    <3>1. row.margin = Larger(Loss(row), 0) /\ Loss(row) \in Int
      BY <1>1, <1>2, <2>6, <2>7
    <3>2. QED
      BY <3>1 DEF Larger
  <2>8. CASE row \in ToSet(final)
    <3> DEFINE Leg(c, s) == [side |-> c.side, strike |-> s]
               Q(c, s) == quotes[Leg(c, s)]
    <3>2. DOMAIN final = DOMAIN rows
      BY DEF Batch
    <3>3. PICK i \in DOMAIN rows : row = final[i]
      <4> HIDE DEF final
      <4> QED
        BY <2>8, <3>2 DEF ToSet
    <3>4. rows[i] \in R
      <4> HIDE DEF R
      <4>1. rows \in [1 .. Cardinality(R) -> R]
        BY <1>4 DEF SetToSeqs, R
      <4>2. QED
        BY <4>1
    <3>5. PICK c \in Candidates(strikes, asked) :
            /\ \A s \in Strikes(c) : Leg(c, s) \in DOMAIN quotes
            /\ Kept(Q(c, c.a), Q(c, c.body), Q(c, c.b))
            /\ rows[i] = Row(c, Q(c, c.a), Q(c, c.body), Q(c, c.b))
      BY <3>4 DEF Rows
    <3>6. c \in Butterflies
      BY <2>1, <2>6, CandidatesAreButterflies
    <3>7. \A s \in Strikes(c) : Q(c, s).mid \in {0, MinCredit}
      BY <3>5
    <3> HIDE DEF Q
    <3>8. c.a \in Strikes(c) /\ c.body \in Strikes(c) /\ c.b \in Strikes(c)
      BY DEF Strikes
    <3>9. Q(c, c.a).mid \in Int /\ Q(c, c.body).mid \in Int /\ Q(c, c.b).mid \in Int
      BY <1>1, <3>7, <3>8
    <3>10. rows[i].margin >= Loss(rows[i])
      BY <3>5, <3>6, <3>9, LiveRowCovers
    <3>11. /\ row.combo = rows[i].combo /\ row.premium = rows[i].premium
           /\ row.margin = rows[i].margin \/ (whatif[i] # Unknown /\ row.margin = whatif[i])
      BY <3>3, <3>5, BatchKeepsRows
    <3>12. Loss(row) = Loss(rows[i])
      BY <3>11 DEF Loss
    <3>13. QED
      BY <3>10, <3>11, <3>12
  <2>9. QED
    BY <2>5, <2>7, <2>8
<1>5. QED
  BY <1>3, <1>4, Zenon DEF ShownMarginsAreBacked

-----------------------------------------------------------------------------
(* What IBKR answers.                                                      *)

\* A raw field of a quote is read as a natural number or as unknown.
LEMMA FieldIsKnown == ASSUME NEW v \in Raw PROVE Field(v) \in Nat \cup {Unknown} /\ v \in Int
BY EngineAssumption DEF Raw, Field, Unknown, NaN

\* For all answers: no figure of a quote or a WhatIf order is negative but Unknown, a mid lies
\* between the sides of the market, and a margin needs all three contracts.
THEOREM FieldsStaySound == FieldsAreSound
<1>1. ASSUME NEW bid \in Raw, NEW ask \in Raw, NEW last \in Raw, NEW size \in Raw, NEW oi \in Raw
      PROVE  LET q == AsQuote("leg", [bid |-> bid, ask |-> ask, last |-> last, bidSize |-> size,
                                      callOi |-> oi, putOi |-> NaN])
             IN /\ {q.mid, q.bid, q.oi} \subseteq Nat \cup {Unknown}
                /\ 0 < bid /\ bid <= ask => 2 * bid <= q.mid /\ q.mid <= 2 * ask
                /\ q.mid = Unknown => last < 0
  <2> DEFINE q == AsQuote("leg", [bid |-> bid, ask |-> ask, last |-> last, bidSize |-> size,
                                  callOi |-> oi, putOi |-> NaN])
  <2>1. /\ q.mid = Mid2(Field(bid), Field(ask), Field(last)) /\ q.bid = Field(size)
        /\ q.oi = IF oi > 0 THEN oi ELSE IF NaN > 0 THEN NaN ELSE Unknown
    BY DEF AsQuote, OpenInterest
  <2> HIDE DEF q
  <2>2. /\ bid \in Int /\ ask \in Int /\ last \in Int /\ oi \in Int
        /\ Field(bid) \in Nat \cup {Unknown} /\ Field(ask) \in Nat \cup {Unknown}
        /\ Field(last) \in Nat \cup {Unknown} /\ Field(size) \in Nat \cup {Unknown}
    BY FieldIsKnown
  <2>3. q.mid \in Nat \cup {Unknown}
    BY <2>1, <2>2 DEF Mid2, Unknown
  <2>4. q.oi \in Nat \cup {Unknown}
    BY <2>1, <2>2 DEF Unknown, NaN
  <2>5. 0 < bid /\ bid <= ask => 2 * bid <= q.mid /\ q.mid <= 2 * ask
    BY <2>1, <2>2 DEF Mid2, Field, Unknown
  <2>6. q.mid = Unknown => last < 0
    BY <2>1, <2>2 DEF Mid2, Field, Unknown
  <2>7. {q.mid, q.bid, q.oi} \subseteq Nat \cup {Unknown}
    BY <2>1, <2>2, <2>3, <2>4
  <2>8. QED
    BY <2>5, <2>6, <2>7 DEF q
<1>2. ASSUME NEW cons \in SUBSET {"a", "body", "b", NoContract}, NEW v \in {NaN, -3, 0, 3, Huge, -Huge}
      PROVE  LET m == WhatIf(cons, TRUE, v)
             IN m >= 0 \/ (m = Unknown /\ (NoContract \in cons \/ v \notin {-3, 0, 3}))
  BY DEF WhatIf, ParseMargin, NaN, Huge, Unknown, Larger
<1>3. QED
  BY <1>1, <1>2 DEF FieldsAreSound

\* Two numbers, sorted.
LEMMA TwoAscend == Ascending({2, 4}) = <<2, 4>>
<1> DEFINE S == {2, 4}
<1>1. IsFiniteSet(S) /\ S \subseteq Int /\ Cardinality(S) = 2
  <2>1. IsFiniteSet({2}) /\ Cardinality({2}) = 1
    BY FS_Singleton
  <2>2. S = {2} \cup {4} /\ 4 \notin {2}
    OBVIOUS
  <2>3. IsFiniteSet({2} \cup {4}) /\ Cardinality({2} \cup {4}) = Cardinality({2}) + 1
    BY <2>1, <2>2, FS_AddElement
  <2>4. QED
    BY <2>1, <2>2, <2>3
<1>2. /\ Ascending(S) \in Seq(S) /\ Len(Ascending(S)) = 2
      /\ \A k \in 1 .. 2 : Ascending(S)[k] \in S
      /\ \A k, l \in 1 .. 2 : k < l => Ascending(S)[k] < Ascending(S)[l]
  <2> HIDE DEF S
  <2>1. QED
    BY <1>1, AscendingOrders
<1>3. Ascending(S)[1] = 2 /\ Ascending(S)[2] = 4
  BY <1>2
<1>4. QED
  BY <1>2, <1>3

\* Whatever the exchanges list: the chain that is taken is as wide as any, or SMART's and
\* wide enough, and its expirations ascend within the range (snapshot_chain).
THEOREM WholeChainsAreTaken == ChainIsWhole
<1> SUFFICES ASSUME NEW one \in [exchange : {"SMART", "CBOE"}, strikes : SUBSET (1 .. 3), days : {{0, 2, 4, 7}}],
                    NEW two \in [exchange : {"SMART", "CBOE"}, strikes : SUBSET (1 .. 3), days : {{0, 2, 4, 7}}],
                    NEW chains \in {<<>>, <<one>>, <<one, two>>}
             PROVE  /\ (\E c \in ToSet(chains) : c.strikes # {}) => Chosen(chains) # {}
                    /\ \A c \in Chosen(chains), d \in ToSet(chains) :
                         /\ Width(c) >= Width(d) \/ (c.exchange = "SMART" /\ Width(c) >= Enough)
                         /\ d.exchange = "SMART" /\ Width(d) >= Enough => c.exchange = "SMART"
                    /\ \A chain \in Chain(TRUE, chains, 1, 5) : chain.expirations = <<2, 4>>
                    /\ Chain(FALSE, chains, 1, 5) = {}
  BY DEF ChainIsWhole
<1> DEFINE smart == {chains[i] : i \in {j \in DOMAIN chains : /\ chains[j].exchange = "SMART"
                                                             /\ \A k \in 1 .. j - 1 : chains[k].exchange # "SMART"}}
           fits(s) == Width(s) >= Enough \/ s \in Widest(chains)
<1>1. /\ ToSet(chains) = {chains[i] : i \in DOMAIN chains} /\ ToSet(chains) \subseteq {one, two}
      /\ DOMAIN chains = 1 .. Len(chains) /\ Len(chains) \in 0 .. 2
  BY DEF ToSet
<1>2. \A c \in ToSet(chains) : Width(c) \in Nat /\ c.days = {0, 2, 4, 7} /\ (c.strikes # {} => Width(c) > 0)
                               /\ (c.strikes = {} => Width(c) = 0)
  <2> SUFFICES ASSUME NEW c \in {one, two}
               PROVE  Width(c) \in Nat /\ c.days = {0, 2, 4, 7} /\ (c.strikes # {} => Width(c) > 0)
                      /\ (c.strikes = {} => Width(c) = 0)
    BY <1>1
  <2>1. c.strikes \subseteq 1 .. 3 /\ c.days = {0, 2, 4, 7}
    OBVIOUS
  <2>2. IsFiniteSet(c.strikes)
    <3>1. \A n, m \in Int : IsFiniteSet(n .. m)
      BY FS_Interval
    <3>2. QED
      BY <2>1, <3>1, FS_Subset
  <2>3. Cardinality(c.strikes) \in Nat /\ (Cardinality(c.strikes) = 0 <=> c.strikes = {})
    BY <2>2, FS_CardinalityType, FS_EmptySet
  <2>4. QED
    BY <2>1, <2>3 DEF Width
<1>3. Chosen(chains) = IF \E s \in smart : fits(s) THEN smart ELSE {c \in Widest(chains) : c.strikes # {}}
  BY DEF Chosen
<1>4. /\ smart \subseteq ToSet(chains) /\ \A s \in smart : s.exchange = "SMART"
      /\ \A s, t \in smart : s = t
      /\ \A d \in ToSet(chains) : d.exchange = "SMART" => smart # {}
  <2>1. CASE chains = <<>>
    BY <1>1, <2>1
  <2>2. CASE chains = <<one>>
    BY <1>1, <2>2
  <2>3. CASE chains = <<one, two>>
    <3>1. chains[1] = one /\ chains[2] = two /\ DOMAIN chains = {1, 2} /\ ToSet(chains) = {one, two}
      BY <1>1, <2>3
    <3>2. smart = IF one.exchange = "SMART" THEN {one} ELSE IF two.exchange = "SMART" THEN {two} ELSE {}
      <4>1. {j \in DOMAIN chains : /\ chains[j].exchange = "SMART"
                                   /\ \A k \in 1 .. j - 1 : chains[k].exchange # "SMART"}
              = IF one.exchange = "SMART" THEN {1} ELSE IF two.exchange = "SMART" THEN {2} ELSE {}
        BY <3>1
      <4>2. QED
        BY <3>1, <4>1
    <3> HIDE DEF smart
    <3>3. QED
      BY <3>1, <3>2
  <2>4. QED
    BY <2>1, <2>2, <2>3
<1>5. Widest(chains) = {c \in ToSet(chains) : \A d \in ToSet(chains) : Width(d) <= Width(c)}
  BY DEF Widest
<1> HIDE DEF smart
<1>6. ToSet(chains) # {} => Widest(chains) # {}
  <2>1. ASSUME NEW c \in ToSet(chains) PROVE Widest(chains) # {}
    <3>1. \A d \in {one, two} \cap ToSet(chains) : Width(d) \in Nat
      BY <1>2
    <3>2. ToSet(chains) = {one} \/ ToSet(chains) = {two} \/ ToSet(chains) = {one, two}
      BY <1>1, <2>1
    <3>3. CASE ToSet(chains) = {one} \/ ToSet(chains) = {two}
      BY <1>5, <3>1, <3>3
    <3>4. CASE ToSet(chains) = {one, two}
      <4>1. Width(one) <= Width(two) \/ Width(two) <= Width(one)
        BY <3>1, <3>4
      <4>2. Width(one) <= Width(one) /\ Width(two) <= Width(two)
        BY <3>1, <3>4
      <4>3. QED
        BY <1>5, <3>4, <4>1, <4>2
    <3>5. QED
      BY <3>2, <3>3, <3>4
  <2>2. QED
    BY <2>1
<1>7. Chosen(chains) \subseteq ToSet(chains)
  BY <1>3, <1>4, <1>5
<1>8. ASSUME NEW x \in ToSet(chains), x.strikes # {} PROVE Chosen(chains) # {}
  <2>1. PICK c \in Widest(chains) : TRUE
    BY <1>6
  <2>2. c \in ToSet(chains) /\ Width(x) <= Width(c)
    BY <1>5
  <2>3. c.strikes # {}
    BY <1>2, <1>8, <2>2
  <2>4. QED
    BY <1>3, <2>1, <2>3
<1>9. ASSUME NEW c \in Chosen(chains), NEW d \in ToSet(chains)
      PROVE  /\ Width(c) >= Width(d) \/ (c.exchange = "SMART" /\ Width(c) >= Enough)
             /\ d.exchange = "SMART" /\ Width(d) >= Enough => c.exchange = "SMART"
  <2>1. CASE \E s \in smart : fits(s)
    <3>1. c \in smart /\ fits(c) /\ c.exchange = "SMART"
      BY <1>3, <1>4, <2>1
    <3>2. CASE Width(c) >= Enough
      BY <3>1, <3>2
    <3>3. CASE c \in Widest(chains)
      <4>1. Width(d) <= Width(c) /\ Width(c) \in Nat /\ Width(d) \in Nat
        BY <1>2, <1>5, <3>3
      <4>2. QED
        BY <3>1, <4>1
    <3>4. QED
      BY <3>1, <3>2, <3>3
  <2>2. CASE ~\E s \in smart : fits(s)
    <3>1. c \in Widest(chains)
      BY <1>3, <2>2
    <3>2. Width(d) <= Width(c) /\ Width(c) \in Nat /\ Width(d) \in Nat
      BY <1>2, <1>5, <3>1
    <3>3. ASSUME d.exchange = "SMART", Width(d) >= Enough PROVE c.exchange = "SMART"
      <4>1. PICK s \in smart : TRUE
        BY <1>4, <3>3
      <4>2. s # d /\ s \in {one, two} /\ d \in {one, two} /\ s.exchange = "SMART"
        BY <1>1, <1>4, <2>2, <3>3, <4>1
      <4>3. c \in {one, two}
        BY <1>1, <1>7
      <4>4. c = s \/ c = d
        BY <4>2, <4>3
      <4>5. QED
        BY <3>3, <4>2, <4>4
    <3>4. QED
      BY <3>2, <3>3
  <2>3. QED
    BY <2>1, <2>2
<1>10. \A chain \in Chain(TRUE, chains, 1, 5) : chain.expirations = <<2, 4>>
  <2> SUFFICES ASSUME NEW c \in Chosen(chains)
               PROVE  Expirations(c.days, 1, 5) = <<2, 4>>
    BY DEF Chain
  <2>1. c.days = {0, 2, 4, 7}
    BY <1>2, <1>7
  <2>2. {d \in c.days : 1 <= d /\ d <= 5} = {2, 4}
    BY <2>1
  <2>3. QED
    BY <2>2, TwoAscend DEF Expirations
<1>11. Chain(FALSE, chains, 1, 5) = {}
  BY DEF Chain
<1>12. QED
  BY <1>8, <1>9, <1>10, <1>11

\* The three legs a row is priced with are those of its own strikes, whichever contracts are
\* listed; a combination is dropped only for a strike that is not, or for its worth
\* (snapshot_option_quotes, generate).
THEOREM RowsArePricedByTheirLegs == RowsAreOfTheirLegs
<1> SUFFICES ASSUME NEW side \in {"call", "put"}, NEW listed \in SUBSET (0 .. 4), NEW peak \in Amounts
             PROVE  LET combos == Triples(side, <<0, 1, 2, 3, 4>>)
                        Leg(s) == [side |-> side, strike |-> s]
                        legs == [i \in 1 .. 5 |-> Leg(i - 1)]
                        Cost(s) == IF s = peak THEN 5 ELSE s
                        tickers == [l \in ToSet(legs) |->
                                      [bid |-> Cost(l.strike), ask |-> Cost(l.strike), last |-> Cost(l.strike),
                                       bidSize |-> 1, callOi |-> NaN, putOi |-> NaN]]
                        rows == Rows(combos, Snapshot(legs, {Leg(s) : s \in listed}, tickers))
                        Worth(c) == Cost(c.a) + Cost(c.b) - 2 * Cost(c.body)
                    IN /\ \A row \in rows : row.premium = 2 * Worth(row.combo)
                       /\ {row.combo : row \in rows}
                            = {c \in combos : Strikes(c) \subseteq listed /\ 2 * Worth(c) <= -MinCredit}
  BY Zenon DEF RowsAreOfTheirLegs
<1> DEFINE combos == Triples(side, <<0, 1, 2, 3, 4>>)
           Leg(s) == [side |-> side, strike |-> s]
           legs == [i \in 1 .. 5 |-> Leg(i - 1)]
           Cost(s) == IF s = peak THEN 5 ELSE s
           tickers == [l \in ToSet(legs) |->
                         [bid |-> Cost(l.strike), ask |-> Cost(l.strike), last |-> Cost(l.strike),
                          bidSize |-> 1, callOi |-> NaN, putOi |-> NaN]]
           Listed == {Leg(s) : s \in listed}
           snapshot == Snapshot(legs, Listed, tickers)
           rows == Rows(combos, snapshot)
           Worth(c) == Cost(c.a) + Cost(c.b) - 2 * Cost(c.body)
<1>1. \A c \in combos : c.side = side /\ Strikes(c) \subseteq 0 .. 4
  <2> DEFINE own == <<0, 1, 2, 3, 4>>
  <2>1. Len(own) = 5 /\ \A i \in 1 .. 5 : own[i] \in 0 .. 4
    OBVIOUS
  <2> HIDE DEF own
  <2>2. SUFFICES ASSUME NEW c \in Triples(side, own)
                 PROVE  c.side = side /\ Strikes(c) \subseteq 0 .. 4
    BY DEF own
  <2>3. PICK w \in [at : 1 .. Len(own), left : WingMin .. WingMax, right : WingMin .. WingMax] :
          /\ w.left < w.at /\ w.at + w.right <= Len(own)
          /\ c = [side |-> side, a |-> own[w.at - w.left], body |-> own[w.at], b |-> own[w.at + w.right]]
    BY DEF Triples
  <2>4. w.at - w.left \in 1 .. 5 /\ w.at \in 1 .. 5 /\ w.at + w.right \in 1 .. 5
    BY <2>1, <2>3, EngineAssumption
  <2>5. QED
    BY <2>1, <2>3, <2>4 DEF Strikes
<1>2. /\ \A i \in 1 .. 5 : legs[i] = Leg(i - 1) /\ DOMAIN legs = 1 .. 5
      /\ \A s \in 0 .. 4 : Leg(s) \in ToSet(legs) /\ legs[s + 1] = Leg(s) /\ s + 1 \in 1 .. 5
      /\ \A s, u : Leg(s) = Leg(u) => s = u
  <2>1. DOMAIN legs = 1 .. 5 /\ \A i \in 1 .. 5 : legs[i] = Leg(i - 1)
    OBVIOUS
  <2>2. \A s, u : Leg(s) = Leg(u) => s = u
    <3>1. \A s : Leg(s).strike = s
      OBVIOUS
    <3> HIDE DEF Leg
    <3>2. QED
      BY <3>1
  <2> HIDE DEF Leg, legs
  <2>3. \A s \in 0 .. 4 : legs[s + 1] = Leg(s) /\ s + 1 \in 1 .. 5
    BY <2>1
  <2>4. \A s \in 0 .. 4 : Leg(s) \in ToSet(legs)
    BY <2>1, <2>3 DEF ToSet
  <2>5. QED
    BY <2>1, <2>2, <2>3, <2>4
<1>3. \A s \in 0 .. 4 : tickers[Leg(s)] = [bid |-> Cost(s), ask |-> Cost(s), last |-> Cost(s),
                                            bidSize |-> 1, callOi |-> NaN, putOi |-> NaN]
  <2> HIDE DEF legs, Cost
  <2>1. \A s : Leg(s).strike = s
    OBVIOUS
  <2> HIDE DEF Leg
  <2>2. QED
    BY <1>2, <2>1
<1>4. \A s \in 0 .. 4 : Leg(s) \in [side : {"call", "put"}, strike : Nat]
  OBVIOUS
<1>5. \A s \in 0 .. 4 : Cost(s) \in Nat
  OBVIOUS
<1>6. /\ DOMAIN snapshot = Listed
      /\ \A s \in listed : snapshot[Leg(s)] = AsQuote(Leg(s), tickers[Leg(s)])
  <2> DEFINE qualified == Qualify(legs, Listed)
             sent == {i \in DOMAIN legs : qualified[i] # NoContract}
  <2> HIDE DEF tickers
  <2>0. DOMAIN legs = 1 .. 5
    BY <1>2
  <2>1. \A i \in 1 .. 5 : qualified[i] = IF legs[i] \in Listed THEN legs[i] ELSE NoContract
    <3> HIDE DEF legs, Listed
    <3>1. QED
      BY <2>0 DEF Qualify
  <2>l. \A s : Leg(s) \in Listed <=> s \in listed
    <3>1. \A s, u : Leg(s) = Leg(u) => s = u
      BY <1>2
    <3> HIDE DEF Leg
    <3>2. QED
      BY <3>1
  <2>2. \A i \in 1 .. 5 : qualified[i] = IF i - 1 \in listed THEN Leg(i - 1) ELSE NoContract
    <3>1. \A i \in 1 .. 5 : legs[i] = Leg(i - 1)
      BY <1>2
    <3> HIDE DEF qualified, legs, Listed, Leg
    <3>2. QED
      BY <2>1, <2>l, <3>1
  <2>3. \A i \in 1 .. 5 : i \in sent <=> i - 1 \in listed
    <3>1. \A i \in 1 .. 5 : i - 1 \in 0 .. 4
      OBVIOUS
    <3>2. \A i \in 1 .. 5 : Leg(i - 1) # NoContract
      BY <1>4, <3>1, SnapshotAssumption
    <3> HIDE DEF qualified, legs, Listed, Leg
    <3>3. QED
      BY <2>0, <2>2, <3>2
  <2>4. sent \subseteq 1 .. 5
    BY <2>0
  <2>5. DOMAIN snapshot = {legs[i] : i \in sent}
        /\ \A leg \in {legs[i] : i \in sent} :
             snapshot[leg] = LET i == CHOOSE j \in sent : legs[j] = leg IN AsQuote(qualified[i], tickers[qualified[i]])
    <3> HIDE DEF legs, Listed
    <3>1. QED
      BY DEF Snapshot
  <2> HIDE DEF snapshot, sent, qualified, legs, Leg
  <2>6. ASSUME NEW s \in listed
        PROVE  Leg(s) \in {legs[i] : i \in sent} /\ snapshot[Leg(s)] = AsQuote(Leg(s), tickers[Leg(s)])
    <3>1. s \in 0 .. 4 /\ s + 1 \in 1 .. 5 /\ legs[s + 1] = Leg(s) /\ (s + 1) - 1 = s
      BY <1>2
    <3>2. s + 1 \in sent
      BY <2>3, <3>1
    <3>3. Leg(s) \in {legs[i] : i \in sent}
      BY <3>1, <3>2
    <3>4. \A j \in sent : legs[j] = Leg(s) => j = s + 1
      <4> SUFFICES ASSUME NEW j \in sent, legs[j] = Leg(s) PROVE j = s + 1
        OBVIOUS
      <4>1. j \in 1 .. 5 /\ Leg(j - 1) = Leg(s)
        BY <1>2, <2>4
      <4>2. j - 1 = s
        BY <1>2, <4>1
      <4>3. QED
        BY <3>1, <4>1, <4>2
    <3>5. (CHOOSE j \in sent : legs[j] = Leg(s)) = s + 1
      BY <3>1, <3>2, <3>4
    <3>6. qualified[s + 1] = Leg(s)
      BY <2>2, <3>1
    <3>7. QED
      BY <2>5, <3>3, <3>5, <3>6
  <2>7. {legs[i] : i \in sent} = Listed
    <3>1. ASSUME NEW i \in sent PROVE legs[i] \in Listed
      <4>1. i \in 1 .. 5 /\ legs[i] = Leg(i - 1) /\ i - 1 \in listed
        BY <1>2, <2>3, <2>4
      <4>2. QED
        BY <4>1
    <3>2. QED
      BY <2>6, <3>1
  <2>8. QED
    BY <2>5, <2>6, <2>7
<1>7. \A s \in listed : /\ Leg(s) \in DOMAIN snapshot /\ snapshot[Leg(s)].mid = 2 * Cost(s)
                        /\ snapshot[Leg(s)].oi = Unknown
  <2> SUFFICES ASSUME NEW s \in listed
               PROVE  /\ Leg(s) \in DOMAIN snapshot /\ snapshot[Leg(s)].mid = 2 * Cost(s)
                      /\ snapshot[Leg(s)].oi = Unknown
    OBVIOUS
  <2>1. Leg(s) \in DOMAIN snapshot
    BY <1>6
  <2> HIDE DEF snapshot, tickers, Leg, Cost
  <2>2. /\ snapshot[Leg(s)].mid = Mid2(Field(Cost(s)), Field(Cost(s)), Field(Cost(s)))
        /\ snapshot[Leg(s)].oi = IF NaN > 0 THEN NaN ELSE IF NaN > 0 THEN NaN ELSE Unknown
    <3> DEFINE tick == [bid |-> Cost(s), ask |-> Cost(s), last |-> Cost(s),
                        bidSize |-> 1, callOi |-> NaN, putOi |-> NaN]
    <3>1. s \in 0 .. 4
      OBVIOUS
    <3>2. snapshot[Leg(s)] = AsQuote(Leg(s), tick)
      BY <1>3, <1>6, <3>1
    <3>3. /\ tick.bid = Cost(s) /\ tick.ask = Cost(s) /\ tick.last = Cost(s)
          /\ tick.callOi = NaN /\ tick.putOi = NaN
      OBVIOUS
    <3> HIDE DEF tick
    <3>4. QED
      BY <3>2, <3>3 DEF AsQuote, OpenInterest
  <2>3. Cost(s) \in Nat
    BY <1>5
  <2>4. QED
    BY <2>1, <2>2, <2>3 DEF Mid2, Field, NaN, Unknown
<1>8. \A s \in 0 .. 4 : Leg(s) \in DOMAIN snapshot <=> s \in listed
  <2>1. \A s, u : Leg(s) = Leg(u) => s = u
    BY <1>2
  <2> HIDE DEF Leg, snapshot
  <2>2. QED
    BY <1>6, <2>1
<1> HIDE DEF combos, legs, tickers, snapshot, Listed, Cost
<1> DEFINE Q(c, s) == snapshot[[side |-> c.side, strike |-> s]]
           Made(c) == Row(c, Q(c, c.a), Q(c, c.body), Q(c, c.b))
           Good(c) == Strikes(c) \subseteq listed /\ 2 * Worth(c) <= -MinCredit
<1>9. ASSUME NEW c \in combos
      PROVE  (\A s \in Strikes(c) : [side |-> c.side, strike |-> s] \in DOMAIN snapshot)
               <=> Strikes(c) \subseteq listed
  <2>1. c.side = side /\ Strikes(c) \subseteq 0 .. 4
    BY <1>1
  <2>2. \A s \in Strikes(c) : [side |-> c.side, strike |-> s] = Leg(s)
    BY <2>1
  <2> HIDE DEF Leg
  <2>3. QED
    BY <1>8, <2>1, <2>2
<1>10. ASSUME NEW c \in combos, Strikes(c) \subseteq listed
       PROVE  /\ Premium(Q(c, c.a), Q(c, c.body), Q(c, c.b)) = 2 * Worth(c)
              /\ Kept(Q(c, c.a), Q(c, c.body), Q(c, c.b)) <=> 2 * Worth(c) <= -MinCredit
  <2>1. c.side = side /\ c.a \in listed /\ c.body \in listed /\ c.b \in listed
        /\ c.a \in 0 .. 4 /\ c.body \in 0 .. 4 /\ c.b \in 0 .. 4
    BY <1>1, <1>10 DEF Strikes
  <2>2. Q(c, c.a) = snapshot[Leg(c.a)] /\ Q(c, c.body) = snapshot[Leg(c.body)] /\ Q(c, c.b) = snapshot[Leg(c.b)]
    BY <2>1
  <2> DEFINE qa == Q(c, c.a)
             qbody == Q(c, c.body)
             qb == Q(c, c.b)
  <2> HIDE DEF Q, Leg
  <2>3. /\ qa.mid = 2 * Cost(c.a) /\ qbody.mid = 2 * Cost(c.body) /\ qb.mid = 2 * Cost(c.b)
        /\ qa.oi = Unknown /\ qbody.oi = Unknown /\ qb.oi = Unknown
    BY <1>7, <2>1, <2>2
  <2>4. Cost(c.a) \in Nat /\ Cost(c.body) \in Nat /\ Cost(c.b) \in Nat
    BY <1>5, <2>1
  <2> HIDE DEF qa, qbody, qb
  <2>5. Premium(qa, qbody, qb) = 2 * Worth(c)
    BY <2>3, <2>4 DEF Premium
  <2>6. Unknown \notin {qa.mid, qbody.mid, qb.mid}
    BY <2>3, <2>4 DEF Unknown
  <2>7. \A q \in {qa, qbody, qb} : q.oi = Unknown
    BY <2>3
  <2> HIDE DEF Worth
  <2>8. Kept(qa, qbody, qb) <=> 2 * Worth(c) <= -MinCredit
    BY <2>5, <2>6, <2>7 DEF Kept
  <2>9. QED
    BY <2>5, <2>8 DEF qa, qbody, qb
<1> HIDE DEF Worth
<1>11. rows = {Made(c) : c \in {x \in combos : Good(x)}}
  <2>1. rows = {Made(c) : c \in {x \in {y \in combos : \A s \in Strikes(y) :
                                                         [side |-> y.side, strike |-> s] \in DOMAIN snapshot} :
                                   Kept(Q(x, x.a), Q(x, x.body), Q(x, x.b))}}
    BY DEF Rows
  <2> HIDE DEF Made, Q
  <2>2. QED
    BY <1>9, <1>10, <2>1
<1>12. \A c : Made(c).combo = c /\ Made(c).premium = Premium(Q(c, c.a), Q(c, c.body), Q(c, c.b))
  BY DEF Row
<1> HIDE DEF Made, rows, Q
<1>13. \A row \in rows : row.premium = 2 * Worth(row.combo)
  BY <1>10, <1>11, <1>12
<1>14. {row.combo : row \in rows} = {c \in combos : Good(c)}
  BY <1>11, <1>12
<1>15. QED
  BY <1>13, <1>14 DEF rows, snapshot, Listed, tickers, legs, Leg, Cost, combos, Worth

\* For all inputs: the closed-form margin covers the loss; a shown row's margin, live or
\* placeholder, covers it or is the broker's for that row; its liquidity can be filled, rows
\* are ranked by merit, every combination is tried and priced by its own legs, and no answer
\* of IBKR is misread.
THEOREM RowsStayHonest == RowsAreHonest
BY MarginsCoverLosses, ShownMarginsStayBacked, LiquidityIsFilled, BetterRowsRankHigher,
   EveryCombinationIsTried, WholeChainsAreTaken, RowsArePricedByTheirLegs, FieldsStaySound
   DEF RowsAreHonest

-----------------------------------------------------------------------------
(* The budget of the WhatIf orders.                                        *)

\* Induction over a set of numbers: the least number outside it would have a
\* predecessor inside.
LEMMA Induction ==
  ASSUME NEW T, 0 \in T, \A n \in Nat : n \in T => n + 1 \in T
  PROVE  Nat \subseteq T
<1> DEFINE Bad == {n \in Nat : n \notin T}
           R == OpToRel(<, Nat)
<1>1. IsWellFoundedOn(R, Nat)
  BY NatLessThanWellFounded
<1>2. \A x, y \in Nat : x < y => <<x, y>> \in R
  BY DEF OpToRel
<1> HIDE DEF R
<1> SUFFICES ASSUME Bad # {} PROVE FALSE
  OBVIOUS
<1>3. PICK n \in Bad : \A m \in Bad : ~ (<<m, n>> \in R)
  BY <1>1, WFMin
<1>4. n - 1 \in Bad /\ n \in Nat /\ n - 1 \in Nat /\ n - 1 < n
  BY <1>3
<1> HIDE DEF Bad
<1>5. QED
  BY <1>2, <1>3, <1>4

\* g lists the orders granted after each of the first N times.
Ledger(g, N, times) ==
  /\ g \in [0 .. N -> Seq(Int)]
  /\ g[0] = <<>>
  /\ \A i \in 1 .. N : g[i] = Acquired(g[i - 1], times[i])

\* The ledger of orders stays a sequence of times.
LEMMA AcquiredGrows ==
  ASSUME NEW s \in Seq(Int), NEW t \in Int
  PROVE  Acquired(s, t) \in Seq(Int)
BY DEF Acquired

\* The ledger of any sequence of askings has a value.
LEMMA LedgerExists ==
  ASSUME NEW N \in Nat, NEW times, \A i \in 1 .. N : times[i] \in Int
  PROVE  \E g : Ledger(g, N, times)
<1> DEFINE T == {n \in Nat : n <= N => \E g : Ledger(g, n, times)}
<1>1. 0 \in T
  <2>1. Ledger([i \in 0 .. 0 |-> <<>>], 0, times)
    BY DEF Ledger
  <2>2. QED
    BY <2>1
<1>2. ASSUME NEW n \in Nat, n \in T PROVE n + 1 \in T
  <2> SUFFICES ASSUME n + 1 <= N PROVE \E g : Ledger(g, n + 1, times)
    OBVIOUS
  <2>1. PICK g : Ledger(g, n, times)
    BY <1>2
  <2> DEFINE new == Acquired(g[n], times[n + 1])
             h == [i \in 0 .. n + 1 |-> IF i = n + 1 THEN new ELSE g[i]]
  <2>2. g \in [0 .. n -> Seq(Int)] /\ g[0] = <<>> /\ \A i \in 1 .. n : g[i] = Acquired(g[i - 1], times[i])
    BY <2>1 DEF Ledger
  <2>3. new \in Seq(Int)
    <3>1. g[n] \in Seq(Int) /\ times[n + 1] \in Int
      BY <2>2
    <3>2. QED
      BY <3>1, AcquiredGrows
  <2>4. ASSUME NEW i \in 1 .. n + 1 PROVE h[i] = Acquired(h[i - 1], times[i])
    <3>1. h[i - 1] = g[i - 1]
      OBVIOUS
    <3>2. CASE i = n + 1
      BY <3>1, <3>2
    <3>3. CASE i # n + 1
      BY <2>2, <3>1, <3>3
    <3>4. QED
      BY <3>2, <3>3
  <2> HIDE DEF new
  <2>5. h \in [0 .. n + 1 -> Seq(Int)] /\ h[0] = <<>>
    BY <2>2, <2>3
  <2> HIDE DEF h
  <2>6. Ledger(h, n + 1, times)
    BY <2>4, <2>5 DEF Ledger
  <2>7. QED
    BY <2>6
<1>3. N \in T
  <2> HIDE DEF T
  <2>1. QED
    BY <1>1, <1>2, Induction
<1>4. QED
  BY <1>3

\* Grants is the last entry of such a ledger.
LEMMA GrantsAreTheLast ==
  ASSUME NEW times \in Seq(Int)
  PROVE  \E g : Ledger(g, Len(times), times) /\ Grants(times) = g[Len(times)]
<1> DEFINE N == Len(times)
           Rec(f) == f = [n \in 0 .. N |-> IF n = 0 THEN <<>> ELSE Acquired(f[n - 1], times[n])]
<1>1. N \in Nat /\ \A i \in 1 .. N : times[i] \in Int
  OBVIOUS
<1>2. PICK g : Ledger(g, N, times)
  BY <1>1, LedgerExists
<1>3. g \in [0 .. N -> Seq(Int)] /\ g[0] = <<>> /\ \A i \in 1 .. N : g[i] = Acquired(g[i - 1], times[i])
  BY <1>2 DEF Ledger
<1>4. Rec(g)
  BY <1>3
<1> DEFINE f == CHOOSE f : Rec(f)
<1>5. Rec(f)
  <2> HIDE DEF Rec
  <2>1. QED
    BY <1>4
<1>6. Grants(times) = f[N]
  BY DEF Grants
<1> HIDE DEF f
<1>7. \A n \in 0 .. N : f[n] = IF n = 0 THEN <<>> ELSE Acquired(f[n - 1], times[n])
  BY <1>5
<1>8. DOMAIN f = 0 .. N /\ f[0] = <<>> /\ \A i \in 1 .. N : f[i] = Acquired(f[i - 1], times[i])
  BY <1>1, <1>5, <1>7
<1> DEFINE T == {n \in Nat : n <= N => f[n] \in Seq(Int)}
<1>9. 0 \in T
  <2>1. f[0] \in Seq(Int)
    BY <1>8
  <2>2. QED
    BY <2>1
<1>10. ASSUME NEW n \in Nat, n \in T PROVE n + 1 \in T
  <2> SUFFICES ASSUME n + 1 <= N PROVE f[n + 1] \in Seq(Int)
    OBVIOUS
  <2>1. f[n] \in Seq(Int) /\ times[n + 1] \in Int /\ n + 1 \in 1 .. N /\ (n + 1) - 1 = n
    BY <1>1, <1>10
  <2>2. f[n + 1] = Acquired(f[n], times[n + 1])
    BY <1>8, <2>1
  <2>3. QED
    BY <2>1, <2>2, AcquiredGrows
<1>11. \A n \in 0 .. N : f[n] \in Seq(Int)
  <2>1. Nat \subseteq T
    <3> HIDE DEF T
    <3>1. QED
      BY <1>9, <1>10, Induction
  <2>2. QED
    BY <1>1, <2>1
<1>12. f = [n \in 0 .. N |-> f[n]]
  BY <1>5
<1>13. Ledger(f, N, times)
  BY <1>8, <1>11, <1>12 DEF Ledger
<1>14. QED
  BY <1>6, <1>13

\* The orders of the minute up to t, those of the time t, and the askings at it among the
\* first n.
InWindow(g, t) == {i \in DOMAIN g : g[i] > t - Window /\ g[i] <= t}
At(g, t) == {i \in DOMAIN g : g[i] = t}
Asked(times, n, t) == {j \in 1 .. n : times[j] = t}

\* No minute is over its budget, and at a time at which an order was refused it is used up.
BudgetInv(g, times, n) ==
  /\ \A i \in DOMAIN g : g[i] <= times[n]
  /\ \A t \in Int : Cardinality(InWindow(g, t)) <= WhatIfMax
  /\ \A t \in Int : \/ Cardinality(At(g, t)) >= Cardinality(Asked(times, n, t))
                    \/ Cardinality(InWindow(g, t)) = WhatIfMax

\* Every set of positions of a ledger is finite.
LEMMA IndicesAreFinite ==
  ASSUME NEW g \in Seq(Int), NEW S \in SUBSET (DOMAIN g)
  PROVE  IsFiniteSet(S) /\ Cardinality(S) \in Nat
<1>1. DOMAIN g = 1 .. Len(g) /\ Len(g) \in Nat
  OBVIOUS
<1>2. \A a, b \in Int : IsFiniteSet(a .. b)
  BY FS_Interval
<1>3. IsFiniteSet(DOMAIN g)
  BY <1>1, <1>2
<1>4. QED
  BY <1>3, FS_Subset, FS_CardinalityType

\* A new element makes a finite set larger by one.
LEMMA CountOne ==
  ASSUME NEW S, IsFiniteSet(S), NEW x, x \notin S
  PROVE  /\ IsFiniteSet(S \cup {x})
         /\ Cardinality(S \cup {x}) = Cardinality(S) + 1
BY FS_AddElement

\* A part of a finite set is finite and no larger.
LEMMA CountLess ==
  ASSUME NEW S, NEW T, IsFiniteSet(T), S \subseteq T
  PROVE  IsFiniteSet(S) /\ Cardinality(S) \in Nat /\ Cardinality(T) \in Nat /\ Cardinality(S) <= Cardinality(T)
BY FS_Subset, FS_CardinalityType

\* One asking more counts for its own minute and for no other.
LEMMA AskedGrows ==
  ASSUME NEW times, NEW n \in Nat, NEW t
  PROVE  /\ IsFiniteSet(Asked(times, n, t)) /\ Cardinality(Asked(times, n, t)) \in Nat
         /\ times[n + 1] # t => Asked(times, n + 1, t) = Asked(times, n, t)
         /\ times[n + 1] = t => Cardinality(Asked(times, n + 1, t)) = Cardinality(Asked(times, n, t)) + 1
<1>1. \A a, b \in Int : IsFiniteSet(a .. b)
  BY FS_Interval
<1>2. Asked(times, n, t) \subseteq 1 .. n
  BY DEF Asked
<1>3. IsFiniteSet(Asked(times, n, t)) /\ Cardinality(Asked(times, n, t)) \in Nat
  <2>1. IsFiniteSet(1 .. n)
    BY <1>1
  <2>2. QED
    BY <1>2, <2>1, CountLess
<1>4. ASSUME times[n + 1] # t PROVE Asked(times, n + 1, t) = Asked(times, n, t)
  <2>1. \A j \in 1 .. n + 1 : j \in 1 .. n \/ j = n + 1
    OBVIOUS
  <2>2. \A j \in 1 .. n : j \in 1 .. n + 1
    OBVIOUS
  <2>3. QED
    BY <1>4, <2>1, <2>2 DEF Asked
<1>5. ASSUME times[n + 1] = t PROVE Cardinality(Asked(times, n + 1, t)) = Cardinality(Asked(times, n, t)) + 1
  <2>1. Asked(times, n + 1, t) = Asked(times, n, t) \cup {n + 1}
    <3>1. \A j \in 1 .. n + 1 : j \in 1 .. n \/ j = n + 1
      OBVIOUS
    <3>2. (\A j \in 1 .. n : j \in 1 .. n + 1) /\ n + 1 \in 1 .. n + 1
      OBVIOUS
    <3>3. QED
      BY <1>5, <3>1, <3>2 DEF Asked
  <2>2. n + 1 \notin Asked(times, n, t)
    BY DEF Asked
  <2>3. QED
    BY <1>3, <2>1, <2>2, CountOne
<1>6. QED
  BY <1>3, <1>4, <1>5

\* Asking once more, at a time no earlier than the last, keeps to the budget.
LEMMA BudgetStep ==
  ASSUME NEW g \in Seq(Int), NEW times, NEW n \in Nat, times[n + 1] \in Int,
         n > 0 => times[n] \in Int /\ times[n] <= times[n + 1], n = 0 => g = <<>>,
         BudgetInv(g, times, n)
  PROVE  BudgetInv(Acquired(g, times[n + 1]), times, n + 1)
<1> DEFINE m == times[n + 1]
           new == Len(g) + 1
           h == Append(g, m)
<1>1. /\ WhatIfMax \in Nat \ {0} /\ Window \in Nat \ {0}
  BY EngineAssumption
<1>2. \A i \in DOMAIN g : g[i] \in Int /\ g[i] <= m
  <2>1. CASE n = 0
    BY <2>1
  <2>2. CASE n # 0
    <3>1. times[n] \in Int /\ times[n] <= m /\ \A i \in DOMAIN g : g[i] <= times[n] /\ g[i] \in Int
      BY <2>2 DEF BudgetInv
    <3> HIDE DEF m
    <3>2. m \in Int
      BY DEF m
    <3>3. QED
      BY <3>1, <3>2
  <2>3. QED
    BY <2>1, <2>2
<1>3. /\ \A t \in Int : Cardinality(InWindow(g, t)) <= WhatIfMax
      /\ \A t \in Int : \/ Cardinality(At(g, t)) >= Cardinality(Asked(times, n, t))
                        \/ Cardinality(InWindow(g, t)) = WhatIfMax
  BY DEF BudgetInv
<1>4. \A t : /\ IsFiniteSet(InWindow(g, t)) /\ Cardinality(InWindow(g, t)) \in Nat
             /\ IsFiniteSet(At(g, t)) /\ Cardinality(At(g, t)) \in Nat
             /\ IsFiniteSet(Recent(g, t)) /\ Cardinality(Recent(g, t)) \in Nat
  <2> SUFFICES ASSUME NEW t
               PROVE  /\ IsFiniteSet(InWindow(g, t)) /\ Cardinality(InWindow(g, t)) \in Nat
                      /\ IsFiniteSet(At(g, t)) /\ Cardinality(At(g, t)) \in Nat
                      /\ IsFiniteSet(Recent(g, t)) /\ Cardinality(Recent(g, t)) \in Nat
    OBVIOUS
  <2>1. InWindow(g, t) \in SUBSET (DOMAIN g) /\ At(g, t) \in SUBSET (DOMAIN g) /\ Recent(g, t) \in SUBSET (DOMAIN g)
    BY DEF InWindow, At, Recent
  <2>2. QED
    BY <2>1, IndicesAreFinite
<1>5. Recent(g, m) = InWindow(g, m)
  BY <1>2 DEF Recent, InWindow
<1>6. CASE Cardinality(Recent(g, m)) < WhatIfMax
  <2>1. Acquired(g, m) = h
    BY <1>6 DEF Acquired
  <2>2. /\ DOMAIN h = DOMAIN g \cup {new} /\ new \notin DOMAIN g /\ h[new] = m
        /\ \A i \in DOMAIN g : h[i] = g[i]
    OBVIOUS
  <2>m. m \in Int
    OBVIOUS
  <2> HIDE DEF h, new, m
  <2>3. \A i \in DOMAIN h : h[i] <= m
    BY <1>2, <2>2, <2>m
  <2>4. ASSUME NEW t \in Int, t < m
        PROVE  InWindow(h, t) = InWindow(g, t) /\ At(h, t) = At(g, t)
    BY <2>2, <2>4, <2>m DEF InWindow, At
  <2>5. ASSUME NEW t \in Int, t >= m
        PROVE  /\ InWindow(g, t) \subseteq InWindow(h, t)
               /\ InWindow(h, t) \subseteq Recent(g, m) \cup {new}
    <3>1. InWindow(g, t) \subseteq InWindow(h, t)
      BY <2>2 DEF InWindow
    <3>2. ASSUME NEW i \in DOMAIN g, g[i] > t - Window PROVE i \in Recent(g, m)
      BY <1>1, <1>2, <2>5, <2>m, <3>2 DEF Recent
    <3>3. InWindow(h, t) \subseteq Recent(g, m) \cup {new}
      BY <2>2, <3>2 DEF InWindow
    <3>4. QED
      BY <3>1, <3>3
  <2>6. /\ IsFiniteSet(Recent(g, m) \cup {new})
        /\ Cardinality(Recent(g, m) \cup {new}) = Cardinality(Recent(g, m)) + 1
    <3>1. new \notin Recent(g, m)
      BY <2>2 DEF Recent
    <3>2. QED
      BY <1>4, <3>1, CountOne
  <2>7. ASSUME NEW t \in Int PROVE Cardinality(InWindow(h, t)) <= WhatIfMax /\ Cardinality(InWindow(h, t)) \in Nat
                                   /\ Cardinality(InWindow(h, t)) >= Cardinality(InWindow(g, t))
    <3>1. CASE t < m
      BY <1>1, <1>3, <1>4, <2>4, <3>1
    <3>2. CASE t >= m
      <4>1. /\ IsFiniteSet(InWindow(h, t)) /\ Cardinality(InWindow(h, t)) \in Nat
            /\ Cardinality(InWindow(h, t)) <= Cardinality(Recent(g, m)) + 1
        BY <2>5, <2>6, <3>2, CountLess
      <4>2. Cardinality(InWindow(g, t)) <= Cardinality(InWindow(h, t))
        BY <2>5, <3>2, <4>1, CountLess
      <4>3. QED
        BY <1>1, <1>4, <1>6, <4>1, <4>2
    <3>3. QED
      BY <2>m, <3>1, <3>2
  <2>8. ASSUME NEW t \in Int
        PROVE  \/ Cardinality(At(h, t)) >= Cardinality(Asked(times, n + 1, t))
               \/ Cardinality(InWindow(h, t)) = WhatIfMax
    <3>1. CASE t # m
      <4>1. At(h, t) = At(g, t)
        BY <2>2, <3>1 DEF At
      <4>2. Asked(times, n + 1, t) = Asked(times, n, t)
        BY <3>1, AskedGrows DEF m
      <4>3. QED
        BY <1>1, <1>3, <1>4, <2>7, <4>1, <4>2
    <3>2. CASE t = m
      <4>1. At(h, t) = At(g, t) \cup {new} /\ new \notin At(g, t)
        BY <2>2, <3>2 DEF At
      <4>2. Cardinality(At(h, t)) = Cardinality(At(g, t)) + 1
        BY <1>4, <4>1, CountOne
      <4>3. /\ Cardinality(Asked(times, n + 1, t)) = Cardinality(Asked(times, n, t)) + 1
            /\ Cardinality(Asked(times, n, t)) \in Nat
        BY <3>2, AskedGrows DEF m
      <4>4. Cardinality(InWindow(g, t)) # WhatIfMax
        BY <1>1, <1>4, <1>5, <1>6, <3>2
      <4>5. QED
        BY <1>3, <1>4, <4>2, <4>3, <4>4
    <3>3. QED
      BY <3>1, <3>2
  <2>9. QED
    BY <2>1, <2>3, <2>7, <2>8 DEF BudgetInv, m
<1>7. CASE ~(Cardinality(Recent(g, m)) < WhatIfMax)
  <2>1. Acquired(g, m) = g
    BY <1>7 DEF Acquired
  <2>2. ASSUME NEW t \in Int
        PROVE  \/ Cardinality(At(g, t)) >= Cardinality(Asked(times, n + 1, t))
               \/ Cardinality(InWindow(g, t)) = WhatIfMax
    <3>1. CASE t # m
      <4>1. Asked(times, n + 1, t) = Asked(times, n, t)
        BY <3>1, AskedGrows
      <4>2. QED
        BY <1>3, <4>1
    <3>2. CASE t = m
      <4>1. Cardinality(InWindow(g, t)) <= WhatIfMax /\ Cardinality(InWindow(g, t)) \in Nat
        BY <1>3, <1>4
      <4>2. ~(Cardinality(InWindow(g, t)) < WhatIfMax)
        BY <1>5, <1>7, <3>2
      <4>3. QED
        BY <1>1, <4>1, <4>2
    <3>3. QED
      BY <3>1, <3>2
  <2>3. QED
    BY <1>2, <1>3, <2>1, <2>2 DEF BudgetInv
<1>8. QED
  BY <1>6, <1>7

\* For every budget and minute: whenever the orders are asked for, no minute has more than
\* WhatIfMax of them, and none is refused while its minute has room (WhatIfBudget.acquire).
THEOREM BudgetIsSpent == BudgetIsKept
<1> SUFFICES ASSUME NEW times \in [1 .. WhatIfMax + 2 -> Amounts],
                    \A i \in 1 .. Len(times) - 1 : times[i] <= times[i + 1]
             PROVE  /\ \A t \in Amounts : Cardinality(InWindow(Grants(times), t)) <= WhatIfMax
                    /\ \A i \in DOMAIN times :
                         Cardinality(At(Grants(times), times[i]))
                             < Cardinality({j \in DOMAIN times : times[j] = times[i]})
                           => Cardinality(InWindow(Grants(times), times[i])) = WhatIfMax
  BY DEF BudgetIsKept, InWindow, At
<1> DEFINE N == WhatIfMax + 2
<1>1. /\ N \in Nat /\ Amounts \subseteq Int /\ WhatIfMax \in Nat
  BY EngineAssumption
<1>2. times \in Seq(Int) /\ Len(times) = N /\ DOMAIN times = 1 .. N /\ \A i \in 1 .. N : times[i] \in Amounts
  <2>1. times \in [1 .. N -> Amounts]
    OBVIOUS
  <2> HIDE DEF N
  <2>2. DOMAIN times = 1 .. N /\ \A i \in 1 .. N : times[i] \in Amounts
    BY <2>1
  <2>3. times \in [1 .. N -> Int]
    BY <1>1, <2>1
  <2>4. times \in Seq(Int)
    BY <1>1, <2>3
  <2>5. Len(times) = N
    BY <1>1, <2>2, <2>4
  <2>6. QED
    BY <2>2, <2>4, <2>5
<1> HIDE DEF N
<1>3. PICK g : Ledger(g, Len(times), times) /\ Grants(times) = g[Len(times)]
  BY <1>2, GrantsAreTheLast
<1>4. /\ g \in [0 .. N -> Seq(Int)] /\ g[0] = <<>>
      /\ \A i \in 1 .. N : g[i] = Acquired(g[i - 1], times[i])
      /\ Grants(times) = g[N]
  BY <1>2, <1>3 DEF Ledger
<1> DEFINE T == {n \in Nat : n <= N => BudgetInv(g[n], times, n)}
<1>5. 0 \in T
  <2>1. \A t : InWindow(<<>>, t) = {} /\ At(<<>>, t) = {} /\ Asked(times, 0, t) = {}
    BY DEF InWindow, At, Asked
  <2>2. Cardinality({}) = 0
    BY FS_EmptySet
  <2>3. BudgetInv(<<>>, times, 0)
    <3>1. DOMAIN <<>> = {}
      OBVIOUS
    <3> DEFINE e == <<>>
    <3>2. /\ DOMAIN e = {} /\ \A t : InWindow(e, t) = {} /\ At(e, t) = {}
      BY <2>1, <3>1
    <3> HIDE DEF e
    <3>3. BudgetInv(e, times, 0)
      <4>1. \A i \in DOMAIN e : e[i] <= times[0]
        BY <3>2
      <4>2. \A t : /\ Cardinality(InWindow(e, t)) = 0 /\ Cardinality(At(e, t)) = 0
                   /\ Cardinality(Asked(times, 0, t)) = 0
        BY <2>1, <2>2, <3>2
      <4>3. 0 <= WhatIfMax
        BY <1>1
      <4>4. QED
        BY <4>1, <4>2, <4>3 DEF BudgetInv
    <3>4. QED
      BY <3>3 DEF e
  <2>4. QED
    BY <1>4, <2>3
<1>6. ASSUME NEW n \in Nat, n \in T PROVE n + 1 \in T
  <2> SUFFICES ASSUME n + 1 <= N PROVE BudgetInv(g[n + 1], times, n + 1)
    OBVIOUS
  <2>1. /\ n + 1 \in 1 .. N /\ (n + 1) - 1 = n /\ n \in 0 .. N /\ (n > 0 => n \in 1 .. N /\ n \in 1 .. Len(times) - 1)
    BY <1>1, <1>2
  <2>2. g[n] \in Seq(Int) /\ BudgetInv(g[n], times, n) /\ g[n + 1] = Acquired(g[n], times[n + 1])
    BY <1>1, <1>4, <1>6, <2>1
  <2>3. /\ times[n + 1] \in Int /\ (n > 0 => times[n] \in Int /\ times[n] <= times[n + 1])
        /\ (n = 0 => g[n] = <<>>)
    BY <1>1, <1>2, <1>4, <2>1
  <2>4. BudgetInv(Acquired(g[n], times[n + 1]), times, n + 1)
    BY <2>2, <2>3, BudgetStep
  <2>5. QED
    BY <2>2, <2>4
<1>7. BudgetInv(g[N], times, N)
  <2>1. Nat \subseteq T
    <3> HIDE DEF T
    <3>1. QED
      BY <1>5, <1>6, Induction
  <2>2. QED
    BY <1>1, <2>1
<1>8. \A t \in Amounts : Cardinality(InWindow(Grants(times), t)) <= WhatIfMax
  BY <1>1, <1>4, <1>7 DEF BudgetInv
<1>9. ASSUME NEW i \in DOMAIN times,
             Cardinality(At(Grants(times), times[i])) < Cardinality({j \in DOMAIN times : times[j] = times[i]})
      PROVE  Cardinality(InWindow(Grants(times), times[i])) = WhatIfMax
  <2>1. times[i] \in Int
    BY <1>1, <1>2
  <2>2. {j \in DOMAIN times : times[j] = times[i]} = Asked(times, N, times[i])
    BY <1>2 DEF Asked
  <2>3. Cardinality(Asked(times, N, times[i])) \in Nat
    BY <1>1, AskedGrows
  <2>4. Cardinality(At(Grants(times), times[i])) \in Nat
    <3>1. g[N] \in Seq(Int)
      BY <1>1, <1>4
    <3>2. At(g[N], times[i]) \in SUBSET (DOMAIN g[N])
      BY DEF At
    <3>3. QED
      BY <1>4, <3>1, <3>2, IndicesAreFinite
  <2>5. QED
    <3>1. \/ Cardinality(At(g[N], times[i])) >= Cardinality(Asked(times, N, times[i]))
          \/ Cardinality(InWindow(g[N], times[i])) = WhatIfMax
      BY <1>7, <2>1 DEF BudgetInv
    <3>2. Cardinality(At(g[N], times[i])) < Cardinality(Asked(times, N, times[i]))
      BY <1>4, <1>9, <2>2
    <3>3. Cardinality(At(g[N], times[i])) \in Nat
      BY <1>4, <2>4
    <3>4. QED
      BY <1>4, <2>3, <3>1, <3>2, <3>3
<1>10. QED
  BY <1>8, <1>9

-----------------------------------------------------------------------------
(* The rows that get an order.                                             *)

\* Those of S with fewer than m before them.
Firsts(key, S, m) == {x \in S : Cardinality(Before(key, S, x)) < m}

\* The first m of a sorted set are m, or all there are.
LEMMA FirstOnes ==
  ASSUME NEW key, NEW S, Keyed(key, S), NEW m \in Nat
  PROVE  IsFiniteSet(Firsts(key, S, m)) /\ Cardinality(Firsts(key, S, m)) = Smaller(m, Cardinality(S))
<1> DEFINE n == Cardinality(S)
           c(x) == Cardinality(Before(key, S, x))
           first == {x \in S : c(x) < m}
           k == Smaller(m, n)
           r == SortedBy(key, S)
           f == [i \in 1 .. k |-> r[i]]
<1>1. /\ n \in Nat
      /\ r \in [1 .. n -> S]
      /\ \A i \in 1 .. n : c(r[i]) = i - 1
      /\ \A x \in S : c(x) + 1 \in 1 .. n /\ r[c(x) + 1] = x
  BY SortedByOrders
<1>2. \A x \in S : c(x) \in 0 .. n - 1
  BY BeforeGrows
<1> HIDE DEF c, r, n
<1>3. k \in Nat /\ k <= n /\ k <= m /\ (k = n \/ k = m)
  BY <1>1 DEF Smaller
<1> HIDE DEF k
<1>4. f \in Bijection(1 .. k, first)
  <2>1. ASSUME NEW i \in 1 .. k PROVE f[i] \in first /\ c(f[i]) = i - 1
    <3>1. i \in 1 .. n /\ i - 1 < m
      BY <1>1, <1>3
    <3>2. QED
      BY <1>1, <3>1
  <2>2. ASSUME NEW x \in first PROVE \E i \in 1 .. k : f[i] = x
    <3>1. x \in S /\ c(x) < m /\ c(x) \in 0 .. n - 1
      BY <1>2
    <3>2. c(x) + 1 \in 1 .. k
      BY <1>1, <1>3, <3>1
    <3>3. f[c(x) + 1] = x
      BY <1>1, <3>1, <3>2
    <3>4. QED
      BY <3>2, <3>3
  <2>3. \A i, j \in 1 .. k : f[i] = f[j] => i = j
    <3>1. ASSUME NEW i \in 1 .. k, NEW j \in 1 .. k, f[i] = f[j] PROVE i = j
      <4>1. i - 1 = j - 1
        BY <2>1, <3>1
      <4>2. QED
        BY <4>1
    <3>2. QED
      BY <3>1
  <2>4. f \in [1 .. k -> first]
    BY <2>1
  <2> HIDE DEF f, first
  <2>5. QED
    BY <2>2, <2>3, <2>4 DEF Bijection, Injection, Surjection, IsInjective
<1>5. IsFiniteSet(1 .. k) /\ Cardinality(1 .. k) = k
  <2>1. \A a, b \in Int : IsFiniteSet(a .. b) /\ Cardinality(a .. b) = IF a > b THEN 0 ELSE b - a + 1
    BY FS_Interval
  <2>2. QED
    BY <1>3, <2>1
<1>6. ExistsBijection(1 .. k, first)
  BY <1>4 DEF ExistsBijection
<1> HIDE DEF f, first
<1>7. IsFiniteSet(first) /\ Cardinality(first) = k
  BY <1>5, <1>6, FS_Bijection
<1>8. QED
  BY <1>7 DEF Firsts, first, k, n, c

\* For every limit, budget and scores: the orders a batch gets are the best rows of each
\* side, and as many as the budget and the limit allow (compute_batch).
THEOREM OrdersGoToTheBestRows == OrdersGoToTheBest
<1> SUFFICES ASSUME NEW scores \in [1 .. 2 * TopN + 1 -> 1 .. 3],
                    NEW calls \in 0 .. 2 * TopN + 1, NEW free \in 0 .. 2 * TopN + 1
             PROVE  LET requests == [i \in DOMAIN scores |->
                                       [side |-> IF i <= calls THEN "call" ELSE "put", score |-> scores[i]]]
                        sent == Attempted(requests, free)
                        Of(side) == {i \in DOMAIN requests : requests[i].side = side}
                    IN /\ \A side \in {"call", "put"} : \A i \in sent \cap Of(side), j \in Of(side) \ sent :
                            requests[i].score >= requests[j].score
                       /\ Cardinality(sent) = Smaller(free, Smaller(TopN, Cardinality(Of("call")))
                                                              + Smaller(TopN, Cardinality(Of("put"))))
  BY DEF OrdersGoToTheBest
<1> DEFINE requests == [i \in DOMAIN scores |->
                          [side |-> IF i <= calls THEN "call" ELSE "put", score |-> scores[i]]]
           sent == Attempted(requests, free)
           Of(side) == {i \in DOMAIN requests : requests[i].side = side}
           key == [i \in DOMAIN requests |-> -(requests[i].score)]
           N == 2 * TopN + 1
           rank(i) == Cardinality(Ahead(requests, i))
<1>1. TopN \in Nat \ {0} /\ N \in Nat /\ free \in Nat
  BY EngineAssumption
<1>2. /\ DOMAIN requests = 1 .. N
      /\ \A i \in 1 .. N : requests[i].side \in {"call", "put"} /\ requests[i].score \in Int
  OBVIOUS
<1> HIDE DEF requests, N
<1>3. \A i \in 1 .. N : key[i] = -(requests[i].score) /\ key[i] \in Int
  BY <1>2
<1> HIDE DEF key
<1>4. \A side : Keyed(key, Of(side))
  <2> SUFFICES ASSUME NEW side PROVE Keyed(key, Of(side))
    OBVIOUS
  <2>1. \A a, b \in Int : IsFiniteSet(a .. b)
    BY FS_Interval
  <2>2. IsFiniteSet(1 .. N) /\ Of(side) \subseteq 1 .. N
    <3>1. IsFiniteSet(1 .. N)
      BY <1>1, <2>1
    <3>2. Of(side) \subseteq 1 .. N
      BY <1>2
    <3>3. QED
      BY <3>1, <3>2
  <2>3. IsFiniteSet(Of(side))
    BY <2>2, FS_Subset
  <2>4. QED
    BY <1>3, <2>2, <2>3 DEF Keyed
<1>5. ASSUME NEW side, NEW i \in Of(side) PROVE Ahead(requests, i) = Before(key, Of(side), i)
  <2>1. \A j \in 1 .. N : (key[j] < key[i] <=> requests[j].score > requests[i].score)
                          /\ (key[j] = key[i] <=> requests[j].score = requests[i].score)
    BY <1>2, <1>3
  <2>2. i \in 1 .. N /\ requests[i].side = side
    BY <1>2
  <2>3. QED
    BY <1>2, <2>1, <2>2 DEF Ahead, Before, Precedes
<1>6. \A side : \A i \in Of(side) : rank(i) = Cardinality(Before(key, Of(side), i))
  BY <1>5
<1>7. \A side : Cardinality(Of(side)) \in Nat /\ \A i \in Of(side) : rank(i) \in Nat
  <2> SUFFICES ASSUME NEW side PROVE Cardinality(Of(side)) \in Nat /\ \A i \in Of(side) : rank(i) \in Nat
    OBVIOUS
  <2>1. Keyed(key, Of(side))
    BY <1>4
  <2> HIDE DEF Of, rank
  <2>2. Cardinality(Of(side)) \in Nat /\ \A i \in Of(side) : Cardinality(Before(key, Of(side), i)) \in 0 .. Cardinality(Of(side)) - 1
    BY <2>1, BeforeGrows
  <2>3. QED
    BY <1>6, <2>2
<1> DEFINE spent(side) == IF side = "call" THEN 0 ELSE Smaller(TopN, Cardinality(Of("call")))
           room(side) == Smaller(TopN, Larger(free - spent(side), 0))
<1>8. \A side \in {"call", "put"} : spent(side) \in Nat /\ room(side) \in Nat
  <2>1. Cardinality(Of("call")) \in Nat
    BY <1>7
  <2> HIDE DEF Of
  <2>2. \A side \in {"call", "put"} : spent(side) \in Nat
    BY <1>1, <2>1 DEF Smaller
  <2> HIDE DEF spent
  <2>3. QED
    BY <1>1, <2>2 DEF Smaller, Larger
<1>9. \A side \in {"call", "put"} : \A i \in Of(side) :
        i \in sent <=> rank(i) < room(side)
  <2> SUFFICES ASSUME NEW side \in {"call", "put"}, NEW i \in Of(side)
               PROVE  i \in sent <=> rank(i) < room(side)
    OBVIOUS
  <2>1. requests[i].side = side /\ i \in DOMAIN requests
    OBVIOUS
  <2>2. i \in sent <=> rank(i) < TopN /\ rank(i) + spent(side) < free
    BY <2>1 DEF Attempted
  <2>3. rank(i) \in Nat
    BY <1>7
  <2>4. spent(side) \in Nat
    BY <1>8
  <2> HIDE DEF spent, rank, sent
  <2>5. QED
    BY <1>1, <2>2, <2>3, <2>4 DEF Smaller, Larger
<1> HIDE DEF sent
<1>10. ASSUME NEW side \in {"call", "put"}, NEW i \in sent \cap Of(side), NEW j \in Of(side) \ sent
       PROVE  requests[i].score >= requests[j].score
  <2> SUFFICES ASSUME ~(requests[i].score >= requests[j].score) PROVE FALSE
    OBVIOUS
  <2>1. i \in 1 .. N /\ j \in 1 .. N /\ i \in Of(side) /\ j \in Of(side)
    BY <1>2
  <2>2. key[j] < key[i]
    BY <1>2, <1>3, <2>1
  <2>3. Keyed(key, Of(side)) /\ Precedes(key, j, i)
    BY <1>4, <2>2 DEF Precedes
  <2>r. /\ rank(i) = Cardinality(Before(key, Of(side), i))
        /\ rank(j) = Cardinality(Before(key, Of(side), j))
    BY <1>6, <2>1
  <2>4. /\ rank(i) < room(side) /\ ~(rank(j) < room(side))
        /\ rank(i) \in Nat /\ rank(j) \in Nat /\ room(side) \in Nat
    BY <1>7, <1>8, <1>9, <2>1
  <2> HIDE DEF Of, rank, room
  <2>5. Cardinality(Before(key, Of(side), j)) < Cardinality(Before(key, Of(side), i))
    BY <2>1, <2>3, BeforeGrows
  <2>6. QED
    BY <2>r, <2>4, <2>5
<1> DEFINE part(side) == sent \cap Of(side)
<1>11. ASSUME NEW side \in {"call", "put"}
       PROVE  IsFiniteSet(part(side)) /\ Cardinality(part(side)) = Smaller(room(side), Cardinality(Of(side)))
  <2>1. Keyed(key, Of(side)) /\ room(side) \in Nat
    BY <1>4, <1>8
  <2>2. part(side) = Firsts(key, Of(side), room(side))
    <3>1. \A i \in Of(side) : i \in sent <=> Cardinality(Before(key, Of(side), i)) < room(side)
      BY <1>6, <1>9
    <3> HIDE DEF Of, room
    <3>2. QED
      BY <3>1 DEF Firsts
  <2> HIDE DEF Of, room, part
  <2>3. QED
    BY <2>1, <2>2, FirstOnes
<1>12. /\ sent = part("call") \cup part("put") /\ part("call") \cap part("put") = {}
  <2>1. sent \subseteq 1 .. N
    BY <1>2 DEF sent, Attempted
  <2>2. QED
    BY <1>2, <2>1
<1>13. Cardinality(sent) = Cardinality(part("call")) + Cardinality(part("put"))
  <2>1. IsFiniteSet(part("call")) /\ IsFiniteSet(part("put"))
    BY <1>11
  <2>2. Cardinality({}) = 0
    BY FS_EmptySet
  <2>3. Cardinality(part("call")) \in Nat /\ Cardinality(part("put")) \in Nat
    BY <2>1, FS_CardinalityType
  <2> HIDE DEF part
  <2>4. Cardinality(part("call") \cup part("put"))
          = Cardinality(part("call")) + Cardinality(part("put")) - Cardinality(part("call") \cap part("put"))
    BY <2>1, FS_Union
  <2>5. Cardinality(part("call") \cap part("put")) = 0
    BY <1>12, <2>2
  <2>6. Cardinality(sent) = Cardinality(part("call") \cup part("put"))
    BY <1>12
  <2>7. QED
    BY <2>3, <2>4, <2>5, <2>6
<1>14. Cardinality(sent) = Smaller(free, Smaller(TopN, Cardinality(Of("call"))) + Smaller(TopN, Cardinality(Of("put"))))
  <2> DEFINE a == Cardinality(Of("call"))
             b == Cardinality(Of("put"))
  <2>1. a \in Nat /\ b \in Nat
    BY <1>7
  <2>2. /\ Cardinality(part("call")) = Smaller(Smaller(TopN, Larger(free - 0, 0)), a)
        /\ Cardinality(part("put")) = Smaller(Smaller(TopN, Larger(free - Smaller(TopN, a), 0)), b)
    BY <1>11
  <2> HIDE DEF a, b, part
  <2>3. Cardinality(sent) = Smaller(Smaller(TopN, Larger(free - 0, 0)), a)
                              + Smaller(Smaller(TopN, Larger(free - Smaller(TopN, a), 0)), b)
    BY <1>13, <2>2
  <2>4. Smaller(Smaller(TopN, Larger(free - 0, 0)), a) + Smaller(Smaller(TopN, Larger(free - Smaller(TopN, a), 0)), b)
          = Smaller(free, Smaller(TopN, a) + Smaller(TopN, b))
    BY <1>1, <2>1 DEF Smaller, Larger
  <2>5. QED
    BY <2>3, <2>4 DEF a, b
<1>15. QED
  BY <1>10, <1>14 DEF sent, requests

-----------------------------------------------------------------------------
(* The ranking of a batch.                                                 *)

\* The first n numbers are n.
LEMMA FirstNumbers ==
  ASSUME NEW n \in Nat
  PROVE  IsFiniteSet(1 .. n) /\ Cardinality(1 .. n) = n
<1>1. \A a, b \in Int : IsFiniteSet(a .. b) /\ Cardinality(a .. b) = IF a > b THEN 0 ELSE b - a + 1
  BY FS_Interval
<1>2. QED
  BY <1>1

\* The median of three margins above zero.
LEMMA MedianOfThree ==
  ASSUME NEW margins, DOMAIN margins = 1 .. 3, \A i \in 1 .. 3 : margins[i] \in Nat \ {0}
  PROVE  Median(margins) \in Nat \ {0}
<1> DEFINE S == 1 .. 3
           place == SortedBy(margins, S)
<1>1. {i \in DOMAIN margins : margins[i] > 0} = S
  OBVIOUS
<1>2. IsFiniteSet(S) /\ Cardinality(S) = 3
  BY FirstNumbers
<1>3. Keyed(margins, S)
  BY <1>2 DEF Keyed
<1>4. place[2] \in S
  <2>1. /\ Cardinality(S) \in Nat /\ place \in [1 .. Cardinality(S) -> S]
    <3> HIDE DEF S
    <3>1. QED
      BY <1>3, SortedByOrders
  <2>2. 2 \in 1 .. Cardinality(S)
    BY <1>2
  <2> HIDE DEF place, S
  <2>3. QED
    BY <2>1, <2>2
<1>5. Median(margins) = margins[place[2]] + margins[place[2]]
  <2>1. (3 + 1) \div 2 = 2 /\ (3 + 2) \div 2 = 2
    OBVIOUS
  <2> HIDE DEF S
  <2>2. QED
    BY <1>1, <1>2, <2>1 DEF Median
<1>6. QED
  BY <1>4, <1>5

\* Whichever orders fail: every row of the batch has one place on its side, and none stands
\* behind a row that is no better (compute_batch, score_candidates, generate).
THEOREM RanksAreByTheMargins == RanksFitTheMargins
<1> DEFINE identity == [n \in {1} |-> n]
           spot == Max(Amounts \cup {1})
           Figures == [premium : {-1, -2}, margin : {1, 3}, body : {spot}]
<1> SUFFICES ASSUME NEW figures \in [1 .. 3 -> Figures], NEW whatif \in [1 .. 3 -> {Unknown, 2, 5}],
                    NEW calls \in 2 .. 3, NEW free \in 0 .. 2
             PROVE  LET rows == [i \in 1 .. 3 |->
                                   [combo |-> [side |-> IF i <= calls THEN "call" ELSE "put",
                                               body |-> figures[i].body],
                                    premium |-> figures[i].premium, margin |-> figures[i].margin,
                                    liquidity |-> 1]]
                        result == Batch(rows, whatif, free, spot, identity)
                        Figure(side, k) == result.rows[result[side][k]]
                    IN /\ ToSet(result.call) = 1 .. calls /\ ToSet(result.put) = (1 .. 3) \ (1 .. calls)
                       /\ \A side \in {"call", "put"} : \A k, l \in DOMAIN result[side] :
                            LET ahead == Figure(side, k)
                                behind == Figure(side, l)
                            IN k < l => ~(behind.margin < ahead.margin /\ behind.premium <= ahead.premium)
  BY Zenon DEF RanksFitTheMargins
<1> DEFINE rows == [i \in 1 .. 3 |->
                      [combo |-> [side |-> IF i <= calls THEN "call" ELSE "put",
                                  body |-> figures[i].body],
                       premium |-> figures[i].premium, margin |-> figures[i].margin,
                       liquidity |-> 1]]
           first == Scores(rows, spot, identity)
           margins == Margins([i \in DOMAIN rows |->
                                 [side |-> rows[i].combo.side, score |-> first[i],
                                  margin |-> rows[i].margin, whatif |-> whatif[i]]], free)
           final == [i \in DOMAIN rows |-> [rows[i] EXCEPT !.margin = margins[i]]]
           scores == Scores(final, spot, identity)
           result == Batch(rows, whatif, free, spot, identity)
           key == [i \in DOMAIN final |-> -scores[i]]
           Of(side) == {i \in DOMAIN final : final[i].combo.side = side}
<1>1. spot \in Nat /\ spot >= 1
  <2>1. IsFiniteSet(Amounts \cup {1})
    BY EngineAssumption, FS_AddElement
  <2>2. Amounts \cup {1} \subseteq Nat /\ Amounts \cup {1} # {} /\ 1 \in Amounts \cup {1}
    BY EngineAssumption
  <2>3. QED
    BY <2>1, <2>2, LargestMember
<1> HIDE DEF spot
<1>2. \A i \in 1 .. 3 : figures[i].premium \in {-1, -2} /\ figures[i].margin \in {1, 3} /\ figures[i].body = spot
  OBVIOUS
<1>3. /\ DOMAIN rows = 1 .. 3
      /\ \A i \in 1 .. 3 : /\ rows[i].combo.side = (IF i <= calls THEN "call" ELSE "put")
                           /\ rows[i].combo.body = spot /\ rows[i].premium \in {-1, -2}
                           /\ rows[i].margin \in {1, 3} /\ rows[i].liquidity = 1
  BY <1>2
<1>r. \A i \in 1 .. 3 : \A m :
                           /\ [rows[i] EXCEPT !.margin = m].combo = rows[i].combo
                           /\ [rows[i] EXCEPT !.margin = m].premium = rows[i].premium
                           /\ [rows[i] EXCEPT !.margin = m].margin = m
                           /\ [rows[i] EXCEPT !.margin = m].liquidity = 1
  BY <1>2
<1> HIDE DEF rows, first
<1>4. \A i \in 1 .. 3 : margins[i] \in {1, 2, 3, 5}
  <2> DEFINE requests == [i \in DOMAIN rows |->
                            [side |-> rows[i].combo.side, score |-> first[i],
                             margin |-> rows[i].margin, whatif |-> whatif[i]]]
  <2>1. DOMAIN requests = 1 .. 3 /\ \A i \in 1 .. 3 : requests[i].margin \in {1, 3} /\ requests[i].whatif \in {Unknown, 2, 5}
    BY <1>3
  <2> HIDE DEF requests
  <2>2. \A i \in 1 .. 3 : Margins(requests, free)[i] \in {1, 2, 3, 5}
    BY <2>1 DEF Margins
  <2>3. QED
    BY <2>2 DEF requests
<1> HIDE DEF margins
<1>5. /\ DOMAIN final = 1 .. 3
      /\ \A i \in 1 .. 3 : /\ final[i].combo.side = (IF i <= calls THEN "call" ELSE "put")
                           /\ final[i].combo.body = spot /\ final[i].premium \in {-1, -2}
                           /\ final[i].margin \in {1, 2, 3, 5} /\ final[i].liquidity = 1
  <2>1. DOMAIN final = 1 .. 3
    BY <1>3
  <2>2. \A i \in 1 .. 3 : /\ final[i].combo = rows[i].combo /\ final[i].premium = rows[i].premium
                          /\ final[i].margin = margins[i] /\ final[i].liquidity = 1
    <3> SUFFICES ASSUME NEW i \in 1 .. 3
                 PROVE  /\ final[i].combo = rows[i].combo /\ final[i].premium = rows[i].premium
                        /\ final[i].margin = margins[i] /\ final[i].liquidity = 1
      OBVIOUS
    <3>1. final[i] = [rows[i] EXCEPT !.margin = margins[i]]
      BY <1>3
    <3> HIDE DEF final
    <3>2. QED
      BY <1>r, <3>1
  <2> HIDE DEF final
  <2>3. QED
    BY <1>3, <1>4, <2>1, <2>2
<1>6. result = [rows |-> final, call |-> Sorted("call", final, scores), put |-> Sorted("put", final, scores)]
  BY DEF Batch, margins, first
<1> HIDE DEF final
<1> DEFINE median == Median([i \in DOMAIN final |-> final[i].margin])
<1>7. median \in Nat \ {0}
  BY <1>5, MedianOfThree
<1>8. DOMAIN scores = 1 .. 3 /\ \A i \in 1 .. 3 : scores[i] = Score(final[i], median, spot, identity)
  BY <1>5 DEF Scores
<1> HIDE DEF median, scores
<1>i. identity[1] = 1
  OBVIOUS
<1> HIDE DEF identity
<1>9. ASSUME NEW i \in 1 .. 3, NEW j \in 1 .. 3,
             final[i].premium <= final[j].premium, final[i].margin <= final[j].margin
      PROVE  /\ scores[i] \in Int /\ scores[j] \in Int
             /\ final[i].margin < final[j].margin => scores[j] < scores[i]
  <2> DEFINE better == final[i]
             worse == final[j]
  <2>1. /\ better.premium \in Int /\ worse.premium \in Int
        /\ better.margin \in Nat \ {0} /\ worse.margin \in Nat
        /\ identity[better.liquidity] = 1 /\ identity[worse.liquidity] = 1
        /\ better.combo.body = spot /\ worse.combo.body = spot
        /\ better.premium <= worse.premium /\ worse.premium <= 0
        /\ better.margin <= worse.margin
    BY <1>5, <1>9, <1>i
  <2>2. scores[i] = Score(better, median, spot, identity) /\ scores[j] = Score(worse, median, spot, identity)
    BY <1>8
  <2> HIDE DEF better, worse
  <2>3. /\ Apart(better.combo.body, spot) <= Apart(worse.combo.body, spot)
    BY <1>1, <2>1 DEF Apart, Larger
  <2>4. /\ Score(better, median, spot, identity) \in Int /\ Score(worse, median, spot, identity) \in Int
        /\ spot > 0 /\ better.margin < worse.margin
             => Score(worse, median, spot, identity) < Score(better, median, spot, identity)
    <3>1. /\ identity[better.liquidity] \in Int /\ identity[worse.liquidity] \in Int
          /\ better.combo.body \in Int /\ worse.combo.body \in Int
          /\ identity[worse.liquidity] <= identity[better.liquidity]
      BY <1>1, <2>1
    <3>2. QED
      BY <1>1, <1>7, <2>1, <2>3, <3>1, ScoreGrows
  <2>5. QED
    BY <1>1, <2>2, <2>4 DEF better, worse
<1>10. \A i \in 1 .. 3 : scores[i] \in Int
  <2>1. \A i \in 1 .. 3 : final[i].premium <= final[i].premium /\ final[i].margin <= final[i].margin
    BY <1>5
  <2>2. QED
    BY <1>9, <2>1
<1>11. \A side : Keyed(key, Of(side))
  <2> SUFFICES ASSUME NEW side PROVE Keyed(key, Of(side))
    OBVIOUS
  <2>1. IsFiniteSet(1 .. 3) /\ Of(side) \subseteq 1 .. 3
    BY <1>5, FirstNumbers
  <2>2. IsFiniteSet(Of(side))
    BY <2>1, FS_Subset
  <2>3. \A i \in Of(side) : key[i] \in Int
    BY <1>5, <1>10
  <2>4. QED
    BY <2>1, <2>2, <2>3 DEF Keyed
<1> DEFINE n(side) == Cardinality(Of(side))
<1>12. ASSUME NEW side
       PROVE  /\ Sorted(side, final, scores) \in [1 .. n(side) -> Of(side)] /\ n(side) \in Nat
              /\ \A k, l \in 1 .. n(side) :
                   k < l => Precedes(key, Sorted(side, final, scores)[k], Sorted(side, final, scores)[l])
              /\ \A x \in Of(side) : \E k \in 1 .. n(side) : Sorted(side, final, scores)[k] = x
  <2>1. Sorted(side, final, scores) = SortedBy(key, Of(side)) /\ Keyed(key, Of(side))
    BY <1>11 DEF Sorted
  <2> HIDE DEF Of, key
  <2>2. QED
    BY <2>1, SortedByOrders
<1>13. ASSUME NEW side
       PROVE  /\ DOMAIN Sorted(side, final, scores) = 1 .. n(side)
              /\ ToSet(Sorted(side, final, scores)) = Of(side)
  <2> DEFINE s == Sorted(side, final, scores)
  <2>1. s \in [1 .. n(side) -> Of(side)] /\ \A x \in Of(side) : \E k \in 1 .. n(side) : s[k] = x
    BY <1>12
  <2> HIDE DEF s, Of, n
  <2>2. DOMAIN s = 1 .. n(side) /\ ToSet(s) = Of(side)
    BY <2>1 DEF ToSet
  <2>3. QED
    BY <2>2 DEF s
<1>14. Of("call") = 1 .. calls /\ Of("put") = (1 .. 3) \ (1 .. calls)
  <2>1. calls \in {2, 3}
    OBVIOUS
  <2>2. \A i \in 1 .. 3 : i \in Of("call") <=> i <= calls
    BY <1>5
  <2>3. \A i \in 1 .. 3 : i \in Of("put") <=> ~(i <= calls)
    BY <1>5
  <2>4. Of("call") \subseteq 1 .. 3 /\ Of("put") \subseteq 1 .. 3
    BY <1>5
  <2> HIDE DEF Of
  <2>5. \A i : i \in 1 .. calls <=> i \in 1 .. 3 /\ i <= calls
    BY <2>1
  <2>6. Of("call") = 1 .. calls
    BY <2>2, <2>4, <2>5
  <2>7. Of("put") = (1 .. 3) \ (1 .. calls)
    BY <2>3, <2>4, <2>5
  <2>8. QED
    BY <2>6, <2>7
<1>15. ASSUME NEW side \in {"call", "put"}, NEW k \in DOMAIN result[side], NEW l \in DOMAIN result[side], k < l
       PROVE  ~(/\ result.rows[result[side][l]].margin < result.rows[result[side][k]].margin
                /\ result.rows[result[side][l]].premium <= result.rows[result[side][k]].premium)
  <2> DEFINE s == Sorted(side, final, scores)
  <2>1. result.rows = final /\ result[side] = s
    BY <1>6
  <2> HIDE DEF result
  <2>2. k \in 1 .. n(side) /\ l \in 1 .. n(side)
    BY <1>13, <1>15, <2>1
  <2>3. s[k] \in Of(side) /\ s[l] \in Of(side) /\ Precedes(key, s[k], s[l])
    <3>1. /\ s \in [1 .. n(side) -> Of(side)]
          /\ \A i, j \in 1 .. n(side) : i < j => Precedes(key, s[i], s[j])
      BY <1>12
    <3> HIDE DEF s, n, Of, key
    <3>2. QED
      BY <1>15, <2>2, <3>1
  <2> HIDE DEF s
  <2>4. s[k] \in 1 .. 3 /\ s[l] \in 1 .. 3 /\ -scores[s[k]] <= -scores[s[l]]
    BY <1>5, <1>10, <2>3 DEF Precedes
  <2>5. scores[s[k]] \in Int /\ scores[s[l]] \in Int
    BY <1>10, <2>4
  <2>6. ~(scores[s[k]] < scores[s[l]])
    BY <2>4, <2>5
  <2>7. final[s[l]].margin \in Int /\ final[s[k]].margin \in Int
    BY <1>5, <2>4
  <2>8. ~(final[s[l]].margin < final[s[k]].margin /\ final[s[l]].premium <= final[s[k]].premium)
    BY <1>9, <2>4, <2>6, <2>7
  <2>9. QED
    BY <2>1, <2>8
<1>16. result.call = Sorted("call", final, scores) /\ result.put = Sorted("put", final, scores)
  BY <1>6
<1>17. ToSet(result.call) = 1 .. calls /\ ToSet(result.put) = (1 .. 3) \ (1 .. calls)
  <2>1. ToSet(Sorted("call", final, scores)) = Of("call") /\ ToSet(Sorted("put", final, scores)) = Of("put")
    BY <1>13
  <2> HIDE DEF Of, result
  <2>2. QED
    BY <1>14, <1>16, <2>1
<1> HIDE DEF result
<1>18. QED
  BY <1>15, <1>17 DEF result, rows

\* For every budget, limit and batch: the orders keep to their budget, use it up and go to
\* the best rows, and the rows are ranked by the margins they show.
THEOREM OrdersStayWellSpent == OrdersAreWellSpent
BY BudgetIsSpent, OrdersGoToTheBestRows, RanksAreByTheMargins DEF OrdersAreWellSpent
=============================================================================
