-------------------------- MODULE MarketDataProofs --------------------------
(***************************************************************************)
(* Proofs about the market data service: a row that reads "live" is about  *)
(* a recent tick (QuoteFreshness), the slot of the candle aggregator is    *)
(* the summary of its samples (Candles), and every client gets the prices  *)
(* of a ticker in the order of their publication (PricePubSub).            *)
(***************************************************************************)
EXTENDS QuoteFreshness, Candles, PricePubSub, SequenceTheorems, WellFoundedInduction, TLAPS

-----------------------------------------------------------------------------
(* Quotes.  Every time on the way from the stream to the row is the time   *)
(* of some tick, hence never younger than the last one.                    *)

\* Nothing is younger than the last tick, except the stamps that say the row is
\* not live.
NotYounger ==
  /\ seen >= traded /\ cached >= traded /\ flush >= traded
  /\ row.status = "live" => row.age >= traded /\ row.age # Never

FreshInv == TypeOK /\ NotYounger

\* What the definitions of Old and Never say of the threshold.
LEMMA Bounds ==
  /\ Threshold \in Nat /\ Threshold > 0
  /\ Never \in Nat /\ Old \in Nat /\ Never = Old + 1 /\ Old = 6 * Threshold + 1
  /\ Never \in Age /\ 0 \in Age
BY FreshnessAssumption DEF Never, Old, Age

\* Growing older keeps the order of two ages.
LEMMA AgedMonotone ==
  ASSUME NEW a \in Age, NEW b \in Age
  PROVE  /\ Aged(a) \in Age
         /\ a >= b => Aged(a) >= Aged(b)
         /\ a = Never <=> Aged(a) = Never
<1>1. a \in Nat /\ b \in Nat /\ a <= Old + 1 /\ b <= Old + 1
  BY Bounds DEF Age
<1>2. Aged(a) = IF a >= Old THEN a ELSE a + 1
  BY DEF Aged
<1>3. Aged(b) = IF b >= Old THEN b ELSE b + 1
  BY DEF Aged
<1>4. Aged(a) \in 0 .. Never
  BY <1>1, <1>2, Bounds
<1>5. QED
  BY <1>1, <1>2, <1>3, <1>4, Bounds DEF Age

\* FreshInv holds at the start: no row is stored.
LEMMA FreshInit == Init => FreshInv
<1> SUFFICES ASSUME Init PROVE FreshInv
  OBVIOUS
<1>1. row \in [status : {"unavailable", "live", "stale", "disconnected"}, age : Age]
  BY Bounds DEF Init, NoRow
<1>2. row.status = "unavailable"
  BY DEF Init, NoRow
<1>3. TypeOK
  BY <1>1, Bounds DEF Init, TypeOK
<1>4. NotYounger
  BY <1>2, Bounds DEF Init, NotYounger
<1>5. QED
  BY <1>3, <1>4 DEF FreshInv

\* Every step keeps FreshInv.
LEMMA FreshStep == FreshInv /\ [Next]_vars => FreshInv'
<1> SUFFICES ASSUME FreshInv, [Next]_vars PROVE FreshInv'
  OBVIOUS
<1>n. Never \in Age /\ 0 \in Age /\ \A a \in Age : Never >= a /\ a >= 0
  BY Bounds DEF Age
<1>1. CASE Second
  <2>1. row'.status = row.status /\ row'.age = Aged(row.age)
    BY <1>1 DEF Second, FreshInv, TypeOK
  <2>2. row.age \in Age /\ row.status \in {"unavailable", "live", "stale", "disconnected"}
    BY DEF FreshInv, TypeOK
  <2>3. row' \in [status : {"unavailable", "live", "stale", "disconnected"}, age : Age]
    <3>1. row' = [row EXCEPT !.age = Aged(row.age)]
      BY <1>1 DEF Second
    <3>2. Aged(row.age) \in Age
      BY <2>2, AgedMonotone
    <3>3. QED
      BY <3>1, <3>2 DEF FreshInv, TypeOK
  <2>4. TypeOK'
    BY <1>1, <2>3, AgedMonotone DEF Second, FreshInv, TypeOK
  <2>5. NotYounger'
    BY <1>1, <2>1, <2>2, AgedMonotone DEF Second, FreshInv, TypeOK, NotYounger
  <2>6. QED
    BY <2>4, <2>5 DEF FreshInv
<1>2. CASE Trade
  BY <1>2, <1>n DEF Trade, FreshInv, TypeOK, NotYounger
<1>3. CASE Link \/ Drain \/ Look \/ FlushReads \/ Start \/ StopWorker
  BY <1>3, <1>n DEF Link, Drain, Look, FlushReads, Start, StopWorker, FreshInv, TypeOK, NotYounger
<1>4. CASE MarkStale
  <2>1. row' = row \/ row' = [status |-> "stale", age |-> mark]
    BY <1>4 DEF MarkStale
  <2>2. QED
    BY <1>4, <1>n, <2>1 DEF MarkStale, FreshInv, TypeOK, NotYounger
<1>5. CASE FlushCommits
  <2>1. row' = row \/ row' = [status |-> "live", age |-> flush]
    BY <1>5 DEF FlushCommits
  <2>2. QED
    BY <1>5, <1>n, <2>1 DEF FlushCommits, FreshInv, TypeOK, NotYounger
<1>6. CASE MarkDisconnected
  <2>1. row' = row \/ row' = [status |-> "disconnected", age |-> 0]
    BY <1>6 DEF MarkDisconnected
  <2>2. QED
    BY <1>6, <1>n, <2>1 DEF MarkDisconnected, Forget, FreshInv, TypeOK, NotYounger
<1>7. CASE Crash
  BY <1>7, <1>n DEF Crash, Forget, FreshInv, TypeOK, NotYounger
<1>8. CASE UNCHANGED vars
  BY <1>8 DEF vars, FreshInv, TypeOK, NotYounger
<1>9. QED
  BY <1>1, <1>2, <1>3, <1>4, <1>5, <1>6, <1>7, <1>8 DEF Next

\* FreshInv holds in every reachable state.
LEMMA FreshInvariant == Spec => []FreshInv
<1>1. QED
  BY FreshInit, FreshStep, PTL DEF Spec

\* The state of the feed stays well-typed.
THEOREM TypeCorrect == Spec => []TypeOK
BY FreshInvariant, PTL DEF FreshInv

\* Whatever the threshold, a row that reads "live" is about a tick within it.
THEOREM LiveRowsAreRecent == Spec => []RowLiveIsRecent
<1>1. FreshInv => RowLiveIsRecent
  <2> SUFFICES ASSUME FreshInv, Reported(row) = "live" PROVE traded <= Threshold
    BY DEF RowLiveIsRecent
  <2>1. /\ row.status = "live" /\ row.age \in Age /\ traded \in Age
        /\ row.age >= traded /\ row.age # Never
    BY DEF Reported, FreshInv, TypeOK, NotYounger
  <2>2. Bucket(row.age) \notin {"stale", "disconnected"}
    BY <2>1 DEF Reported
  <2>3. row.age <= Threshold
    BY <2>1, <2>2, Bounds DEF Bucket, Age
  <2>4. QED
    BY <2>1, <2>3, Bounds DEF Age
<1>2. QED
  BY <1>1, FreshInvariant, PTL
-----------------------------------------------------------------------------
(* Candles.                                                                *)

\* The slot, put without a choice: its ends are sampled prices, and bounds of them all.
SlotIsTight ==
  slot # NoCandle =>
    /\ since # <<>>
    /\ slot.open = since[1] /\ slot.close = since[Len(since)]
    /\ slot.high \in ToSet(since) /\ \A q \in ToSet(since) : q <= slot.high
    /\ slot.low \in ToSet(since) /\ \A q \in ToSet(since) : slot.low <= q

CandleInv == CandleTypeOK /\ SlotIsTight

FullCandle == [minute : Minute, open : Price, high : Price, low : Price, close : Price]

\* A candle with a minute is full, and NoCandle has none.
LEMMA CandleKinds ==
  /\ Candle = FullCandle \cup {NoCandle}
  /\ NoCandle.minute = -1 /\ NoTick.minute = -1
  /\ \A m \in Minute : m \in Nat
  /\ \A s \in Candle : s.minute \in Minute => s \in FullCandle
  /\ \A s \in FullCandle : s # NoCandle
BY CandleAssumption DEF Candle, NoCandle, NoTick, Minute, FullCandle

\* A sample keeps the slot the open, high, low and close of what was sampled, also where it
\* rolls over.
LEMMA SampleTightens ==
  ASSUME CandleInv, Sample
  PROVE  CandleInv'
<1>1. tick \in [minute : Minute, price : Price] /\ since \in Seq(Price) /\ sampled \in [Minute -> SUBSET Price]
  BY DEF Sample, CandleInv, CandleTypeOK
<1> DEFINE m == tick.minute
           p == tick.price
<1>2. m \in Minute /\ p \in Price /\ Price \subseteq Nat
  BY <1>1, CandleAssumption
<1>3. sampled' \in [Minute -> SUBSET Price]
  BY <1>1, <1>2 DEF Sample
<1>4. /\ slot' \in FullCandle /\ since' \in Seq(Price) /\ SlotIsTight'
  <2>1. CASE slot.minute = m
    <3>1. slot \in FullCandle /\ slot # NoCandle
      BY <1>2, <2>1, CandleKinds DEF CandleInv, CandleTypeOK
    <3>2. slot' = Updated(slot, tick) /\ since' = Append(since, p)
      BY <2>1 DEF Sample
    <3>3. /\ since # <<>>
          /\ slot.open = since[1] /\ slot.close = since[Len(since)]
          /\ slot.high \in ToSet(since) /\ \A q \in ToSet(since) : q <= slot.high
          /\ slot.low \in ToSet(since) /\ \A q \in ToSet(since) : slot.low <= q
      BY <3>1 DEF CandleInv, SlotIsTight
    <3>4. /\ slot' \in FullCandle
          /\ slot'.open = slot.open /\ slot'.close = p
          /\ slot'.high = (IF slot.high > p THEN slot.high ELSE p)
          /\ slot'.low = (IF slot.low < p THEN slot.low ELSE p)
      BY <1>2, <3>1, <3>2 DEF Updated, Higher, Lower, FullCandle
    <3>5. ToSet(Append(since, p)) = ToSet(since) \cup {p}
      BY <1>1, <1>2, AppendProperties DEF ToSet
    <3>6. ToSet(since) \subseteq Price
      BY <1>1 DEF ToSet
    <3>7. /\ since' \in Seq(Price) /\ since' # <<>>
          /\ since'[1] = since[1] /\ since'[Len(since')] = p
      BY <1>1, <1>2, <3>2, <3>3
    <3>8. SlotIsTight'
      <4> DEFINE D == ToSet(since)
      <4>1. ToSet(since)' = D \cup {p} /\ D \subseteq Nat /\ p \in Nat
        BY <1>2, <3>2, <3>5, <3>6
      <4>2. /\ slot.high \in D /\ \A q \in D : q <= slot.high
            /\ slot.low \in D /\ \A q \in D : slot.low <= q
        BY <3>3
      <4> HIDE DEF D
      <4>3. /\ slot'.high \in D \cup {p} /\ \A q \in D \cup {p} : q <= slot'.high
            /\ slot'.low \in D \cup {p} /\ \A q \in D \cup {p} : slot'.low <= q
        <5>1. slot.high \in Nat /\ slot.low \in Nat /\ p \in Nat /\ \A q \in D : q \in Nat
          BY <4>1, <4>2
        <5>2. slot'.high \in Nat /\ slot'.low \in Nat /\ slot'.high >= slot.high /\ slot'.high >= p
              /\ slot'.low <= slot.low /\ slot'.low <= p
          BY <3>4, <5>1
        <5>3. \A q \in D \cup {p} : q <= slot'.high /\ slot'.low <= q
          BY <4>2, <5>1, <5>2
        <5>4. QED
          BY <3>4, <4>2, <5>3
      <4>4. QED
        BY <3>3, <3>4, <3>7, <4>1, <4>3 DEF SlotIsTight
    <3>9. QED
      BY <3>4, <3>7, <3>8
  <2>2. CASE slot.minute # m
    <3>1. slot' = Opened(tick) /\ since' = <<p>>
      BY <2>2 DEF Sample
    <3>2. slot' \in FullCandle /\ slot'.open = p /\ slot'.close = p /\ slot'.high = p /\ slot'.low = p
      BY <1>2, <3>1 DEF Opened, FullCandle
    <3>3. ToSet(since') = {p} /\ since'[1] = p /\ Len(since') = 1 /\ since' \in Seq(Price) /\ since' # <<>>
      BY <1>2, <3>1 DEF ToSet
    <3>4. ToSet(since)' = {p} /\ p \in Nat
      BY <1>2, <3>3
    <3>5. QED
      BY <1>2, <3>2, <3>3, <3>4 DEF SlotIsTight
  <2>3. QED
    BY <2>1, <2>2
<1>5. QED
  BY <1>3, <1>4, CandleKinds DEF Sample, CandleInv, CandleTypeOK

\* CandleInv holds at the start: no slot is open.
LEMMA CandleInvInit == CandleInit => CandleInv
BY CandleAssumption DEF CandleInit, CandleInv, CandleTypeOK, Minute, Candle, SlotIsTight

\* Every step of the aggregator keeps CandleInv.
LEMMA CandleInvStep == CandleInv /\ [CandleNext]_candleVars => CandleInv'
<1> SUFFICES ASSUME CandleInv, [CandleNext]_candleVars PROVE CandleInv'
  OBVIOUS
<1> USE DEF CandleInv, CandleTypeOK
<1>1. CASE Clock
  BY <1>1, CandleAssumption DEF Clock, Minute, SlotIsTight
<1>2. ASSUME NEW p \in Price, StreamTick(p) PROVE CandleInv'
  BY <1>2 DEF StreamTick, SlotIsTight
<1>3. CASE Sample
  BY <1>3, SampleTightens
<1>4. CASE DrainClosed
  BY <1>4 DEF DrainClosed, Candle, SlotIsTight
<1>5. CASE Upsert
  <2>1. writing \in FullCandle /\ writing.minute \in Minute
    BY <1>5, CandleKinds DEF Upsert, FullCandle
  <2> DEFINE old == stored[writing.minute]
             new == IF old = NoCandle THEN writing ELSE [writing EXCEPT !.open = old.open]
  <2>2. new \in Candle
    <3>1. old # NoCandle => old \in FullCandle
      BY <2>1, CandleKinds
    <3>2. old # NoCandle => [writing EXCEPT !.open = old.open] \in FullCandle
      BY <2>1, <3>1 DEF FullCandle
    <3>3. QED
      BY <2>1, <3>2, CandleKinds
  <2>3. stored' \in {stored, [stored EXCEPT ![writing.minute] = new]}
    BY <1>5 DEF Upsert
  <2> HIDE DEF new
  <2>4. stored' \in [Minute -> Candle]
    BY <2>1, <2>2, <2>3
  <2>5. writing' \in Candle
    BY <1>5 DEF Upsert, Candle
  <2>6. QED
    BY <1>5, <2>4, <2>5 DEF Upsert, SlotIsTight
<1>6. CASE UNCHANGED candleVars
  BY <1>6 DEF candleVars, SlotIsTight
<1>7. QED
  BY <1>1, <1>2, <1>3, <1>4, <1>5, <1>6 DEF CandleNext

\* Whatever the prices and however many samples, the candle in the slot is the summary
\* of what was sampled since it was opened.
THEOREM SlotIsTheSummary ==
  CandleSpec => []SlotSummarises
<1>1. CandleInv => SlotSummarises
  <2> SUFFICES ASSUME CandleInv, slot # NoCandle PROVE slot = Summary(slot.minute, since)
    BY DEF SlotSummarises
  <2>1. slot \in FullCandle /\ since \in Seq(Price) /\ since # <<>> /\ Price \subseteq Nat
    BY CandleKinds, CandleAssumption DEF CandleInv, CandleTypeOK, SlotIsTight
  <2> DEFINE S == ToSet(since)
  <2>2. S \subseteq Price
    BY <2>1 DEF ToSet
  <2>3. /\ slot.open = since[1] /\ slot.close = since[Len(since)]
        /\ slot.high \in S /\ \A q \in S : q <= slot.high
        /\ slot.low \in S /\ \A q \in S : slot.low <= q
    BY DEF CandleInv, SlotIsTight
  <2> HIDE DEF S
  <2>4. slot.high = CHOOSE p \in S : \A q \in S : q <= p
    <3>1. ASSUME NEW p \in S PROVE (\A q \in S : q <= p) <=> p = slot.high
      <4>1. p \in Nat /\ slot.high \in Nat
        BY <2>1, <2>2, <2>3
      <4>2. QED
        BY <2>3, <4>1
    <3>2. QED
      BY <2>3, <3>1
  <2>5. slot.low = CHOOSE p \in S : \A q \in S : p <= q
    <3>1. ASSUME NEW p \in S PROVE (\A q \in S : p <= q) <=> p = slot.low
      <4>1. p \in Nat /\ slot.low \in Nat
        BY <2>1, <2>2, <2>3
      <4>2. QED
        BY <2>3, <4>1
    <3>2. QED
      BY <2>3, <3>1
  <2>6. slot.close = Last(since)
    BY <2>3 DEF Last
  <2>7. QED
    BY <2>1, <2>3, <2>4, <2>5, <2>6 DEF Summary, S, FullCandle
<1>2. QED
  BY <1>1, CandleInvInit, CandleInvStep, PTL DEF CandleSpec

-----------------------------------------------------------------------------
(* Loops: the messages of a dispatch are offered one after the other.      *)

\* Induction over a set of numbers: the least number outside it would have a
\* predecessor inside.
LEMMA Induction ==
  ASSUME NEW T, 0 \in T, \A n \in Nat : n \in T => n + 1 \in T
  PROVE  Nat \subseteq T
<1> DEFINE Bad == {n \in Nat : n \notin T}
           R == OpToRel(<, Nat)
<1>1. IsWellFoundedOn(R, Nat)
  BY NatLessThanWellFounded
<1>2. \A x, y \in Nat : x < y => <<x, y>> \in R
  BY DEF OpToRel
<1> HIDE DEF R
<1> SUFFICES ASSUME Bad # {} PROVE FALSE
  OBVIOUS
<1>3. PICK n \in Bad : \A m \in Bad : ~ (<<m, n>> \in R)
  BY <1>1, WFMin
<1>4. n - 1 \in Bad /\ n \in Nat /\ n - 1 \in Nat /\ n - 1 < n
  BY <1>3
<1> HIDE DEF Bad
<1>5. QED
  BY <1>2, <1>3, <1>4

\* g lists what folding step over 1 .. n makes of base.
IsFold(g, n, S, base, step) ==
  /\ g \in [0 .. n -> S]
  /\ g[0] = base
  /\ \A i \in 1 .. n : g[i] = step[i][g[i - 1]]

\* Folding a sequence of functions on S over a value of S can be done.
LEMMA Folding ==
  ASSUME NEW S, NEW base \in S, NEW N \in Nat, NEW step \in [1 .. N -> [S -> S]]
  PROVE  \E g : IsFold(g, N, S, base, step)
<1> DEFINE T == {n \in Nat : n <= N => \E g : IsFold(g, n, S, base, step)}
<1>1. 0 \in T
  <2>1. IsFold([i \in 0 .. 0 |-> base], 0, S, base, step)
    BY DEF IsFold
  <2>2. QED
    BY <2>1
<1>2. ASSUME NEW n \in Nat, n \in T PROVE n + 1 \in T
  <2> SUFFICES ASSUME n + 1 <= N PROVE \E g : IsFold(g, n + 1, S, base, step)
    OBVIOUS
  <2>1. PICK g : IsFold(g, n, S, base, step)
    BY <1>2
  <2> DEFINE new == step[n + 1][g[n]]
             h == [i \in 0 .. n + 1 |-> IF i = n + 1 THEN new ELSE g[i]]
  <2>2. g \in [0 .. n -> S] /\ g[0] = base /\ \A i \in 1 .. n : g[i] = step[i][g[i - 1]]
    BY <2>1 DEF IsFold
  <2>3. new \in S
    <3>1. g[n] \in S /\ n + 1 \in 1 .. N
      BY <2>2
    <3>2. QED
      BY <3>1
  <2>4. ASSUME NEW i \in 1 .. n + 1 PROVE h[i] = step[i][h[i - 1]]
    <3>1. h[i - 1] = g[i - 1]
      OBVIOUS
    <3>2. CASE i = n + 1
      BY <3>1, <3>2
    <3>3. CASE i # n + 1
      BY <2>2, <3>1, <3>3
    <3>4. QED
      BY <3>2, <3>3
  <2> HIDE DEF new
  <2>5. h \in [0 .. n + 1 -> S] /\ h[0] = base
    BY <2>2, <2>3
  <2> HIDE DEF h
  <2>6. IsFold(h, n + 1, S, base, step)
    BY <2>4, <2>5 DEF IsFold
  <2>7. QED
    BY <2>6
<1>3. N \in T
  <2> HIDE DEF T
  <2>1. QED
    BY <1>1, <1>2, Induction
<1>4. QED
  BY <1>3

-----------------------------------------------------------------------------
(* The fanout of prices.                                                   *)

Elems(s) == {s[i] : i \in DOMAIN s}

\* Of one ticker's messages of one type, m was published before n.
Before(m, n) == m.type = n.type /\ m.ticker = n.ticker => m.seq < n.seq

Sorted(s) == \A i, j \in DOMAIN s : i < j => Before(s[i], s[j])

AllBefore(S, T) == \A m \in S, n \in T : Before(m, n)

\* What has not been dispatched yet.
Coming == Elems(buffer) \cup Elems(wire)

\* The tick buffer is a dictionary: one tick of a ticker.
IsDictionary(b) ==
  /\ \A i \in DOMAIN b : b[i].type = "tick"
  /\ \A i, j \in DOMAIN b : b[i].ticker = b[j].ticker => i = j

\* Channel and buffer are ordered, the buffer before the channel.
SourceInv ==
  /\ ~link => wire = <<>>
  /\ ~bridged => ~link
  /\ IsDictionary(buffer)
  /\ Sorted(wire)
  /\ AllBefore(Elems(buffer), Elems(wire))
  /\ \A m \in Coming : m.seq <= seq

\* So is what a client gets: what it has, what is being sent, its queue, what is coming.
ClientInv(c) ==
  /\ Len(queue[c]) <= QueueMax
  /\ Sorted(queue[c])
  /\ AllBefore(Elems(queue[c]), Coming)
  /\ \A m \in Elems(queue[c]) : m.seq <= seq
  /\ sending[c] # NoMsg =>
       /\ sending[c].seq <= seq
       /\ AllBefore({sending[c]}, Elems(queue[c]) \cup Coming)
       /\ sending[c].type = "tick" => sending[c].seq > shown[c][sending[c].ticker]
  /\ \A m \in Elems(queue[c]) \cup Coming : m.type = "tick" => m.seq > shown[c][m.ticker]
  /\ \A t \in Ticker : shown[c][t] <= seq

PubSubInv == PubSubTypeOK /\ SourceInv /\ \A c \in Client : ClientInv(c)

\* Messages are records with their three fields, and NoMsg is none of them.
LEMMA MessageKinds ==
  /\ NoMsg \notin Message
  /\ \A m \in Message : /\ m.type \in Types /\ m.ticker \in Ticker
                        /\ m.seq \in Nat /\ m.seq > 0 /\ m.seq <= MaxMessages
  /\ \A k \in Types, t \in Ticker, n \in 1 .. MaxMessages :
       [type |-> k, ticker |-> t, seq |-> n] \in Message
BY PubSubAssumption DEF NoMsg, Message, Types

\* The elements of a sequence, of one with a last element more and of one without its head.
LEMMA ElemsOf ==
  /\ \A S : \A s \in Seq(S) : Elems(s) \subseteq S
  /\ \A S : \A s \in Seq(S), x \in S : Elems(Append(s, x)) = Elems(s) \cup {x}
  /\ \A S : \A s \in Seq(S) : s # <<>> =>
       /\ Head(s) \in S /\ Tail(s) \in Seq(S)
       /\ Elems(s) = {Head(s)} \cup Elems(Tail(s))
  /\ Elems(<<>>) = {}
<1>1. ASSUME NEW S, NEW s \in Seq(S) PROVE Elems(s) \subseteq S
  BY DEF Elems
<1>2. ASSUME NEW S, NEW s \in Seq(S), NEW x \in S PROVE Elems(Append(s, x)) = Elems(s) \cup {x}
  BY AppendProperties DEF Elems
<1>3. ASSUME NEW S, NEW s \in Seq(S), s # <<>>
      PROVE  /\ Head(s) \in S /\ Tail(s) \in Seq(S)
             /\ Elems(s) = {Head(s)} \cup Elems(Tail(s))
  <2>1. /\ Head(s) \in S /\ Tail(s) \in Seq(S) /\ Len(s) \in Nat \ {0} /\ Head(s) = s[1]
        /\ DOMAIN Tail(s) = 1 .. Len(s) - 1 /\ \A i \in 1 .. Len(s) - 1 : Tail(s)[i] = s[i + 1]
    BY <1>3
  <2>2. Elems(Tail(s)) = {s[i + 1] : i \in 1 .. Len(s) - 1}
    BY <2>1 DEF Elems
  <2>3. Elems(s) = {s[i] : i \in 1 .. Len(s)}
    BY DEF Elems
  <2>4. \A i \in 2 .. Len(s) : i - 1 \in 1 .. Len(s) - 1 /\ (i - 1) + 1 = i
    BY <2>1
  <2>5. \A i \in 1 .. Len(s) - 1 : i + 1 \in 1 .. Len(s)
    BY <2>1
  <2>6. Elems(s) \subseteq {Head(s)} \cup Elems(Tail(s))
    <3> SUFFICES ASSUME NEW i \in 1 .. Len(s) PROVE s[i] \in {Head(s)} \cup Elems(Tail(s))
      BY <2>3
    <3>1. CASE i = 1
      BY <2>1, <3>1
    <3>2. CASE i # 1
      <4>1. i \in 2 .. Len(s)
        BY <2>1, <3>2
      <4>2. QED
        BY <2>2, <2>4, <4>1
    <3>3. QED
      BY <3>1, <3>2
  <2>7. {Head(s)} \cup Elems(Tail(s)) \subseteq Elems(s)
    BY <2>1, <2>2, <2>3, <2>5
  <2>8. QED
    BY <2>1, <2>6, <2>7
<1>4. Elems(<<>>) = {}
  BY DEF Elems
<1>5. QED
  BY <1>1, <1>2, <1>3, <1>4

\* Appending a later message keeps a sequence in order, and so does taking its head.
LEMMA SortedOf ==
  /\ \A S : \A s \in Seq(S), x \in S : Sorted(s) /\ AllBefore(Elems(s), {x}) => Sorted(Append(s, x))
  /\ \A S : \A s \in Seq(S) : s # <<>> /\ Sorted(s) =>
       Sorted(Tail(s)) /\ AllBefore({Head(s)}, Elems(Tail(s)))
  /\ Sorted(<<>>)
<1>1. ASSUME NEW S, NEW s \in Seq(S), NEW x \in S, Sorted(s), AllBefore(Elems(s), {x})
      PROVE  Sorted(Append(s, x))
  <2>1. \A i \in DOMAIN s : Before(s[i], x)
    BY <1>1 DEF AllBefore, Elems
  <2>2. /\ DOMAIN Append(s, x) = 1 .. Len(s) + 1 /\ DOMAIN s = 1 .. Len(s) /\ Len(s) \in Nat
        /\ Append(s, x)[Len(s) + 1] = x
        /\ \A i \in 1 .. Len(s) : Append(s, x)[i] = s[i]
    BY AppendProperties
  <2>3. QED
    BY <1>1, <2>1, <2>2 DEF Sorted
<1>2. ASSUME NEW S, NEW s \in Seq(S), s # <<>>, Sorted(s)
      PROVE  Sorted(Tail(s)) /\ AllBefore({Head(s)}, Elems(Tail(s)))
  <2>1. /\ Len(s) \in Nat \ {0} /\ Head(s) = s[1] /\ DOMAIN s = 1 .. Len(s)
        /\ DOMAIN Tail(s) = 1 .. Len(s) - 1
        /\ \A i \in 1 .. Len(s) - 1 : Tail(s)[i] = s[i + 1]
    BY <1>2
  <2>2. \A i, j \in 1 .. Len(s) - 1 : i < j => Before(Tail(s)[i], Tail(s)[j])
    BY <1>2, <2>1 DEF Sorted
  <2>3. \A j \in 1 .. Len(s) - 1 : Before(Head(s), Tail(s)[j])
    BY <1>2, <2>1 DEF Sorted
  <2>4. QED
    BY <2>1, <2>2, <2>3 DEF Sorted, AllBefore, Elems
<1>3. Sorted(<<>>)
  BY DEF Sorted
<1>4. QED
  BY <1>1, <1>2, <1>3

\* What a client is offered, put after what it has.
LEMMA OfferedIsFold ==
  ASSUME NEW c \in Client, queue[c] \in Seq(Message), NEW ms \in Seq(Message)
  PROVE  \E f : /\ f[0] = queue[c]
                /\ \A n \in 1 .. Len(ms) :
                     f[n] \in {f[n - 1], PutNowait(f[n - 1], ms[n])}
                /\ Offered(c, ms) = f[Len(ms)]
<1> DEFINE S == Seq(Message)
           N == Len(ms)
           Add(q, m) == IF Accepts(c, m) THEN PutNowait(q, m) ELSE q
           step == [n \in 1 .. N |-> [q \in S |-> Add(q, ms[n])]]
           Rec(f) == f = [n \in 0 .. N |-> IF n = 0 THEN queue[c]
                                           ELSE IF Accepts(c, ms[n]) THEN PutNowait(f[n - 1], ms[n])
                                           ELSE f[n - 1]]
<1>1. N \in Nat /\ queue[c] \in S /\ \A n \in 1 .. N : ms[n] \in Message
  OBVIOUS
<1>2. \A q \in S, m \in Message : Add(q, m) \in S
  BY DEF PutNowait
<1>a. \A q, m : Add(q, m) = IF Accepts(c, m) THEN PutNowait(q, m) ELSE q
  OBVIOUS
<1> HIDE DEF S, N, Add
<1>3. step \in [1 .. N -> [S -> S]]
  BY <1>1, <1>2
<1>4. \A n \in 1 .. N, q \in S : step[n][q] = Add(q, ms[n])
  OBVIOUS
<1> HIDE DEF step
<1>5. PICK g : IsFold(g, N, S, queue[c], step)
  BY <1>1, <1>3, Folding
<1>6. g \in [0 .. N -> S] /\ g[0] = queue[c] /\ \A n \in 1 .. N : g[n] = step[n][g[n - 1]]
  BY <1>5 DEF IsFold
<1>7. ASSUME NEW n \in 1 .. N PROVE g[n] = Add(g[n - 1], ms[n])
  <2>1. n - 1 \in 0 .. N
    BY <1>1
  <2>2. QED
    BY <1>4, <1>6, <2>1
<1>8. Rec(g)
  BY <1>6, <1>7, <1>a
<1> DEFINE f == CHOOSE f : Rec(f)
<1>9. Rec(f)
  <2> HIDE DEF Rec
  <2>1. QED
    BY <1>8
<1>10. Offered(c, ms) = f[N]
  BY DEF Offered, N
<1> HIDE DEF f
<1>11. f[0] = queue[c] /\ \A n \in 1 .. N : f[n] \in {f[n - 1], PutNowait(f[n - 1], ms[n])}
  BY <1>1, <1>9
<1>12. QED
  BY <1>10, <1>11 DEF N

\* _dispatch keeps a queue in order and within its limit: by induction over the messages.
LEMMA OfferedKeeps ==
  ASSUME NEW c \in Client, queue[c] \in Seq(Message), NEW ms \in Seq(Message)
  PROVE  /\ Offered(c, ms) \in Seq(Message)
         /\ Elems(Offered(c, ms)) \subseteq Elems(queue[c]) \cup Elems(ms)
         /\ Len(queue[c]) <= QueueMax => Len(Offered(c, ms)) <= QueueMax
         /\ Sorted(queue[c]) /\ Sorted(ms) /\ AllBefore(Elems(queue[c]), Elems(ms)) =>
              Sorted(Offered(c, ms))
<1> DEFINE N == Len(ms)
           q == queue[c]
           Upto(n) == {ms[i] : i \in 1 .. n}
           Fair == Sorted(q) /\ Sorted(ms) /\ AllBefore(Elems(q), Elems(ms))
<1>1. PICK f : /\ f[0] = q
               /\ \A n \in 1 .. N : f[n] \in {f[n - 1], PutNowait(f[n - 1], ms[n])}
               /\ Offered(c, ms) = f[N]
  BY OfferedIsFold
<1> DEFINE Good(n) == /\ f[n] \in Seq(Message)
                      /\ Elems(f[n]) \subseteq Elems(q) \cup Upto(n)
                      /\ Len(q) <= QueueMax => Len(f[n]) <= QueueMax
                      /\ Fair => Sorted(f[n])
           T == {n \in Nat : n <= N => Good(n)}
<1>2. N \in Nat /\ QueueMax \in Nat /\ Upto(N) = Elems(ms) /\ \A n \in 1 .. N : ms[n] \in Message
  BY PubSubAssumption DEF Elems
<1>3. 0 \in T
  BY <1>1
<1>4. ASSUME NEW n \in Nat, n \in T PROVE n + 1 \in T
  <2> SUFFICES ASSUME n + 1 <= N PROVE Good(n + 1)
    OBVIOUS
  <2> DEFINE m == ms[n + 1]
  <2>1. Good(n)
    BY <1>2, <1>4
  <2>2. m \in Message /\ f[n + 1] \in {f[n], PutNowait(f[n], m)}
    BY <1>1, <1>2
  <2>3. Upto(n + 1) = Upto(n) \cup {m}
    OBVIOUS
  <2>4. Fair => AllBefore(Elems(q) \cup Upto(n), {m})
    <3> SUFFICES ASSUME Fair, NEW x \in Elems(q) \cup Upto(n) PROVE Before(x, m)
      BY DEF AllBefore
    <3>1. CASE x \in Elems(q)
      <4>1. m \in Elems(ms)
        BY <1>2 DEF Elems
      <4>2. QED
        BY <3>1, <4>1 DEF AllBefore
    <3>2. CASE x \in Upto(n)
      BY <3>2, <1>2 DEF Sorted
    <3>3. QED
      BY <3>1, <3>2
  <2> HIDE DEF m, Upto, Fair
  <2>5. CASE f[n + 1] = f[n]
    BY <2>1, <2>3, <2>5
  <2>6. CASE f[n + 1] = Append(f[n], m) /\ Len(f[n]) < QueueMax
    <3>1. Append(f[n], m) \in Seq(Message) /\ Len(Append(f[n], m)) = Len(f[n]) + 1
          /\ Len(f[n]) \in Nat
      BY <2>1, <2>2
    <3>2. Elems(Append(f[n], m)) = Elems(f[n]) \cup {m}
      BY <2>1, <2>2, ElemsOf
    <3>3. Fair => AllBefore(Elems(f[n]), {m})
      BY <2>1, <2>4 DEF AllBefore
    <3>4. Fair => Sorted(Append(f[n], m))
      BY <2>1, <2>2, <3>3, SortedOf
    <3>5. QED
      BY <1>2, <2>1, <2>3, <2>6, <3>1, <3>2, <3>4
  <2>7. QED
    BY <2>2, <2>5, <2>6 DEF PutNowait
<1>5. N \in T
  <2> HIDE DEF T
  <2>1. QED
    BY <1>2, <1>3, <1>4, Induction
<1>6. Good(N)
  BY <1>2, <1>5
<1> HIDE DEF Upto
<1>7. QED
  BY <1>1, <1>2, <1>6

\* The buffer stays a dictionary.
LEMMA PutKeeps ==
  ASSUME NEW b \in Seq(Message), NEW m \in Message
  PROVE  /\ Put(b, m) \in Seq(Message)
         /\ Elems(Put(b, m)) \subseteq Elems(b) \cup {m}
         /\ m.type = "tick" /\ IsDictionary(b) => IsDictionary(Put(b, m))
<1>1. CASE \E i \in DOMAIN b : b[i].ticker = m.ticker
  <2> DEFINE new == [i \in DOMAIN b |-> IF b[i].ticker = m.ticker THEN m ELSE b[i]]
  <2>1. Put(b, m) = new
    BY <1>1 DEF Put
  <2>2. DOMAIN b = 1 .. Len(b) /\ Len(b) \in Nat /\ \A i \in DOMAIN b : b[i] \in Message
    OBVIOUS
  <2>3. \A i \in DOMAIN b : new[i] \in Message /\ new[i] \in {m, b[i]} /\ new[i].ticker = b[i].ticker
    BY <2>2
  <2>4. new \in Seq(Message)
    <3>1. new \in [1 .. Len(b) -> Message]
      BY <2>2, <2>3
    <3>2. QED
      BY <2>2, <3>1
  <2>5. DOMAIN new = DOMAIN b
    OBVIOUS
  <2> HIDE DEF new
  <2>6. QED
    BY <2>1, <2>3, <2>4, <2>5 DEF Elems, IsDictionary
<1>2. CASE ~ \E i \in DOMAIN b : b[i].ticker = m.ticker
  <2>1. Put(b, m) = Append(b, m)
    BY <1>2 DEF Put
  <2>2. /\ Append(b, m) \in Seq(Message) /\ Elems(Append(b, m)) = Elems(b) \cup {m}
        /\ DOMAIN Append(b, m) = 1 .. Len(b) + 1 /\ DOMAIN b = 1 .. Len(b) /\ Len(b) \in Nat
        /\ Append(b, m)[Len(b) + 1] = m
        /\ \A i \in 1 .. Len(b) : Append(b, m)[i] = b[i]
    BY ElemsOf, AppendProperties
  <2>3. m.type = "tick" /\ IsDictionary(b) => IsDictionary(Append(b, m))
    BY <1>2, <2>2 DEF IsDictionary
  <2>4. QED
    BY <2>1, <2>2, <2>3
<1>3. QED
  BY <1>1, <1>2

\* What a dispatch leaves of queues and losses has its type.
LEMMA DispatchTyped ==
  ASSUME PubSubTypeOK, NEW ms \in Seq(Message), Dispatch(ms)
  PROVE  queue' \in [Client -> Seq(Message)] /\ lost' \subseteq Client \X Message
<1>1. \A c \in Client : Offered(c, ms) \in Seq(Message)
  BY OfferedKeeps DEF PubSubTypeOK
<1>2. queue' \in [Client -> Seq(Message)]
  BY <1>1 DEF Dispatch
<1>3. \A c \in Client : Ticks(Overflow(c, ms)) \subseteq Message
  BY DEF Ticks, Overflow, ToSet
<1>4. lost' \subseteq Client \X Message
  BY <1>3 DEF Dispatch, PubSubTypeOK
<1>5. QED
  BY <1>2, <1>4

\* What taking a message in leaves of buffer, queues and losses has its type.
LEMMA TakeTyped ==
  ASSUME PubSubTypeOK, NEW m \in Message, Take(m)
  PROVE  /\ buffer' \in Seq(Message)
         /\ queue' \in [Client -> Seq(Message)] /\ lost' \subseteq Client \X Message
<1>1. <<m>> \in Seq(Message)
  OBVIOUS
<1>2. CASE m.type = "tick"
  BY <1>2, PutKeeps DEF Take, PubSubTypeOK
<1>3. CASE m.type # "tick"
  BY <1>1, <1>3, DispatchTyped DEF Take, PubSubTypeOK
<1>4. QED
  BY <1>2, <1>3

\* Messages lost to every client are pairs of a client and a message.
LEMMA LostTyped ==
  ASSUME NEW S \in SUBSET Message
  PROVE  LostToAll(S) \subseteq Client \X Message
BY DEF LostToAll, Ticks

\* Every step keeps the types.
LEMMA PubSubTypedStep ==
  ASSUME PubSubTypeOK, [PubSubNext]_pubSubVars
  PROVE  PubSubTypeOK'
<1>1. ASSUME NEW k \in Types, NEW t \in Ticker, Publish(k, t) PROVE PubSubTypeOK'
  <2> DEFINE m == [type |-> k, ticker |-> t, seq |-> seq + 1]
  <2>1. seq \in Nat /\ seq < MaxMessages /\ seq' = seq + 1 /\ seq' \in 0 .. MaxMessages
    BY <1>1, PubSubAssumption DEF Publish, PubSubTypeOK
  <2>2. m \in Message
    BY <2>1, MessageKinds, PubSubAssumption
  <2>3. \/ Take(m) /\ UNCHANGED wire
        \/ wire' = Append(wire, m) /\ UNCHANGED <<buffer, queue, lost>>
        \/ lost' = lost \cup LostToAll({m}) /\ UNCHANGED <<wire, buffer, queue>>
    BY <1>1 DEF Publish
  <2> HIDE DEF m
  <2>4. /\ buffer' \in Seq(Message) /\ wire' \in Seq(Message)
        /\ queue' \in [Client -> Seq(Message)] /\ lost' \subseteq Client \X Message
    <3>1. CASE Take(m) /\ UNCHANGED wire
      BY <2>2, <3>1, TakeTyped DEF PubSubTypeOK
    <3>2. CASE wire' = Append(wire, m) /\ UNCHANGED <<buffer, queue, lost>>
      BY <2>2, <3>2 DEF PubSubTypeOK
    <3>3. CASE lost' = lost \cup LostToAll({m}) /\ UNCHANGED <<wire, buffer, queue>>
      BY <2>2, <3>3, LostTyped DEF PubSubTypeOK
    <3>4. QED
      BY <2>3, <3>1, <3>2, <3>3
  <2>5. QED
    BY <1>1, <2>1, <2>4 DEF Publish, PubSubTypeOK
<1>2. CASE Reinject
  <2>1. Head(wire) \in Message /\ Tail(wire) \in Seq(Message)
    BY <1>2, ElemsOf DEF Reinject, PubSubTypeOK
  <2>2. QED
    BY <1>2, <2>1, TakeTyped DEF Reinject, PubSubTypeOK
<1>3. CASE LinkBreaks
  <2>1. ToSet(wire) \subseteq Message
    BY DEF PubSubTypeOK, ToSet
  <2>2. lost' \subseteq Client \X Message
    BY <1>3, <2>1, LostTyped DEF LinkBreaks, PubSubTypeOK
  <2>3. wire' \in Seq(Message)
    BY <1>3 DEF LinkBreaks
  <2>4. QED
    BY <1>3, <2>2, <2>3 DEF LinkBreaks, PubSubTypeOK, clientVars
<1>4. CASE LinkReturns \/ Stop
  BY <1>4 DEF LinkReturns, Stop, PubSubTypeOK, clientVars
<1>5. CASE Flush
  <2>1. buffer \in Seq(Message) /\ <<>> \in Seq(Message)
    BY DEF PubSubTypeOK
  <2>2. QED
    BY <1>5, <2>1, DispatchTyped DEF Flush, PubSubTypeOK
<1>6. ASSUME NEW c \in Client, Connect(c) \/ Unsubscribe(c) \/ HangUp(c)
      PROVE PubSubTypeOK'
  BY <1>6 DEF Connect, Unsubscribe, HangUp, PubSubTypeOK, brokerVars
<1>7. ASSUME NEW c \in Client, NEW f \in Filter, Subscribe(c, f) PROVE PubSubTypeOK'
  <2>1. f.tickers \in SUBSET Ticker /\ f.types \in SUBSET Types
    BY PubSubAssumption
  <2>2. QED
    BY <1>7, <2>1 DEF Subscribe, PubSubTypeOK, brokerVars
<1>8. ASSUME NEW c \in Client, Get(c) PROVE PubSubTypeOK'
  <2>1. Head(queue[c]) \in Message /\ Tail(queue[c]) \in Seq(Message)
    BY <1>8, ElemsOf DEF Get, PubSubTypeOK
  <2>2. QED
    BY <1>8, <2>1 DEF Get, PubSubTypeOK, brokerVars
<1>9. ASSUME NEW c \in Client, Sent(c) PROVE PubSubTypeOK'
  <2>1. sending[c] \in Message /\ sending[c].ticker \in Ticker /\ sending[c].seq \in 0 .. MaxMessages
    BY <1>9, MessageKinds, PubSubAssumption DEF Sent, PubSubTypeOK
  <2>2. shown' \in [Client -> [Ticker -> 0 .. MaxMessages]]
    BY <1>9, <2>1 DEF Sent, PubSubTypeOK
  <2>3. QED
    BY <1>9, <2>2 DEF Sent, PubSubTypeOK, brokerVars
<1>10. ASSUME NEW c \in Client, SendFails(c) \/ Disconnected(c) PROVE PubSubTypeOK'
  BY <1>10 DEF SendFails, Disconnected, PubSubTypeOK, brokerVars
<1>11. ASSUME NEW c \in Client, RemoveSubscriber(c) PROVE PubSubTypeOK'
  <2>1. [t \in Ticker |-> 0] \in [Ticker -> 0 .. MaxMessages] /\ <<>> \in Seq(Message)
    BY PubSubAssumption
  <2>2. QED
    BY <1>11, <2>1 DEF RemoveSubscriber, PubSubTypeOK
<1>12. CASE UNCHANGED pubSubVars
  BY <1>12 DEF pubSubVars, clientVars, PubSubTypeOK
<1>13. QED
  BY <1>1, <1>2, <1>3, <1>4, <1>5, <1>6, <1>7, <1>8, <1>9, <1>10, <1>11, <1>12 DEF PubSubNext

-----------------------------------------------------------------------------
(* What a step may do to a client: move messages on, and add newer ones.   *)

Flows(c, fresh) ==
  /\ fresh \subseteq Message
  /\ seq' >= seq /\ \A m \in fresh : m.seq > seq /\ m.seq <= seq'
  /\ Coming' \subseteq Coming \cup fresh
  /\ Elems(queue[c])' \subseteq Elems(queue[c]) \cup Coming \cup fresh
  /\ Sorted(queue[c])' /\ Len(queue[c])' <= QueueMax
  /\ AllBefore(Elems(queue[c])', Coming')
  /\ UNCHANGED <<sending, shown>>

\* A step that only moves messages along the way to a client keeps them in order.
LEMMA FlowKeeps ==
  ASSUME PubSubInv, PubSubTypeOK', NEW c \in Client, NEW F, Flows(c, F)
  PROVE  ClientInv(c)'
<1>f. /\ F \subseteq Message /\ seq' >= seq /\ \A m \in F : m.seq > seq /\ m.seq <= seq'
      /\ Coming' \subseteq Coming \cup F
      /\ Elems(queue[c])' \subseteq Elems(queue[c]) \cup Coming \cup F
      /\ Sorted(queue[c])' /\ Len(queue[c])' <= QueueMax
      /\ AllBefore(Elems(queue[c])', Coming')
      /\ UNCHANGED <<sending, shown>>
  BY DEF Flows
<1>1. /\ seq \in Nat /\ seq' \in Nat /\ \A t \in Ticker : shown[c][t] \in Nat
      /\ queue[c] \in Seq(Message) /\ sending[c] \in Message \cup {NoMsg}
      /\ buffer \in Seq(Message) /\ wire \in Seq(Message)
  BY PubSubAssumption DEF PubSubInv, PubSubTypeOK
<1>2. Elems(queue[c]) \subseteq Message /\ Coming \subseteq Message
  BY <1>1, ElemsOf DEF Coming
<1>3. /\ SourceInv /\ ClientInv(c)
  BY DEF PubSubInv
<1> DEFINE Have == Elems(queue[c]) \cup Coming
           Next1 == Elems(queue[c])' \cup Coming'
<1>4. /\ \A m \in Have : m \in Message /\ m.seq <= seq
      /\ \A m \in Have : m.type = "tick" => m.seq > shown[c][m.ticker]
      /\ \A t \in Ticker : shown[c][t] <= seq
      /\ sending[c] # NoMsg => /\ sending[c].seq <= seq
                               /\ \A m \in Have : Before(sending[c], m)
                               /\ sending[c].type = "tick" => sending[c].seq > shown[c][sending[c].ticker]
  BY <1>2, <1>3 DEF SourceInv, ClientInv, AllBefore
<1>5. Next1 \subseteq Have \cup F
  BY <1>f
<1>6. \A m \in Have \cup F : m \in Message /\ m.seq \in Nat /\ m.ticker \in Ticker
  BY <1>f, <1>4, MessageKinds
<1> HIDE DEF Have
<1>7. \A m \in Have \cup F : m.seq <= seq'
  BY <1>f, <1>1, <1>4, <1>6
<1>8. \A m \in Have \cup F : m.type = "tick" => m.seq > shown[c][m.ticker]
  BY <1>f, <1>1, <1>4, <1>6
<1>9. sending[c] # NoMsg => sending[c].seq \in Nat
  BY <1>1, MessageKinds
<1>10. sending[c] # NoMsg => \A m \in Have \cup F : Before(sending[c], m)
  <2>1. ASSUME sending[c] # NoMsg, NEW m \in Have PROVE Before(sending[c], m)
    BY <1>4, <2>1
  <2>2. ASSUME sending[c] # NoMsg, NEW m \in F PROVE sending[c].seq < m.seq
    <3>1. /\ sending[c].seq \in Nat /\ sending[c].seq <= seq
          /\ m.seq \in Nat /\ m.seq > seq /\ seq \in Nat
      BY <1>f, <1>1, <1>4, <1>6, <1>9, <2>2
    <3>2. QED
      BY <3>1
  <2>3. QED
    BY <2>1, <2>2 DEF Before
<1>11. sending[c] # NoMsg => sending[c].seq <= seq'
  BY <1>f, <1>1, <1>4, <1>9
<1>12. \A t \in Ticker : shown[c][t] <= seq'
  BY <1>f, <1>1, <1>4
<1>13. /\ \A m \in Elems(queue[c])' : m.seq <= seq'
       /\ \A m \in Elems(queue[c])' \cup Coming' : m.type = "tick" => m.seq > shown[c][m.ticker]
  BY <1>f, <1>5, <1>7, <1>8
<1>14. sending[c] # NoMsg => AllBefore({sending[c]}, Elems(queue[c])' \cup Coming')
  BY <1>f, <1>5, <1>10 DEF AllBefore
<1> HIDE DEF Next1
<1>15. sending[c] # NoMsg /\ sending[c].type = "tick" => sending[c].seq > shown[c][sending[c].ticker]
  BY <1>4
<1>16. /\ sending[c]' = sending[c] /\ shown[c]' = shown[c]
       /\ Sorted(queue[c])' /\ Len(queue[c])' <= QueueMax
       /\ AllBefore(Elems(queue[c])', Coming')
  BY <1>f
<1>17. QED
  BY <1>11, <1>12, <1>13, <1>14, <1>15, <1>16 DEF ClientInv

\* A message that comes after everything dispatched and buffered, and before the channel.
Fits(m) ==
  /\ m \in Message
  /\ AllBefore(Elems(buffer), {m})
  /\ \A c \in Client : AllBefore(Elems(queue[c]), {m})
  /\ Elems(wire)' \subseteq Elems(wire)
  /\ AllBefore({m}, Elems(wire)')

\* Taking in a message that is newer than all before it keeps the tick buffer in order.
LEMMA TakeBuffers ==
  ASSUME PubSubInv, NEW m, Fits(m), Take(m)
  PROVE  /\ IsDictionary(buffer)'
         /\ AllBefore(Elems(buffer)', Elems(wire)')
         /\ Coming' \subseteq Coming \cup {m}
<1>1. /\ buffer \in Seq(Message) /\ IsDictionary(buffer) /\ AllBefore(Elems(buffer), Elems(wire))
  BY DEF PubSubInv, SourceInv, PubSubTypeOK
<1>2. IsDictionary(buffer)' /\ Elems(buffer)' \subseteq Elems(buffer) \cup {m}
  <2>1. CASE m.type = "tick"
    BY <1>1, <2>1, PutKeeps DEF Take, Fits
  <2>2. CASE m.type # "tick"
    BY <1>1, <2>2 DEF Take
  <2>3. QED
    BY <2>1, <2>2
<1>3. QED
  BY <1>1, <1>2 DEF AllBefore, Coming, Fits

\* It keeps the queues of the clients in order and within their bound as well.
LEMMA TakeQueues ==
  ASSUME PubSubInv, NEW m, Fits(m), Take(m), NEW c \in Client
  PROVE  /\ Elems(queue[c])' \subseteq Elems(queue[c]) \cup {m}
         /\ Sorted(queue[c])' /\ Len(queue[c])' <= QueueMax
         /\ AllBefore(Elems(queue[c])', Coming')
<1>1. /\ queue[c] \in Seq(Message)
      /\ IsDictionary(buffer) /\ AllBefore(Elems(buffer), Elems(wire))
      /\ Sorted(queue[c]) /\ Len(queue[c]) <= QueueMax
      /\ AllBefore(Elems(queue[c]), Coming)
  BY DEF PubSubInv, SourceInv, ClientInv, PubSubTypeOK
<1>2. m \in Message /\ AllBefore(Elems(queue[c]), {m}) /\ AllBefore({m}, Elems(wire)')
      /\ Coming' \subseteq Coming \cup {m}
  BY TakeBuffers DEF Fits
<1>3. CASE m.type = "tick"
  <2>1. queue' = queue
    BY <1>3 DEF Take
  <2>2. QED
    BY <1>1, <1>2, <2>1 DEF AllBefore
<1>4. CASE m.type # "tick"
  <2>1. buffer' = buffer /\ queue'[c] = Offered(c, <<m>>) /\ <<m>> \in Seq(Message)
    BY <1>2, <1>4 DEF Take, Dispatch
  <2>2. Elems(<<m>>) = {m} /\ Sorted(<<m>>)
    BY DEF Elems, Sorted
  <2>3. /\ Elems(queue[c])' \subseteq Elems(queue[c]) \cup {m}
        /\ Sorted(queue[c])' /\ Len(queue[c])' <= QueueMax
    BY <1>1, <1>2, <2>1, <2>2, OfferedKeeps
  <2>4. AllBefore({m}, Elems(buffer))
    BY <1>1, <1>4 DEF AllBefore, Elems, IsDictionary, Before
  <2>5. Elems(wire)' \subseteq Elems(wire)
    BY DEF Fits
  <2>6. QED
    BY <1>1, <1>2, <2>1, <2>3, <2>4, <2>5 DEF AllBefore, Coming
<1>5. QED
  BY <1>3, <1>4

\* PubSubInv holds at the start: nothing is on its way.
LEMMA PubSubInvInit == PubSubInit => PubSubInv
<1> SUFFICES ASSUME PubSubInit PROVE PubSubInv
  OBVIOUS
<1>1. PubSubTypeOK
  <2>1. [t \in Ticker |-> 0] \in [Ticker -> 0 .. MaxMessages] /\ <<>> \in Seq(Message)
        /\ 0 \in 0 .. MaxMessages
    BY PubSubAssumption
  <2>2. QED
    BY <2>1 DEF PubSubInit, PubSubTypeOK
<1>2. SourceInv
  BY ElemsOf DEF PubSubInit, SourceInv, IsDictionary, Sorted, AllBefore, Coming
<1>3. ASSUME NEW c \in Client PROVE ClientInv(c)
  <2>1. queue[c] = <<>> /\ sending[c] = NoMsg /\ shown[c] = [t \in Ticker |-> 0] /\ Coming = {}
        /\ Elems(queue[c]) = {} /\ seq = 0
    BY ElemsOf DEF PubSubInit, Coming
  <2>2. Sorted(queue[c]) /\ Len(queue[c]) = 0
    BY <2>1, SortedOf
  <2>3. QED
    BY <2>1, <2>2, PubSubAssumption DEF ClientInv, AllBefore
<1>4. QED
  BY <1>1, <1>2, <1>3 DEF PubSubInv

\* The broker's steps.
LEMMA BrokerKeeps ==
  ASSUME PubSubInv, PubSubTypeOK',
         \/ \E k \in Types, t \in Ticker : Publish(k, t)
         \/ Reinject \/ LinkBreaks \/ LinkReturns \/ Flush \/ Stop
  PROVE  SourceInv' /\ \A c \in Client : ClientInv(c)'
<1>1. /\ PubSubTypeOK /\ SourceInv /\ \A c \in Client : ClientInv(c)
      /\ buffer \in Seq(Message) /\ wire \in Seq(Message) /\ seq \in Nat
      /\ \A c \in Client : queue[c] \in Seq(Message)
  BY DEF PubSubInv, PubSubTypeOK
<1>2. Coming \subseteq Message /\ \A m \in Coming : m.seq \in Nat
  BY <1>1, ElemsOf, MessageKinds DEF Coming
<1>3. ASSUME NEW k \in Types, NEW t \in Ticker, Publish(k, t)
      PROVE  SourceInv' /\ \A c \in Client : ClientInv(c)'
  <2> DEFINE m == [type |-> k, ticker |-> t, seq |-> seq + 1]
  <2>1. /\ seq' = seq + 1 /\ seq < MaxMessages
        /\ UNCHANGED <<bridged, link, sending, shown>>
        /\ \/ ~bridged /\ Take(m) /\ UNCHANGED wire
           \/ link /\ wire' = Append(wire, m) /\ UNCHANGED <<buffer, queue>>
           \/ UNCHANGED <<wire, buffer, queue>>
    BY <1>1, <1>3 DEF Publish, PubSubTypeOK
  <2>2. m \in Message /\ m.seq = seq + 1
    BY <1>1, <2>1, MessageKinds, PubSubAssumption
  <2> HIDE DEF m
  <2>3. \A x \in Coming : Before(x, m) /\ x.seq <= seq
    BY <1>1, <1>2, <2>2 DEF SourceInv, Before
  <2>4. ASSUME NEW c \in Client PROVE AllBefore(Elems(queue[c]), {m})
    <3>1. \A x \in Elems(queue[c]) : x.seq <= seq /\ x.seq \in Nat
      BY <1>1, ElemsOf, MessageKinds DEF ClientInv
    <3>2. QED
      BY <1>1, <2>2, <3>1 DEF AllBefore, Before
  <2>5. \A x \in {m} : x.seq > seq /\ x.seq <= seq'
    BY <1>1, <2>1, <2>2
  <2>6. CASE ~bridged /\ Take(m) /\ UNCHANGED wire
    <3>1. wire = <<>> /\ wire' = <<>> /\ Elems(wire) = {} /\ Elems(wire)' = {} /\ Sorted(wire)'
      BY <1>1, <2>6, ElemsOf, SortedOf DEF SourceInv
    <3>2. Fits(m)
      BY <2>2, <2>3, <2>4, <3>1 DEF Fits, AllBefore, Coming
    <3>3. ASSUME NEW c \in Client PROVE ClientInv(c)'
      <4>a. Coming' \subseteq Coming \cup {m}
        BY <2>6, <3>2, TakeBuffers
      <4>b. /\ Elems(queue[c])' \subseteq Elems(queue[c]) \cup {m}
            /\ Sorted(queue[c])' /\ Len(queue[c])' <= QueueMax
            /\ AllBefore(Elems(queue[c])', Coming')
        BY <2>6, <3>2, TakeQueues
      <4>1. Flows(c, {m})
        BY <1>1, <2>1, <2>2, <2>5, <4>a, <4>b DEF Flows
      <4>2. QED
        BY <4>1, FlowKeeps
    <3>5. IsDictionary(buffer)' /\ Coming' \subseteq Coming \cup {m}
      BY <2>6, <3>2, TakeBuffers
    <3>6. \A x \in Coming' : x.seq <= seq'
      BY <1>1, <1>2, <2>1, <2>2, <2>3, <3>5
    <3>7. SourceInv'
      BY <1>1, <2>1, <3>1, <3>5, <3>6 DEF SourceInv, AllBefore
    <3>8. QED
      BY <3>3, <3>7
  <2>7. CASE link /\ wire' = Append(wire, m) /\ UNCHANGED <<buffer, queue>>
    <3>1. Elems(wire)' = Elems(wire) \cup {m} /\ Coming' = Coming \cup {m}
      BY <1>1, <2>2, <2>7, ElemsOf DEF Coming
    <3>2. Sorted(wire)'
      <4>1. AllBefore(Elems(wire), {m}) /\ Sorted(wire)
        BY <1>1, <2>3 DEF AllBefore, Coming, SourceInv
      <4>2. QED
        BY <1>1, <2>2, <2>7, <4>1, SortedOf
    <3>3. AllBefore(Elems(buffer)', Elems(wire)')
      BY <1>1, <2>3, <2>7, <3>1 DEF AllBefore, SourceInv, Coming
    <3>4. \A x \in Coming' : x.seq <= seq'
      BY <1>1, <1>2, <2>1, <2>2, <2>3, <3>1
    <3>5. SourceInv'
      BY <1>1, <2>1, <2>7, <3>2, <3>3, <3>4 DEF SourceInv
    <3>6. ASSUME NEW c \in Client PROVE ClientInv(c)'
      <4>1. Elems(queue[c])' = Elems(queue[c]) /\ Sorted(queue[c])' /\ Len(queue[c])' <= QueueMax
        BY <1>1, <2>7 DEF ClientInv
      <4>2. AllBefore(Elems(queue[c])', Coming')
        BY <1>1, <2>4, <3>1, <4>1 DEF ClientInv, AllBefore
      <4>3. Flows(c, {m})
        BY <1>1, <2>1, <2>2, <2>5, <3>1, <4>1, <4>2 DEF Flows
      <4>4. QED
        BY <4>3, FlowKeeps
    <3>7. QED
      BY <3>5, <3>6
  <2>8. CASE UNCHANGED <<wire, buffer, queue>>
    <3>1. Coming' = Coming /\ Elems(wire)' = Elems(wire) /\ Elems(buffer)' = Elems(buffer)
      BY <2>8 DEF Coming
    <3>2. \A x \in Coming' : x.seq <= seq'
      BY <1>1, <1>2, <2>1, <2>3, <3>1
    <3>3. SourceInv'
      BY <1>1, <2>1, <2>8, <3>1, <3>2 DEF SourceInv
    <3>4. ASSUME NEW c \in Client PROVE ClientInv(c)'
      <4>1. Elems(queue[c])' = Elems(queue[c]) /\ Sorted(queue[c])' /\ Len(queue[c])' <= QueueMax
            /\ AllBefore(Elems(queue[c])', Coming')
        BY <1>1, <2>8, <3>1 DEF ClientInv
      <4>2. Flows(c, {m})
        BY <1>1, <2>1, <2>2, <2>5, <3>1, <4>1 DEF Flows
      <4>3. QED
        BY <4>2, FlowKeeps
    <3>5. QED
      BY <3>3, <3>4
  <2>9. QED
    BY <2>1, <2>6, <2>7, <2>8
<1>4. ASSUME Reinject PROVE SourceInv' /\ \A c \in Client : ClientInv(c)'
  <2> DEFINE m == Head(wire)
  <2>1. /\ wire # <<>> /\ Take(m) /\ wire' = Tail(wire)
        /\ UNCHANGED <<bridged, link, seq, sending, shown>>
    BY <1>4 DEF Reinject
  <2>2. /\ m \in Message /\ Elems(wire) = {m} \cup Elems(wire)'
        /\ Sorted(wire)' /\ AllBefore({m}, Elems(wire)')
    BY <1>1, <2>1, ElemsOf, SortedOf DEF SourceInv
  <2> HIDE DEF m
  <2>3. m \in Coming /\ Coming \cup {m} = Coming
    BY <2>2 DEF Coming
  <2>4. Fits(m)
    BY <1>1, <2>2, <2>3 DEF SourceInv, ClientInv, AllBefore, Fits
  <2>5. ASSUME NEW c \in Client PROVE ClientInv(c)'
    <3>a. Coming' \subseteq Coming
      BY <2>1, <2>3, <2>4, TakeBuffers
    <3>b. /\ Elems(queue[c])' \subseteq Elems(queue[c]) \cup {m}
          /\ Sorted(queue[c])' /\ Len(queue[c])' <= QueueMax
          /\ AllBefore(Elems(queue[c])', Coming')
      BY <2>1, <2>4, TakeQueues
    <3>1. Flows(c, {})
      BY <1>1, <2>1, <2>3, <3>a, <3>b DEF Flows
    <3>2. QED
      BY <3>1, FlowKeeps
  <2>6. SourceInv'
    <3>1. link'
      BY <1>1, <2>1 DEF SourceInv
    <3>2. \A x \in Coming' : x.seq <= seq'
      BY <1>1, <2>1, <2>3, <2>4, TakeBuffers DEF SourceInv
    <3>3. ~bridged' => ~link'
      BY <1>1, <2>1 DEF SourceInv
    <3>4. QED
      BY <2>1, <2>2, <2>4, <3>1, <3>2, <3>3, TakeBuffers DEF SourceInv
  <2>7. QED
    BY <2>5, <2>6
<1>5. ASSUME LinkBreaks \/ LinkReturns \/ Stop
      PROVE  SourceInv' /\ \A c \in Client : ClientInv(c)'
  <2>1. /\ wire' \in {wire, <<>>} /\ (~link' => wire' = <<>>) /\ (~bridged' => ~link')
        /\ UNCHANGED <<buffer, queue, seq, sending, shown>>
    BY <1>1, <1>5 DEF LinkBreaks, LinkReturns, Stop, clientVars, SourceInv
  <2>2. Elems(wire)' \subseteq Elems(wire) /\ Sorted(wire)'
    BY <1>1, <2>1, ElemsOf, SortedOf DEF SourceInv
  <2>3. Elems(buffer)' = Elems(buffer) /\ Coming' \subseteq Coming
    BY <2>1, <2>2 DEF Coming
  <2>4. SourceInv'
    BY <1>1, <2>1, <2>2, <2>3 DEF SourceInv, AllBefore
  <2>5. ASSUME NEW c \in Client PROVE ClientInv(c)'
    BY <1>1, <2>1, <2>3 DEF ClientInv, AllBefore
  <2>6. QED
    BY <2>4, <2>5
<1>6. ASSUME Flush PROVE SourceInv' /\ \A c \in Client : ClientInv(c)'
  <2>1. /\ buffer' = <<>> /\ UNCHANGED <<bridged, link, wire, seq, sending, shown>>
        /\ \A c \in Client : queue'[c] = Offered(c, buffer)
    BY <1>6 DEF Flush, Dispatch
  <2>2. Elems(buffer)' = {} /\ Elems(wire)' = Elems(wire) /\ Coming' = Elems(wire)
    BY <2>1, ElemsOf DEF Coming
  <2>3. SourceInv'
    BY <1>1, <2>1, <2>2 DEF SourceInv, IsDictionary, AllBefore, Coming
  <2>4. Sorted(buffer)
    BY <1>1 DEF SourceInv, IsDictionary, Sorted, Before
  <2>5. ASSUME NEW c \in Client PROVE ClientInv(c)'
    <3>1. Sorted(queue[c]) /\ Len(queue[c]) <= QueueMax /\ AllBefore(Elems(queue[c]), Coming)
      BY <1>1 DEF ClientInv
    <3>2. AllBefore(Elems(queue[c]), Elems(buffer)) /\ AllBefore(Elems(buffer), Elems(wire))
      BY <1>1, <3>1 DEF AllBefore, Coming, SourceInv
    <3>3. /\ Elems(queue[c])' \subseteq Elems(queue[c]) \cup Elems(buffer)
          /\ Sorted(queue[c])' /\ Len(queue[c])' <= QueueMax
      BY <1>1, <2>1, <2>4, <3>1, <3>2, OfferedKeeps
    <3>4. AllBefore(Elems(queue[c])', Coming')
      BY <2>2, <3>1, <3>2, <3>3 DEF AllBefore, Coming
    <3>5. Coming' \subseteq Coming /\ Elems(queue[c])' \subseteq Elems(queue[c]) \cup Coming
      BY <2>2, <3>3 DEF Coming
    <3>6. Flows(c, {})
      BY <1>1, <2>1, <3>3, <3>4, <3>5 DEF Flows
    <3>7. QED
      BY <3>6, FlowKeeps
  <2>6. QED
    BY <2>3, <2>5
<1>7. QED
  BY <1>3, <1>4, <1>5, <1>6

\* What a client's handler does leaves the broker, and the other clients, as they are.
LEMMA HandlerKeeps ==
  ASSUME PubSubInv, PubSubTypeOK', NEW c \in Client,
         \/ Connect(c) \/ Unsubscribe(c) \/ \E f \in Filter : Subscribe(c, f)
         \/ Get(c) \/ Sent(c) \/ SendFails(c)
         \/ HangUp(c) \/ Disconnected(c) \/ RemoveSubscriber(c)
  PROVE  SourceInv' /\ \A d \in Client : ClientInv(d)'
<1>1. /\ PubSubTypeOK /\ SourceInv /\ \A d \in Client : ClientInv(d)
      /\ buffer \in Seq(Message) /\ wire \in Seq(Message)
      /\ queue \in [Client -> Seq(Message)] /\ sending \in [Client -> Message \cup {NoMsg}]
      /\ shown \in [Client -> [Ticker -> 0 .. MaxMessages]]
  BY DEF PubSubInv, PubSubTypeOK
<1>2. UNCHANGED <<bridged, link, wire, seq, buffer>>
  BY DEF Connect, Unsubscribe, Subscribe, Get, Sent, SendFails, HangUp,
         Disconnected, RemoveSubscriber, brokerVars
<1>3. Coming' = Coming /\ Elems(buffer)' = Elems(buffer) /\ Elems(wire)' = Elems(wire)
  BY <1>2 DEF Coming
<1>4. SourceInv'
  BY <1>1, <1>2, <1>3 DEF SourceInv
<1>5. ASSUME NEW d \in Client, queue'[d] = queue[d], sending'[d] \in {sending[d], NoMsg},
             shown'[d] = shown[d]
      PROVE  ClientInv(d)'
  <2>1. Elems(queue[d])' = Elems(queue[d]) /\ Sorted(queue[d])' = Sorted(queue[d])
    BY <1>5
  <2>2. ClientInv(d)
    BY <1>1
  <2>3. QED
    BY <1>2, <1>3, <1>5, <2>1, <2>2 DEF ClientInv
<1>6. CASE \/ Connect(c) \/ Unsubscribe(c) \/ \E f \in Filter : Subscribe(c, f)
           \/ SendFails(c) \/ HangUp(c) \/ Disconnected(c)
  <2>1. /\ queue' = queue /\ shown' = shown
        /\ sending' = sending \/ sending' = [sending EXCEPT ![c] = NoMsg]
    BY <1>6 DEF Connect, Unsubscribe, Subscribe, SendFails, HangUp, Disconnected
  <2>2. \A d \in Client : sending'[d] \in {sending[d], NoMsg}
    BY <1>1, <2>1
  <2>3. QED
    BY <1>4, <1>5, <2>1, <2>2
<1>7. CASE Get(c)
  <2>1. /\ sending[c] = NoMsg /\ queue[c] # <<>> /\ shown' = shown
        /\ sending'[c] = Head(queue[c]) /\ queue'[c] = Tail(queue[c])
        /\ \A d \in Client \ {c} : sending'[d] = sending[d] /\ queue'[d] = queue[d]
    BY <1>1, <1>7 DEF Get
  <2>2. ASSUME NEW d \in Client \ {c} PROVE ClientInv(d)'
    BY <1>5, <2>1
  <2>3. ClientInv(c)'
    <3> DEFINE q == queue[c]
    <3>a. q \in Seq(Message) /\ q # <<>> /\ Sorted(q) /\ Len(q) <= QueueMax /\ QueueMax \in Nat
      BY <1>1, <2>1, PubSubAssumption DEF ClientInv
    <3>b. /\ Elems(q) = {Head(q)} \cup Elems(Tail(q))
          /\ Sorted(Tail(q)) /\ AllBefore({Head(q)}, Elems(Tail(q)))
      BY <3>a, ElemsOf, SortedOf
    <3>c. Len(Tail(q)) = Len(q) - 1 /\ Len(q) \in Nat
      BY <3>a
    <3>1. /\ Elems(queue[c]) = {sending'[c]} \cup Elems(queue[c])'
          /\ Sorted(queue[c])' /\ AllBefore({sending'[c]}, Elems(queue[c])')
      BY <2>1, <3>b
    <3>2. Len(queue[c])' <= QueueMax
      BY <2>1, <3>a, <3>c
    <3>3. ClientInv(c)
      BY <1>1
    <3>4. /\ AllBefore(Elems(queue[c])', Coming') /\ AllBefore({sending'[c]}, Elems(queue[c])' \cup Coming')
      BY <1>3, <3>1, <3>3 DEF ClientInv, AllBefore
    <3>5. QED
      BY <1>2, <1>3, <2>1, <3>1, <3>2, <3>3, <3>4 DEF ClientInv
  <2>4. QED
    BY <1>4, <2>2, <2>3
<1>8. CASE Sent(c)
  <2> DEFINE m == sending[c]
  <2>1. m \in Message /\ queue' = queue /\ m # NoMsg
    BY <1>1, <1>8 DEF Sent
  <2>2. /\ sending'[c] = NoMsg
        /\ \A d \in Client \ {c} : sending'[d] = sending[d] /\ shown'[d] = shown[d]
        /\ shown'[c] = IF m.type = "tick" THEN [shown[c] EXCEPT ![m.ticker] = m.seq] ELSE shown[c]
    BY <1>1, <1>8, <2>1 DEF Sent
  <2>3. ASSUME NEW d \in Client \ {c} PROVE ClientInv(d)'
    BY <1>5, <2>1, <2>2
  <2>4. ClientInv(c)'
    <3>1. Elems(queue[c])' = Elems(queue[c]) /\ Sorted(queue[c])' = Sorted(queue[c])
      BY <2>1
    <3>2. ClientInv(c) /\ m.seq <= seq /\ AllBefore({m}, Elems(queue[c]) \cup Coming)
          /\ m.ticker \in Ticker
      BY <1>1, <2>1, MessageKinds DEF ClientInv
    <3>3. \A t \in Ticker : shown'[c][t] = IF m.type = "tick" /\ t = m.ticker THEN m.seq ELSE shown[c][t]
      BY <1>1, <2>2, <3>2
    <3>4. \A x \in Elems(queue[c]) \cup Coming : x.ticker \in Ticker
      BY <1>1, ElemsOf, MessageKinds DEF Coming
    <3>5. \A x \in Elems(queue[c]) \cup Coming : x.type = "tick" => x.seq > shown'[c][x.ticker]
      <4> SUFFICES ASSUME NEW x \in Elems(queue[c]) \cup Coming, x.type = "tick"
                   PROVE  x.seq > shown'[c][x.ticker]
        OBVIOUS
      <4>1. Before(m, x) /\ x.seq > shown[c][x.ticker] /\ x.ticker \in Ticker
        BY <3>2, <3>4 DEF AllBefore, ClientInv
      <4>2. m.seq \in Nat /\ x.seq \in Nat
        BY <1>1, <2>1, ElemsOf, MessageKinds DEF Coming
      <4>3. QED
        BY <3>3, <4>1, <4>2 DEF Before
    <3>6. \A t \in Ticker : shown'[c][t] <= seq
      BY <3>2, <3>3 DEF ClientInv
    <3>7. QED
      BY <1>2, <1>3, <2>1, <2>2, <3>1, <3>2, <3>5, <3>6 DEF ClientInv
  <2>5. QED
    BY <1>4, <2>3, <2>4
<1>9. CASE RemoveSubscriber(c)
  <2>1. /\ sending' = sending /\ queue'[c] = <<>> /\ shown'[c] = [t \in Ticker |-> 0]
        /\ \A d \in Client \ {c} : queue'[d] = queue[d] /\ shown'[d] = shown[d]
    BY <1>1, <1>9 DEF RemoveSubscriber
  <2>2. ASSUME NEW d \in Client \ {c} PROVE ClientInv(d)'
    BY <1>5, <2>1
  <2>3. ClientInv(c)'
    <3>1. Elems(queue[c])' = {} /\ Sorted(queue[c])' /\ Len(queue[c])' = 0
      BY <2>1, ElemsOf, SortedOf
    <3>2. ClientInv(c)
      BY <1>1
    <3>3. \A x \in Coming : x \in Message /\ x.ticker \in Ticker /\ x.seq > 0
      BY <1>1, ElemsOf, MessageKinds DEF Coming
    <3>4. sending[c] # NoMsg => sending[c].seq > 0 /\ sending[c].ticker \in Ticker
      BY <1>1, MessageKinds
    <3>5. seq \in Nat /\ QueueMax \in Nat
      BY <1>1, PubSubAssumption DEF PubSubTypeOK
    <3>6. QED
      BY <1>2, <1>3, <2>1, <3>1, <3>2, <3>3, <3>4, <3>5 DEF ClientInv, AllBefore
  <2>4. QED
    BY <1>4, <2>2, <2>3
<1>10. QED
  BY <1>6, <1>7, <1>8, <1>9

\* Every step of the fanout keeps PubSubInv.
LEMMA PubSubInvStep == PubSubInv /\ [PubSubNext]_pubSubVars => PubSubInv'
<1> SUFFICES ASSUME PubSubInv, [PubSubNext]_pubSubVars PROVE PubSubInv'
  OBVIOUS
<1>1. PubSubTypeOK'
  BY PubSubTypedStep DEF PubSubInv
<1>2. CASE \/ \E k \in Types, t \in Ticker : Publish(k, t)
           \/ Reinject \/ LinkBreaks \/ LinkReturns \/ Flush \/ Stop
  BY <1>1, <1>2, BrokerKeeps DEF PubSubInv
<1>3. ASSUME NEW c \in Client,
             \/ Connect(c) \/ Unsubscribe(c) \/ \E f \in Filter : Subscribe(c, f)
             \/ Get(c) \/ Sent(c) \/ SendFails(c)
             \/ HangUp(c) \/ Disconnected(c) \/ RemoveSubscriber(c)
      PROVE PubSubInv'
  BY <1>1, <1>3, HandlerKeeps DEF PubSubInv
<1>4. CASE UNCHANGED pubSubVars
  BY <1>1, <1>4 DEF pubSubVars, clientVars, PubSubInv, SourceInv, ClientInv, Coming
<1>5. QED
  BY <1>2, <1>3, <1>4 DEF PubSubNext

\* What is on its way to a client, read from its end, is what it is being sent and its
\* queue.
LEMMA WayIsSorted ==
  ASSUME PubSubInv, NEW c \in Client
  PROVE  /\ OnTheWay(c) \in Seq(Message)
         /\ Sorted(OnTheWay(c))
         /\ Elems(OnTheWay(c)) = (IF sending[c] = NoMsg THEN {} ELSE {sending[c]}) \cup Elems(queue[c])
<1>1. /\ queue[c] \in Seq(Message) /\ sending[c] \in Message \cup {NoMsg} /\ ClientInv(c)
  BY DEF PubSubInv, PubSubTypeOK
<1>2. CASE sending[c] = NoMsg
  <2>1. OnTheWay(c) = queue[c]
    BY <1>1, <1>2 DEF OnTheWay
  <2>2. QED
    BY <1>1, <1>2, <2>1 DEF ClientInv
<1>3. CASE sending[c] # NoMsg
  <2> DEFINE m == sending[c]
             w == <<m>> \o queue[c]
             N == Len(queue[c])
  <2>1. OnTheWay(c) = w
    BY <1>3 DEF OnTheWay
  <2>2. /\ m \in Message /\ N \in Nat /\ w \in Seq(Message) /\ DOMAIN w = 1 .. N + 1 /\ w[1] = m
        /\ \A i \in 2 .. N + 1 : i - 1 \in 1 .. N /\ w[i] = queue[c][i - 1]
        /\ DOMAIN queue[c] = 1 .. N
    BY <1>1, <1>3
  <2>3. ASSUME NEW i \in 1 .. N PROVE i + 1 \in 2 .. N + 1 /\ w[i + 1] = queue[c][i]
    <3>1. i + 1 \in 2 .. N + 1 /\ (i + 1) - 1 = i
      BY <2>2
    <3> HIDE DEF w, N
    <3>2. QED
      BY <2>2, <3>1
  <2> HIDE DEF w, N
  <2>4. \A i \in 1 .. N : Before(m, queue[c][i])
    BY <1>1, <1>3, <2>2 DEF ClientInv, AllBefore, Elems
  <2>5. Sorted(w)
    <3> SUFFICES ASSUME NEW i \in 1 .. N + 1, NEW j \in 1 .. N + 1, i < j PROVE Before(w[i], w[j])
      BY <2>2 DEF Sorted
    <3>1. j \in 2 .. N + 1 /\ w[j] = queue[c][j - 1] /\ j - 1 \in 1 .. N
      BY <2>2
    <3>2. CASE i = 1
      BY <2>2, <2>4, <3>1, <3>2
    <3>3. CASE i # 1
      <4>1. i \in 2 .. N + 1 /\ w[i] = queue[c][i - 1] /\ i - 1 \in 1 .. N /\ i - 1 < j - 1
        BY <2>2, <3>1, <3>3
      <4>2. QED
        BY <1>1, <2>2, <3>1, <4>1 DEF ClientInv, Sorted
    <3>4. QED
      BY <3>2, <3>3
  <2>6. Elems(w) = {m} \cup Elems(queue[c])
    <3>1. Elems(w) = {w[i] : i \in 1 .. N + 1} /\ Elems(queue[c]) = {queue[c][i] : i \in 1 .. N}
      BY <2>2 DEF Elems
    <3>2. \A i \in 1 .. N + 1 : i = 1 \/ i \in 2 .. N + 1
      BY <2>2
    <3>3. \A i \in 2 .. N + 1 : i \in 1 .. N + 1
      BY <2>2
    <3>4. \A i \in 1 .. N + 1 : w[i] \in {m} \cup Elems(queue[c])
      BY <2>2, <3>1, <3>2
    <3>5. \A i \in 1 .. N : queue[c][i] \in Elems(w)
      BY <2>3, <3>1, <3>3
    <3>6. m \in Elems(w)
      BY <2>2, <3>1
    <3>7. QED
      BY <3>1, <3>4, <3>5, <3>6
  <2>7. QED
    BY <1>3, <2>1, <2>2, <2>5, <2>6
<1>4. QED
  BY <1>2, <1>3

\* PubSubInv holds in every reachable state.
LEMMA PubSubInvariant == PubSubSpec => []PubSubInv
<1>1. QED
  BY PubSubInvInit, PubSubInvStep, PTL DEF PubSubSpec

\* Whatever the clients, the tickers, the filters and the size of the queue, the state of
\* the fanout stays well-typed.
THEOREM FanoutTypeCorrect == PubSubSpec => []PubSubTypeOK
BY PubSubInvariant, PTL DEF PubSubInv

\* And no client gets a price twice or an older one after a newer one, across a full queue,
\* the coalescing of ticks and a bridge that breaks.
THEOREM PricesArriveInOrder == PubSubSpec => []InOrder
<1>1. PubSubInv => InOrder
  <2> SUFFICES ASSUME PubSubInv, NEW c \in Client
               PROVE  LET w == OnTheWay(c) IN
                      /\ Len(queue[c]) <= QueueMax
                      /\ \A i \in DOMAIN w : w[i].type = "tick" => w[i].seq > shown[c][w[i].ticker]
                      /\ \A i, j \in DOMAIN w :
                           i < j /\ w[i].type = w[j].type /\ w[i].ticker = w[j].ticker
                             => w[i].seq < w[j].seq
    BY DEF InOrder
  <2> DEFINE w == OnTheWay(c)
  <2>1. ClientInv(c)
    BY DEF PubSubInv
  <2>2. Sorted(w) /\ \A i \in DOMAIN w : w[i] \in Elems(w)
    BY WayIsSorted DEF Elems
  <2>3. \A m \in Elems(w) : m.type = "tick" => m.seq > shown[c][m.ticker]
    BY <2>1, WayIsSorted DEF ClientInv
  <2> HIDE DEF w
  <2>4. \A i \in DOMAIN w : w[i].type = "tick" => w[i].seq > shown[c][w[i].ticker]
    BY <2>2, <2>3
  <2>5. \A i, j \in DOMAIN w :
          i < j /\ w[i].type = w[j].type /\ w[i].ticker = w[j].ticker => w[i].seq < w[j].seq
    BY <2>2 DEF Sorted, Before
  <2>6. QED
    BY <2>1, <2>4, <2>5 DEF ClientInv, w
<1>2. QED
  BY <1>1, PubSubInvariant, PTL
=============================================================================
