-------------------------------- MODULE Candles --------------------------------
(***************************************************************************)
(* The 1-minute candles of one symbol: the price loop samples the stream   *)
(* into the aggregator's slot, and the candle flush loop drains the slot   *)
(* once a minute and upserts the candle into market_candles_1m.  Draining  *)
(* and sampling run without an await in between; the upsert is awaited.    *)
(***************************************************************************)
EXTENDS Integers, Sequences, SequencesExt

CONSTANTS
  Price,        \* the prices of the stream
  LastMinute,   \* the model's time ends with this minute
  MaxSamples    \* samples in one slot

ASSUME CandleAssumption ==
  /\ Price \subseteq Nat \ {0}
  /\ LastMinute \in Nat
  /\ MaxSamples \in Nat

Minute == 0 .. LastMinute

VARIABLES
  now,      \* the current minute
  tick,     \* the last tick the stream landed and nobody has sampled
  slot,     \* the aggregator's slot
  writing,  \* the drained candle being upserted
  stored,   \* stored[m]: the row of minute m
  since,    \* the prices sampled since the slot was opened (history)
  sampled   \* sampled[m]: the prices sampled with a time in minute m (history)

candleVars == <<now, tick, slot, writing, stored, since, sampled>>

NoTick == [minute |-> -1, price |-> 0]
NoCandle == [minute |-> -1, open |-> 0, high |-> 0, low |-> 0, close |-> 0]

Higher(a, b) == IF a > b THEN a ELSE b
Lower(a, b) == IF a < b THEN a ELSE b

-----------------------------------------------------------------------------
Clock ==
  /\ now < LastMinute
  /\ now' = now + 1
  /\ UNCHANGED <<tick, slot, writing, stored, since, sampled>>

\* The ticker object keeps the last price, the slot of the subscription its time.
StreamTick(p) ==
  /\ tick' = [minute |-> now, price |-> p]
  /\ UNCHANGED <<now, slot, writing, stored, since, sampled>>

\* A new slot when the minute is another one than the slot's.
Opened(t) ==
  [minute |-> t.minute, open |-> t.price, high |-> t.price, low |-> t.price, close |-> t.price]

\* Mutant: the low starts from zero.
Updated_LowFromZero(s, t) ==
  [s EXCEPT !.high = Higher(@, t.price), !.low = Lower(0, @), !.close = t.price]

Updated(s, t) ==
  [s EXCEPT !.high = Higher(@, t.price), !.low = Lower(@, t.price), !.close = t.price]

\* drain_quotes and on_tick: the tick's own time decides the minute.
Sample ==
  /\ tick # NoTick /\ Len(since) < MaxSamples
  /\ IF slot.minute = tick.minute
     THEN slot' = Updated(slot, tick) /\ since' = Append(since, tick.price)
     ELSE slot' = Opened(tick) /\ since' = <<tick.price>>
  /\ sampled' = [sampled EXCEPT ![tick.minute] = @ \cup {tick.price}]
  /\ tick' = NoTick
  /\ UNCHANGED <<now, writing, stored>>

Closed(s) == s # NoCandle /\ s.minute < now

\* drain_closed hands out the slot and forgets it.
DrainClosed ==
  /\ writing = NoCandle
  /\ Closed(slot)
  /\ writing' = slot
  /\ slot' = NoCandle
  /\ since' = <<>>
  /\ UNCHANGED <<now, tick, stored, sampled>>

\* _upsert_candles: a conflicting row keeps its open.  A failure is logged and
\* the candle is gone.
Upsert ==
  /\ writing # NoCandle
  /\ stored' \in {stored,
                  [stored EXCEPT ![writing.minute] =
                     IF @ = NoCandle THEN writing ELSE [writing EXCEPT !.open = stored[writing.minute].open]]}
  /\ writing' = NoCandle
  /\ UNCHANGED <<now, tick, slot, since, sampled>>

-----------------------------------------------------------------------------
CandleInit ==
  /\ now = 0
  /\ tick = NoTick
  /\ slot = NoCandle /\ writing = NoCandle
  /\ stored = [m \in Minute |-> NoCandle]
  /\ since = <<>>
  /\ sampled = [m \in Minute |-> {}]

CandleNext == Clock \/ (\E p \in Price : StreamTick(p)) \/ Sample \/ DrainClosed \/ Upsert

CandleSpec == CandleInit /\ [][CandleNext]_candleVars

-----------------------------------------------------------------------------
(* Properties.                                                             *)

Candle == [minute : Minute, open : Price, high : Price, low : Price, close : Price] \cup {NoCandle}

CandleTypeOK ==
  /\ now \in Minute
  /\ tick \in [minute : Minute, price : Price] \cup {NoTick}
  /\ slot \in Candle /\ writing \in Candle
  /\ stored \in [Minute -> Candle]
  /\ since \in Seq(Price)
  /\ sampled \in [Minute -> SUBSET Price]

\* The reference: what the samples of a candle say.
Summary(m, s) ==
  [minute |-> m,
   open |-> s[1], close |-> Last(s),
   high |-> CHOOSE p \in ToSet(s) : \A q \in ToSet(s) : q <= p,
   low  |-> CHOOSE p \in ToSet(s) : \A q \in ToSet(s) : p <= q]

\* The slot is the summary of what was sampled since it was opened.
SlotSummarises == slot # NoCandle => slot = Summary(slot.minute, since)

\* "drain_closed(now) returns all completed candles and removes them from the
\* in-memory state" (candle_aggregator.py): a candle leaves the slot for the table.
CandlesComplete ==
  [][slot # NoCandle /\ slot'.minute # slot.minute => writing' = slot]_candleVars

\* "so partials are never persisted" (candle_aggregator.py): a stored row covers
\* every price sampled in its minute, once nothing of that minute is in hand.
NoPartialStored ==
  \A m \in Minute :
    stored[m] # NoCandle /\ slot.minute # m /\ writing.minute # m =>
      \A p \in sampled[m] : stored[m].low <= p /\ p <= stored[m].high
=============================================================================
