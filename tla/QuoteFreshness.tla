---------------------------- MODULE QuoteFreshness ----------------------------
(***************************************************************************)
(* The freshness of one symbol's quote on its way from the IBKR stream to  *)
(* the API: the price loop drains the stream into QuoteCache and marks     *)
(* rows stale, the database flush loop copies the cache to                 *)
(* ticker_market_data, and GET /tickers/{ticker}/market-data answers from  *)
(* the cache or, without a cached quote, from the row.                     *)
(*                                                                         *)
(* A time is its age in seconds, up to Old; every age grows with Second.   *)
(***************************************************************************)
EXTENDS Naturals

CONSTANTS
  Threshold   \* MARKET_DATA_STALE_THRESHOLD_S

ASSUME FreshnessAssumption == Threshold \in Nat \ {0}

Never == 6 * Threshold + 2
Old == 6 * Threshold + 1
Age == 0 .. Never

VARIABLES
  stage,     \* "off", "running", "stopping": the worker
  connected, \* the state of the connection is "connected"
  traded,    \* age of the last tick the market sent, whoever received it
  seen,      \* age of slot.last_seen_at
  dirty,     \* slot.dirty
  cached,    \* age of the cached quote, whose feed_status is "live"
  round,     \* where the price loop is in its round
  mark,      \* age of the "now" the stale marker is about to write
  flush,     \* age of the quote the flush loop is about to write
  row        \* feed_status and age of updated_at of the stored row

vars == <<stage, connected, traded, seen, dirty, cached, round, mark, flush, row>>

NoRow == [status |-> "unavailable", age |-> Never]

-----------------------------------------------------------------------------
(* Reading.                                                                *)

Bucket(age) ==
  CASE age = Never         -> "unavailable"
    [] age > 6 * Threshold -> "disconnected"
    [] age > Threshold     -> "stale"
    [] OTHER               -> "live"

\* _quote_from_row: what a reader of the row is told.
Reported(r) ==
  IF r.status = "disconnected" THEN "disconnected"
  ELSE IF Bucket(r.age) \in {"stale", "disconnected"} THEN Bucket(r.age)
  ELSE r.status

\* get_ticker_market_data.
Served ==
  IF ~connected THEN "disconnected"
  ELSE IF cached # Never THEN "live"
  ELSE Reported(row)

-----------------------------------------------------------------------------
(* Time, the market and the connection.                                    *)

Aged(age) == IF age >= Old THEN age ELSE age + 1

Second ==
  /\ traded' = Aged(traded) /\ seen' = Aged(seen) /\ cached' = Aged(cached)
  /\ mark' = Aged(mark) /\ flush' = Aged(flush)
  /\ row' = [row EXCEPT !.age = Aged(@)]
  /\ UNCHANGED <<stage, connected, dirty, round>>

\* A tick lands on the subscription.
Trade ==
  /\ stage = "running" /\ connected
  /\ traded' = 0 /\ seen' = 0
  /\ dirty' = TRUE
  /\ UNCHANGED <<stage, connected, cached, round, mark, flush, row>>

Link ==
  /\ stage = "running"
  /\ connected' = ~connected
  /\ UNCHANGED <<stage, traded, seen, dirty, cached, round, mark, flush, row>>

-----------------------------------------------------------------------------
(* The price loop.                                                         *)

\* The quote is cached with the time of its tick.
Drain ==
  /\ stage = "running" /\ connected /\ round = "idle"
  /\ round' = "drained"
  /\ cached' = IF dirty THEN seen ELSE cached
  /\ dirty' = FALSE
  /\ UNCHANGED <<stage, connected, traded, seen, mark, flush, row>>

\* _mark_stale_if_needed looks at the last tick and opens a session.
Look ==
  /\ round = "drained"
  /\ IF seen # Never /\ seen > Threshold
     THEN round' = "marking" /\ mark' = 0
     ELSE round' = "idle" /\ UNCHANGED mark
  /\ UNCHANGED <<stage, connected, traded, seen, dirty, cached, flush, row>>

\* The UPDATE stamps the row, if there is one, or the database fails it.
MarkStale ==
  /\ round = "marking"
  /\ row' \in {row, IF row = NoRow THEN row ELSE [status |-> "stale", age |-> mark]}
  /\ round' = "idle"
  /\ mark' = Never
  /\ UNCHANGED <<stage, connected, traded, seen, dirty, cached, flush>>

-----------------------------------------------------------------------------
(* The database flush loop.                                                *)

FlushReads ==
  /\ stage = "running" /\ flush = Never /\ cached # Never
  /\ flush' = cached
  /\ UNCHANGED <<stage, connected, traded, seen, dirty, cached, round, mark, row>>

\* Mutant: upsert_quote stamps the row with the time of the write.
FlushCommits_StampsNow ==
  /\ flush # Never
  /\ row' \in {row, [status |-> "live", age |-> 0]}
  /\ flush' = Never
  /\ UNCHANGED <<stage, connected, traded, seen, dirty, cached, round, mark>>

\* upsert_quotes_bulk writes the cached quote with its own time, or fails.
FlushCommits ==
  /\ flush # Never
  /\ row' \in {row, [status |-> "live", age |-> flush]}
  /\ flush' = Never
  /\ UNCHANGED <<stage, connected, traded, seen, dirty, cached, round, mark>>

-----------------------------------------------------------------------------
(* The lifecycle.  The row outlives the process.                           *)

Start ==
  /\ stage = "off"
  /\ stage' = "running"
  /\ connected' \in BOOLEAN
  /\ UNCHANGED <<traded, seen, dirty, cached, round, mark, flush, row>>

\* stop() cancels the loops and waits for them.
StopWorker ==
  /\ stage = "running"
  /\ stage' = "stopping"
  /\ round' = "idle" /\ mark' = Never /\ flush' = Never
  /\ UNCHANGED <<connected, traded, seen, dirty, cached, row>>

\* What was in memory is gone with the process.
Forget ==
  /\ stage' = "off"
  /\ connected' = FALSE
  /\ seen' = Never /\ cached' = Never /\ dirty' = FALSE
  /\ UNCHANGED traded

\* mark_disconnected stamps the row, and the process ends.
MarkDisconnected ==
  /\ stage = "stopping"
  /\ row' = IF row = NoRow THEN row ELSE [status |-> "disconnected", age |-> 0]
  /\ Forget
  /\ UNCHANGED <<round, mark, flush>>

\* The process dies, or the database fails mark_disconnected.
Crash ==
  /\ stage # "off"
  /\ round' = "idle" /\ mark' = Never /\ flush' = Never
  /\ Forget
  /\ UNCHANGED row

-----------------------------------------------------------------------------
Init ==
  /\ stage = "off"
  /\ connected = FALSE
  /\ traded = Never /\ seen = Never /\ cached = Never /\ mark = Never /\ flush = Never
  /\ dirty = FALSE
  /\ round = "idle"
  /\ row = NoRow

Next ==
  \/ Second \/ Trade \/ Link
  \/ Drain \/ Look \/ MarkStale
  \/ FlushReads \/ FlushCommits
  \/ Start \/ StopWorker \/ MarkDisconnected \/ Crash

Spec == Init /\ [][Next]_vars

-----------------------------------------------------------------------------
(* Properties.                                                             *)

TypeOK ==
  /\ stage \in {"off", "running", "stopping"}
  /\ connected \in BOOLEAN /\ dirty \in BOOLEAN
  /\ traded \in Age /\ seen \in Age /\ cached \in Age /\ mark \in Age /\ flush \in Age
  /\ round \in {"idle", "drained", "marking"}
  /\ row \in [status : {"unavailable", "live", "stale", "disconnected"}, age : Age]

\* A row that reads "live" is about a tick within the threshold ("live: last tick
\* within MARKET_DATA_STALE_THRESHOLD_S"), whichever of the flush loop and the
\* stale marker wrote last, and also after a crash or a restart.
RowLiveIsRecent == Reported(row) = "live" => traded <= Threshold

\* The same promise for the endpoint, which prefers the cached quote.
ServedLiveIsRecent == Served = "live" => traded <= Threshold

\* "stale: worker is connected but has not received a tick for that ticker recently
\* (e.g. halted symbol)": while the worker is connected, its flush of the cached
\* quote does not make a stale row read "disconnected".
HaltedStaysStale ==
  [][FlushCommits /\ connected /\ Reported(row) = "stale"
       => Reported(row') # "disconnected"]_vars
=============================================================================
