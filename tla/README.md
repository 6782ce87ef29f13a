# A TLA+ verification of the News Sentiments backend

The repository is a FastAPI/Celery backend (`backend/app`) that watches a list of
tickers: it collects news, has Claude write a research report, has LLM "desks", an
assessment team and a decision council deliberate on them, streams prices from
Interactive Brokers, recalculates option opportunities and serves a dashboard. This
directory holds TLA+ models of its concurrent core and of the computations behind
its reports and rows, TLC configurations that check them on small instances, and
TLAPS proofs of what matters most for every instance.

Paths below are relative to `backend/app/services/` unless they say otherwise.
`PROJECT.json` maps every definition to its source lines, lists the hazards at the
lines where they bite, and names the mutation of the code that each checked
property rejects.

To reproduce: `tlc -config X.cfg M` for a configuration `X.cfg` of module `M`,
`tlapm M.tla` for a proof module.

## 1. Inventory

| Component | State | Operations | Interacts with |
|---|---|---|---|
| Health store, `dil_resilience/health.py` | per provider: state, consecutive failures and 429s, end of cooldown | record an answer, filter a chain, snapshot; a cooldown ends on read | every LLM call of the process |
| Circuit breakers, `dil_resilience/circuit_breaker.py` | per provider: CLOSED/OPEN/HALF_OPEN, failures, time of opening and of the last probe | allow, record, force open, filter a chain | reads the health store |
| Failover loop, `dil_resilience/{executor,gateway,retry}.py` | per role: the filtered chain, attempts, retries | begin, succeed, fail, 429, back off, give up | both stores, the clients |
| Concurrency limit, `dil_resilience/concurrency.py` | semaphore, active and waiting counts | acquire, release, cancellation | all event loops of the process |
| LLM clients, `deliberation/llm_clients/` | none beyond a call | post, retry, release | gateway, concurrency limit |
| Orchestrator, `deliberation/orchestrator.py` | one run's desks, package, layer | desks, trigger, team, council, layer | executor, panels |
| Assessment team, `assessment/`; council, `deliberation/council/` | opinions, critiques, revisions of one run | three rounds of parallel calls, quorum, consensus | orchestrator |
| Deliberation runner, `deliberation/runner.py`, repositories in `db/repositories/` | the layer of a stored report, the card's two rows | submit, run, store, patch the card; replace or clear a card | API task or Celery task, watchlist batch |
| Watchlist batch, `dashboard/watchlist_batch.py` | queue, worker task, idle event, status, results | enqueue one or all, `run_once`, worker loop | pipeline, orchestrator, card writes, dashboard routes |
| IBKR link, `market_data/{ibkr_connection,market_data_service,worker}.py` | client, connection state, watcher task, subscriptions | connect, watch, back off, subscribe, disconnect | IBKR Gateway, application lifespan |
| Quote freshness, `market_data/{quote_cache,worker,repository}.py` | stream slot, cached quote, stored row | drain, mark stale, flush, mark disconnected | IBKR stream, REST route |
| Candles, `market_data/candle_aggregator.py` | one slot per symbol, rows | sample, drain, upsert | price loop, database |
| Price distribution, `market_data/{pubsub,redis_pubsub_bridge}.py`, `api/v1/routes/market_data_ws.py` | tick buffer, subscribers with filters and bounded queues | publish, coalesce, dispatch, (un)subscribe, forward, disconnect | workers, Redis, WebSocket clients |
| Opportunity worker, `market_data/opportunity_worker.py` | per ticker: the basis and time of the last recalculation | decide, generate, persist, announce, update | quotes, database, price distribution |
| Opportunity engine, `market_data/{options_opportunity_service,combo_geometry,margin_engine,liquidity_engine,ranking_engine}.py`, `dashboard/opportunity_generator.py` | the budget of what-if orders | enumerate, price, filter, margin, rank; live rows or a placeholder | IBKR chains and snapshots |
| Research pipeline, `orchestration/pipeline.py`, `embeddings/`, `ranking/` | what one run holds; the tables, the vector collection | eleven stages, each of which goes on, swallows its failure or ends the run | news, bars, quote, Claude, Redis, the deliberation, four callers |
| Options block, `options/`; analogs and simulator, `analogs/` | none | compute from one report | pipeline, projector |
| Card, summary and explanations, `dashboard/summary_projector.py`, `summary/`, `explainability/` | none | draw from one report and its options block | dashboard, full report |

What is hard here:

* *Interleaving.* One asyncio loop interleaves many tasks between awaits. State is
  read (a filtered chain, a card's summary, an idle event) and used after an await.
* *Cancellation and partial failure.* A call may be cancelled at any await, a
  member lost in any round, a statement or a commit fail.
* *Processes.* Singletons outlive event loops under Celery; tasks die with their
  process; research tasks and the batch write the same card under row locks.
* *Time.* Cooldowns, probes, staleness, minute boundaries and market openings race
  with late answers and ticks.
* *Delivery.* Bounded queues drop, Redis loses what nobody listens to, connections
  drop and come back.
* *Swallowed failures.* Half the stages of a research run are optional, but they share
  one database session: a statement whose failure is swallowed aborts its transaction.
* *Many readers of one block.* Card, summary, breakdown, sensitivity and stances
  compute from the same figures with thresholds and roundings of their own.

What makes each component correct is in the table of section 3.

## 2. Modules

| Module | Models | Composition |
|---|---|---|
| `ProviderRouting` (`MC…`) | health store, breakers, failover loops of all roles | the two stores are shared by all `run[r]` |
| `LlmConcurrency`, `PermitPool` | the semaphore and its callers; the abstract pool | `LlmConcurrency` implements `PermitPool` |
| `WatchlistBatch` (`MC…`), `RefreshBoard` | the refresh queue; the abstract board of requests | `WatchlistBatch` implements `RefreshBoard` |
| `DeliberationRuns` | layers of stored reports and the card they share | research tasks, batch refreshes, PostgreSQL row locks |
| `DeliberationPanel` (`MC…`) | one deliberation: desks, team, council, readers | orchestrator, both panels, card and summary |
| `IbkrLink` | watcher, lifespan, price loop, subscriptions | three tasks and the Gateway |
| `QuoteFreshness` | ages of one quote in stream, cache, row | price loop, flush loop, worker lifecycle |
| `Candles` | the slot of one symbol and its rows | price loop, flush loop; `MCMarketData` runs it beside the quote |
| `PricePubSub` (`MC…`) | broker, clients, Redis bridge | publisher, flush, handler and forwarding task of each client |
| `OpportunityRecalc` | the worker's cycle for one ticker | time, quotes, the cycle, a client that refetches |
| `OpportunityEngine`, `OptionSnapshot` | one `generate()` and the placeholder; the chain, quotes and margins IBKR answers with | pure; `MCOpportunityRecalc` joins them to the worker that calls them |
| `ResearchPipeline` (`MC…`) | all research runs of a ticker and the stores they share | four callers; the deliberation they hand reports to |
| `OptionStructure`, `CardReport`, `AnalogSetups` | the options block; what is drawn from it; analogs and simulated setups | pure; joined to the runs by `MCResearchPipeline` |
| `FiniteSums` | the sum of a function over a finite set | used by `OptionStructure` and `AnalogSetups` |
| `*Proofs` | theorems about the modules they extend (`MarketDataProofs`: `QuoteFreshness`, `Candles`, `PricePubSub`; `OpportunityProofs`: the worker and the engine) | |

How state and actions correspond to the code:

**ProviderRouting.** `health[p]` and `breaker[p]` are `_ProviderRecord` and
`_BreakerRecord`; a deadline is the time left to it. `run[r]` is one invocation of
`execute_with_failover`. `Begin` filters the chain (health, then breakers, each read
changing the records it reads), `Answer` is the end of an HTTP exchange in every way
it can end (an answer, or the end of the chain, leaves the role idle), `Resume` a
429 back-off that is over, `Cancelled` a cancelled task, `Snapshot` the health
endpoint (its reads also end cooldowns), `Tick` time.

**LlmConcurrency.** `value`, `queue`, `granted` are CPython's `asyncio.Semaphore`;
`active` and `waiting` the manager's counters. A call acquires at once or queues,
is granted by a release, resumes, posts, finishes; it can be cancelled queued,
granted or posting. `NewLoop` is a Celery task's `asyncio.run`; `bound` the loop
the semaphore belongs to from its first wait on.

**WatchlistBatch.** `RunSingle` is `enqueue_ticker`, `RunOnce`/`RunOnceReturns` the
two halves of `run_once` around its wait, `WorkerStep` the worker's steps between
suspensions, the failure path (`_safe_mark_failed`) included.

**DeliberationRuns.** `task[r]` is a program counter through `execute_deliberation`
and `patch_reverse_bwb_decision`, `phase` one through a batch refresh; each
statement that locks a row and each commit is a step, so the two transactions meet
in every order, including the deadlock PostgreSQL breaks (`Deadlock`). `Crash` and
`BatchDies` end a process between any two steps; what was not committed is undone.

**DeliberationPanel.** `Open` … `CouncilDone` follow `DeliberationOrchestrator.run`
with its early returns. A panel's rounds are the gathers: members answer in any
order, a call brings a reply or is `Lost`; `RoundOver` is the gather's return. The
votes, the tie-breaks and the median are operators. A card body keeps one label
(risk) and one number (the score in tenths): every other field is merged like one
of them. `BuildCard` and `Extract` are the two readers of the layer.

**IbkrLink.** `watcher` and `loop` are the program counters of the watcher task and
the price loop; a ticker object or a client reference is `live` as long as the
connection it was made on is up and `dead` afterwards. `listed` is the part of the
watchlist IBKR has contracts for. Qualifying a symbol succeeds (`Subscribe`), raises
(`QualifyFails`, the symbol is skipped) or, for an unlisted one, returns a placeholder
nobody looks at (`Rejected`): the request that follows raises out of the round or opens
a stream that is never fed (`mute`). Symbols are numbered in the order of the round.

**QuoteFreshness.** A time is kept as its age; the price loop's round, its
staleness check and the flush are split where the code awaits.

**Candles, PricePubSub, OpportunityRecalc.** One action per operation; variables
marked *(history)* in the modules are read by properties only.

**OpportunityEngine, OptionSnapshot.** `Candidates` is the enumeration over the
strikes of a chain, `Quotable` the cap on the legs that are quoted, `Rows` the
pricing loop with its credit and open-interest filters, `Margin` the closed form,
`Attempted` and `Margins` the what-if orders of the best `TopN` of a
side, whose answers replace the closed form, `Grants` the sliding minute of
`WhatIfBudget`, `Scores` and `Batch` the ranking before and after, `Sought` and `Shown`
the price rows are generated for and the choice between live and placeholder rows. `Chain`,
`AsQuote` and the rest of `OptionSnapshot` are `MarketDataService`'s answers: any
field, and any contract, can be missing.

**ResearchPipeline.** `run[r].at` is the stage a run has reached, the other fields the
local variables of `run()`. One action per stage, one branch per way it ends:
`failures` collects what failed, `clean` is false once a swallowed failure has aborted
the transaction of the session. `Clean` drops headlines too short and repeated
fingerprints (`Valid`) before the dedupe, `Cleaned` (similarity matrix, or the vector
collection when there is one). The websocket's client can leave between two
stages. `deliberated` counts the hand-overs by the run and by the batch.

**OptionStructure, CardReport, AnalogSetups.** Operators, one per function of the
code, over integer shares, scores and prices; the constants are the grid of prices at
expiry, the weights of a distribution, the headlines and the prices after an analog.

## 3. Runs

Each property is rejected by at least one mutation of the code (`mutants` in
`PROJECT.json`): a dropped guard, an off-by-one, a missing reset, a swapped order.

| Run (`cfg`) | Instance | Distinct states | What it shows |
|---|---|---|---|
| `routing` (`ProviderRouting`) | 2 providers, 2 roles, one of which falls back on the only provider of the other; degraded after 1 429, out after 2 failures, 1 retry per 429, 2 attempts per post | 549,493 | `ThresholdTrips`: whichever mix of failures and 429s led there, a provider at its threshold is out of service in both stores. `CooldownIsSkipped`: the chain a role starts on holds a provider in cooldown only when nothing else is in it. `RolesFinish`: 429 retries nested in post retries nested in failover end. `Recovery`: once calls stop failing a provider is admissible again and again, though cooldowns only end when somebody reads. |
| `permits` (`LlmConcurrency`) | 4 calls, 2 permits, 2 event loops | 1,231 | `NoLostWakeup`, `WaitersServed` under cancellation in every place; `ImplementsPool`: never more than two holders, one comes or goes at a time. |
| `watchlist` (`WatchlistBatch`) | 3 tickers, 2 concurrent batch runs | 4,624 | `NothingStranded`: work always has a worker. `RefreshedOnce`: no ticker is queued twice or while in hand. `BatchCoversWatchlist`, `BatchReturns`: `run_once` returns, and then every ticker has a result. `ImplementsBoard`, `EveryRequestBegun`: no request is dropped. |
| `deliberation` (`DeliberationRuns`) | 2 research reports, 2 batch refreshes of one ticker | 48,488 | `CardOfOneRefresh`: the two rows of a card are of one refresh and tell one decision, so a patch never writes back the JSON of an earlier refresh nor reaches one row alone. `ClearedStaysCleared`: the report a cleared card leaves gets no decision of a patch under way. `DecisionBacked`: what the card shows is stored. `TerminalIsFinal`; `WorkEnds`: also through deadlocks. |
| `panel` (`DeliberationPanel`) | 2 clients, 2 desks, team of 2, council of 3 with quorum 2 | 80,827 | `VerdictIsPlurality`: enter or avoid exactly when the last words of the members give it a strict plurality. `TeamNeverOverstates`: no higher risk had as many votes. `CouncilReadsTheCard`: the council was told the body the card shows. |
| `ibkr_link` (`IbkrLink`) | 2 symbols, any of which IBKR may not list | 1,027 | `Reconnects`: from every state of the watcher. `StreamsStart`: with the link up every symbol up to the first unlisted one gets its subscription, however rounds were cut short, and the rounds of a listed watchlist reach the drain. |
| `ibkr_heal` (`IbkrHeal`) | 1 symbol | 241, violated | `StreamsHeal` fails: a finding, section 6. |
| `market_data` (`MarketData`) | one symbol: the quote with threshold 1, or the candles with 2 prices, 3 minutes, 3 samples a slot | 54,132 | `RowLiveIsRecent`: a stored row reads live only for a recent tick, with flush and stale marker writing in any order, and after crashes. `SlotSummarises`: open, high, low, close are those of the samples since the slot was opened. |
| `price_pubsub` (`PricePubSub`) | 1 client, 2 tickers, queue of 1, 3 messages | 123,470 | `InOrder`: no price twice or backwards, across overflow, coalescing and the bridge. `LatestArrives`: a tick, or a later one, reaches whoever wants it unless a loss is recorded. |
| `recalc` (`OpportunityRecalc`) | 2 prices, 2 volatilities, 4 slots a day, a weekend day; strikes, prices and premiums 0 to 5, wings of 1 or 2 strikes, 4 legs, 2 orders a side and a minute | 770,698 | `BasisIsLive`: price moves are measured from the price of the stored rows. `SkipsAreSpaced`: a skip holds off the stale trigger. `MoveIsRecalculated`: during a session a lasting move is. Over all inputs in the bounds: `RowsAreHonest`: the closed-form margin covers the loss at expiry, and a row that is shown, after the what-if answers and in whatever order the rows were priced, has such a margin or the answer for that very row (never another row's); rows are priced by their own legs, complete, fillable, and ranked by what they show. `OrdersAreWellSpent`: what-if orders keep the budget, use it up, and go to the best rows. |
| `pipeline` (`ResearchPipeline`) | 2 runs, 3 callers, 5 articles of 2 sources (two similar, one repeated, one with a short headline), one failure | 2,082,874 | `ReportIsBacked`: a committed report stands on stored articles of its own run that are not duplicates. `DeliberatedOnce`: run or caller hand it over, not both. `FailuresAreContained`: optional failures alone never end a run or cost its report (a swallowed SQL failure is one of the database). `PriceIsOne`: prompt, snapshot and options use one price, with its true label. Over all inputs in the bounds: `StoryKept`: deduplication keeps an article of every story, for up to 4 articles. `BlocksAreSound`: of the block, the expected value fits the maximum loss, breakevens lie inside the wings, the safety score falls as its causes get worse; of its history, the analogs kept are the best found and their aggregates agree with each other (not with the block: `losses`). `CardsAreConsistent`: the two cards agree, breakdowns add up to the score, triggers and stances follow from their causes. |
| `losses` (`ReportLosses`) | the structures and prices of `pipeline` | violated at the start | `LostSetupsLose` fails: a finding, section 6. |

The properties over inputs are invariants `Init => ...` of the MC modules: they say
nothing of later states, and the initial state has them checked for every input the
constants allow.

**Why the bounds are enough.** They are chosen so that each mechanism meets its
limit: thresholds are reached and crossed by calls that were under way; there are
more callers than permits, and a loop change while some wait; a failure and a
429 together reach the threshold neither reaches alone; two batch runs and a
single refresh overlap a worker that leaves; two patches meet two refreshes, so one
can overtake another's read; a panel of two ties, a council of three splits three
ways, or two ways after one member is lost; a queue of one overflows; a day without
a session lies between two mornings. More actors repeat these patterns: nothing in
the code compares more than two of them except counting, where the proofs below
hold for every number. Deadlines and counters stop at the value they are compared
with (`ProviderRouting`, `QuoteFreshness`), so their bound loses nothing. The named
bounds that do cut behaviour are `MaxLoop` and `MaxWaiting` (`LlmConcurrency`),
`LastMinute` and `MaxSamples` (`Candles`), `MaxMessages` (`PricePubSub`), `LastSlot`
and `MaxVersions` (`OpportunityRecalc`), `MaxFaults` (`ResearchPipeline`: one failure
in a behaviour, which meets every stage of either run; the proofs hold for any number)
and the ranges of inputs `Amounts`, `Prices`, `Mass`, `Keys`, `Path`; a liveness
property names the bound in its own statement where it would otherwise fail at the end
of the model's life.
Symmetry is used in `ResearchPipeline` only, whose runs are interchangeable and whose
properties are invariants; the other runs have
liveness properties, for which it is unsound, or are small. Deadlock detection is off
in `IbkrLink`, where the process ends, and in `DeliberationRuns` and
`ResearchPipeline`, where the work of the last report or run does.

**Fairness.** Weak fairness is given to steps of the event loop that are ready (a
resumed call, the worker, a loop that goes round), to HTTP exchanges and statements
(the client has a total timeout, tenacity and the 429 loop are bounded), and to
time. PostgreSQL resolves a deadlock (`deadlock_timeout`). Strong fairness is
assumed only in `IbkrLink`: a Gateway that is tried again and again accepts one of
the attempts, and a contract IBKR lists is qualified in time in one of the rounds that
ask for it (of one it does not list nothing is assumed). None is given to
requests, failures, cancellations, crashes, market ticks or link drops.

## 4. Proofs

Eight modules hold theorems, for all values of the constants under the modules'
named assumptions (`RoutingAssumption`, `ConcurrencyAssumption`,
`WatchlistAssumption`, `DeliberationAssumption`, `PanelAssumption`,
`FreshnessAssumption`, `CandleAssumption`, `PubSubAssumption`, `RecalcAssumption`,
`EngineAssumption`, `SnapshotAssumption`, `PipelineAssumption`,
`StructureAssumption`, `AnalogAssumption`; each is evaluated by a run, as is
`LinkAssumption` of `IbkrLink`).

Loops and sums are recursive functions. That one has a value at all is proved by
folding (`Folding`), what it computes by induction over its rounds: the set of the
numbers of rounds after which a claim holds contains 0, and with n it contains
n + 1 (`Induction`, from the well-foundedness of `<`), or over the parts of a finite
set (`SizeInduction`). Both need a set, not a predicate, as their parameter.

* **`ProviderRoutingProofs`.** `RoutingInv` types each record and states each
  store's promise per record, which makes it inductive record by record; the
  operators on one record each have a lemma. The one strengthening relates the two
  clocks of an open breaker: the stamp of its last probe, which opening does not clear,
  runs out before the open time does or outlasts it by at most what the probe interval
  exceeds the open duration by. Nothing in the settings orders the two, so
  `ExpiredBreakersProbe` says: an expired breaker has a probe to give at once, or after
  at most that difference. `TypeCorrect`, `ThresholdsTrip`, and the action properties
  `CooldownSkipped` and `RefusingBreakersSkipped` follow; the latter two rest on the
  lemma that only `Begin` activates a role. `RefusingBreakersSkipped` speaks of what the
  breakers answered as the role began, half-open ones included: who is kept was admitted,
  with the probe stamped for it, or everybody not in cooldown was refused.
* **`LlmConcurrencyProofs`.** `PermitInv` adds to conservation, the exact active
  count and the absence of lost wake-ups that a call is queued once or granted,
  never both (`Placed`): without it a cancellation could remove the wrong entry.
  `ManagerImplementsPool` proves the refinement of `PermitPool` step by step from
  the same invariant.
* **`WatchlistBatchProofs`.** `BatchInv`: a ticker is queued once and not while in
  hand, the ticker in hand has no result until its refresh ends (`InHand`), and while
  a batch run is pending every ticker has a result or is queued or in hand
  (`Covered`). What the loop of `run_once` leaves of the queue is proved round by
  round. All safety of the service follows (`NothingIsStranded`,
  `TickersAreRefreshedOnce`, `BatchesCoverTheWatchlist`, `OneResultEach`), and
  `ServiceImplementsBoard`, that each step is one of `RefreshBoard` or a stutter.
* **`DeliberationRunsProofs`.** `CardInv`: one patch at a time holds the summary
  row, and what it has read is still what is stored (`Locking`). This is the autoflush
  lock doing its work; it yields `CardIsOfOneRefresh`. `ClearedCardsStayCleared` is an
  action property: only `save_snapshot` writes the report where there is no summary row. `LayerInv` ties the position of a task to its stored
  layer and yields `DecisionsAreBacked` and `ResultsAreFinal`, both under
  `RedisUrlOk` (section 6 says why).
* **`DeliberationPanelProofs`.** `IInv` says what the rounds before the present one
  have left (`Rounds`: a quorum, complete opinions, no revision of a lost member),
  that verdicts exist only on enough desks (`Evidence`), and that package and layer
  carry the same assessment (`Package`). `RoundsAreInStep`, `NoVerdictWithoutEvidence`
  and `CouncilIsTold` follow; `VerdictsArePluralities` relates the code's count over
  surviving members to the support by last words, for councils of every size.
  `TypeCorrect` needs that maxima and medians of a finite set exist; so does
  `TeamIsNeverLenient`, that the team never reports a level of risk below another that
  has at least as many votes.
* **`MarketDataProofs`** extends all three modules of the service. Quotes:
  `NotYounger`, nothing in the system is younger than the last tick, except stamps
  that say the row is not live, yields `LiveRowsAreRecent` for every threshold.
  Candles: `SlotIsTight` says of the slot without a choice what `SlotIsTheSummary`
  says with one, that it is the open, high, low and close of all that was sampled.
  Price fanout: `PricesArriveInOrder` by `SourceInv` (channel and tick buffer are
  ordered, the buffer before the channel) and `ClientInv` (so is what a client has, is
  being sent, has queued and will get); what a dispatch makes of a full queue, message
  by message, is an induction over the batch.
* **`OpportunityProofs`.** The worker: `MovesAreFromTheRows` and `SkipsStaySpaced`
  for every calendar and every bound; the first needs that the rows of a cycle under
  way were generated for the price it will record. The engine, for every chain, quotes
  and bounds: `EveryCombinationIsTried` (the enumeration visits all combinations of
  a side within the limits and no other), `MarginsCoverLosses` (a payoff is linear
  between its strikes, so the loss is bounded by the cases of where the underlying
  ends), `ShownMarginsStayBacked` (what-if answers replace margins row by row, so a row
  that is shown has a closed-form margin or its own answer; placeholders have their exact
  loss), `LiquidityIsFilled`, and `RowsStayHonest`, the conjunction the run checks.
  `BudgetIsSpent` is an induction over the askings (`BudgetInv`: no minute over its
  budget, and where an order was refused it is used up); with the lemma that a sorted
  row has as many before it as its rank says (`SortedBy`) it gives
  `OrdersStayWellSpent`.
* **`ResearchPipelineProofs`.** `Inv` says, for each run and stage, what the run holds
  and what it has stored (`Shape`, `Backing`, `Booking`, `Pricing`). The runs share
  the tables, so `Backing` rests on the fact that no stage deletes: what one run
  stored stays. `ReportsAreBacked`, `DeliberationsAreSingle`,
  `OptionalFailuresAreContained` and `PricesAgree` follow for any number of runs,
  callers, articles and failures. `StoriesAreKept`: what the two nested loops of the
  similarity matrix have marked after each round never contains all of the most
  reliable articles of a story, for any number of articles.
  The blocks of a report are pure; `BlocksStaySound` states of block and history, each in
  itself, what the run checks, from five general theorems: `ValuesFitLosses` (over any grid, any
  distribution and any structure, by the linearity and monotony of sums),
  `BreakevensLieInside` (any body and wing), `SafetyFalls` (any two circumstances, one
  no better than the other in every component), `AggregatesAddUp` (any number of
  analogs) and `BlendKeepsTheBest` (any lists of events, patterns and neighbours: each
  merge keeps every story once and lowers none).
  `CardsStayConsistent` does the same for what is drawn from a block.
  `SummariesFollowCards`: for every score the rounded score of the card and the label of
  the block fall on the same side of each threshold. `EntersStayDefensible`: a pin that
  is likely takes so much off the score that it stays below the threshold of Enter; it
  needs that the chance of the one-sigma range is at most three quarters, which the
  log-normal of a short term gives (0.68). `BreakdownsAddUp`: the last row is the
  residual, so the rows add up whatever was scaled before it. `BarsAddUp`: n rounded
  shares differ from their sum by at most n/2, and the driver list has at most seven;
  this covers the dropped rows and the second scaling. `TeamsAreShownFairly`: mirrored
  views are mirrored stance by stance, and so are the counts, for any finite team.
  `WorseBlocksAreNoEasier`: pin and event only enter through labels that are monotone in
  their scores. That the score is named among the triggers is read off the order of the
  conditions: fourth on the way to Enter and fifth on the way to Avoid, of five shown.

**Model-checked only.** All liveness (`RolesFinish`, `Recovery`, `WaitersServed`,
`BatchReturns`, `EveryRequestBegun`, `WorkEnds`, `Reconnects`, `StreamsStart`,
`LatestArrives`, `MoveIsRecalculated`): temporal reasoning with fairness and ENABLED
is out of the prover's reach. `IbkrLink` has no theorem: its runs check liveness. What a
run checks and no theorem states is therefore temporal.

## 5. Abstractions

* A provider's answer, an article, a report and a payload are values of small sets;
  prompts, wording and logging are left out.
* A research run fails where news, market data, options, the database, the vectors, Claude,
  the cache or the client do; an exception of the embedding model, of FinBERT or of the
  audit files would end it too and is not among the modelled failures.
* LLM calls in `DeliberationPanel` succeed or fail; why is in `ProviderRouting`.
  The composition is by interface: a chain that ends without an answer is `Lost`.
* Scores are tenths; a median between two tenths, which `round` takes to either
  side depending on its floating-point form, goes down. The instance's scores have
  no such median.
* Prices, strikes, premiums and margins are small integers, shares thousandths, scores
  hundredths or tenths; a figure the code rounds is rounded to the same place (`RoundDiv`),
  a tie away from zero where Python takes it to the even digit or to the side of its
  floating-point form. The logarithm of a row's liquidity is any function (the runs use the identity), and a ranking score is
  multiplied by the batch's median, twice, to stay an integer.
* The log-normal distribution of the price at expiry is any distribution over a grid. The
  code approximates it twice, by quadrature for the value and by the closed form for the
  chances; the model takes both from the one distribution.
* Two articles are similar or not; an article mentions the ticker, a peer or macro
  words, and which of the three decides its tier.
* A chain's expirations get the same combinations, so one stands for them.
* The legacy desk debate (off by default) and the metrics only add data to the
  layer. The Redis health store is a stub in the source and falls back to memory.
* Python's loop runs ready tasks in the order they became ready; `WatchlistBatch`
  uses this where it matters (a woken `run_once` precedes a worker created later).
* External code is modelled from its use and marked in the map: asyncio's
  semaphore, `ib_async`, the Gateway, Redis channels, PostgreSQL's locks, the clock.

## 6. Disagreements between the code and what it says

**`ibkr_heal`.** `subscribe_quotes` (`market_data/market_data_service.py:184`)
skips a symbol whose slot holds a ticker object, also when the object belongs to
the client the watcher has replaced. After a reconnect nothing is subscribed and no
tick arrives until the process restarts. `ibkr_connection.py:11-13`: "a brief
Gateway restart heals transparently".

**`losses`.** Two parts of one report put the loss on opposite sides. The payout of
`options/position_risk.py:97-106` earns the whole credit at the body and loses the wing
beyond the wings (so its line 19 and `structure_geometry.py`'s breakevens);
`analogs/setup_simulator.py:135-149` counts a simulated setup as a maximum loss when it
ends between the wings. `structure_geometry.py:16-18` sides with the latter: "maximum
loss is inside the body (between the short strikes). Wings limit loss beyond", as
`body_danger.py:3-4` does. A setup that ends at the body is the maximum loss of the
history and the maximum profit of the block.

The counterexamples below are reproduced by adding the property, as INVARIANT (I) or
PROPERTY (P), to the cfg of the run. The properties that the code does not have are
stated in the modules with the sentence they come from. "Plan" is
`.cursor/plans/dil_resilience_hardening_224efa95.plan.md`.

| Run | Add | What the code does, and what is said |
|---|---|---|
| `routing` | I `OnlyOptionIsTried`, `Configured = {p1}` | `executor.py:42`: the filter keeps healthy providers without a client, the loop then skips them; a role whose only configured provider cools down fails without an attempt. Plan:247 "skip provider unless it is the only configured option". |
| | P `CooldownRunsItsTime` | `health.py:159`: 429s of calls under way turn COOLDOWN into DEGRADED. Plan:236-237 gives the cooldown five minutes. |
| | P `ClosesThroughProbe` | `circuit_breaker.py:98`: a late success closes an OPEN breaker. Plan:275-278 reaches CLOSED from HALF_OPEN only. |
| `permits` | I `NobodyRefused` | `concurrency.py:45`: a second event loop of the process that has to wait gets a RuntimeError. `concurrency.py:24` "Process-wide semaphore". |
| | I `WaitingIsExact` | `concurrency.py:43`: a cancelled waiter stays counted. Plan:436 documents the count. |
| `watchlist` | I `InHandMeansRunning` | `watchlist_batch.py:169`: `run_once` writes "completed" over a refresh begun meanwhile. `dashboard/schemas.py:166` "Live snapshot". |
| | P `RefusedWhileRunning` | `api/v1/routes/dashboard.py:115` accepts a second batch; its docstring promises a 409. |
| `deliberation` | I `CouncilStands` | `dashboard_repository.py:283` decides on an unlocked read and then overwrites a council's decision. Its docstring (268-271): "we must not let a stale follow-up overwrite it". |
| | `RedisUrlOk = FALSE` alone: `TerminalIsFinal` | `runner.py:118`: a REDIS_URL that `from_url` rejects marks a completed run failed. `notes.md:8` calls Redis optional. |
| `panel` | I `SummaryFollowsCouncil` | `summary/extractor.py:321` looks for SAFE, WATCH, AVOID in a field that holds Enter, Wait, Avoid: the executive summary never carries the council's decision. `.cursor/plans/hybrid_dil_council_architecture_5c7a5662.plan.md:310` "`decision` field stays `SAFE`/`WATCH`/`AVOID` (mapped)". |
| `market_data` | I `ServedLiveIsRecent` | `api/v1/routes/market_data.py:84` prefers a cached quote whose status nothing ages. `schemas.py:35` "last tick within" the threshold. |
| | P `HaltedStaysStale` | `worker.py:258`: the flush rewrites a halted symbol's old quote, which then reads disconnected. `schemas.py:36-38`. |
| | P `CandlesComplete` | `candle_aggregator.py:67`: the next minute's first sample overwrites a closed candle nobody drained. `candle_aggregator.py:4-6` "returns all completed candles". |
| | I `NoPartialStored` | `worker.py:304`: a late sample reopens its minute, and the upsert overwrites high and low. `candle_aggregator.py:6-8` "partials are never persisted". |
| `ibkr_link` | P `RoundsDrain` | `market_data_service.py:188-192`: nobody looks at what the qualification of an unlisted symbol returned, and the request for it can raise out of every round, before the later symbols and the drain. `worker.py:5-11` "Drains every dirty `ib_async.Ticker` snapshot", "No-ops when IBKR is disconnected". |
| `price_pubsub` | P `UnsubscribedIsSilent` | `market_data_ws.py:111`: unsubscribing leaves the empty filter, which means everything. `test_websocket.py:139`. |
| `recalc` | P `FailuresAreSpaced` | `opportunity_worker.py:145`: an exception skips the update of `last_recalc_at`. Lines 189-190 "on every failure". |
| | I `EverySideIsSeen` | `opportunity_worker.py:304`: a side that lost its rows is not announced. `pubsub.py:8-10`. |
| | I `IvMoveTriggers` | `opportunity_worker.py:241`: the volatility threshold is never compared. `core/config.py:262` "ANY of these". |
| | I `FloorIsKept` | `market_data_service.py:548-559` takes an open interest of zero for one that was not sent, and a leg that sent none passes the floor. `liquidity_engine.py:93` treats a missing one "as *unknown*, not zero". |
| `pipeline` | I `NewsReachClaude` | `pipeline.py:297-312`: the relevance filter runs before the duplicates are taken out; when all that pass it are duplicates Claude reads nothing although other articles are left. The comment: "Fallback to full set if the filter removed everything". |
| | I `ReportsAreDeliberated` | `pipeline.py:608`: a cache that fails after the commit ends the batch's run, and nobody deliberates on the stored report. |
| | I `ProfitIsProfit` | `position_risk.py:151-154`: the probability of profit counts the ends beyond the wings, where the same block's payout is a loss. Line 15: "P(terminal price avoids any loss)". |
| | I `DirectionsAreKept` | the factor that rescales the impacts can be negative. `credit_safety_breakdown.py:254` "qualitative direction is preserved". |
| | I `EveryDecisionHasABranch` | scores of 3.95 to 3.99: the card says Avoid, the explanation's branch is Wait. |
| | I `AgreementHelps` | an exact match found by the vectors too gets 0.55, less than the 0.90 of the vectors alone. `analog_service.py:103` "Boost score when both agree". |
| | I `OutcomesScale` | `setup_simulator.py` tests the touch of the body in today's dollars, the wings in proportion. Its docstring: "proportionally the same distance". |

Read in the same code, without a property of their own:

* With a vector collection both of two similar articles are duplicates once both are
  stored (`cleaner.py`), so a second run may keep neither. `detail_docs.md:841` "Dedupe
  tie-break: keep higher reliability article".
* Swallowed failures of the market and analog statements still end the run at its
  next statement (`pipeline.py:509`, `559`, `566`: "never break the pipeline");
  `FailuresAreContained` counts them as failures of the database.
* The event type is read from a field the report's schema does not have
  (`pipeline.py:519-525`, `claude_report.py:83`), so every analog search is for the
  default type; semantic analogs compare an identifier of `processed_articles` with the
  one of the article (`analog_service.py:145-175`), so they are always empty; analogs have no
  date filter, so the run's own articles are among them.
* `credit_safety_breakdown`'s key drivers show shares of safety as magnitudes of risk;
  the body zone is centred on the close, so its label is always High
  (`body_danger.py:28`) and Enter is nearly unreachable.
* Without an options block the card says Avoid and the summary WATCH.
* A what-if answer replaces the closed-form margin (`margin_engine.py:192`) whatever it is,
  also below what the combination can lose, and the row does not say which of the two it
  shows.
* `margin_engine.py:8` calls the margin the "exact max theoretical loss"; it is more
  where the wider wing lies in the money. `ranking_engine.py:18`: the median is of the
  whole batch, not of a ticker and side. A placeholder's premium is per share, a live
  row's per contract.

With PROPERTY `Settles` and INVARIANTS `InStep` and `VerdictsHaveEvidence` the run
`panel` passes: a deliberation ends whichever calls fail, and the rounds and verdicts
are as proved.

## 7. Not modelled

* *Provider chain resolution* (`dil_resilience/routing.py`): pure, evaluated at
  start-up; chains are the constant `Chain`.
* *Report text*: prompts, what Claude writes, sentences of the summary and of the
  explanations, the macro transmission and the probability tables; wording and
  tables of one pass.
* *Desk debate and scoring* (`deliberation/desk_config.py` and its scorers): off by
  default, floating-point scores of text.
* *Start-up and shut-down* (`main.py`): a fixed order, one task.
* *Read-only routes, middleware, settings, frontend, `news_pipeline_v3.py`* (the script
  the backend replaced): no state of the backend changes in them.

## 8. Plan

What would add most next:

1. Proofs for `IbkrLink`: that the event and the connection state agree.
2. An abstract card: one atomic decision per run, shown to be implemented by
   `DeliberationRuns`; the same for the broker as a lossy per-ticker channel.
3. The chain resolution of `routing.py` as operators, composed with `ProviderRouting`.
4. `ResearchPipeline` composed with `DeliberationRuns`: the batch's hand-over meets the
   card's transactions.
