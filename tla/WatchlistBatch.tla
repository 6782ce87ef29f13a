--------------------------- MODULE WatchlistBatch ---------------------------
(***************************************************************************)
(* The dashboard's refresh queue (WatchlistBatchService): request handlers *)
(* and batch runs put tickers on a list, one worker task at a time takes   *)
(* them off and refreshes them.                                            *)
(*                                                                         *)
(* The bodies under _queue_lock contain no await, so the lock is never     *)
(* contended and what a task does between two real suspensions is one      *)
(* step.  The suspensions are the refresh of a ticker, the write of its    *)
(* failure, and run_once's wait for _idle_event.  The event loop runs      *)
(* ready tasks in the order they became ready, so a run_once that the      *)
(* event woke runs before a worker created later.                          *)
(***************************************************************************)
EXTENDS Naturals, SequencesExt

CONSTANTS
  Ticker,      \* the watchlist's symbols
  NoTicker,    \* current_ticker = None
  Watchlist,   \* the symbols in tier order
  Batch        \* the run_once calls that may be pending at once

ASSUME WatchlistAssumption ==
  /\ NoTicker \notin Ticker
  /\ Watchlist \in Seq(Ticker)
  /\ ToSet(Watchlist) = Ticker

VARIABLES
  queue,      \* _queue
  worker,     \* where the worker task is, "none" when there is none
  idle,       \* _idle_event is set
  awaitFull,  \* _await_full_batch
  batch,      \* batch[b]: where the run_once call b is
  current,    \* status.current_ticker
  state,      \* status.state
  queued,     \* status.queued
  completed,  \* status.completed
  failed      \* status.failed

vars == <<queue, worker, idle, awaitFull, batch, current, state, queued, completed, failed>>

\* _sync_queued_state: what of the queue the status shows.
NotCurrent(s) ==
  LET kept[n \in 0 .. Len(s)] ==
        IF n = 0 THEN <<>>
        ELSE IF s[n] = current THEN kept[n - 1] ELSE Append(kept[n - 1], s[n])
  IN kept[Len(s)]

IsRunning == state = "running" \/ current # NoTicker \/ queue # <<>> \/ worker # "none"

-----------------------------------------------------------------------------
(* Request handlers.                                                       *)

\* Mutant: the ticker in hand is not compared with.
Pushed_ForgetsCurrent(q, t) == IF t \in ToSet(q) THEN q ELSE Append(q, t)

\* A ticker in hand or on the queue is not put on the queue.
Pushed(q, t) == IF t \in ToSet(q) \cup {current} THEN q ELSE Append(q, t)

\* The queue after enqueue_ticker for each element of s in turn.
Enqueued(s) ==
  LET after[n \in 0 .. Len(s)] == IF n = 0 THEN queue ELSE Pushed(after[n - 1], s[n])
  IN after[Len(s)]

\* Mutant: _ensure_worker is not called.
EnqueueAll_NoWorker(s) ==
  IF Enqueued(s) = queue
  THEN UNCHANGED <<queue, queued, state, idle, worker>>
  ELSE /\ queue' = Enqueued(s)
       /\ queued' = NotCurrent(queue')
       /\ state' = "running"
       /\ idle' = FALSE
       /\ UNCHANGED worker

\* Mutant: _idle_event is not cleared.
EnqueueAll_KeepsIdle(s) ==
  IF Enqueued(s) = queue
  THEN UNCHANGED <<queue, queued, state, idle, worker>>
  ELSE /\ queue' = Enqueued(s)
       /\ queued' = NotCurrent(queue')
       /\ state' = "running"
       /\ worker' = IF worker = "none" THEN "starting" ELSE worker
       /\ UNCHANGED idle

\* enqueue_ticker for each element of s: an early return for those that are pending.
EnqueueAll(s) ==
  IF Enqueued(s) = queue
  THEN UNCHANGED <<queue, queued, state, idle, worker>>
  ELSE /\ queue' = Enqueued(s)
       /\ queued' = NotCurrent(queue')
       /\ state' = "running"
       /\ idle' = FALSE
       /\ worker' = IF worker = "none" THEN "starting" ELSE worker

\* POST /dashboard/refresh/{ticker}
RunSingle(t) ==
  /\ EnqueueAll(<<t>>)
  /\ UNCHANGED <<awaitFull, batch, current, completed, failed>>

\* POST /dashboard/refresh, and the batch run at start-up: run_once up to its
\* wait for _idle_event.
RunOnce(b) ==
  /\ batch[b] = "none"
  /\ awaitFull' = TRUE
  /\ EnqueueAll(Watchlist)
  /\ batch' = [batch EXCEPT ![b] = IF idle' THEN "woken" ELSE "waiting"]
  /\ UNCHANGED <<current, completed, failed>>

\* The rest of run_once.
RunOnceReturns(b) ==
  /\ batch[b] = "woken"
  /\ state' = IF failed # {} /\ completed = {} THEN "failed" ELSE "completed"
  /\ awaitFull' = FALSE
  /\ batch' = [batch EXCEPT ![b] = "none"]
  /\ UNCHANGED <<queue, worker, idle, current, queued, completed, failed>>

-----------------------------------------------------------------------------
(* The worker.  comp and fail are the result lists as the step leaves them *)
(* before the loop goes on.                                                *)

\* Take the next ticker, drop its old result and go into its refresh, ...
TakeNext(comp, fail) ==
  /\ queue # <<>>
  /\ queue' = Tail(queue)
  /\ queued' = NotCurrent(Tail(queue))
  /\ current' = Head(queue)
  /\ completed' = comp \ {Head(queue)}
  /\ failed' = fail \ {Head(queue)}
  /\ worker' = "refreshing"
  /\ UNCHANGED <<idle, state, batch>>

\* Mutant: _idle_event is not set when a full batch is awaited.
Leave_WakesNobody(comp, fail) ==
  /\ queue = <<>>
  /\ current' = NoTicker
  /\ queued' = <<>>
  /\ state' = IF awaitFull THEN state ELSE "idle"
  /\ idle' = ~awaitFull
  /\ worker' = "none"
  /\ completed' = comp
  /\ failed' = fail
  /\ batch' = IF awaitFull THEN batch
              ELSE [b \in Batch |-> IF batch[b] = "waiting" THEN "woken" ELSE batch[b]]
  /\ UNCHANGED queue

\* ... or, the queue being empty, leave: the finally clause wakes the waiting
\* batch runs, and no new ticker can come in between the two.
Leave(comp, fail) ==
  /\ queue = <<>>
  /\ current' = NoTicker
  /\ queued' = <<>>
  /\ state' = IF awaitFull THEN state ELSE "idle"
  /\ idle' = TRUE
  /\ worker' = "none"
  /\ completed' = comp
  /\ failed' = fail
  /\ batch' = [b \in Batch |-> IF batch[b] = "waiting" THEN "woken" ELSE batch[b]]
  /\ UNCHANGED queue

LoopOn(comp, fail) == TakeNext(comp, fail) \/ Leave(comp, fail)

\* The new worker task runs for the first time.
WorkerStarts ==
  /\ worker = "starting"
  /\ \A b \in Batch : batch[b] # "woken"
  /\ LoopOn(completed, failed)
  /\ UNCHANGED awaitFull

RefreshCompletes ==
  /\ worker = "refreshing"
  /\ LoopOn(completed \cup {current}, failed)
  /\ UNCHANGED awaitFull

\* Mutant: the failure is written to the database but not to the status.
RefreshFails_Unrecorded ==
  /\ worker = "refreshing"
  /\ worker' = "marking"
  /\ UNCHANGED <<queue, idle, awaitFull, batch, current, state, queued, completed, failed>>

\* Any exception of the refresh; mark_failed is awaited before going on.
RefreshFails ==
  /\ worker = "refreshing"
  /\ failed' = failed \cup {current}
  /\ worker' = "marking"
  /\ UNCHANGED <<queue, idle, awaitFull, batch, current, state, queued, completed>>

FailureMarked ==
  /\ worker = "marking"
  /\ LoopOn(completed, failed)
  /\ UNCHANGED awaitFull

-----------------------------------------------------------------------------
Init ==
  /\ queue = <<>>
  /\ worker = "none"
  /\ idle = TRUE
  /\ awaitFull = FALSE
  /\ batch = [b \in Batch |-> "none"]
  /\ current = NoTicker
  /\ state = "idle"
  /\ queued = <<>>
  /\ completed = {}
  /\ failed = {}

WorkerStep == WorkerStarts \/ RefreshCompletes \/ RefreshFails \/ FailureMarked

Next ==
  \/ \E t \in Ticker : RunSingle(t)
  \/ \E b \in Batch : RunOnce(b) \/ RunOnceReturns(b)
  \/ WorkerStep

Spec == Init /\ [][Next]_vars

\* The event loop runs ready tasks; a refresh ends.
FairSpec ==
  Spec /\ WF_vars(WorkerStep) /\ \A b \in Batch : WF_vars(RunOnceReturns(b))

-----------------------------------------------------------------------------
\* Every variable has its type: in particular only tickers have results.
TypeOK ==
  /\ queue \in Seq(Ticker)
  /\ worker \in {"none", "starting", "refreshing", "marking"}
  /\ idle \in BOOLEAN
  /\ awaitFull \in BOOLEAN
  /\ batch \in [Batch -> {"none", "waiting", "woken"}]
  /\ current \in Ticker \cup {NoTicker}
  /\ state \in {"idle", "running", "completed", "failed"}
  /\ queued \in Seq(Ticker)
  /\ completed \subseteq Ticker
  /\ failed \subseteq Ticker

\* No ticker is stranded: while one is queued or in hand there is a worker to
\* take it, and the waiters' event is set exactly when there is no worker.
NothingStranded ==
  /\ queue # <<>> \/ current # NoTicker => worker # "none"
  /\ idle <=> worker = "none"
  /\ \A b \in Batch : batch[b] = "waiting" => ~idle

\* A ticker is refreshed once per request at most: it is not queued twice, nor
\* while it is in hand, and the reported queue is the real one.
RefreshedOnce ==
  /\ \A i, j \in DOMAIN queue : queue[i] = queue[j] => i = j
  /\ current \notin ToSet(queue)
  /\ queued = queue

\* A ticker has one result at most.
OneResult == completed \cap failed = {}

\* When run_once returns, every ticker of the watchlist has a result, whatever
\* single refreshes and other batch runs were asked for meanwhile.
BatchCoversWatchlist ==
  [][\A b \in Batch :
       batch[b] = "woken" /\ batch'[b] = "none" => completed \cup failed = Ticker]_vars

\* Once nothing more is asked for, every batch run returns.  (While requests
\* keep coming the worker need not leave, and run_once waits for it to leave.)
QueueShrinks == Len(queue') <= Len(queue)
BatchReturns ==
  (<>[][QueueShrinks]_vars) => \A b \in Batch : batch[b] # "none" ~> batch[b] = "none"

Outcome ==
  [t \in Ticker |-> IF t \in completed THEN "completed"
                    ELSE IF t \in failed THEN "failed" ELSE "none"]
\* The queue, the ticker in hand and the result lists implement the board of
\* requests: nothing asked for is dropped, one ticker at a time is refreshed,
\* and its outcome is recorded before the next one begins.
Board == INSTANCE RefreshBoard
           WITH wanted <- ToSet(queue), serving <- current, outcome <- Outcome
ImplementsBoard == Board!Spec

\* A ticker that was asked for gets its turn, however many more are asked for.
EveryRequestBegun == Board!EventuallyBegun

\* "If a batch is already running, responds 409": no batch run is accepted
\* while the service is running.
RefusedWhileRunning ==
  [][\A b \in Batch : batch[b] = "none" /\ batch'[b] # "none" => ~IsRunning]_vars

\* "batch running this ticker | Running": the dashboard shows a card as running
\* when the state is "running" and the card's ticker is the current one, so
\* while a ticker is in hand the state has to be "running".
InHandMeansRunning == current # NoTicker => state = "running"
=============================================================================
