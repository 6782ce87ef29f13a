--------------------------- MODULE DeliberationRuns ---------------------------
(***************************************************************************)
(* The deliberation layer of the research reports of one ticker, and the   *)
(* decision on the ticker's dashboard card.  Two kinds of report reach the *)
(* card: a research request stores its report and leaves the deliberation  *)
(* to a task (Celery or the event loop), which patches the card when it is *)
(* done; the watchlist batch deliberates inline and replaces the card.     *)
(*                                                                         *)
(* A statement that takes a row lock is a step, and so is each commit: the *)
(* patch locks the summary row and then the report row, a refresh the      *)
(* report row and then the summary row.  PostgreSQL reads committed rows.  *)
(***************************************************************************)
EXTENDS Naturals

CONSTANTS
  Research,    \* reports made by GET /research/{ticker}
  Refresh,     \* reports made by the watchlist batch
  NoReport,
  RedisUrlOk   \* REDIS_URL is one Redis.from_url accepts

Report == Research \cup Refresh

ASSUME DeliberationAssumption ==
  /\ Research \cap Refresh = {}
  /\ NoReport \notin Report
  /\ RedisUrlOk \in BOOLEAN

VARIABLES
  layer,     \* layer[r]: status of the stored deliberation_layer of report r
  task,      \* task[r]: where the deliberation task of a research report is
  held,      \* held[r]: the report whose JSON the patch of r has read
  refresh,   \* the watchlist refresh under way, or NoReport
  phase,     \* where that refresh is
  summary,   \* the card's row in ticker_reverse_bwb_summary
  snapshot   \* the card's row in ticker_reports; by: whose decision its JSON tells

vars == <<layer, task, held, refresh, phase, summary, snapshot>>
card == <<summary, snapshot>>
batch == <<refresh, phase>>

Terminal == {"complete", "failed", "skipped"}

\* decider: the report whose council decided; of: the refresh that wrote the row.
NoSummary == [of |-> NoReport, council |-> FALSE, decider |-> NoReport]

\* Mutant: autoflush is off, so the UPDATE waits for the commit.
LocksSummary_Never(r) == r \notin Research

\* The patch holds the summary row from the flush of its UPDATE to its commit; a
\* refresh holds the report row from its upsert to its commit.
LocksSummary(r) == task[r] \in {"locked", "amending"}
SummaryFree == \A r \in Research : ~LocksSummary(r)
ReportFree == phase \notin {"writing", "marking"}

\* A write of the stored report with its layer.  The executive summary and the row
\* of the run, written after a deliberation, tell no state of the layer apart, and a
\* failure to write them is a warning.
StoreLayer(r, status) == layer' = [layer EXCEPT ![r] = status]

-----------------------------------------------------------------------------
(* GET /research/{ticker}.                                                 *)

\* The report is stored as pending and its deliberation is scheduled at once.
Submit(r) ==
  /\ layer[r] = "absent"
  /\ StoreLayer(r, "pending")
  /\ task' = [task EXCEPT ![r] = "queued"]
  /\ UNCHANGED <<held, batch, card>>

-----------------------------------------------------------------------------
(* execute_deliberation.                                                   *)

Begin(r) ==
  /\ task[r] = "queued"
  /\ StoreLayer(r, "running")
  /\ task' = [task EXCEPT ![r] = "running"]
  /\ UNCHANGED <<held, batch, card>>

\* Mutant: the layer is stored after the card has been patched.
Deliberated_StoresLater(r) ==
  /\ task[r] = "running"
  /\ \E result \in Terminal : \E decides \in {d \in BOOLEAN : d => result = "complete"} :
       /\ layer' = [layer EXCEPT ![r] = IF decides THEN @ ELSE result]
       /\ task' = [task EXCEPT ![r] = IF decides THEN "patching" ELSE "caching"]
  /\ UNCHANGED <<held, batch, card>>

\* The orchestrator returns a layer, which is stored; only a complete one whose
\* council reached a decision goes on to the card.
Deliberated(r) ==
  /\ task[r] = "running"
  /\ \E result \in Terminal : \E decides \in {d \in BOOLEAN : d => result = "complete"} :
       /\ StoreLayer(r, result)
       /\ task' = [task EXCEPT ![r] = IF decides THEN "patching" ELSE "caching"]
  /\ UNCHANGED <<held, batch, card>>

\* The orchestrator or the update raised: the failure is stored if the database
\* lets it.
Failed(r) ==
  /\ task[r] = "running"
  /\ StoreLayer(r, "failed") \/ UNCHANGED layer
  /\ task' = [task EXCEPT ![r] = "done"]
  /\ UNCHANGED <<held, batch, card>>

\* Mutant: the task waits for a card it may patch.
ReadSummary_Waits(r) ==
  /\ task[r] = "patching"
  /\ ~summary.council
  /\ task' = [task EXCEPT ![r] = IF summary.of = NoReport THEN "caching" ELSE "checked"]
  /\ UNCHANGED <<layer, held, batch, card>>

\* patch_reverse_bwb_decision, first SELECT: without a card, or with one whose
\* council has spoken, there is nothing to patch.
ReadSummary(r) ==
  /\ task[r] = "patching"
  /\ task' = [task EXCEPT ![r] =
                IF summary.of = NoReport \/ summary.council THEN "caching" ELSE "checked"]
  /\ UNCHANGED <<layer, held, batch, card>>

\* Mutant: the UPDATE of a row that is gone goes unnoticed.
FlushDecision_Unchecked(r) ==
  /\ task[r] = "checked"
  /\ SummaryFree
  /\ task' = [task EXCEPT ![r] = "locked"]
  /\ UNCHANGED <<layer, held, batch, card>>

\* The second SELECT first flushes the UPDATE of the decision; it waits for the
\* row, and a row deleted meanwhile fails the patch (a warning in the runner).
FlushDecision(r) ==
  /\ task[r] = "checked"
  /\ SummaryFree
  /\ task' = [task EXCEPT ![r] = IF summary.of = NoReport THEN "caching" ELSE "locked"]
  /\ UNCHANGED <<layer, held, batch, card>>

\* The second SELECT: the card's report, whose JSON is copied and amended.
ReadSnapshot(r) ==
  /\ task[r] = "locked"
  /\ held' = [held EXCEPT ![r] = snapshot.json]
  /\ task' = [task EXCEPT ![r] = "amending"]
  /\ UNCHANGED <<layer, batch, card>>

\* The UPDATE of the report, if there is a JSON to amend, waits for its row, and the
\* commit publishes both.  (An UPDATE of a row that is gone writes nothing.)
CommitPatch(r) ==
  /\ task[r] = "amending"
  /\ ReportFree
  /\ summary' = [summary EXCEPT !.decider = IF summary.of = NoReport THEN @ ELSE r]
  /\ snapshot' = IF held[r] = NoReport
                 THEN snapshot
                 ELSE [snapshot EXCEPT !.json = held[r], !.by = r]
  /\ task' = [task EXCEPT ![r] = "caching"]
  /\ held' = [held EXCEPT ![r] = NoReport]
  /\ UNCHANGED <<layer, batch>>

\* Mutant: the failure reaches the handler of failed runs.
PatchFails_Reraises(r) ==
  /\ task[r] \in {"patching", "checked", "locked", "amending"}
  /\ StoreLayer(r, "failed")
  /\ task' = [task EXCEPT ![r] = "done"]
  /\ held' = [held EXCEPT ![r] = NoReport]
  /\ UNCHANGED <<batch, card>>

\* The database fails the patch: a warning.
PatchFails(r) ==
  /\ task[r] \in {"patching", "checked", "locked", "amending"}
  /\ task' = [task EXCEPT ![r] = "caching"]
  /\ held' = [held EXCEPT ![r] = NoReport]
  /\ UNCHANGED <<layer, batch, card>>

\* The report goes to the Redis cache; a failing write is ignored, but the
\* client is made outside that try: a URL it rejects ends in the outer except,
\* which stores the run as failed (or cannot).
Cache(r) ==
  /\ task[r] = "caching"
  /\ IF RedisUrlOk
     THEN UNCHANGED layer
     ELSE StoreLayer(r, "failed") \/ UNCHANGED layer
  /\ task' = [task EXCEPT ![r] = "done"]
  /\ UNCHANGED <<held, batch, card>>

\* The process that runs the task dies (Celery acknowledges a task before it
\* runs it; an inline task dies with the API process).
Crash(r) ==
  /\ task[r] \notin {"none", "done", "dead"}
  /\ task' = [task EXCEPT ![r] = "dead"]
  /\ held' = [held EXCEPT ![r] = NoReport]
  /\ UNCHANGED <<layer, batch, card>>

-----------------------------------------------------------------------------
(* The watchlist batch: one refresh of the ticker at a time.               *)

\* pipeline.run stores the report as pending without scheduling a task.
RefreshBegins(b) ==
  /\ refresh = NoReport
  /\ layer[b] = "absent"
  /\ refresh' = b
  /\ phase' = "deliberating"
  /\ StoreLayer(b, "pending")
  /\ UNCHANGED <<task, held, card>>

\* save_snapshot upserts the report row.
RefreshWrites(b) ==
  /\ refresh = b /\ phase = "deliberating"
  /\ phase' = "writing"
  /\ UNCHANGED <<layer, task, held, refresh, card>>

\* It goes on to the summary row and commits, together with the layer of the
\* research report (still pending when the orchestrator raised).
RefreshSaves(b) ==
  /\ refresh = b /\ phase = "writing"
  /\ SummaryFree
  /\ \E result \in Terminal \cup {"pending"} :
     \E council \in {c \in BOOLEAN : c => result = "complete"} :
       /\ StoreLayer(b, result)
       /\ summary' = [of |-> b, council |-> council, decider |-> b]
  /\ snapshot' = [of |-> b, json |-> b, by |-> b]
  /\ refresh' = NoReport
  /\ phase' = "idle"
  /\ UNCHANGED <<task, held>>

\* Any exception of the refresh rolls it back; mark_failed follows in a session
\* of its own.
RefreshFails(b) ==
  /\ refresh = b /\ phase \in {"deliberating", "writing"}
  /\ phase' = "failing"
  /\ UNCHANGED <<layer, task, held, refresh, card>>

\* mark_failed upserts the report row, which keeps its JSON ...
MarkWrites(b) ==
  /\ refresh = b /\ phase = "failing"
  /\ phase' = "marking"
  /\ UNCHANGED <<layer, task, held, refresh, card>>

\* ... and deletes the summary.
MarkCommits(b) ==
  /\ refresh = b /\ phase = "marking"
  /\ SummaryFree
  /\ summary' = NoSummary
  /\ refresh' = NoReport
  /\ phase' = "idle"
  /\ UNCHANGED <<layer, task, held, snapshot>>

\* _safe_mark_failed swallows what the database raises: the old card stays.
MarkLost(b) ==
  /\ refresh = b /\ phase \in {"failing", "marking"}
  /\ refresh' = NoReport
  /\ phase' = "idle"
  /\ UNCHANGED <<layer, task, held, card>>

\* The process of the batch dies: its transaction is rolled back.
BatchDies(b) ==
  /\ refresh = b
  /\ refresh' = NoReport
  /\ phase' = "idle"
  /\ UNCHANGED <<layer, task, held, card>>

\* Each of the two transactions waits for the other's row: PostgreSQL aborts one.
Deadlock(r, b) ==
  /\ task[r] = "amending" /\ refresh = b
  /\ \/ phase \in {"writing", "marking"} /\ PatchFails(r)
     \/ phase = "writing" /\ RefreshFails(b)
     \/ phase = "marking" /\ MarkLost(b)

-----------------------------------------------------------------------------
Init ==
  /\ layer = [r \in Report |-> "absent"]
  /\ task = [r \in Research |-> "none"]
  /\ held = [r \in Research |-> NoReport]
  /\ refresh = NoReport
  /\ phase = "idle"
  /\ summary = NoSummary
  /\ snapshot = [of |-> NoReport, json |-> NoReport, by |-> NoReport]

\* The steps a task takes when nothing goes wrong, and those of a refresh.
TaskStep(r) ==
  \/ Begin(r) \/ Deliberated(r) \/ ReadSummary(r) \/ FlushDecision(r)
  \/ ReadSnapshot(r) \/ CommitPatch(r) \/ Cache(r)

RefreshStep(b) ==
  \/ RefreshWrites(b) \/ RefreshSaves(b) \/ MarkWrites(b) \/ MarkCommits(b)

Next ==
  \/ \E r \in Research : Submit(r) \/ TaskStep(r) \/ Failed(r) \/ PatchFails(r) \/ Crash(r)
  \/ \E b \in Refresh :
       \/ RefreshBegins(b) \/ RefreshStep(b) \/ RefreshFails(b) \/ MarkLost(b) \/ BatchDies(b)
  \/ \E r \in Research, b \in Refresh : Deadlock(r, b)

Spec == Init /\ [][Next]_vars

\* A worker takes a queued task, LLM and database calls return, and PostgreSQL
\* resolves a deadlock once its deadlock_timeout is over.
FairSpec ==
  /\ Spec
  /\ \A r \in Research : WF_vars(TaskStep(r))
  /\ \A b \in Refresh : WF_vars(RefreshStep(b))
  /\ \A r \in Research, b \in Refresh : WF_vars(Deadlock(r, b))

-----------------------------------------------------------------------------
(* Properties.                                                             *)

TypeOK ==
  /\ layer \in [Report -> {"absent", "pending", "running"} \cup Terminal]
  /\ task \in [Research -> {"none", "queued", "running", "patching", "checked", "locked",
                            "amending", "caching", "done", "dead"}]
  /\ held \in [Research -> Refresh \cup {NoReport}]
  /\ refresh \in Refresh \cup {NoReport}
  /\ phase \in {"idle", "deliberating", "writing", "failing", "marking"}
  /\ summary \in [of : Refresh \cup {NoReport}, council : BOOLEAN, decider : Report \cup {NoReport}]
  /\ snapshot \in [of : Refresh \cup {NoReport}, json : Refresh \cup {NoReport},
                  by : Report \cup {NoReport}]

\* The two rows of a card come from one refresh, its report is the JSON that refresh
\* wrote (perhaps amended), and both tell the same decision: a patch that read the JSON
\* of an earlier refresh never writes it back (ticker_reports is the latest-only
\* snapshot), and no patch reaches one row without the other.
CardOfOneRefresh ==
  summary.of # NoReport =>
    /\ snapshot.of = summary.of /\ snapshot.json = summary.of
    /\ snapshot.by = summary.decider

\* mark_failed deletes the summary of a card and keeps its report: a patch that is on
\* its way then does not write its decision into the report that is left
\* (patch_reverse_bwb_decision does nothing without a summary row).
ClearedStaysCleared ==
  [][summary = NoSummary /\ summary' = NoSummary => UNCHANGED snapshot]_vars

\* The decision on a card that came from a research request is the decision of a
\* run that is stored as complete: a reader who opens the report finds it there.
DecisionBacked == summary.decider \in Research => layer[summary.decider] = "complete"

\* execute_deliberation returns at once for a report whose layer is complete,
\* failed or skipped: a stored result is never replaced.
TerminalIsFinal ==
  [][\A r \in Report : layer[r] \in Terminal => layer'[r] = layer[r]]_vars

\* Every scheduled deliberation ends or dies with its process and every refresh ends, also
\* when a patch and a refresh of the ticker wait for each other's rows.
WorkEnds ==
  /\ \A r \in Research : task[r] = "queued" ~> task[r] \in {"done", "dead"}
  /\ \A b \in Refresh : refresh = b ~> refresh # b

\* "the batch already wrote the authoritative council decision and we must not let
\* a stale follow-up overwrite it" (patch_reverse_bwb_decision).
CouncilStands == summary.council => summary.decider = summary.of
=============================================================================
