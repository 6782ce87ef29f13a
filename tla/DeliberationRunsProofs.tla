----------------------- MODULE DeliberationRunsProofs -----------------------
(***************************************************************************)
(* Proofs about DeliberationRuns, for any sets of reports: the card is the *)
(* work of one refresh whatever RedisUrlOk is; with a URL the client       *)
(* accepts, its decision is backed and a stored result is final.           *)
(***************************************************************************)
EXTENDS DeliberationRuns, TLAPS

-----------------------------------------------------------------------------
(* The card.                                                               *)

\* One patch at a time holds the summary row, which then exists, and what it has
\* read is still what is stored.
Locking ==
  /\ \A r, q \in Research : LocksSummary(r) /\ LocksSummary(q) => r = q
  /\ \A r \in Research : LocksSummary(r) => summary.of # NoReport
  /\ \A r \in Research : task[r] = "amending" => held[r] = snapshot.json

CardInv ==
  /\ TypeOK
  /\ Locking
  /\ CardOfOneRefresh

\* No patch is under way at the start.
LEMMA CardInit == Init => CardInv
BY DEF Init, CardInv, TypeOK, Locking, LocksSummary, CardOfOneRefresh,
       NoSummary

\* A step that leaves the card alone, and the locks or fewer of them.
LEMMA CardUntouched ==
  ASSUME CardInv, TypeOK', UNCHANGED card,
         \A r \in Research : LocksSummary(r)' => LocksSummary(r),
         \A r \in Research : task'[r] = "amending" => task[r] = "amending" /\ held'[r] = held[r]
  PROVE  CardInv'
BY DEF CardInv, Locking, CardOfOneRefresh, card

\* Every step keeps the types.
LEMMA TypeStep == TypeOK /\ [Next]_vars => TypeOK'
<1> SUFFICES ASSUME TypeOK, [Next]_vars PROVE TypeOK'
  OBVIOUS
<1> USE DEF TypeOK, StoreLayer, Report, Terminal, card, batch
<1>1. ASSUME NEW r \in Research, Submit(r) \/ Begin(r) \/ Deliberated(r) \/ Failed(r)
      PROVE  TypeOK'
  BY <1>1 DEF Submit, Begin, Deliberated, Failed
<1>2. ASSUME NEW r \in Research, ReadSummary(r) \/ FlushDecision(r) \/ ReadSnapshot(r)
      PROVE  TypeOK'
  BY <1>2 DEF ReadSummary, FlushDecision, ReadSnapshot
<1>3. ASSUME NEW r \in Research, CommitPatch(r)
      PROVE  TypeOK'
  BY <1>3 DEF CommitPatch
<1>4. ASSUME NEW r \in Research, PatchFails(r) \/ Cache(r) \/ Crash(r)
      PROVE  TypeOK'
  BY <1>4 DEF PatchFails, Cache, Crash
<1>5. ASSUME NEW b \in Refresh, RefreshSaves(b)
      PROVE  TypeOK'
  <2>1. summary' \in [of : Refresh \cup {NoReport}, council : BOOLEAN,
                      decider : Report \cup {NoReport}]
    BY <1>5 DEF RefreshSaves
  <2>2. /\ layer' \in [Report -> {"absent", "pending", "running"} \cup Terminal]
        /\ snapshot' \in [of : Refresh \cup {NoReport}, json : Refresh \cup {NoReport},
                           by : Report \cup {NoReport}]
        /\ refresh' = NoReport /\ phase' = "idle" /\ UNCHANGED <<task, held>>
    BY <1>5 DEF RefreshSaves
  <2>3. QED
    BY <2>1, <2>2
<1>6. ASSUME NEW b \in Refresh,
             \/ RefreshBegins(b) \/ RefreshWrites(b) \/ RefreshFails(b) \/ MarkWrites(b)
             \/ MarkLost(b) \/ BatchDies(b)
      PROVE  TypeOK'
  BY <1>6 DEF RefreshBegins, RefreshWrites, RefreshFails, MarkWrites, MarkLost, BatchDies
<1>7. ASSUME NEW r \in Research, NEW b \in Refresh, Deadlock(r, b)
      PROVE  TypeOK'
  BY <1>4, <1>6, <1>7 DEF Deadlock
<1>8. ASSUME NEW b \in Refresh, MarkCommits(b)
      PROVE  TypeOK'
  <2>1. summary' \in [of : Refresh \cup {NoReport}, council : BOOLEAN,
                      decider : Report \cup {NoReport}]
    BY <1>8 DEF MarkCommits, NoSummary
  <2>2. refresh' = NoReport /\ phase' = "idle" /\ UNCHANGED <<layer, task, held, snapshot>>
    BY <1>8 DEF MarkCommits
  <2>3. QED
    BY <2>1, <2>2
<1>9. CASE UNCHANGED vars
  BY <1>9 DEF vars
<1>10. QED
  BY <1>1, <1>2, <1>3, <1>4, <1>5, <1>6, <1>7, <1>8, <1>9 DEF Next, TaskStep, RefreshStep

\* Every step leaves one patch at a time on the summary row, with what is stored still what
\* it read.
LEMMA CardStep == CardInv /\ [Next]_vars => CardInv'
<1> SUFFICES ASSUME CardInv, [Next]_vars PROVE CardInv'
  OBVIOUS
<1>t. TypeOK /\ TypeOK'
  BY TypeStep DEF CardInv
<1>1. ASSUME NEW r \in Research,
             \/ Submit(r) \/ Begin(r) \/ Deliberated(r) \/ Failed(r) \/ ReadSummary(r)
             \/ PatchFails(r) \/ Cache(r) \/ Crash(r)
      PROVE  CardInv'
  <2>1. UNCHANGED card
    BY <1>1 DEF Submit, Begin, Deliberated, Failed, ReadSummary, PatchFails, Cache, Crash, card
  <2>2. \A q \in Research :
          /\ task'[q] \in {"locked", "amending"} => task'[q] = task[q]
          /\ task'[q] = "amending" => held'[q] = held[q]
    BY <1>1, <1>t DEF TypeOK, Submit, Begin, Deliberated, Failed, ReadSummary, PatchFails,
                      Cache, Crash
  <2>3. QED
    BY <1>t, <2>1, <2>2, CardUntouched DEF LocksSummary
<1>2. ASSUME NEW r \in Research, FlushDecision(r)
      PROVE  CardInv'
  <2>1. UNCHANGED <<summary, snapshot, held>>
    BY <1>2 DEF FlushDecision, card
  <2>2. Locking'
    BY <1>2, <1>t, <2>1 DEF FlushDecision, CardInv, Locking, LocksSummary, SummaryFree, TypeOK
  <2>3. QED
    BY <1>t, <2>1, <2>2 DEF CardInv, CardOfOneRefresh
<1>3. ASSUME NEW r \in Research, ReadSnapshot(r)
      PROVE  CardInv'
  <2>1. UNCHANGED <<summary, snapshot>>
    BY <1>3 DEF ReadSnapshot, card
  <2>2. Locking'
    BY <1>3, <1>t, <2>1 DEF ReadSnapshot, CardInv, Locking, LocksSummary, TypeOK
  <2>3. QED
    BY <1>t, <2>1, <2>2 DEF CardInv, CardOfOneRefresh
<1>4. ASSUME NEW r \in Research, CommitPatch(r)
      PROVE  CardInv'
  <2>1. summary.of # NoReport /\ held[r] = snapshot.json
    BY <1>4 DEF CommitPatch, CardInv, Locking, LocksSummary
  <2>2. /\ summary'.of = summary.of /\ summary'.decider = r
        /\ snapshot'.of = snapshot.of /\ snapshot'.json = snapshot.json
        /\ snapshot'.by = r
    <3>1. held[r] # NoReport
      BY <2>1 DEF CardInv, CardOfOneRefresh
    <3>2. QED
      BY <1>4, <1>t, <2>1, <3>1 DEF CommitPatch, TypeOK
  <2>3. \A q \in Research : ~LocksSummary(q)'
    BY <1>4, <1>t DEF CommitPatch, CardInv, Locking, LocksSummary, TypeOK
  <2>4. QED
    BY <1>t, <2>1, <2>2, <2>3 DEF CardInv, Locking, LocksSummary, CardOfOneRefresh
<1>5. ASSUME NEW b \in Refresh, RefreshSaves(b)
      PROVE  CardInv'
  <2>1. /\ summary'.of = b /\ snapshot'.of = b /\ snapshot'.json = b
        /\ summary'.decider = b /\ snapshot'.by = b
    BY <1>5 DEF RefreshSaves
  <2>2. \A q \in Research : ~LocksSummary(q)'
    BY <1>5 DEF RefreshSaves, SummaryFree, LocksSummary
  <2>3. b # NoReport
    BY DeliberationAssumption DEF Report
  <2>4. QED
    BY <1>t, <2>1, <2>2, <2>3 DEF CardInv, Locking, LocksSummary, CardOfOneRefresh
<1>6. ASSUME NEW b \in Refresh, MarkCommits(b)
      PROVE  CardInv'
  <2>1. summary' = NoSummary /\ summary'.of = NoReport
    BY <1>6 DEF MarkCommits, NoSummary
  <2>2. \A q \in Research : ~LocksSummary(q)'
    BY <1>6 DEF MarkCommits, SummaryFree, LocksSummary
  <2>3. QED
    BY <1>t, <2>1, <2>2 DEF CardInv, Locking, LocksSummary, CardOfOneRefresh, NoSummary
<1>7. ASSUME NEW b \in Refresh,
             \/ RefreshBegins(b) \/ RefreshWrites(b) \/ RefreshFails(b) \/ MarkWrites(b)
             \/ MarkLost(b) \/ BatchDies(b)
      PROVE  CardInv'
  <2>1. UNCHANGED <<summary, snapshot, task, held>>
    BY <1>7 DEF RefreshBegins, RefreshWrites, RefreshFails, MarkWrites, MarkLost, BatchDies, card
  <2>2. QED
    BY <1>t, <2>1, CardUntouched DEF card, LocksSummary
<1>8. ASSUME NEW r \in Research, NEW b \in Refresh, Deadlock(r, b)
      PROVE  CardInv'
  BY <1>1, <1>7, <1>8 DEF Deadlock
<1>9. CASE UNCHANGED vars
  BY <1>t, <1>9, CardUntouched DEF vars, card, LocksSummary
<1>10. QED
  BY <1>1, <1>2, <1>3, <1>4, <1>5, <1>6, <1>7, <1>8, <1>9 DEF Next, TaskStep, RefreshStep

\* CardInv holds in every reachable state.
LEMMA CardInvariant == Spec => []CardInv
<1>1. QED
  BY CardInit, CardStep, PTL DEF Spec

\* The state of tasks, refreshes and rows stays well-typed.
THEOREM TypeCorrect == Spec => []TypeOK
BY CardInvariant, PTL DEF CardInv

\* The two rows of the card always come from one refresh and tell the same
\* decision: no patch loses the update of a refresh, however many of them overlap.
THEOREM CardIsOfOneRefresh == Spec => []CardOfOneRefresh
BY CardInvariant, PTL DEF CardInv

\* What a step does to the report of a cleared card that stays cleared.
ClearedStep == summary = NoSummary /\ summary' = NoSummary => UNCHANGED snapshot

\* Only a patch writes the report without writing a summary, and a patch that gets so
\* far holds a summary row that is there.
LEMMA ClearedKept == CardInv /\ [Next]_vars => ClearedStep
<1> SUFFICES ASSUME CardInv, [Next]_vars, summary = NoSummary, summary' = NoSummary
             PROVE  UNCHANGED snapshot
  BY DEF ClearedStep
<1>1. summary.of = NoReport /\ summary'.of = NoReport
  BY DEF NoSummary
<1>2. ASSUME NEW r \in Research, CommitPatch(r)
      PROVE  FALSE
  BY <1>1, <1>2 DEF CommitPatch, CardInv, Locking, LocksSummary
<1>3. ASSUME NEW b \in Refresh, RefreshSaves(b)
      PROVE  FALSE
  <2>1. summary'.of = b /\ b # NoReport
    BY <1>3, DeliberationAssumption DEF RefreshSaves, Report
  <2>2. QED
    BY <1>1, <2>1
<1>4. ASSUME NEW r \in Research,
             \/ Submit(r) \/ Begin(r) \/ Deliberated(r) \/ Failed(r) \/ ReadSummary(r)
             \/ FlushDecision(r) \/ ReadSnapshot(r) \/ PatchFails(r) \/ Cache(r) \/ Crash(r)
      PROVE  UNCHANGED snapshot
  BY <1>4 DEF Submit, Begin, Deliberated, Failed, ReadSummary, FlushDecision, ReadSnapshot,
              PatchFails, Cache, Crash, card
<1>5. ASSUME NEW b \in Refresh,
             \/ RefreshBegins(b) \/ RefreshWrites(b) \/ RefreshFails(b) \/ MarkWrites(b)
             \/ MarkCommits(b) \/ MarkLost(b) \/ BatchDies(b)
      PROVE  UNCHANGED snapshot
  BY <1>5 DEF RefreshBegins, RefreshWrites, RefreshFails, MarkWrites, MarkCommits, MarkLost,
              BatchDies, card
<1>6. ASSUME NEW r \in Research, NEW b \in Refresh, Deadlock(r, b)
      PROVE  UNCHANGED snapshot
  BY <1>4, <1>5, <1>6 DEF Deadlock
<1>7. CASE UNCHANGED vars
  BY <1>7 DEF vars
<1>8. QED
  BY <1>2, <1>3, <1>4, <1>5, <1>6, <1>7 DEF Next, TaskStep, RefreshStep

\* No patch writes its decision into the report that a failed refresh left without a
\* summary, however late it comes.
THEOREM ClearedCardsStayCleared == Spec => ClearedStaysCleared
<1>1. ClearedStep => [summary = NoSummary /\ summary' = NoSummary => UNCHANGED snapshot]_vars
  BY DEF ClearedStep
<1>2. QED
  BY CardInit, CardStep, ClearedKept, <1>1, PTL DEF Spec, ClearedStaysCleared

-----------------------------------------------------------------------------
(* The stored layers.                                                      *)

\* Where a task is tells the layer of its report, and the report of a refresh
\* under way is pending.
LayerOfTask ==
  /\ \A r \in Research :
       /\ task[r] = "queued" => layer[r] = "pending"
       /\ task[r] = "running" => layer[r] = "running"
       /\ task[r] \in {"patching", "checked", "locked", "amending"} => layer[r] = "complete"
  /\ \A b \in Refresh : refresh = b => layer[b] = "pending"

LayerInv ==
  /\ TypeOK
  /\ LayerOfTask
  /\ DecisionBacked

\* What a step may do to a stored layer.
FinalStep == \A r \in Report : layer[r] \in Terminal => layer'[r] = layer[r]

\* LayerInv holds at the start: no report has a layer.
LEMMA LayerInit == Init => LayerInv
BY DeliberationAssumption
DEF Init, LayerInv, TypeOK, LayerOfTask, DecisionBacked, NoSummary, Report

\* Every step keeps the layers in line with their tasks and leaves a finished layer as it
\* is.
LEMMA LayerStep ==
  ASSUME RedisUrlOk, LayerInv, [Next]_vars
  PROVE  LayerInv' /\ FinalStep
<1>t. TypeOK /\ TypeOK'
  BY TypeStep DEF LayerInv
<1>d. /\ \A r \in Research : r \in Report /\ r \notin Refresh
      /\ \A b \in Refresh : b \in Report /\ b \notin Research
      /\ NoReport \notin Research /\ NoReport \notin Refresh
  BY DeliberationAssumption DEF Report
<1> USE DEF LayerInv, StoreLayer, LayerOfTask, FinalStep, Terminal, card, batch
<1>1. ASSUME NEW r \in Research,
             \/ Submit(r) \/ Begin(r) \/ Deliberated(r) \/ Failed(r)
      PROVE  LayerInv' /\ FinalStep
  <2>1. UNCHANGED <<refresh, summary>>
    BY <1>1 DEF Submit, Begin, Deliberated, Failed
  <2>2. layer[r] \in {"absent", "pending", "running"}
    BY <1>1 DEF Submit, Begin, Deliberated, Failed
  <2>3. \A q \in Report \ {r} : layer'[q] = layer[q]
    BY <1>1, <1>t, <1>d DEF Submit, Begin, Deliberated, Failed, TypeOK
  <2>4. \A q \in Research \ {r} : task'[q] = task[q]
    BY <1>1, <1>t DEF Submit, Begin, Deliberated, Failed, TypeOK
  <2>5. /\ task'[r] = "queued" => layer'[r] = "pending"
        /\ task'[r] = "running" => layer'[r] = "running"
        /\ task'[r] \in {"patching", "checked", "locked", "amending"} => layer'[r] = "complete"
    BY <1>1, <1>t, <1>d DEF Submit, Begin, Deliberated, Failed, TypeOK
  <2>6. LayerOfTask'
    BY <1>d, <2>1, <2>3, <2>4, <2>5
  <2>7. DecisionBacked'
    BY <1>d, <2>1, <2>2, <2>3 DEF DecisionBacked
  <2>8. QED
    BY <1>t, <2>2, <2>3, <2>6, <2>7
<1>2. ASSUME NEW r \in Research,
             \/ ReadSummary(r) \/ FlushDecision(r) \/ ReadSnapshot(r) \/ PatchFails(r)
             \/ Cache(r) \/ Crash(r)
      PROVE  LayerInv' /\ FinalStep
  <2>1. UNCHANGED <<layer, refresh, summary>>
    BY <1>2 DEF ReadSummary, FlushDecision, ReadSnapshot, PatchFails, Cache, Crash
  <2>2. /\ \A q \in Research \ {r} : task'[q] = task[q]
        /\ task'[r] \notin {"queued", "running", "patching"}
        /\ \/ task'[r] \in {"caching", "done", "dead"}
           \/ task[r] \in {"patching", "checked", "locked"}
    BY <1>2, <1>t DEF ReadSummary, FlushDecision, ReadSnapshot, PatchFails, Cache, Crash, TypeOK
  <2>3. LayerOfTask'
    BY <2>1, <2>2
  <2>4. QED
    BY <1>t, <2>1, <2>3 DEF DecisionBacked
<1>3. ASSUME NEW r \in Research, CommitPatch(r)
      PROVE  LayerInv' /\ FinalStep
  <2>1. layer[r] = "complete" /\ UNCHANGED <<layer, refresh>>
    BY <1>3 DEF CommitPatch
  <2>2. summary'.decider = r \/ summary'.decider = summary.decider
    BY <1>3, <1>t DEF CommitPatch, TypeOK
  <2>3. \A q \in Research : task'[q] = IF q = r THEN "caching" ELSE task[q]
    BY <1>3, <1>t DEF CommitPatch, TypeOK
  <2>4. QED
    BY <1>t, <2>1, <2>2, <2>3 DEF DecisionBacked
<1>4. ASSUME NEW b \in Refresh,
             \/ RefreshWrites(b) \/ RefreshFails(b) \/ MarkWrites(b) \/ MarkLost(b)
             \/ BatchDies(b)
      PROVE  LayerInv' /\ FinalStep
  <2>1. UNCHANGED <<layer, task, summary>> /\ (refresh' = refresh \/ refresh' = NoReport)
    BY <1>4 DEF RefreshWrites, RefreshFails, MarkWrites, MarkLost, BatchDies
  <2>2. QED
    BY <1>t, <1>d, <2>1 DEF DecisionBacked
<1>5. ASSUME NEW b \in Refresh, RefreshBegins(b)
      PROVE  LayerInv' /\ FinalStep
  <2>1. /\ UNCHANGED <<task, summary>> /\ refresh' = b /\ layer[b] = "absent"
        /\ layer'[b] = "pending" /\ \A q \in Report \ {b} : layer'[q] = layer[q]
    BY <1>5, <1>t, <1>d DEF RefreshBegins, TypeOK
  <2>2. QED
    BY <1>t, <1>d, <2>1 DEF DecisionBacked
<1>6. ASSUME NEW b \in Refresh, RefreshSaves(b)
      PROVE  LayerInv' /\ FinalStep
  <2>1. /\ UNCHANGED task /\ refresh' = NoReport /\ layer[b] = "pending"
        /\ summary'.decider = b /\ \A q \in Report \ {b} : layer'[q] = layer[q]
    BY <1>6, <1>t, <1>d DEF RefreshSaves, TypeOK
  <2>2. QED
    BY <1>t, <1>d, <2>1 DEF DecisionBacked
<1>7. ASSUME NEW b \in Refresh, MarkCommits(b)
      PROVE  LayerInv' /\ FinalStep
  <2>1. UNCHANGED <<layer, task>> /\ refresh' = NoReport /\ summary'.decider = NoReport
    BY <1>7 DEF MarkCommits, NoSummary
  <2>2. QED
    BY <1>t, <1>d, <2>1 DEF DecisionBacked
<1>8. ASSUME NEW r \in Research, NEW b \in Refresh, Deadlock(r, b)
      PROVE  LayerInv' /\ FinalStep
  BY <1>2, <1>4, <1>8 DEF Deadlock
<1>9. CASE UNCHANGED vars
  BY <1>t, <1>9 DEF vars, DecisionBacked
<1>10. QED
  BY <1>1, <1>2, <1>3, <1>4, <1>5, <1>6, <1>7, <1>8, <1>9 DEF Next, TaskStep, RefreshStep

\* With a REDIS_URL the client accepts, the decision a research request put on a
\* card is the decision of a run stored as complete, whatever fails afterwards.
THEOREM DecisionsAreBacked ==
  ASSUME RedisUrlOk
  PROVE  Spec => []DecisionBacked
<1>1. LayerInv /\ [Next]_vars => LayerInv'
  BY LayerStep
<1>2. LayerInv => DecisionBacked
  BY DEF LayerInv
<1>3. QED
  BY LayerInit, <1>1, <1>2, PTL DEF Spec

\* With such a URL, no step replaces a stored result.
THEOREM ResultsAreFinal ==
  ASSUME RedisUrlOk
  PROVE  Spec => TerminalIsFinal
<1>1. LayerInv /\ [Next]_vars => LayerInv' /\ FinalStep
  BY LayerStep
<1>2. FinalStep => [\A r \in Report : layer[r] \in Terminal => layer'[r] = layer[r]]_vars
  BY DEF FinalStep
<1>3. QED
  BY LayerInit, <1>1, <1>2, PTL DEF Spec, TerminalIsFinal
=============================================================================
