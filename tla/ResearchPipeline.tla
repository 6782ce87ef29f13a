--------------------------- MODULE ResearchPipeline ---------------------------
(***************************************************************************)
(* ResearchPipelineService.run: one research run collects the articles of  *)
(* a ticker, marks the duplicates, fetches bars and a live price, has      *)
(* Claude write the report, and stores and schedules what it made.  Runs   *)
(* of the HTTP route, the websocket, the Celery task and the watchlist     *)
(* batch overlap and share the tables and the vector collection.           *)
(*                                                                         *)
(* Each stage either goes on, swallows its failure, or ends the run: which *)
(* of the three is what this module is about.  A statement that fails      *)
(* leaves the session's transaction aborted, and every later statement of  *)
(* that session fails with it.                                             *)
(***************************************************************************)
EXTENDS Naturals, FiniteSets, Sequences, SequencesExt

CONSTANTS
  Run,          \* the research runs
  Caller,       \* who calls them: "route", "socket", "task", "batch" or some of these
  Order,        \* sequence of all articles, in the order the collector lists them
  Source,       \* the news sources
  From,         \* [Article -> Source]
  Reliability,  \* [Article -> Nat]: SOURCE_RELIABILITY
  Fingerprint,  \* headline and source of an article, or "short": at most 10 characters
  Similar,      \* set of pairs of articles above the dedupe threshold
  Mentions,     \* what an article mentions: the ticker, a peer of its sector, macro words
  None, Close, Live,  \* no price, the close of the last bar, the price of the live quote
  DilEnabled,   \* settings.dil_enabled
  MaxFaults     \* bound: failures in a behaviour

Article == ToSet(Order)

ASSUME PipelineAssumption ==
  /\ Caller \subseteq {"route", "socket", "task", "batch"}
  /\ From \in [Article -> Source] /\ Reliability \in [Article -> Nat]
  /\ DOMAIN Fingerprint = Article
  /\ Similar \subseteq Article \X Article
  /\ Mentions \in [Article -> SUBSET {"ticker", "peer", "macro"}]
  /\ MaxFaults \in Nat /\ None # Close /\ None # Live /\ Close # Live

VARIABLES
  run,         \* what each run holds, and where it stands
  raw,         \* raw_articles
  rows,        \* processed_articles: pairs of a run and an article
  points,      \* articles in the vector collection
  reports,     \* runs whose report is committed
  deliberated, \* how many times the report of a run was handed to the deliberation
  faults       \* failures so far

vars == <<run, raw, rows, points, reports, deliberated, faults>>

store == <<raw, rows, points, reports, deliberated>>

Mandatory == {"database", "vectors", "model", "cache", "client"}
Optional == {"news", "bars", "quote", "options"}

Idle == [caller |-> "none", vectors |-> FALSE, at |-> "idle", got |-> {}, dup |-> {},
         read |-> {}, bars |-> 0, told |-> None, source |-> "polygon_ohlcv",
         snapshot |-> None, priced |-> None, clean |-> TRUE, failures |-> {}]

-----------------------------------------------------------------------------
(* The pure stages.                                                        *)

Listed(S) == SelectSeq(Order, LAMBDA a : a \in S)

\* Mutant: the less reliable of two similar articles is kept.
Against_LessReliable(dup, i, j, sim, rel) ==
  IF j \in dup \/ <<i, j>> \notin sim THEN dup
  ELSE dup \cup {IF rel[j] > rel[i] THEN j ELSE i}

\* An article i beside a later one j: of two similar ones the less reliable is marked.
Against(dup, i, j, sim, rel) ==
  IF j \in dup \/ <<i, j>> \notin sim THEN dup
  ELSE dup \cup {IF rel[j] > rel[i] THEN i ELSE j}

\* The k-th article beside all the later ones, unless it is marked before.  The loop goes
\* on after its own article was marked.
Pass(order, k, dup, sim, rel) ==
  LET marked[m \in 0 .. Len(order) - k] ==
        IF m = 0 THEN dup ELSE Against(marked[m - 1], order[k], order[k + m], sim, rel)
  IN IF order[k] \in dup THEN dup ELSE marked[Len(order) - k]

\* _dedupe_matrix over the articles of `order`.
Duplicates(order, sim, rel) ==
  LET marked[k \in 0 .. Len(order)] ==
        IF k = 0 THEN {} ELSE Pass(order, k, marked[k - 1], sim, rel)
  IN marked[Len(order)]

\* _dedupe_via_qdrant: an article is a duplicate if the collection holds a similar other
\* one.  Three hits are enough: at most one of them is the article itself.
Known(S) == {a \in S : \E p \in points \ {a} : <<a, p>> \in Similar}

\* clean keeps the first article of every headline and source whose headline is not short.
Valid(got) ==
  {a \in got : /\ Fingerprint[a] # "short"
               /\ \E k \in DOMAIN Order :
                    Order[k] = a /\ \A j \in 1 .. k - 1 :
                      Order[j] \in got => Fingerprint[Order[j]] # Fingerprint[a]}

\* Which of the articles kept count as duplicates.
Cleaned(got, vectors) ==
  IF vectors THEN Known(got) ELSE Duplicates(Listed(got), Similar, Reliability)

\* collect: the articles of the sources that answer.  The gather keeps their order.
Gathered(down) == {a \in Article : From[a] \notin down}

\* fetch_ohlcv as far as it matters: no bar, too few for a snapshot, or enough.
Fetched == 0 .. 2

\* get_current_price.
LastClose(n) == IF n = 0 THEN None ELSE Close

\* What the tables and the collection hold after a write.  The insert of a raw article
\* that is there does nothing, a point is overwritten, a scored article is a row of its run.
WithRaw(got) == raw \cup got
WithRows(r, got) == rows \cup ({r} \X got)
WithPoints(got) == points \cup got
WithReport(r) == reports \cup {r}

\* classify_article: the first that is mentioned decides.
Tier(a) ==
  IF "ticker" \in Mentions[a] THEN "direct" ELSE IF "peer" \in Mentions[a] THEN "related_sector"
  ELSE IF "macro" \in Mentions[a] THEN "macro" ELSE "unrelated"

\* The filter by relevance falls back to all articles when nothing passes it.  Duplicates
\* are taken out only afterwards, by compress.
Narrative(S, dup) ==
  LET kept == {a \in S : Tier(a) # "unrelated"}
  IN (IF kept = {} THEN S ELSE kept) \ dup

-----------------------------------------------------------------------------
(* How a stage ends.                                                       *)

\* What is held, with some fields replaced.
Having(held, fields) ==
  [x \in DOMAIN held |-> IF x \in DOMAIN fields THEN fields[x] ELSE held[x]]

To(r, fields) == run' = [run EXCEPT ![r] = Having(@, fields)]

Fault(d) == /\ faults < MaxFaults /\ faults' = faults + 1

\* The exception leaves run(), and what the run held is gone.
Fail(r, d) ==
  run' = [run EXCEPT ![r] = Having(Idle, [at |-> "failed", caller |-> @.caller,
                                          failures |-> @.failures \cup {d}])]

\* Whether a statement of the run's session can succeed.
Runs(r) == run[r].clean

Breaks(r) == IF run[r].clean THEN Fault("database") ELSE UNCHANGED faults

-----------------------------------------------------------------------------
(* The stages.                                                             *)

\* A run begins.  The vector store is an option of the deployment, and may be missing.
Begin(r) ==
  /\ run[r].at = "idle"
  /\ \E c \in Caller, v \in BOOLEAN :
       To(r, [caller |-> c, vectors |-> v, at |-> "collect"])
  /\ UNCHANGED <<store, faults>>

\* Every source is asked; a source that fails is left out.  The articles are stored first.
Collect(r) ==
  /\ run[r].at = "collect"
  /\ \E down \in SUBSET Source :
       LET got == Gathered(down)
           lost == IF down = {} THEN {} ELSE {"news"}
       IN \/ /\ To(r, [at |-> "clean", got |-> got, failures |-> lost])
             /\ raw' = WithRaw(got)
             /\ UNCHANGED <<rows, points, reports, deliberated, faults>>
          \/ /\ got # {}
             /\ Fault("database") /\ Fail(r, "database")
             /\ UNCHANGED store

\* The run goes on with the valid articles.  Duplicates of them are looked for in the vector
\* collection, or among the run's own articles.
Clean(r) ==
  /\ run[r].at = "clean"
  /\ \/ LET kept == Valid(run[r].got)
        IN /\ To(r, [at |-> "market", got |-> kept, dup |-> Cleaned(kept, run[r].vectors)])
           /\ UNCHANGED faults
     \/ /\ run[r].vectors /\ Valid(run[r].got) # {}
        /\ Fault("vectors") /\ Fail(r, "vectors")
  /\ UNCHANGED store

\* Bars, and the close told on.  Everything is inside a try: a statement that fails loses
\* the close and leaves the bars, and the transaction aborted.
Market(r) ==
  /\ run[r].at = "market"
  /\ \/ \E n \in Fetched :
          /\ To(r, [at |-> "quote", bars |-> n, told |-> LastClose(n)])
          /\ UNCHANGED faults
     \/ /\ Fault("bars")
        /\ To(r, [at |-> "quote", failures |-> run[r].failures \cup {"bars"}])
     \/ /\ Fault("database")
        /\ \E n \in Fetched \ {0} :
             To(r, [at |-> "quote", bars |-> n, clean |-> FALSE,
                    failures |-> run[r].failures \cup {"database"}])
  /\ UNCHANGED store

\* Mutant: the lookup of the quote is not guarded.
Quote_Unguarded(r) ==
  /\ run[r].at = "quote"
  /\ \/ To(r, [at |-> "score"]) /\ UNCHANGED faults
     \/ /\ run[r].caller \in {"route", "batch"}
        /\ \/ /\ To(r, [at |-> "score", told |-> Live, source |-> "ibkr_live"])
              /\ UNCHANGED faults
           \/ Fault("quote") /\ Fail(r, "quote")
  /\ UNCHANGED store

\* The live quote overrides the close.  Only the route and the batch have a quote cache.
Quote(r) ==
  /\ run[r].at = "quote"
  /\ \/ To(r, [at |-> "score"]) /\ UNCHANGED faults
     \/ /\ run[r].caller \in {"route", "batch"}
        /\ \/ /\ To(r, [at |-> "score", told |-> Live, source |-> "ibkr_live"])
              /\ UNCHANGED faults
           \/ /\ Fault("quote")
              /\ To(r, [at |-> "score", failures |-> run[r].failures \cup {"quote"}])
  /\ UNCHANGED store

\* Impact scores; the scored articles are stored, duplicates included.
Score(r) ==
  /\ run[r].at = "score"
  /\ \/ /\ run[r].got = {} \/ Runs(r)
        /\ rows' = WithRows(r, run[r].got)
        /\ To(r, [at |-> "vectors"])
        /\ UNCHANGED <<raw, points, reports, deliberated, faults>>
     \/ /\ run[r].got # {}
        /\ Breaks(r) /\ Fail(r, "database")
        /\ UNCHANGED store

\* Mutant: only what Claude reads goes to the collection.
Upsert_OnlyRead(r) ==
  /\ run[r].at = "vectors"
  /\ LET read == Narrative(run[r].got, run[r].dup)
     IN \/ /\ points' = WithPoints(IF run[r].vectors THEN read ELSE {})
           /\ To(r, [at |-> "report", read |-> read])
           /\ UNCHANGED <<raw, rows, reports, deliberated, faults>>
        \/ /\ run[r].vectors /\ run[r].got # {}
           /\ Fault("vectors") /\ Fail(r, "vectors")
           /\ UNCHANGED store

\* Claude's news are chosen, and every article goes to the vector collection.
Upsert(r) ==
  /\ run[r].at = "vectors"
  /\ \/ /\ points' = WithPoints(IF run[r].vectors THEN run[r].got ELSE {})
        /\ To(r, [at |-> "report", read |-> Narrative(run[r].got, run[r].dup)])
        /\ UNCHANGED <<raw, rows, reports, deliberated, faults>>
     \/ /\ run[r].vectors /\ run[r].got # {}
        /\ Fault("vectors") /\ Fail(r, "vectors")
        /\ UNCHANGED store

\* Three attempts, a parse and a repair: a report, or the run ends.
Synthesize(r) ==
  /\ run[r].at = "report"
  /\ \/ To(r, [at |-> "enrich"]) /\ UNCHANGED faults
     \/ Fault("model") /\ Fail(r, "model")
  /\ UNCHANGED store

\* Mutant: the snapshot shows the close of the bar whatever the quote said.
Snapshot_BarClose(r) == IF run[r].bars >= 2 THEN Close ELSE run[r].told

\* The price snapshot of the report.
Snapshot(r) ==
  IF run[r].bars >= 2 /\ run[r].told = None THEN Close ELSE run[r].told

\* Snapshot, options, analogs and summary: all failures are swallowed.  Analogs are read
\* only for a structure; a statement that fails aborts the transaction here too.
Enrich(r) ==
  /\ run[r].at = "enrich"
  /\ LET Shown(priced, clean, lost) ==
           To(r, [at |-> "persist", snapshot |-> Snapshot(r), priced |-> priced,
                  clean |-> clean, failures |-> run[r].failures \cup lost])
     IN \/ Shown(Snapshot(r), run[r].clean, {}) /\ UNCHANGED faults
        \/ Fault("options") /\ Shown(None, run[r].clean, {"options"})
        \/ /\ Snapshot(r) # None /\ Fault("database")
           /\ Shown(Snapshot(r), FALSE, {"database"})
  /\ UNCHANGED store

\* Mutant: the caller's schedule_dil is not looked at.
Persist_AlwaysSchedules(r) ==
  /\ run[r].at = "persist"
  /\ \/ /\ Runs(r)
        /\ reports' = WithReport(r)
        /\ deliberated' = IF DilEnabled THEN [deliberated EXCEPT ![r] = @ + 1]
                          ELSE deliberated
        /\ To(r, [at |-> "cache"])
        /\ UNCHANGED <<raw, rows, points, faults>>
     \/ /\ Breaks(r) /\ Fail(r, "database")
        /\ UNCHANGED store

\* The report is committed, and the deliberation scheduled unless the caller opts out.
Persist(r) ==
  /\ run[r].at = "persist"
  /\ \/ /\ Runs(r)
        /\ reports' = WithReport(r)
        /\ deliberated' = IF DilEnabled /\ run[r].caller # "batch"
                            THEN [deliberated EXCEPT ![r] = @ + 1] ELSE deliberated
        /\ To(r, [at |-> "cache"])
        /\ UNCHANGED <<raw, rows, points, faults>>
     \/ /\ Breaks(r) /\ Fail(r, "database")
        /\ UNCHANGED store

\* research:last of the ticker is set, with no guard around it.
Cache(r) ==
  /\ run[r].at = "cache"
  /\ \/ To(r, [at |-> "finish"]) /\ UNCHANGED faults
     \/ /\ run[r].caller \in {"route", "batch"}
        /\ Fault("cache") /\ Fail(r, "cache")
  /\ UNCHANGED store

\* The run returns its report; the batch deliberates on it inline.
Finish(r) ==
  /\ run[r].at = "finish"
  /\ To(r, [bars |-> 0, told |-> None, source |-> "polygon_ohlcv", snapshot |-> None,
            priced |-> None, at |-> "done"])
  /\ deliberated' = IF DilEnabled /\ run[r].caller = "batch"
                      THEN [deliberated EXCEPT ![r] = @ + 1] ELSE deliberated
  /\ UNCHANGED <<raw, rows, points, reports, faults>>

\* The client of a websocket goes away: the next progress message raises.
Leave(r) ==
  /\ run[r].caller = "socket"
  /\ run[r].at \in {"collect", "clean", "market", "score", "vectors", "report", "finish"}
  /\ Fault("client") /\ Fail(r, "client")
  /\ UNCHANGED store

-----------------------------------------------------------------------------

Init ==
  /\ run = [r \in Run |-> Idle]
  /\ raw = {} /\ rows = {} /\ points = {} /\ reports = {}
  /\ deliberated = [r \in Run |-> 0]
  /\ faults = 0

Step(r) ==
  \/ Begin(r) \/ Collect(r) \/ Clean(r) \/ Market(r) \/ Quote(r) \/ Score(r) \/ Upsert(r)
  \/ Synthesize(r) \/ Enrich(r) \/ Persist(r) \/ Cache(r) \/ Finish(r) \/ Leave(r)

Next == \E r \in Run : Step(r)

Spec == Init /\ [][Next]_vars

-----------------------------------------------------------------------------
(* Properties.                                                             *)

TypeOK ==
  /\ \A r \in Run :
       /\ run[r].caller \in Caller \cup {"none"} /\ run[r].dup \subseteq run[r].got
       /\ run[r].failures \subseteq Mandatory \cup Optional
  /\ raw \subseteq Article /\ points \subseteq Article
  /\ rows \subseteq Run \X Article /\ reports \subseteq Run
  /\ deliberated \in [Run -> Nat] /\ faults \in 0 .. MaxFaults

\* A committed report stands on stored data: its articles are in raw_articles, as rows of
\* this very run in processed_articles and, with a vector store, in the collection, though
\* runs that overlap write the same articles and stages of them fail.
ReportIsBacked ==
  \A r \in reports :
    /\ run[r].got \subseteq raw
    /\ {r} \X run[r].got \subseteq rows
    /\ run[r].vectors => run[r].got \subseteq points
    /\ run[r].read \subseteq run[r].got \ run[r].dup

\* A report is deliberated on at most once and only after its commit, and exactly once if
\* the run returned, whoever called it.
DeliberatedOnce ==
  \A r \in Run :
    /\ deliberated[r] <= (IF DilEnabled /\ r \in reports THEN 1 ELSE 0)
    /\ run[r].at = "done" /\ DilEnabled => deliberated[r] = 1

\* News, bars, quote and options may all fail and the run still returns.  A run that ends
\* in an error had a mandatory dependency fail, and leaves no report unless the cache or
\* the client failed after the commit.
FailuresAreContained ==
  \A r \in Run :
    /\ run[r].at = "done" => r \in reports
    /\ run[r].at = "failed" =>
         /\ run[r].failures \cap Mandatory # {}
         /\ r \in reports => run[r].failures \cap {"cache", "client"} # {}

\* The price Claude was told is the price of the snapshot and of the options, and it is
\* labelled ibkr_live exactly if it is the live one.
PriceIsOne ==
  \A r \in Run :
    /\ (run[r].source = "ibkr_live") = (run[r].told = Live)
    /\ run[r].at \in {"persist", "cache", "finish"} /\ run[r].told # None =>
         /\ run[r].snapshot = run[r].told
         /\ run[r].priced \in {None, run[r].told}

\* Whatever n articles resemble each other, a story is never lost: of the articles that
\* resemble no other than each other the matrix keeps at least one of the most reliable.
StoryIsKept(n) ==
  \A rel \in [1 .. n -> 1 .. 2], pairs \in SUBSET {p \in (1 .. n) \X (1 .. n) : p[1] < p[2]} :
    LET sim == pairs \cup {<<p[2], p[1]>> : p \in pairs}
        dup == Duplicates([k \in 1 .. n |-> k], sim, rel)
    IN \A story \in (SUBSET (1 .. n)) \ {{}} :
         (\A p \in sim : p[1] \in story <=> p[2] \in story) =>
           \E a \in story \ dup : \A b \in story : rel[a] >= rel[b]

\* Claude reads something whenever an article is left after the duplicates: what the
\* comment on the fallback of the relevance filter says, and what does not hold.
NewsReachClaude ==
  \A r \in reports : run[r].got \ run[r].dup # {} => run[r].read # {}

\* Every report of a finished run is deliberated on, also if the run failed after its
\* commit: does not hold for the batch.
ReportsAreDeliberated ==
  \A r \in reports : run[r].at \in {"done", "failed"} /\ DilEnabled => deliberated[r] = 1
=============================================================================
