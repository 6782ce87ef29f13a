---------------------- MODULE ResearchPipelineProofs ----------------------
(***************************************************************************)
(* Proofs about ResearchPipeline, for any runs, callers, articles and      *)
(* sources and any number of failures: what a stage holds of its run and   *)
(* of the store, stage by stage, and that no other run disturbs it; that   *)
(* the matrix of duplicates loses no story, round by round; that the       *)
(* options block of a report and its history are each sound in themselves, *)
(* for any grid of prices, any circumstances and any lists of neighbours   *)
(* and outcomes; and that the cards and explanations drawn from the block  *)
(* agree and add up.                                                       *)
(***************************************************************************)
EXTENDS MCResearchPipeline, FiniteSetTheorems, WellFoundedInduction, TLAPS

Field == {"caller", "vectors", "at", "got", "dup", "read", "bars", "told", "source",
          "snapshot", "priced", "clean", "failures"}

\* The stages up to a point, in the order a run goes through them.
Unstored == {"idle", "collect"}
Unscored == Unstored \cup {"clean", "market", "quote", "score"}
Unread == Unscored \cup {"vectors"}
Uncommitted == Unread \cup {"report", "enrich", "persist"}
Committed == {"cache", "finish"}
Over == {"done", "failed"}

Shape ==
  /\ DOMAIN run = Run /\ DOMAIN deliberated = Run /\ reports \subseteq Run
  /\ \A r \in Run : DOMAIN run[r] = Field

\* What is stored of a run: a failed run holds nothing any more.
Backing(r) ==
  /\ run[r].at \notin Unstored => run[r].got \subseteq raw
  /\ run[r].at \notin Unscored => {r} \X run[r].got \subseteq rows
  /\ run[r].at \notin Unread =>
       /\ run[r].vectors => run[r].got \subseteq points
       /\ run[r].read \subseteq run[r].got \ run[r].dup

\* The commit, the deliberation and the failures of a run.
Booking(r) ==
  /\ run[r].at \in Uncommitted \cup Committed \cup Over
  /\ ~run[r].clean => run[r].at \notin Unstored /\ "database" \in run[r].failures
  /\ run[r].at \in Uncommitted => r \notin reports /\ deliberated[r] = 0
  /\ run[r].at \in Committed =>
       /\ r \in reports
       /\ deliberated[r] = IF DilEnabled /\ run[r].caller # "batch" THEN 1 ELSE 0
  /\ run[r].at = "done" =>
       r \in reports /\ deliberated[r] = IF DilEnabled THEN 1 ELSE 0
  /\ run[r].at = "failed" =>
       /\ deliberated[r] \in {0, IF DilEnabled /\ r \in reports THEN 1 ELSE 0}
       /\ run[r].failures \cap Mandatory # {}
       /\ r \in reports => run[r].failures \cap {"cache", "client"} # {}

\* The price of a run, and its label.
Pricing(r) ==
  /\ run[r].told \in {None, Close, Live}
  /\ (run[r].source = "ibkr_live") = (run[r].told = Live)
  /\ run[r].at \in Unstored \cup {"clean", "market", "quote"} =>
       run[r].source = "polygon_ohlcv"
  /\ run[r].at \in {"persist", "cache", "finish"} /\ run[r].told # None =>
       run[r].snapshot = run[r].told /\ run[r].priced \in {None, run[r].told}

Inv == Shape /\ \A r \in Run : Backing(r) /\ Booking(r) /\ Pricing(r)

\* Inv holds at the start: every run is idle and nothing is stored.
LEMMA InvInit == Init => Inv
<1> SUFFICES ASSUME Init PROVE Inv
  OBVIOUS
<1>1. Shape
  BY DEF Init, Shape, Field, Idle
<1>2. ASSUME NEW r \in Run PROVE run[r] = Idle /\ deliberated[r] = 0 /\ reports = {}
  BY DEF Init
<1>3. ASSUME NEW r \in Run PROVE Backing(r)
  BY <1>2 DEF Backing, Idle, Unstored, Unscored, Unread
<1>4. ASSUME NEW r \in Run PROVE Booking(r)
  BY <1>2 DEF Booking, Idle, Unstored, Unscored, Unread, Uncommitted, Committed, Over
<1>5. ASSUME NEW r \in Run PROVE Pricing(r)
  BY <1>2, PipelineAssumption DEF Pricing, Idle, Unstored
<1>6. QED
  BY <1>1, <1>3, <1>4, <1>5 DEF Inv

-----------------------------------------------------------------------------
(* One run's step leaves the others as they are.                           *)

\* What a step of run r does not do to the others.
Apart(r) ==
  /\ \A s \in Run \ {r} :
       /\ run'[s] = run[s] /\ deliberated'[s] = deliberated[s]
       /\ s \in reports' <=> s \in reports
  /\ raw \subseteq raw' /\ rows \subseteq rows' /\ points \subseteq points'

\* A step of one run keeps what is claimed of every other, as no stage deletes.
LEMMA OthersStand ==
  ASSUME Inv, NEW r \in Run, Apart(r), NEW s \in Run \ {r}
  PROVE  Backing(s)' /\ Booking(s)' /\ Pricing(s)'
BY DEF Inv, Apart, Backing, Booking, Pricing

\* The run's own record after a replacement of fields.
LEMMA ToShape ==
  ASSUME Shape, NEW r \in Run, NEW fields, To(r, fields)
  PROVE  /\ DOMAIN run' = Run /\ \A s \in Run : DOMAIN run'[s] = Field
         /\ \A s \in Run \ {r} : run'[s] = run[s]
         /\ run'[r] = Having(run[r], fields)
BY DEF Shape, To, Having

\* A run that fails holds nothing any more, with the dependency among its failures.
LEMMA FailShape ==
  ASSUME Shape, NEW r \in Run, NEW d, Fail(r, d)
  PROVE  /\ DOMAIN run' = Run /\ \A s \in Run : DOMAIN run'[s] = Field
         /\ \A s \in Run \ {r} : run'[s] = run[s]
         /\ run'[r].at = "failed" /\ run'[r].got = {} /\ run'[r].read = {}
         /\ run'[r].told = None /\ run'[r].source = "polygon_ohlcv"
         /\ run'[r].clean = TRUE
         /\ run'[r].failures = run[r].failures \cup {d}
BY DEF Shape, Fail, Having, Idle, Field

\* A mandatory stage that fails keeps Inv, before the commit or in the cache or at the
\* client.
LEMMA FailKeeps ==
  ASSUME Inv, NEW r \in Run, NEW d \in Mandatory, Fail(r, d), UNCHANGED store,
         run[r].at \in Uncommitted \cup Committed,
         run[r].at \in Committed => d \in {"cache", "client"}
  PROVE  Inv'
<1>1. Shape'
  BY FailShape DEF Inv, Shape, store
<1>2. Apart(r)
  BY FailShape DEF Inv, Apart, store
<1>3. Backing(r)'
  BY FailShape DEF Inv, Backing, Unstored, Unscored, Unread
<1>4. Booking(r)'
  <2>1. deliberated' = deliberated /\ reports' = reports
    BY DEF store
  <2>2. run'[r].at = "failed" /\ run'[r].failures = run[r].failures \cup {d} /\ run'[r].clean
    BY FailShape DEF Inv
  <2>3. deliberated[r] \in {0, IF DilEnabled /\ r \in reports THEN 1 ELSE 0}
    BY DEF Inv, Booking
  <2>4. r \in reports => d \in {"cache", "client"}
    BY DEF Inv, Booking
  <2>5. QED
    BY <2>1, <2>2, <2>3, <2>4 DEF Booking, Uncommitted, Unread, Unscored, Unstored, Committed, Over
<1>5. Pricing(r)'
  BY FailShape, PipelineAssumption DEF Inv, Pricing, Unstored
<1>6. QED
  BY <1>1, <1>2, <1>3, <1>4, <1>5, OthersStand DEF Inv

\* A stage keeps Inv if nothing is deleted and what is claimed of its own run holds after
\* it.
LEMMA ToKeeps ==
  ASSUME Inv, NEW r \in Run, NEW fields, To(r, fields),
         raw \subseteq raw', rows \subseteq rows', points \subseteq points',
         DOMAIN deliberated' = Run, reports' \subseteq Run,
         \A s \in Run \ {r} : deliberated'[s] = deliberated[s] /\ (s \in reports' <=> s \in reports),
         Backing(r)', Booking(r)', Pricing(r)'
  PROVE  Inv'
<1>1. Shape' /\ Apart(r)
  BY ToShape DEF Inv, Shape, Apart
<1>2. QED
  BY <1>1, OthersStand DEF Inv

-----------------------------------------------------------------------------
(* The stages.                                                             *)

\* Starting a run keeps Inv.
LEMMA BeginKeeps ==
  ASSUME Inv, NEW r \in Run, Begin(r)
  PROVE  Inv'
<1> USE DEF Uncommitted, Committed, Over, Unread, Unscored, Unstored
<1>1. PICK c \in Caller, v \in BOOLEAN :
        To(r, [caller |-> c, vectors |-> v, at |-> "collect"])
  BY DEF Begin
<1>2. run'[r] = Having(run[r], [caller |-> c, vectors |-> v, at |-> "collect"])
  BY <1>1, ToShape DEF Inv
<1>3. run[r].at = "idle" /\ UNCHANGED store
  BY DEF Begin
<1>4. DOMAIN run[r] = Field
  BY DEF Inv, Shape
<1>5. Backing(r)' /\ Booking(r)' /\ Pricing(r)'
  BY <1>2, <1>3, <1>4 DEF Inv, Backing, Booking, Pricing, Having, Field, store
<1>6. QED
  BY <1>1, <1>3, <1>5, ToKeeps DEF Inv, Shape, store

\* Storing the raw articles keeps Inv.
LEMMA CollectKeeps ==
  ASSUME Inv, NEW r \in Run, Collect(r)
  PROVE  Inv'
<1> USE DEF Uncommitted, Committed, Over, Unread, Unscored, Unstored
<1>1. PICK down \in SUBSET Source :
        \/ /\ To(r, [at |-> "clean", got |-> Gathered(down),
                    failures |-> IF down = {} THEN {} ELSE {"news"}])
           /\ raw' = WithRaw(Gathered(down))
           /\ UNCHANGED <<rows, points, reports, deliberated, faults>>
        \/ /\ Fail(r, "database") /\ UNCHANGED store
  BY DEF Collect
<1>2. run[r].at = "collect"
  BY DEF Collect
<1>3. CASE Fail(r, "database") /\ UNCHANGED store
  BY <1>2, <1>3, FailKeeps DEF Mandatory
<1>4. CASE /\ To(r, [at |-> "clean", got |-> Gathered(down),
                    failures |-> IF down = {} THEN {} ELSE {"news"}])
           /\ raw' = WithRaw(Gathered(down))
           /\ UNCHANGED <<rows, points, reports, deliberated, faults>>
  <2> DEFINE fields == [at |-> "clean", got |-> Gathered(down),
                        failures |-> IF down = {} THEN {} ELSE {"news"}]
  <2>1. run'[r] = Having(run[r], fields)
    BY <1>4, ToShape DEF Inv
  <2>2. DOMAIN run[r] = Field
    BY DEF Inv, Shape
  <2>3. Backing(r)'
    BY <1>2, <1>4, <2>1, <2>2 DEF Backing, Having, Field, WithRaw
  <2>4. Booking(r)'
    BY <1>2, <1>4, <2>1, <2>2 DEF Inv, Booking, Having, Field
  <2>5. Pricing(r)'
    BY <1>2, <1>4, <2>1, <2>2 DEF Inv, Pricing, Having, Field
  <2>6. QED
    BY <1>2, <1>4, <2>3, <2>4, <2>5, ToKeeps DEF Inv, Shape, WithRaw
<1>5. QED
  BY <1>1, <1>3, <1>4

\* Cleaning, or its swallowed failure, keeps Inv.
LEMMA CleanKeeps ==
  ASSUME Inv, NEW r \in Run, Clean(r)
  PROVE  Inv'
<1> USE DEF Uncommitted, Committed, Over, Unread, Unscored, Unstored
<1>1. run[r].at = "clean" /\ DOMAIN run[r] = Field
  BY DEF Clean, Inv, Shape
<1>2. ASSUME To(r, [at |-> "market", got |-> Valid(run[r].got),
                    dup |-> Cleaned(Valid(run[r].got), run[r].vectors)]),
             UNCHANGED store
      PROVE  Inv'
  <2> DEFINE kept == Valid(run[r].got)
             dup == Cleaned(kept, run[r].vectors)
  <2>1. run'[r] = Having(run[r], [at |-> "market", got |-> kept, dup |-> dup])
    BY <1>2, ToShape DEF Inv
  <2>6. kept \subseteq run[r].got
    BY DEF Valid
  <2> HIDE DEF kept, dup
  <2>2. Backing(r)'
    BY <1>1, <1>2, <2>1, <2>6 DEF Inv, Backing, Having, Field, store
  <2>3. Booking(r)'
    BY <1>1, <1>2, <2>1 DEF Inv, Booking, Having, Field, store
  <2>4. Pricing(r)'
    BY <1>1, <1>2, <2>1, PipelineAssumption DEF Inv, Pricing, Having, Field, store
  <2>5. QED
    BY <1>1, <1>2, <2>2, <2>3, <2>4, ToKeeps DEF Inv, Shape, store
<1>3. CASE Fail(r, "vectors") /\ UNCHANGED store
  BY <1>1, <1>3, FailKeeps DEF Mandatory
<1>4. QED
  BY <1>2, <1>3 DEF Clean

\* Reading the bars keeps Inv.
LEMMA MarketKeeps ==
  ASSUME Inv, NEW r \in Run, Market(r)
  PROVE  Inv'
<1> USE DEF Uncommitted, Committed, Over, Unread, Unscored, Unstored
<1>1. run[r].at = "market" /\ DOMAIN run[r] = Field
  BY DEF Market, Inv, Shape
<1>2. ASSUME NEW n \in Fetched, To(r, [at |-> "quote", bars |-> n, told |-> LastClose(n)]),
             UNCHANGED store
      PROVE  Inv'
  <2>1. run'[r] = Having(run[r], [at |-> "quote", bars |-> n, told |-> LastClose(n)])
    BY <1>2, ToShape DEF Inv
  <2>2. Backing(r)'
    BY <1>1, <1>2, <2>1 DEF Inv, Backing, Having, Field, store, LastClose
  <2>3. Booking(r)'
    BY <1>1, <1>2, <2>1 DEF Inv, Booking, Having, Field, store, LastClose
  <2>4. Pricing(r)'
    BY <1>1, <1>2, <2>1, PipelineAssumption DEF Inv, Pricing, Having, Field, store, LastClose
  <2>5. QED
    BY <1>1, <1>2, <2>2, <2>3, <2>4, ToKeeps DEF Inv, Shape, store, LastClose
<1>3. ASSUME To(r, [at |-> "quote", failures |-> run[r].failures \cup {"bars"}]),
             UNCHANGED store
      PROVE  Inv'
  <2>1. run'[r] = Having(run[r], [at |-> "quote", failures |-> run[r].failures \cup {"bars"}])
    BY <1>3, ToShape DEF Inv
  <2>2. Backing(r)'
    BY <1>1, <1>3, <2>1 DEF Inv, Backing, Having, Field, store
  <2>3. Booking(r)'
    BY <1>1, <1>3, <2>1 DEF Inv, Booking, Having, Field, store
  <2>4. Pricing(r)'
    BY <1>1, <1>3, <2>1, PipelineAssumption DEF Inv, Pricing, Having, Field, store
  <2>5. QED
    BY <1>1, <1>3, <2>2, <2>3, <2>4, ToKeeps DEF Inv, Shape, store
<1>4. ASSUME NEW n \in Fetched, To(r, [at |-> "quote", bars |-> n, clean |-> FALSE,
                    failures |-> run[r].failures \cup {"database"}]),
             UNCHANGED store
      PROVE  Inv'
  <2>1. run'[r] = Having(run[r], [at |-> "quote", bars |-> n, clean |-> FALSE,
                    failures |-> run[r].failures \cup {"database"}])
    BY <1>4, ToShape DEF Inv
  <2>2. Backing(r)'
    BY <1>1, <1>4, <2>1 DEF Inv, Backing, Having, Field, store
  <2>3. Booking(r)'
    BY <1>1, <1>4, <2>1 DEF Inv, Booking, Having, Field, store
  <2>4. Pricing(r)'
    BY <1>1, <1>4, <2>1, PipelineAssumption DEF Inv, Pricing, Having, Field, store
  <2>5. QED
    BY <1>1, <1>4, <2>2, <2>3, <2>4, ToKeeps DEF Inv, Shape, store
<1>5. QED
  BY <1>2, <1>3, <1>4 DEF Market

\* Reading the live quote keeps Inv.
LEMMA QuoteKeeps ==
  ASSUME Inv, NEW r \in Run, Quote(r)
  PROVE  Inv'
<1> USE DEF Uncommitted, Committed, Over, Unread, Unscored, Unstored
<1>1. run[r].at = "quote" /\ DOMAIN run[r] = Field
  BY DEF Quote, Inv, Shape
<1>2. ASSUME To(r, [at |-> "score"]),
             UNCHANGED store
      PROVE  Inv'
  <2>1. run'[r] = Having(run[r], [at |-> "score"])
    BY <1>2, ToShape DEF Inv
  <2>2. Backing(r)'
    BY <1>1, <1>2, <2>1 DEF Inv, Backing, Having, Field, store
  <2>3. Booking(r)'
    BY <1>1, <1>2, <2>1 DEF Inv, Booking, Having, Field, store
  <2>4. Pricing(r)'
    BY <1>1, <1>2, <2>1, PipelineAssumption DEF Inv, Pricing, Having, Field, store
  <2>5. QED
    BY <1>1, <1>2, <2>2, <2>3, <2>4, ToKeeps DEF Inv, Shape, store
<1>3. ASSUME To(r, [at |-> "score", told |-> Live, source |-> "ibkr_live"]),
             UNCHANGED store
      PROVE  Inv'
  <2>1. run'[r] = Having(run[r], [at |-> "score", told |-> Live, source |-> "ibkr_live"])
    BY <1>3, ToShape DEF Inv
  <2>2. Backing(r)'
    BY <1>1, <1>3, <2>1 DEF Inv, Backing, Having, Field, store
  <2>3. Booking(r)'
    BY <1>1, <1>3, <2>1 DEF Inv, Booking, Having, Field, store
  <2>4. Pricing(r)'
    BY <1>1, <1>3, <2>1, PipelineAssumption DEF Inv, Pricing, Having, Field, store
  <2>5. QED
    BY <1>1, <1>3, <2>2, <2>3, <2>4, ToKeeps DEF Inv, Shape, store
<1>4. ASSUME To(r, [at |-> "score", failures |-> run[r].failures \cup {"quote"}]),
             UNCHANGED store
      PROVE  Inv'
  <2>1. run'[r] = Having(run[r], [at |-> "score", failures |-> run[r].failures \cup {"quote"}])
    BY <1>4, ToShape DEF Inv
  <2>2. Backing(r)'
    BY <1>1, <1>4, <2>1 DEF Inv, Backing, Having, Field, store
  <2>3. Booking(r)'
    BY <1>1, <1>4, <2>1 DEF Inv, Booking, Having, Field, store
  <2>4. Pricing(r)'
    BY <1>1, <1>4, <2>1, PipelineAssumption DEF Inv, Pricing, Having, Field, store
  <2>5. QED
    BY <1>1, <1>4, <2>2, <2>3, <2>4, ToKeeps DEF Inv, Shape, store
<1>5. QED
  BY <1>2, <1>3, <1>4 DEF Quote

\* Scoring, with the rows it stores, keeps Inv.
LEMMA ScoreKeeps ==
  ASSUME Inv, NEW r \in Run, Score(r)
  PROVE  Inv'
<1> USE DEF Uncommitted, Committed, Over, Unread, Unscored, Unstored
<1>1. run[r].at = "score" /\ DOMAIN run[r] = Field
  BY DEF Score, Inv, Shape
<1>2. ASSUME To(r, [at |-> "vectors"]),
             rows' = WithRows(r, run[r].got),
             UNCHANGED <<raw, points, reports, deliberated, faults>>
      PROVE  Inv'
  <2>1. run'[r] = Having(run[r], [at |-> "vectors"])
    BY <1>2, ToShape DEF Inv
  <2>2. Backing(r)'
    BY <1>1, <1>2, <2>1 DEF Inv, Backing, Having, Field, store, WithRows
  <2>3. Booking(r)'
    BY <1>1, <1>2, <2>1 DEF Inv, Booking, Having, Field, store, WithRows
  <2>4. Pricing(r)'
    BY <1>1, <1>2, <2>1, PipelineAssumption DEF Inv, Pricing, Having, Field, store, WithRows
  <2>5. QED
    BY <1>1, <1>2, <2>2, <2>3, <2>4, ToKeeps DEF Inv, Shape, store, WithRows
<1>3. CASE Fail(r, "database") /\ UNCHANGED store
  BY <1>1, <1>3, FailKeeps DEF Mandatory
<1>4. QED
  BY <1>2, <1>3 DEF Score

\* Storing the vectors, or not, keeps Inv.
LEMMA UpsertKeeps ==
  ASSUME Inv, NEW r \in Run, Upsert(r)
  PROVE  Inv'
<1> USE DEF Uncommitted, Committed, Over, Unread, Unscored, Unstored
<1>1. run[r].at = "vectors" /\ DOMAIN run[r] = Field
  BY DEF Upsert, Inv, Shape
<1>2. ASSUME To(r, [at |-> "report", read |-> Narrative(run[r].got, run[r].dup)]),
             points' = WithPoints(IF run[r].vectors THEN run[r].got ELSE {}),
             UNCHANGED <<raw, rows, reports, deliberated, faults>>
      PROVE  Inv'
  <2>1. run'[r] = Having(run[r], [at |-> "report", read |-> Narrative(run[r].got, run[r].dup)])
    BY <1>2, ToShape DEF Inv
  <2>2. Backing(r)'
    BY <1>1, <1>2, <2>1 DEF Inv, Backing, Having, Field, store, WithPoints, Narrative
  <2>3. Booking(r)'
    BY <1>1, <1>2, <2>1 DEF Inv, Booking, Having, Field, store, WithPoints, Narrative
  <2>4. Pricing(r)'
    BY <1>1, <1>2, <2>1, PipelineAssumption DEF Inv, Pricing, Having, Field, store, WithPoints, Narrative
  <2>5. QED
    BY <1>1, <1>2, <2>2, <2>3, <2>4, ToKeeps DEF Inv, Shape, store, WithPoints, Narrative
<1>3. CASE Fail(r, "vectors") /\ UNCHANGED store
  BY <1>1, <1>3, FailKeeps DEF Mandatory
<1>4. QED
  BY <1>2, <1>3 DEF Upsert

\* Writing the report keeps Inv.
LEMMA SynthesizeKeeps ==
  ASSUME Inv, NEW r \in Run, Synthesize(r)
  PROVE  Inv'
<1> USE DEF Uncommitted, Committed, Over, Unread, Unscored, Unstored
<1>1. run[r].at = "report" /\ DOMAIN run[r] = Field
  BY DEF Synthesize, Inv, Shape
<1>2. ASSUME To(r, [at |-> "enrich"]),
             UNCHANGED store
      PROVE  Inv'
  <2>1. run'[r] = Having(run[r], [at |-> "enrich"])
    BY <1>2, ToShape DEF Inv
  <2>2. Backing(r)'
    BY <1>1, <1>2, <2>1 DEF Inv, Backing, Having, Field, store
  <2>3. Booking(r)'
    BY <1>1, <1>2, <2>1 DEF Inv, Booking, Having, Field, store
  <2>4. Pricing(r)'
    BY <1>1, <1>2, <2>1, PipelineAssumption DEF Inv, Pricing, Having, Field, store
  <2>5. QED
    BY <1>1, <1>2, <2>2, <2>3, <2>4, ToKeeps DEF Inv, Shape, store
<1>3. CASE Fail(r, "model") /\ UNCHANGED store
  BY <1>1, <1>3, FailKeeps DEF Mandatory
<1>4. QED
  BY <1>2, <1>3 DEF Synthesize

\* Adding the options block keeps Inv.
LEMMA EnrichKeeps ==
  ASSUME Inv, NEW r \in Run, Enrich(r)
  PROVE  Inv'
<1> USE DEF Uncommitted, Committed, Over, Unread, Unscored, Unstored
<1>1. run[r].at = "enrich" /\ DOMAIN run[r] = Field
  BY DEF Enrich, Inv, Shape
<1>2. ASSUME NEW priced \in {None, Snapshot(r)}, NEW clean, NEW lost, To(r, [at |-> "persist", snapshot |-> Snapshot(r), priced |-> priced,
                    clean |-> clean, failures |-> run[r].failures \cup lost]),
             clean = run[r].clean \/ "database" \in lost,
             UNCHANGED store
      PROVE  Inv'
  <2>1. run'[r] = Having(run[r], [at |-> "persist", snapshot |-> Snapshot(r), priced |-> priced,
                    clean |-> clean, failures |-> run[r].failures \cup lost])
    BY <1>2, ToShape DEF Inv
  <2>2. Backing(r)'
    BY <1>1, <1>2, <2>1 DEF Inv, Backing, Having, Field, store, Snapshot
  <2>3. Booking(r)'
    BY <1>1, <1>2, <2>1 DEF Inv, Booking, Having, Field, store, Snapshot
  <2>4. Pricing(r)'
    BY <1>1, <1>2, <2>1, PipelineAssumption DEF Inv, Pricing, Having, Field, store, Snapshot
  <2>5. QED
    BY <1>1, <1>2, <2>2, <2>3, <2>4, ToKeeps DEF Inv, Shape, store, Snapshot
<1>3. QED
  BY <1>2 DEF Enrich

\* Committing the report and scheduling its deliberation keeps Inv.
LEMMA PersistKeeps ==
  ASSUME Inv, NEW r \in Run, Persist(r)
  PROVE  Inv'
<1> USE DEF Uncommitted, Committed, Over, Unread, Unscored, Unstored
<1>1. run[r].at = "persist" /\ DOMAIN run[r] = Field
  BY DEF Persist, Inv, Shape
<1>2. ASSUME To(r, [at |-> "cache"]),
             reports' = WithReport(r),
             deliberated' = IF DilEnabled /\ run[r].caller # "batch"
                              THEN [deliberated EXCEPT ![r] = @ + 1] ELSE deliberated,
             UNCHANGED <<raw, rows, points>>
      PROVE  Inv'
  <2>1. run'[r] = Having(run[r], [at |-> "cache"])
    BY <1>2, ToShape DEF Inv
  <2>2. Backing(r)'
    BY <1>1, <1>2, <2>1 DEF Inv, Backing, Having, Field, store, WithReport, Shape
  <2>3. Booking(r)'
    BY <1>1, <1>2, <2>1 DEF Inv, Booking, Having, Field, store, WithReport, Shape
  <2>4. Pricing(r)'
    BY <1>1, <1>2, <2>1, PipelineAssumption DEF Inv, Pricing, Having, Field, store, WithReport, Shape
  <2>5. QED
    BY <1>1, <1>2, <2>2, <2>3, <2>4, ToKeeps DEF Inv, Shape, store, WithReport, Shape
<1>3. CASE Fail(r, "database") /\ UNCHANGED store
  BY <1>1, <1>3, FailKeeps DEF Mandatory
<1>4. QED
  BY <1>2, <1>3 DEF Persist

\* Caching the report, or failing to, keeps Inv.
LEMMA CacheKeeps ==
  ASSUME Inv, NEW r \in Run, Cache(r)
  PROVE  Inv'
<1> USE DEF Uncommitted, Committed, Over, Unread, Unscored, Unstored
<1>1. run[r].at = "cache" /\ DOMAIN run[r] = Field
  BY DEF Cache, Inv, Shape
<1>2. ASSUME To(r, [at |-> "finish"]),
             UNCHANGED store
      PROVE  Inv'
  <2>1. run'[r] = Having(run[r], [at |-> "finish"])
    BY <1>2, ToShape DEF Inv
  <2>2. Backing(r)'
    BY <1>1, <1>2, <2>1 DEF Inv, Backing, Having, Field, store
  <2>3. Booking(r)'
    BY <1>1, <1>2, <2>1 DEF Inv, Booking, Having, Field, store
  <2>4. Pricing(r)'
    BY <1>1, <1>2, <2>1, PipelineAssumption DEF Inv, Pricing, Having, Field, store
  <2>5. QED
    BY <1>1, <1>2, <2>2, <2>3, <2>4, ToKeeps DEF Inv, Shape, store
<1>3. CASE Fail(r, "cache") /\ UNCHANGED store
  BY <1>1, <1>3, FailKeeps DEF Mandatory
<1>4. QED
  BY <1>2, <1>3 DEF Cache

\* Returning the report, which the batch then deliberates on, keeps Inv.
LEMMA FinishKeeps ==
  ASSUME Inv, NEW r \in Run, Finish(r)
  PROVE  Inv'
<1> USE DEF Uncommitted, Committed, Over, Unread, Unscored, Unstored
<1>1. run[r].at = "finish" /\ DOMAIN run[r] = Field
  BY DEF Finish, Inv, Shape
<1>2. ASSUME To(r, [bars |-> 0, told |-> None, source |-> "polygon_ohlcv",
                    snapshot |-> None, priced |-> None, at |-> "done"]),
             deliberated' = IF DilEnabled /\ run[r].caller = "batch"
                              THEN [deliberated EXCEPT ![r] = @ + 1] ELSE deliberated,
             UNCHANGED <<raw, rows, points, reports, faults>>
      PROVE  Inv'
  <2>1. run'[r] = Having(run[r], [bars |-> 0, told |-> None, source |-> "polygon_ohlcv",
                    snapshot |-> None, priced |-> None, at |-> "done"])
    BY <1>2, ToShape DEF Inv
  <2>2. Backing(r)'
    BY <1>1, <1>2, <2>1 DEF Inv, Backing, Having, Field, store, Shape
  <2>3. Booking(r)'
    BY <1>1, <1>2, <2>1 DEF Inv, Booking, Having, Field, store, Shape
  <2>4. Pricing(r)'
    BY <1>1, <1>2, <2>1, PipelineAssumption DEF Inv, Pricing, Having, Field, store, Shape
  <2>5. QED
    BY <1>1, <1>2, <2>2, <2>3, <2>4, ToKeeps DEF Inv, Shape, store, Shape
<1>3. QED
  BY <1>2 DEF Finish

\* A client that leaves keeps Inv.
LEMMA LeaveKeeps ==
  ASSUME Inv, NEW r \in Run, Leave(r)
  PROVE  Inv'
BY FailKeeps DEF Leave, Mandatory, Uncommitted, Unread, Unscored, Unstored, Committed

\* Every step keeps Inv.
LEMMA InvStep == Inv /\ [Next]_vars => Inv'
<1> SUFFICES ASSUME Inv, [Next]_vars PROVE Inv'
  OBVIOUS
<1>1. CASE UNCHANGED vars
  BY <1>1 DEF Inv, Shape, Backing, Booking, Pricing, vars
<1>2. ASSUME NEW r \in Run, Step(r) PROVE Inv'
  BY <1>2, BeginKeeps, CollectKeeps, CleanKeeps, MarketKeeps, QuoteKeeps, ScoreKeeps,
     UpsertKeeps, SynthesizeKeeps, EnrichKeeps, PersistKeeps, CacheKeeps, FinishKeeps,
     LeaveKeeps DEF Step
<1>3. QED
  BY <1>1, <1>2 DEF Next

\* Inv holds in every reachable state.
LEMMA InvHolds == Spec => []Inv
BY InvInit, InvStep, PTL DEF Spec

-----------------------------------------------------------------------------
(* The properties.                                                         *)

\* Whatever runs overlap and whatever fails: a committed report stands on stored articles,
\* rows of its own run and points, and has been made from articles that are not duplicates.
THEOREM ReportsAreBacked == Spec => []ReportIsBacked
<1>1. Inv => ReportIsBacked
  BY DEF Inv, Shape, Backing, Booking, ReportIsBacked, Uncommitted, Committed, Over,
         Unread, Unscored, Unstored
<1>2. QED
  BY <1>1, InvHolds, PTL

\* No caller has a report deliberated on twice or before its commit, and a run that
\* returned has had its report deliberated on once.
THEOREM DeliberationsAreSingle == Spec => []DeliberatedOnce
<1>1. Inv => DeliberatedOnce
  BY DEF Inv, Shape, Booking, DeliberatedOnce, Uncommitted, Committed, Over,
         Unread, Unscored, Unstored
<1>2. QED
  BY <1>1, InvHolds, PTL

\* A run ends in an error only if a mandatory dependency failed, however many optional
\* ones did, and leaves a report only if the cache or the client failed after the commit.
THEOREM OptionalFailuresAreContained == Spec => []FailuresAreContained
<1>1. Inv => FailuresAreContained
  BY DEF Inv, Booking, FailuresAreContained
<1>2. QED
  BY <1>1, InvHolds, PTL

\* The price that Claude is told is the one of the snapshot and of the options, and its
\* label is true.
THEOREM PricesAgree == Spec => []PriceIsOne
<1>1. Inv => PriceIsOne
  BY DEF Inv, Pricing, PriceIsOne
<1>2. QED
  BY <1>1, InvHolds, PTL
-----------------------------------------------------------------------------
(* The matrix of duplicates: two nested loops over the articles.           *)

\* Induction over a set of numbers: the least number outside it would have a
\* predecessor inside.
LEMMA Induction ==
  ASSUME NEW T, 0 \in T, \A n \in Nat : n \in T => n + 1 \in T
  PROVE  Nat \subseteq T
<1> DEFINE Bad == {n \in Nat : n \notin T}
           R == OpToRel(<, Nat)
<1>1. IsWellFoundedOn(R, Nat)
  BY NatLessThanWellFounded
<1>2. \A x, y \in Nat : x < y => <<x, y>> \in R
  BY DEF OpToRel
<1> HIDE DEF R
<1> SUFFICES ASSUME Bad # {} PROVE FALSE
  OBVIOUS
<1>3. PICK n \in Bad : \A m \in Bad : ~ (<<m, n>> \in R)
  BY <1>1, WFMin
<1>4. n - 1 \in Bad /\ n \in Nat /\ n - 1 \in Nat /\ n - 1 < n
  BY <1>3
<1> HIDE DEF Bad
<1>5. QED
  BY <1>2, <1>3, <1>4

\* g lists what folding step over 1 .. n makes of base.
IsFold(g, n, S, base, step) ==
  /\ g \in [0 .. n -> S]
  /\ g[0] = base
  /\ \A i \in 1 .. n : g[i] = step[i][g[i - 1]]

\* Folding a sequence of functions on S over a value of S can be done.
LEMMA Folding ==
  ASSUME NEW S, NEW base \in S, NEW N \in Nat, NEW step \in [1 .. N -> [S -> S]]
  PROVE  \E g : IsFold(g, N, S, base, step)
<1> DEFINE T == {n \in Nat : n <= N => \E g : IsFold(g, n, S, base, step)}
<1>1. 0 \in T
  <2>1. IsFold([i \in 0 .. 0 |-> base], 0, S, base, step)
    BY DEF IsFold
  <2>2. QED
    BY <2>1
<1>2. ASSUME NEW n \in Nat, n \in T PROVE n + 1 \in T
  <2> SUFFICES ASSUME n + 1 <= N PROVE \E g : IsFold(g, n + 1, S, base, step)
    OBVIOUS
  <2>1. PICK g : IsFold(g, n, S, base, step)
    BY <1>2
  <2> DEFINE new == step[n + 1][g[n]]
             h == [i \in 0 .. n + 1 |-> IF i = n + 1 THEN new ELSE g[i]]
  <2>2. g \in [0 .. n -> S] /\ g[0] = base /\ \A i \in 1 .. n : g[i] = step[i][g[i - 1]]
    BY <2>1 DEF IsFold
  <2>3. new \in S
    <3>1. g[n] \in S /\ n + 1 \in 1 .. N
      BY <2>2
    <3>2. QED
      BY <3>1
  <2>4. ASSUME NEW i \in 1 .. n + 1 PROVE h[i] = step[i][h[i - 1]]
    <3>1. h[i - 1] = g[i - 1]
      OBVIOUS
    <3>2. CASE i = n + 1
      BY <3>1, <3>2
    <3>3. CASE i # n + 1
      BY <2>2, <3>1, <3>3
    <3>4. QED
      BY <3>2, <3>3
  <2> HIDE DEF new
  <2>5. h \in [0 .. n + 1 -> S] /\ h[0] = base
    BY <2>2, <2>3
  <2> HIDE DEF h
  <2>6. IsFold(h, n + 1, S, base, step)
    BY <2>4, <2>5 DEF IsFold
  <2>7. QED
    BY <2>6
<1>3. N \in T
  <2> HIDE DEF T
  <2>1. QED
    BY <1>1, <1>2, Induction
<1>4. QED
  BY <1>3


\* g lists what the inner loop of the k-th article has marked after each later one.
Lists(g, A, order, k, dup, sim, rel) ==
  /\ g \in [0 .. Len(order) - k -> SUBSET A]
  /\ g[0] = dup
  /\ \A m \in 1 .. Len(order) - k : g[m] = Against(g[m - 1], order[k], order[k + m], sim, rel)
  /\ Pass(order, k, dup, sim, rel) = g[Len(order) - k]

\* The inner loop, article by article.
LEMMA PassSteps ==
  ASSUME NEW A, NEW order \in Seq(A), NEW k \in 1 .. Len(order), NEW dup \in SUBSET A,
         NEW sim, NEW rel, order[k] \notin dup
  PROVE  \E g : Lists(g, A, order, k, dup, sim, rel)
<1> DEFINE N == Len(order) - k
           S == SUBSET A
           New(d, m) == Against(d, order[k], order[k + m], sim, rel)
           step == [m \in 1 .. N |-> [d \in S |-> New(d, m)]]
           Rec(f) == f = [m \in 0 .. N |-> IF m = 0 THEN dup ELSE New(f[m - 1], m)]
<1>1. N \in Nat /\ \A m \in 1 .. N : order[k + m] \in A
  OBVIOUS
<1>2. \A d \in S, m \in 1 .. N : New(d, m) \in S
  BY <1>1 DEF Against
<1>3. dup \in S
  OBVIOUS
<1> HIDE DEF N, S, New
<1>4. step \in [1 .. N -> [S -> S]]
  BY <1>2
<1>5. \A m \in 1 .. N, d \in S : step[m][d] = New(d, m)
  OBVIOUS
<1> HIDE DEF step
<1>6. PICK g : IsFold(g, N, S, dup, step)
  BY <1>1, <1>3, <1>4, Folding
<1>7. g \in [0 .. N -> S] /\ g[0] = dup /\ \A m \in 1 .. N : g[m] = step[m][g[m - 1]]
  BY <1>6 DEF IsFold
<1>8. ASSUME NEW m \in 1 .. N PROVE g[m] = New(g[m - 1], m)
  <2>1. m - 1 \in 0 .. N
    BY <1>1
  <2>2. QED
    BY <1>5, <1>7, <2>1
<1>9. Rec(g)
  BY <1>7, <1>8
<1> DEFINE f == CHOOSE f : Rec(f)
<1>10. Rec(f)
  <2> HIDE DEF Rec
  <2>1. QED
    BY <1>9
<1>11. Pass(order, k, dup, sim, rel) = f[N]
  BY DEF Pass, N, New
<1> HIDE DEF f
<1>12. f \in [0 .. N -> S] /\ f[0] = dup /\ \A m \in 1 .. N : f[m] = New(f[m - 1], m)
  <2> DEFINE T == {n \in Nat : n <= N => f[n] = g[n]}
  <2>1. 0 \in T
    BY <1>7, <1>10
  <2>2. ASSUME NEW n \in Nat, n \in T PROVE n + 1 \in T
    <3> SUFFICES ASSUME n + 1 <= N PROVE f[n + 1] = g[n + 1]
      OBVIOUS
    <3>1. n + 1 \in 1 .. N /\ n + 1 \in 0 .. N /\ n + 1 # 0 /\ (n + 1) - 1 = n
      BY <1>1
    <3>2. f[n] = g[n]
      BY <1>1, <2>2
    <3>3. f[n + 1] = New(f[n], n + 1)
      BY <1>10, <3>1
    <3>4. QED
      BY <1>8, <3>1, <3>2, <3>3
  <2>3. \A n \in 0 .. N : f[n] = g[n]
    <3> HIDE DEF T
    <3>1. Nat \subseteq T
      BY <2>1, <2>2, Induction
    <3> USE DEF T
    <3>2. QED
      BY <1>1, <3>1
  <2>4. f = [n \in 0 .. N |-> f[n]]
    BY <1>10
  <2>5. f = g
    BY <1>7, <2>3, <2>4
  <2>6. QED
    BY <1>7, <1>8, <2>5
<1>13. Lists(f, A, order, k, dup, sim, rel)
  BY <1>11, <1>12 DEF Lists, N, S, New
<1>14. QED
  BY <1>13

\* No article is more reliable than one of Top that it resembles, and it is less reliable
\* unless it is one of Top itself.
AreBest(Top, A, sim, rel) ==
  \A i, j \in A : <<i, j>> \in sim =>
    /\ i \in Top => ~(rel[j] > rel[i])
    /\ j \in Top /\ i \notin Top => rel[j] > rel[i]

\* One round of the outer loop leaves one of the best.
LEMMA PassKeepsOne ==
  ASSUME NEW A, NEW order \in Seq(A), IsInjective(order), NEW k \in 1 .. Len(order),
         NEW dup \in SUBSET A, NEW sim, NEW rel,
         NEW Top \in SUBSET A, AreBest(Top, A, sim, rel), Top \ dup # {}
  PROVE  /\ Pass(order, k, dup, sim, rel) \in SUBSET A
         /\ Top \ Pass(order, k, dup, sim, rel) # {}
<1>1. CASE order[k] \in dup
  BY <1>1 DEF Pass
<1>2. CASE order[k] \notin dup
  <2>0. PICK g : Lists(g, A, order, k, dup, sim, rel)
    BY <1>2, PassSteps
  <2> DEFINE N == Len(order) - k
             i == order[k]
  <2>1. /\ g \in [0 .. N -> SUBSET A] /\ g[0] = dup
        /\ \A m \in 1 .. N : g[m] = Against(g[m - 1], i, order[k + m], sim, rel)
        /\ Pass(order, k, dup, sim, rel) = g[N]
    BY <2>0 DEF Lists
  <2>2. /\ N \in Nat /\ i \in A
        /\ \A m \in 1 .. N : order[k + m] \in A /\ order[k + m] # i
    BY DEF IsInjective
  <2>3. ASSUME NEW T, 0 \in T, \A n \in Nat : n \in T /\ n + 1 <= N => n + 1 \in T
        PROVE  N \in T
    <3> DEFINE U == {n \in Nat : n <= N => n \in T}
    <3>1. 0 \in U
      BY <2>3
    <3>2. \A n \in Nat : n \in U => n + 1 \in U
      BY <2>2, <2>3
    <3> HIDE DEF N
    <3>3. Nat \subseteq U
      <4> HIDE DEF U
      <4>1. QED
        BY <3>1, <3>2, Induction
    <3>4. QED
      BY <2>2, <3>3
  <2> HIDE DEF N, i
  <2>4. CASE i \in Top
    <3> DEFINE T == {n \in 0 .. N : i \notin g[n]}
    <3>1. 0 \in T
      BY <1>2, <2>1, <2>2 DEF i
    <3>2. ASSUME NEW n \in Nat, n \in T, n + 1 <= N PROVE n + 1 \in T
      <4> DEFINE j == order[k + (n + 1)]
      <4>1. n + 1 \in 1 .. N /\ (n + 1) - 1 = n /\ j \in A /\ j # i
        BY <2>2, <3>2
      <4>2. g[n + 1] = Against(g[n], i, j, sim, rel)
        BY <2>1, <4>1
      <4> HIDE DEF j
      <4>3. <<i, j>> \in sim => ~(rel[j] > rel[i])
        BY <2>2, <2>4, <4>1 DEF AreBest
      <4>4. i \notin g[n + 1]
        BY <3>2, <4>1, <4>2, <4>3 DEF Against
      <4>5. QED
        BY <4>1, <4>4
    <3>3. N \in T
      <4> HIDE DEF T
      <4>1. QED
        BY <2>3, <3>1, <3>2
    <3>4. QED
      BY <2>1, <2>2, <2>4, <3>3
  <2>5. CASE i \notin Top
    <3> DEFINE T == {n \in 0 .. N : Top \ g[n] = Top \ dup}
    <3>1. 0 \in T
      BY <2>1, <2>2
    <3>2. ASSUME NEW n \in Nat, n \in T, n + 1 <= N PROVE n + 1 \in T
      <4> DEFINE j == order[k + (n + 1)]
      <4>1. n + 1 \in 1 .. N /\ (n + 1) - 1 = n /\ j \in A
        BY <2>2, <3>2
      <4>2. g[n + 1] = Against(g[n], i, j, sim, rel)
        BY <2>1, <4>1
      <4> HIDE DEF j
      <4>3. <<i, j>> \in sim /\ j \in Top => rel[j] > rel[i]
        BY <2>2, <2>5, <4>1 DEF AreBest
      <4>4. Top \ g[n + 1] = Top \ g[n]
        BY <2>5, <4>2, <4>3 DEF Against
      <4>5. QED
        BY <3>2, <4>1, <4>4
    <3>3. N \in T
      <4> HIDE DEF T
      <4>1. QED
        BY <2>3, <3>1, <3>2
    <3>4. QED
      BY <2>1, <2>2, <3>3
  <2>6. QED
    BY <2>4, <2>5
<1>3. QED
  BY <1>1, <1>2

\* g lists what the outer loop has marked after each article.
Rounds(g, A, order, sim, rel) ==
  /\ g \in [0 .. Len(order) -> SUBSET A]
  /\ g[0] = {}
  /\ \A k \in 1 .. Len(order) : g[k] = Pass(order, k, g[k - 1], sim, rel)
  /\ Duplicates(order, sim, rel) = g[Len(order)]

\* The outer loop, round by round.
LEMMA DuplicatesSteps ==
  ASSUME NEW A, NEW order \in Seq(A), IsInjective(order), NEW sim, NEW rel
  PROVE  \E g : Rounds(g, A, order, sim, rel)
<1> DEFINE N == Len(order)
           S == SUBSET A
           New(d, k) == Pass(order, k, d, sim, rel)
           step == [k \in 1 .. N |-> [d \in S |-> New(d, k)]]
           Rec(f) == f = [k \in 0 .. N |-> IF k = 0 THEN {} ELSE New(f[k - 1], k)]
<1>1. N \in Nat /\ {} \in S
  OBVIOUS
<1>2. ASSUME NEW d \in S, NEW k \in 1 .. N PROVE New(d, k) \in S
  <2>1. CASE order[k] \in d
    BY <2>1 DEF Pass
  <2>2. CASE order[k] \notin d
    <3>1. PICK g : Lists(g, A, order, k, d, sim, rel)
      BY <2>2, PassSteps
    <3>2. N - k \in 0 .. N - k
      BY <1>1
    <3>3. QED
      BY <3>1, <3>2 DEF Lists
  <2>3. QED
    BY <2>1, <2>2
<1> HIDE DEF N, S, New
<1>3. step \in [1 .. N -> [S -> S]]
  BY <1>2
<1>4. \A k \in 1 .. N, d \in S : step[k][d] = New(d, k)
  OBVIOUS
<1> HIDE DEF step
<1>5. PICK g : IsFold(g, N, S, {}, step)
  BY <1>1, <1>3, Folding
<1>6. g \in [0 .. N -> S] /\ g[0] = {} /\ \A k \in 1 .. N : g[k] = step[k][g[k - 1]]
  BY <1>5 DEF IsFold
<1>7. ASSUME NEW k \in 1 .. N PROVE g[k] = New(g[k - 1], k)
  <2>1. k - 1 \in 0 .. N
    BY <1>1
  <2>2. QED
    BY <1>4, <1>6, <2>1
<1>8. Rec(g)
  BY <1>6, <1>7
<1> DEFINE f == CHOOSE f : Rec(f)
<1>9. Rec(f)
  <2> HIDE DEF Rec
  <2>1. QED
    BY <1>8
<1>10. Duplicates(order, sim, rel) = f[N]
  BY DEF Duplicates, N, New
<1> HIDE DEF f
<1>11. \A k \in 0 .. N : f[k] \in S
  <2> DEFINE T == {n \in Nat : n <= N => f[n] \in S}
  <2>1. 0 \in T
    BY <1>1, <1>9
  <2>2. ASSUME NEW n \in Nat, n \in T PROVE n + 1 \in T
    <3> SUFFICES ASSUME n + 1 <= N PROVE f[n + 1] \in S
      OBVIOUS
    <3>1. n + 1 \in 1 .. N /\ n + 1 \in 0 .. N /\ n + 1 # 0 /\ (n + 1) - 1 = n
      BY <1>1
    <3>2. f[n] \in S
      BY <1>1, <2>2
    <3>3. f[n + 1] = New(f[n], n + 1)
      BY <1>9, <3>1
    <3>4. QED
      BY <1>2, <3>1, <3>2, <3>3
  <2>3. Nat \subseteq T
    <3> HIDE DEF T
    <3>1. QED
      BY <2>1, <2>2, Induction
  <2>4. QED
    BY <1>1, <2>3
<1>12. f \in [0 .. N -> S] /\ f[0] = {} /\ \A k \in 1 .. N : f[k] = New(f[k - 1], k)
  <2>1. f = [k \in 0 .. N |-> f[k]]
    BY <1>9
  <2>2. f \in [0 .. N -> S]
    BY <1>11, <2>1
  <2>3. f[0] = {}
    BY <1>1, <1>9
  <2>4. ASSUME NEW k \in 1 .. N PROVE f[k] = New(f[k - 1], k)
    <3>1. k \in 0 .. N /\ k # 0
      BY <1>1
    <3>2. QED
      BY <1>9, <3>1
  <2>5. QED
    BY <2>2, <2>3, <2>4
<1>13. Rounds(f, A, order, sim, rel)
  BY <1>10, <1>12 DEF Rounds, N, S, New
<1>14. QED
  BY <1>13

\* The matrix leaves one of the best, whatever resembles what.
LEMMA MatrixKeepsOne ==
  ASSUME NEW A, NEW order \in Seq(A), IsInjective(order), NEW sim, NEW rel,
         NEW Top \in SUBSET A, AreBest(Top, A, sim, rel), Top # {}
  PROVE  Top \ Duplicates(order, sim, rel) # {}
<1>0. PICK g : Rounds(g, A, order, sim, rel)
  BY DuplicatesSteps
<1> DEFINE N == Len(order)
<1>1. /\ g \in [0 .. N -> SUBSET A] /\ g[0] = {}
      /\ \A k \in 1 .. N : g[k] = Pass(order, k, g[k - 1], sim, rel)
      /\ Duplicates(order, sim, rel) = g[N]
  BY <1>0 DEF Rounds
<1> DEFINE T == {n \in Nat : n <= N => Top \ g[n] # {}}
<1>2. N \in Nat
  OBVIOUS
<1>3. 0 \in T
  BY <1>1
<1>4. ASSUME NEW n \in Nat, n \in T PROVE n + 1 \in T
  <2> SUFFICES ASSUME n + 1 <= N PROVE Top \ g[n + 1] # {}
    OBVIOUS
  <2>1. n + 1 \in 1 .. N /\ (n + 1) - 1 = n /\ n \in 0 .. N
    BY <1>2
  <2>2. g[n] \in SUBSET A /\ Top \ g[n] # {} /\ g[n + 1] = Pass(order, n + 1, g[n], sim, rel)
    BY <1>1, <1>4, <2>1
  <2>3. QED
    BY <2>1, <2>2, PassKeepsOne
<1>5. Nat \subseteq T
  <2> HIDE DEF T
  <2>1. QED
    BY <1>3, <1>4, Induction
<1>6. QED
  BY <1>1, <1>2, <1>5

\* Among finitely many articles one is the most reliable.
LEMMA OneIsBest ==
  ASSUME NEW n \in Nat, NEW rel \in [1 .. n -> Nat], NEW S \in SUBSET (1 .. n), S # {}
  PROVE  \E a \in S : \A b \in S : rel[a] >= rel[b]
<1> DEFINE Upto(m) == S \cap 1 .. m
           HasBest(X) == \E a \in X : \A b \in X : rel[a] >= rel[b]
           T == {m \in Nat : m <= n => (Upto(m) = {} \/ HasBest(Upto(m)))}
<1>1. 0 \in T
  <2>1. Upto(0) = {}
    OBVIOUS
  <2>2. QED
    BY <2>1
<1>2. ASSUME NEW m \in Nat, m \in T PROVE m + 1 \in T
  <2> HIDE DEF Upto, HasBest
  <2> SUFFICES ASSUME m + 1 <= n, Upto(m + 1) # {} PROVE HasBest(Upto(m + 1))
    OBVIOUS
  <2>1. Upto(m + 1) \ Upto(m) \subseteq {m + 1} /\ Upto(m) \subseteq Upto(m + 1) /\ m <= n
    BY DEF Upto
  <2>2. \A a \in Upto(m + 1) : rel[a] \in Nat
    BY DEF Upto
  <2>3. Upto(m) = {} \/ HasBest(Upto(m))
    BY <1>2, <2>1
  <2>4. CASE Upto(m) = {}
    <3>1. Upto(m + 1) = {m + 1}
      BY <2>1, <2>4
    <3>2. rel[m + 1] >= rel[m + 1]
      BY <2>2, <3>1
    <3>3. QED
      BY <3>1, <3>2 DEF HasBest
  <2>5. CASE Upto(m) # {}
    <3>1. PICK a \in Upto(m) : \A b \in Upto(m) : rel[a] >= rel[b]
      BY <2>3, <2>5 DEF HasBest
    <3>2. CASE m + 1 \in Upto(m + 1) /\ rel[m + 1] > rel[a]
      <4>1. \A b \in Upto(m + 1) : rel[m + 1] >= rel[b]
        BY <2>1, <2>2, <3>1, <3>2
      <4>2. QED
        BY <3>2, <4>1 DEF HasBest
    <3>3. CASE ~(m + 1 \in Upto(m + 1) /\ rel[m + 1] > rel[a])
      <4>1. \A b \in Upto(m + 1) : rel[a] >= rel[b]
        BY <2>1, <2>2, <3>1, <3>3
      <4>2. QED
        BY <2>1, <4>1 DEF HasBest
    <3>4. QED
      BY <3>2, <3>3
  <2>6. QED
    BY <2>4, <2>5
<1>3. Nat \subseteq T
  <2> HIDE DEF T
  <2>1. QED
    BY <1>1, <1>2, Induction
<1>4. Upto(n) = S
  OBVIOUS
<1>5. n \in T
  BY <1>3
<1>6. HasBest(S)
  <2> HIDE DEF Upto, HasBest
  <2>1. QED
    BY <1>4, <1>5
<1>7. QED
  BY <1>6

\* Of any number of articles, whatever resembles what and however reliable they are, a
\* story that resembles no other keeps one of its most reliable articles.
THEOREM StoriesAreKept ==
  ASSUME NEW n \in Nat, NEW rel \in [1 .. n -> Nat], NEW sim \in SUBSET ((1 .. n) \X (1 .. n)),
         NEW story \in SUBSET (1 .. n), story # {},
         \A i, j \in 1 .. n : <<i, j>> \in sim => (i \in story <=> j \in story)
  PROVE  \E a \in story \ Duplicates([k \in 1 .. n |-> k], sim, rel) :
           \A b \in story : rel[a] >= rel[b]
<1> DEFINE order == [k \in 1 .. n |-> k]
           A == 1 .. n
           Top == {a \in story : \A b \in story : rel[a] >= rel[b]}
<1>1. order \in Seq(A) /\ IsInjective(order) /\ Len(order) = n
  BY DEF IsInjective
<1>2. Top # {}
  BY OneIsBest
<1>3. AreBest(Top, A, sim, rel)
  <2> SUFFICES ASSUME NEW i \in A, NEW j \in A, <<i, j>> \in sim
               PROVE  /\ i \in Top => ~(rel[j] > rel[i])
                      /\ j \in Top /\ i \notin Top => rel[j] > rel[i]
    BY DEF AreBest
  <2>1. i \in story <=> j \in story
    OBVIOUS
  <2>2. \A a \in A : rel[a] \in Nat
    OBVIOUS
  <2>3. QED
    BY <2>1, <2>2
<1>4. Top \ Duplicates(order, sim, rel) # {}
  <2>1. Top \in SUBSET A
    OBVIOUS
  <2> HIDE DEF Top, A, order
  <2>2. QED
    BY <1>1, <1>2, <1>3, <2>1, MatrixKeepsOne
<1>5. QED
  BY <1>4

\* In particular what the run checks: of four articles, with symmetric resemblance.
THEOREM StoriesOfFourAreKept == Spec => []StoryKept
<1>1. StoryIsKept(4)
  <2> SUFFICES ASSUME NEW rel \in [1 .. 4 -> 1 .. 2],
                      NEW pairs \in SUBSET {p \in (1 .. 4) \X (1 .. 4) : p[1] < p[2]},
                      NEW story \in (SUBSET (1 .. 4)) \ {{}},
                      \A p \in pairs \cup {<<p[2], p[1]>> : p \in pairs} :
                        p[1] \in story <=> p[2] \in story
               PROVE  \E a \in story \ Duplicates([k \in 1 .. 4 |-> k],
                                         pairs \cup {<<p[2], p[1]>> : p \in pairs}, rel) :
                        \A b \in story : rel[a] >= rel[b]
    BY DEF StoryIsKept
  <2> DEFINE sim == pairs \cup {<<p[2], p[1]>> : p \in pairs}
  <2>1. sim \in SUBSET ((1 .. 4) \X (1 .. 4)) /\ rel \in [1 .. 4 -> Nat]
    OBVIOUS
  <2>2. \A i, j \in 1 .. 4 : <<i, j>> \in sim => (i \in story <=> j \in story)
    <3> SUFFICES ASSUME NEW i \in 1 .. 4, NEW j \in 1 .. 4, <<i, j>> \in sim
                 PROVE  i \in story <=> j \in story
      OBVIOUS
    <3> DEFINE p == <<i, j>>
    <3>1. p \in sim => (p[1] \in story <=> p[2] \in story)
      OBVIOUS
    <3>2. QED
      BY <3>1
  <2> HIDE DEF sim
  <2>3. QED
    <3>1. 4 \in Nat /\ story \in SUBSET (1 .. 4) /\ story # {}
      OBVIOUS
    <3>2. \E a \in story \ Duplicates([k \in 1 .. 4 |-> k], sim, rel) : \A b \in story : rel[a] >= rel[b]
      BY <2>1, <2>2, <3>1, StoriesAreKept
    <3>3. QED
      BY <3>2 DEF sim
<1>2. QED
  BY <1>1, PTL DEF StoryKept

-----------------------------------------------------------------------------
(* Sums.  The recursion of SumOver has a value, and it does not matter      *)
(* which element is taken first.                                            *)

\* h lists the sum of f over every part of S.
IsSum(h, f, S) ==
  h = [T \in SUBSET S |-> IF T = {} THEN 0 ELSE f[AnyOf(T)] + h[T \ {AnyOf(T)}]]

\* Of a set with elements the pick is one, and one fewer is left without it.
LEMMA Picking ==
  ASSUME NEW T, IsFiniteSet(T), NEW x \in T
  PROVE  /\ AnyOf(T) \in T
         /\ IsFiniteSet(T \ {x}) /\ Cardinality(T \ {x}) = Cardinality(T) - 1
         /\ Cardinality(T) \in Nat \ {0} /\ x \notin T \ {x}
<1>1. AnyOf(T) \in T
  BY DEF AnyOf
<1>2. IsFiniteSet(T \ {x}) /\ Cardinality(T \ {x}) = Cardinality(T) - 1
  BY FS_RemoveElement
<1>3. Cardinality(T) \in Nat /\ Cardinality(T) # 0
  BY FS_CardinalityType, FS_EmptySet
<1>4. QED
  BY <1>1, <1>2, <1>3

\* Induction on a finite set: from all sets with one element fewer to the set.
LEMMA SizeInduction ==
  ASSUME NEW S, IsFiniteSet(S), NEW Q, {} \in Q,
         \A T \in SUBSET S : T # {} /\ (\A x \in T : T \ {x} \in Q) => T \in Q
  PROVE  SUBSET S \subseteq Q
<1> DEFINE Fine == {n \in Nat : \A T \in SUBSET S : Cardinality(T) = n => T \in Q}
<1>1. \A T \in SUBSET S : IsFiniteSet(T) /\ Cardinality(T) \in Nat
  BY FS_Subset, FS_CardinalityType
<1>2. 0 \in Fine
  BY <1>1, FS_EmptySet
<1>3. ASSUME NEW n \in Nat, n \in Fine PROVE n + 1 \in Fine
  <2>1. ASSUME NEW T \in SUBSET S, Cardinality(T) = n + 1 PROVE T \in Q
    <3>1. T # {}
      BY <2>1, FS_EmptySet
    <3>2. ASSUME NEW x \in T PROVE T \ {x} \in Q
      <4>1. T \ {x} \in SUBSET S /\ Cardinality(T \ {x}) = n
        BY <1>1, <2>1, Picking
      <4>2. QED
        BY <1>3, <4>1
    <3>3. QED
      BY <3>1, <3>2
  <2>2. QED
    BY <2>1
<1> HIDE DEF Fine
<1>4. Nat \subseteq Fine
  BY <1>2, <1>3, Induction
<1>5. QED
  BY <1>1, <1>4 DEF Fine

\* The recursion of SumOver has a value.
LEMMA SumExists ==
  ASSUME NEW f, NEW S, IsFiniteSet(S)
  PROVE  IsSum(CHOOSE h : IsSum(h, f, S), f, S)
<1> DEFINE
     Good(h, n) == \A T \in SUBSET S : Cardinality(T) <= n =>
                     h[T] = IF T = {} THEN 0 ELSE f[AnyOf(T)] + h[T \ {AnyOf(T)}]
     Deep == {n \in Nat : \E h : h = [T \in SUBSET S |-> h[T]] /\ Good(h, n)}
<1>1. \A T \in SUBSET S : IsFiniteSet(T) /\ Cardinality(T) \in Nat /\ Cardinality(T) <= Cardinality(S)
  BY FS_Subset, FS_CardinalityType
<1>2. 0 \in Deep
  <2> DEFINE h == [T \in SUBSET S |-> 0]
  <2>1. \A T \in SUBSET S : Cardinality(T) <= 0 => T = {}
    BY <1>1, FS_EmptySet
  <2>2. Good(h, 0)
    BY <2>1
  <2>3. h = [T \in SUBSET S |-> h[T]]
    OBVIOUS
  <2>4. QED
    BY <2>2, <2>3
<1>3. ASSUME NEW n \in Nat, n \in Deep PROVE n + 1 \in Deep
  <2>1. PICK h : h = [T \in SUBSET S |-> h[T]] /\ Good(h, n)
    BY <1>3
  <2> DEFINE g == [T \in SUBSET S |-> IF Cardinality(T) <= n THEN h[T]
                                     ELSE f[AnyOf(T)] + h[T \ {AnyOf(T)}]]
  <2>2. ASSUME NEW T \in SUBSET S, Cardinality(T) <= n + 1
        PROVE  g[T] = IF T = {} THEN 0 ELSE f[AnyOf(T)] + g[T \ {AnyOf(T)}]
    <3>1. CASE T = {}
      <4>1. Cardinality(T) = 0
        BY <3>1, FS_EmptySet
      <4>2. 0 <= n
        OBVIOUS
      <4>3. h[T] = IF T = {} THEN 0 ELSE f[AnyOf(T)] + h[T \ {AnyOf(T)}]
        BY <2>1, <4>1, <4>2
      <4>4. QED
        BY <3>1, <4>1, <4>2, <4>3
    <3>2. CASE T # {}
      <4> DEFINE R == T \ {AnyOf(T)}
      <4>1. AnyOf(T) \in T
        BY <3>2 DEF AnyOf
      <4>2. R \in SUBSET S /\ Cardinality(R) = Cardinality(T) - 1 /\ Cardinality(T) \in Nat
        BY <1>1, <4>1, Picking
      <4>3. Cardinality(R) <= n
        BY <2>2, <4>2
      <4>4. g[R] = h[R]
        BY <4>2, <4>3
      <4>5. g[T] = f[AnyOf(T)] + h[R]
        BY <2>1, <3>2
      <4>6. QED
        BY <3>2, <4>4, <4>5
    <3>3. QED
      BY <3>1, <3>2
  <2>3. g = [T \in SUBSET S |-> g[T]]
    OBVIOUS
  <2> HIDE DEF g
  <2>4. Good(g, n + 1)
    BY <2>2
  <2> HIDE DEF Good
  <2>5. QED
    BY <2>3, <2>4
<1> HIDE DEF Deep
<1>4. Cardinality(S) \in Deep
  <2>1. Nat \subseteq Deep
    BY <1>2, <1>3, Induction
  <2>2. QED
    BY <1>1, <2>1
<1>5. PICK h : h = [T \in SUBSET S |-> h[T]] /\ Good(h, Cardinality(S))
  BY <1>4 DEF Deep
<1>6. \A T \in SUBSET S : h[T] = IF T = {} THEN 0 ELSE f[AnyOf(T)] + h[T \ {AnyOf(T)}]
  BY <1>1, <1>5
<1> HIDE DEF Good
<1>7. IsSum(h, f, S)
  BY <1>5, <1>6 DEF IsSum
<1>8. QED
  BY <1>7

\* Two sets agree on the sum of what they share.
LEMMA SumsAgree ==
  ASSUME NEW f, NEW S, IsFiniteSet(S), NEW R \in SUBSET S, NEW g, NEW h,
         IsSum(g, f, S), IsSum(h, f, R)
  PROVE  g[R] = h[R]
<1> DEFINE Same == {T \in SUBSET R : g[T] = h[T]}
<1>1. \A T \in SUBSET R :
        /\ g[T] = IF T = {} THEN 0 ELSE f[AnyOf(T)] + g[T \ {AnyOf(T)}]
        /\ h[T] = IF T = {} THEN 0 ELSE f[AnyOf(T)] + h[T \ {AnyOf(T)}]
  BY DEF IsSum
<1>2. ASSUME NEW T \in SUBSET R, T # {}, \A x \in T : T \ {x} \in Same PROVE T \in Same
  <2>1. AnyOf(T) \in T
    BY <1>2 DEF AnyOf
  <2>2. QED
    BY <1>1, <1>2, <2>1
<1>3. IsFiniteSet(R) /\ {} \in Same
  BY <1>1, FS_Subset
<1> HIDE DEF Same
<1>4. SUBSET R \subseteq Same
  BY <1>2, <1>3, SizeInduction
<1>5. QED
  BY <1>4 DEF Same

\* SumOver is that value, at the whole set.
LEMMA SumIsChosen ==
  ASSUME NEW f, NEW S
  PROVE  SumOver(f, S) = (CHOOSE h : IsSum(h, f, S))[S]
BY DEF SumOver, IsSum

\* A sum is its first element and the sum of the others.
LEMMA SumFirst ==
  ASSUME NEW f, NEW S, IsFiniteSet(S)
  PROVE  SumOver(f, S) = IF S = {} THEN 0 ELSE f[AnyOf(S)] + SumOver(f, S \ {AnyOf(S)})
<1> DEFINE h(T) == CHOOSE h : IsSum(h, f, T)
<1>1. IsSum(h(S), f, S) /\ SumOver(f, S) = h(S)[S]
  BY SumExists, SumIsChosen
<1>2. h(S)[S] = IF S = {} THEN 0 ELSE f[AnyOf(S)] + h(S)[S \ {AnyOf(S)}]
  BY <1>1 DEF IsSum
<1>3. IsFiniteSet(S \ {AnyOf(S)})
  BY FS_Subset
<1>4. IsSum(h(S \ {AnyOf(S)}), f, S \ {AnyOf(S)})
      /\ SumOver(f, S \ {AnyOf(S)}) = h(S \ {AnyOf(S)})[S \ {AnyOf(S)}]
  BY <1>3, SumExists, SumIsChosen
<1>5. h(S)[S \ {AnyOf(S)}] = h(S \ {AnyOf(S)})[S \ {AnyOf(S)}]
  <2> HIDE DEF h
  <2>1. QED
    BY <1>1, <1>4, SumsAgree
<1>6. QED
  BY <1>1, <1>2, <1>4, <1>5

\* A sum of integers is an integer.
LEMMA SumIsInt ==
  ASSUME NEW S, IsFiniteSet(S), NEW f, \A s \in S : f[s] \in Int
  PROVE  SumOver(f, S) \in Int
<1> DEFINE Fine == {T \in SUBSET S : SumOver(f, T) \in Int}
<1>1. {} \in Fine
  <2>1. SumOver(f, {}) = 0
    BY SumFirst, FS_EmptySet
  <2>2. QED
    BY <2>1
<1>2. ASSUME NEW T \in SUBSET S, T # {}, \A x \in T : T \ {x} \in Fine PROVE T \in Fine
  <2>1. AnyOf(T) \in T
    BY <1>2 DEF AnyOf
  <2>2. SumOver(f, T) = f[AnyOf(T)] + SumOver(f, T \ {AnyOf(T)})
    BY <1>2, SumFirst, FS_Subset
  <2>3. QED
    BY <1>2, <2>1, <2>2
<1> HIDE DEF Fine
<1>3. SUBSET S \subseteq Fine
  BY <1>1, <1>2, SizeInduction
<1>4. QED
  BY <1>3 DEF Fine

\* Any element can be taken first.
LEMMA SumPeels ==
  ASSUME NEW S, IsFiniteSet(S), NEW f, \A s \in S : f[s] \in Int, NEW x \in S
  PROVE  SumOver(f, S) = f[x] + SumOver(f, S \ {x})
<1> DEFINE Free == {T \in SUBSET S : \A y \in T : SumOver(f, T) = f[y] + SumOver(f, T \ {y})}
<1>1. \A T \in SUBSET S : IsFiniteSet(T) /\ SumOver(f, T) \in Int
  <2>1. \A T \in SUBSET S : IsFiniteSet(T)
    BY FS_Subset
  <2>2. QED
    BY <2>1, SumIsInt
<1>2. {} \in Free
  OBVIOUS
<1>3. ASSUME NEW T \in SUBSET S, T # {}, \A z \in T : T \ {z} \in Free, NEW y \in T
      PROVE  SumOver(f, T) = f[y] + SumOver(f, T \ {y})
  <2> DEFINE p == AnyOf(T)
  <2>1. p \in T
    BY DEF AnyOf
  <2>2. SumOver(f, T) = f[p] + SumOver(f, T \ {p})
    BY <1>1, SumFirst
  <2> HIDE DEF p
  <2>3. CASE p = y
    BY <2>2, <2>3
  <2>4. CASE p # y
    <3> DEFINE rest == SumOver(f, (T \ {p}) \ {y})
    <3>1. SumOver(f, T \ {p}) = f[y] + rest
      BY <1>3, <2>1, <2>4
    <3>2. SumOver(f, T \ {y}) = f[p] + SumOver(f, (T \ {y}) \ {p})
      BY <1>3, <2>1, <2>4
    <3>3. (T \ {p}) \ {y} = (T \ {y}) \ {p}
      OBVIOUS
    <3>4. rest \in Int /\ f[y] \in Int /\ f[p] \in Int
      BY <1>1, <2>1
    <3>5. SumOver(f, T) = f[p] + (f[y] + rest) /\ SumOver(f, T \ {y}) = f[p] + rest
      BY <2>2, <3>1, <3>2, <3>3
    <3> HIDE DEF rest
    <3>6. QED
      BY <3>4, <3>5
  <2>5. QED
    BY <2>3, <2>4
<1>4. \A T \in SUBSET S : T # {} /\ (\A z \in T : T \ {z} \in Free) => T \in Free
  BY <1>3
<1> HIDE DEF Free
<1>5. SUBSET S \subseteq Free
  BY <1>2, <1>4, SizeInduction
<1>6. QED
  BY <1>5 DEF Free

\* What holds of the terms holds of the sums: they can be compared, and scaled and added.
LEMMA SumsCompare ==
  ASSUME NEW S, IsFiniteSet(S), NEW f, NEW g,
         \A s \in S : f[s] \in Int /\ g[s] \in Int /\ f[s] <= g[s]
  PROVE  SumOver(f, S) <= SumOver(g, S)
<1> DEFINE Fine == {T \in SUBSET S : SumOver(f, T) <= SumOver(g, T)}
<1>1. \A T \in SUBSET S : IsFiniteSet(T) /\ SumOver(f, T) \in Int /\ SumOver(g, T) \in Int
  <2>1. \A T \in SUBSET S : IsFiniteSet(T)
    BY FS_Subset
  <2>2. QED
    BY <2>1, SumIsInt
<1>2. {} \in Fine
  <2>1. SumOver(f, {}) = 0 /\ SumOver(g, {}) = 0
    BY SumFirst, FS_EmptySet
  <2>2. QED
    BY <2>1
<1>3. ASSUME NEW T \in SUBSET S, T # {}, \A x \in T : T \ {x} \in Fine PROVE T \in Fine
  <2>1. PICK x \in T : TRUE
    BY <1>3
  <2>2. SumOver(f, T) = f[x] + SumOver(f, T \ {x}) /\ SumOver(g, T) = g[x] + SumOver(g, T \ {x})
    BY <1>1, SumPeels
  <2>3. SumOver(f, T \ {x}) <= SumOver(g, T \ {x}) /\ f[x] <= g[x]
    BY <1>3
  <2>4. SumOver(f, T \ {x}) \in Int /\ SumOver(g, T \ {x}) \in Int /\ f[x] \in Int /\ g[x] \in Int
    BY <1>1
  <2>5. QED
    BY <2>2, <2>3, <2>4
<1> HIDE DEF Fine
<1>4. SUBSET S \subseteq Fine
  BY <1>2, <1>3, SizeInduction
<1>5. QED
  BY <1>4 DEF Fine

\* Sums are linear in their terms.
LEMMA SumsAdd ==
  ASSUME NEW S, IsFiniteSet(S), NEW f, NEW g, NEW h, NEW a \in Int, NEW b \in Int,
         \A s \in S : f[s] \in Int /\ g[s] \in Int /\ h[s] = a * f[s] + b * g[s]
  PROVE  SumOver(h, S) = a * SumOver(f, S) + b * SumOver(g, S)
<1> DEFINE Fine == {T \in SUBSET S : SumOver(h, T) = a * SumOver(f, T) + b * SumOver(g, T)}
<1>1. \A T \in SUBSET S : IsFiniteSet(T) /\ SumOver(f, T) \in Int /\ SumOver(g, T) \in Int
  <2>1. \A T \in SUBSET S : IsFiniteSet(T)
    BY FS_Subset
  <2>2. QED
    BY <2>1, SumIsInt
<1>2. {} \in Fine
  <2>1. SumOver(f, {}) = 0 /\ SumOver(g, {}) = 0 /\ SumOver(h, {}) = 0
    BY SumFirst, FS_EmptySet
  <2>2. QED
    BY <2>1
<1>3. ASSUME NEW T \in SUBSET S, T # {}, \A x \in T : T \ {x} \in Fine PROVE T \in Fine
  <2>1. PICK x \in T : TRUE
    BY <1>3
  <2> DEFINE F == SumOver(f, T \ {x})
             G == SumOver(g, T \ {x})
  <2>2. SumOver(f, T) = f[x] + F /\ SumOver(g, T) = g[x] + G
    BY <1>1, SumPeels
  <2>3. SumOver(h, T) = h[x] + SumOver(h, T \ {x})
    <3>1. \A s \in T : h[s] \in Int
      OBVIOUS
    <3>2. QED
      BY <1>1, <3>1, SumPeels
  <2>4. SumOver(h, T \ {x}) = a * F + b * G
    BY <1>3
  <2>5. F \in Int /\ G \in Int /\ f[x] \in Int /\ g[x] \in Int /\ h[x] = a * f[x] + b * g[x]
    BY <1>1
  <2> HIDE DEF F, G
  <2>6. SumOver(h, T) = a * (f[x] + F) + b * (g[x] + G)
    BY <2>3, <2>4, <2>5
  <2>7. QED
    BY <2>2, <2>6
<1> HIDE DEF Fine
<1>4. SUBSET S \subseteq Fine
  BY <1>2, <1>3, SizeInduction
<1>5. QED
  BY <1>4 DEF Fine

\* A common factor can be taken out of a sum.
LEMMA SumsScale ==
  ASSUME NEW S, IsFiniteSet(S), NEW f, NEW h, NEW a \in Int,
         \A s \in S : f[s] \in Int /\ h[s] = a * f[s]
  PROVE  SumOver(h, S) = a * SumOver(f, S)
<1>1. \A s \in S : f[s] \in Int /\ h[s] = a * f[s] + 0 * f[s]
  OBVIOUS
<1>2. SumOver(h, S) = a * SumOver(f, S) + 0 * SumOver(f, S)
  BY <1>1, SumsAdd
<1>3. SumOver(f, S) \in Int
  BY SumIsInt
<1>4. QED
  BY <1>2, <1>3

\* The sum over a part, and its size, are sums over the whole.
LEMMA PartAsSum ==
  ASSUME NEW S, IsFiniteSet(S), NEW R, R \subseteq S, NEW f, NEW h,
         \A s \in S : f[s] \in Int /\ h[s] = IF s \in R THEN f[s] ELSE 0
  PROVE  SumOver(h, S) = SumOver(f, R)
<1> DEFINE Fine == {T \in SUBSET S : SumOver(h, T) = SumOver(f, T \cap R)}
<1>1. \A T \in SUBSET S : IsFiniteSet(T)
  BY FS_Subset
<1>2. {} \in Fine
  <2>1. SumOver(f, {}) = 0 /\ SumOver(h, {}) = 0 /\ {} \cap R = {}
    BY SumFirst, FS_EmptySet
  <2>2. QED
    BY <2>1
<1>3. ASSUME NEW T \in SUBSET S, T # {}, \A x \in T : T \ {x} \in Fine PROVE T \in Fine
  <2>1. PICK x \in T : TRUE
    BY <1>3
  <2>2. SumOver(h, T) = h[x] + SumOver(h, T \ {x})
    <3>1. \A s \in T : h[s] \in Int
      OBVIOUS
    <3>2. QED
      BY <1>1, <3>1, SumPeels
  <2>3. SumOver(h, T \ {x}) = SumOver(f, (T \ {x}) \cap R)
    BY <1>3
  <2>4. T \cap R \in SUBSET S /\ (T \ {x}) \cap R \in SUBSET S
    OBVIOUS
  <2>5. CASE x \in R
    <3>1. x \in T \cap R /\ (T \ {x}) \cap R = (T \cap R) \ {x} /\ h[x] = f[x]
      BY <2>5
    <3>2. SumOver(f, T \cap R) = f[x] + SumOver(f, (T \cap R) \ {x})
      BY <1>1, <2>4, <3>1, SumPeels
    <3>3. QED
      BY <2>2, <2>3, <3>1, <3>2
  <2>6. CASE x \notin R
    <3>1. (T \ {x}) \cap R = T \cap R /\ h[x] = 0
      BY <2>6
    <3>2. SumOver(f, T \cap R) \in Int
      BY <1>1, <2>4, SumIsInt
    <3>3. QED
      BY <2>2, <2>3, <3>1, <3>2
  <2>7. QED
    BY <2>5, <2>6
<1> HIDE DEF Fine
<1>4. SUBSET S \subseteq Fine
  BY <1>2, <1>3, SizeInduction
<1>5. S \cap R = R
  OBVIOUS
<1>6. QED
  BY <1>4, <1>5 DEF Fine

\* A part of a set has as many elements as its indicators add up to.
LEMMA SizeAsSum ==
  ASSUME NEW S, IsFiniteSet(S), NEW R, R \subseteq S, NEW h,
         \A s \in S : h[s] = IF s \in R THEN 1 ELSE 0
  PROVE  SumOver(h, S) = Cardinality(R)
<1> DEFINE Fine == {T \in SUBSET S : SumOver(h, T) = Cardinality(T \cap R)}
<1>1. \A T \in SUBSET S : IsFiniteSet(T)
  BY FS_Subset
<1>2. {} \in Fine
  <2>1. SumOver(h, {}) = 0 /\ {} \cap R = {} /\ Cardinality({}) = 0
    BY SumFirst, FS_EmptySet
  <2>2. QED
    BY <2>1
<1>3. ASSUME NEW T \in SUBSET S, T # {}, \A x \in T : T \ {x} \in Fine PROVE T \in Fine
  <2>1. PICK x \in T : TRUE
    BY <1>3
  <2>2. SumOver(h, T) = h[x] + SumOver(h, T \ {x})
    <3>1. \A s \in T : h[s] \in Int
      OBVIOUS
    <3>2. QED
      BY <1>1, <3>1, SumPeels
  <2>3. SumOver(h, T \ {x}) = Cardinality((T \ {x}) \cap R)
    BY <1>3
  <2>4. IsFiniteSet(T \cap R) /\ Cardinality(T \cap R) \in Nat
    BY <1>1, FS_Subset, FS_CardinalityType
  <2>5. CASE x \in R
    <3>1. x \in T \cap R /\ (T \ {x}) \cap R = (T \cap R) \ {x} /\ h[x] = 1
      BY <2>5
    <3>2. Cardinality((T \cap R) \ {x}) = Cardinality(T \cap R) - 1
      BY <2>4, <3>1, Picking
    <3>3. SumOver(h, T) = 1 + (Cardinality(T \cap R) - 1)
      BY <2>2, <2>3, <3>1, <3>2
    <3>4. QED
      BY <2>4, <3>3
  <2>6. CASE x \notin R
    <3>1. (T \ {x}) \cap R = T \cap R /\ h[x] = 0
      BY <2>6
    <3>2. QED
      BY <2>2, <2>3, <2>4, <3>1
  <2>7. QED
    BY <2>5, <2>6
<1> HIDE DEF Fine
<1>4. SUBSET S \subseteq Fine
  BY <1>2, <1>3, SizeInduction
<1>5. S \cap R = R
  OBVIOUS
<1>6. QED
  BY <1>4, <1>5 DEF Fine

\* A finite set of integers has a largest one, which is its Max.
LEMMA LargestOf ==
  ASSUME NEW S, IsFiniteSet(S), S # {}, S \subseteq Int
  PROVE  Max(S) \in S /\ \A x \in S : x <= Max(S)
<1> DEFINE Top(T) == \E m \in T : \A x \in T : x <= m
           Fine == {T \in SUBSET S : T = {} \/ Top(T)}
<1>1. ASSUME NEW T \in SUBSET S, T # {}, \A x \in T : T \ {x} \in Fine PROVE T \in Fine
  <2>1. PICK y \in T : TRUE
    BY <1>1
  <2>2. CASE T \ {y} = {}
    <3>1. \A x \in T : x = y /\ x \in Int
      BY <2>2
    <3>2. QED
      BY <2>1, <3>1
  <2>3. CASE Top(T \ {y})
    <3>1. PICK m \in T \ {y} : \A x \in T \ {y} : x <= m
      BY <2>3
    <3>2. CASE y <= m
      BY <3>1, <3>2
    <3>3. CASE ~(y <= m)
      <4>1. \A x \in T : x \in Int
        OBVIOUS
      <4>2. \A x \in T : x <= y
        BY <3>1, <3>3, <4>1
      <4>3. QED
        BY <4>2
    <3>4. QED
      BY <3>2, <3>3
  <2>4. T \ {y} \in Fine
    BY <1>1
  <2>5. QED
    BY <2>2, <2>3, <2>4
<1> HIDE DEF Fine
<1>2. {} \in Fine
  BY DEF Fine
<1>3. SUBSET S \subseteq Fine
  BY <1>1, <1>2, SizeInduction
<1>4. Top(S)
  BY <1>3 DEF Fine
<1>5. PICK m \in S : \A x \in S : m >= x
  BY <1>4
<1>6. Max(S) \in S /\ \A x \in S : Max(S) >= x
  BY <1>5 DEF Max
<1>7. QED
  BY <1>6

\* A function has finitely many values on a finite set.
LEMMA ImageIsFinite ==
  ASSUME NEW S, IsFiniteSet(S), NEW f
  PROVE  IsFiniteSet({f[s] : s \in S})
<1> DEFINE Fine == {T \in SUBSET S : IsFiniteSet({f[s] : s \in T})}
<1>1. {} \in Fine
  <2>1. {f[s] : s \in {}} = {}
    OBVIOUS
  <2>2. QED
    BY <2>1, FS_EmptySet
<1>2. ASSUME NEW T \in SUBSET S, T # {}, \A x \in T : T \ {x} \in Fine PROVE T \in Fine
  <2>1. PICK x \in T : TRUE
    BY <1>2
  <2> DEFINE rest == {f[s] : s \in T \ {x}}
  <2>2. IsFiniteSet(rest) /\ {f[s] : s \in T} = rest \cup {f[x]}
    BY <1>2, <2>1
  <2> HIDE DEF rest
  <2>3. IsFiniteSet(rest \cup {f[x]})
    BY <2>2, FS_AddElement
  <2>4. QED
    BY <2>2, <2>3
<1> HIDE DEF Fine
<1>3. SUBSET S \subseteq Fine
  BY <1>1, <1>2, SizeInduction
<1>4. QED
  BY <1>3 DEF Fine

\* The larger of two integers.
LEMMA LargerOfTwo ==
  ASSUME NEW a \in Int, NEW b \in Int
  PROVE  Max({a, b}) = IF a < b THEN b ELSE a
<1>1. PICK m \in {a, b} : m = Max({a, b}) /\ \A x \in {a, b} : m >= x
  <2>1. \E m \in {a, b} : \A x \in {a, b} : m >= x
    OBVIOUS
  <2>2. QED
    BY <2>1 DEF Max
<1>2. QED
  BY <1>1

\* The smaller of two integers.
LEMMA SmallerOfTwo ==
  ASSUME NEW a \in Int, NEW b \in Int
  PROVE  Min({a, b}) = IF a < b THEN a ELSE b
<1>1. PICK m \in {a, b} : m = Min({a, b}) /\ \A x \in {a, b} : m <= x
  <2>1. \E m \in {a, b} : \A x \in {a, b} : m <= x
    OBVIOUS
  <2>2. QED
    BY <2>1 DEF Min
<1>2. QED
  BY <1>1

-----------------------------------------------------------------------------
(* The options block: a value within the loss, breakevens within the wings.  *)

\* Of one geometry: the payout lies between the loss and the credit, and is the loss beyond
\* the wings.
LEMMA PayoffIsBounded ==
  ASSUME NEW body \in Nat, NEW wing \in Nat, NEW credit \in Nat, credit <= wing, NEW s \in Nat
  PROVE  LET g == Geometry(body, wing, credit)
         IN /\ g.max_loss = wing - credit
            /\ Payoff(g, s) \in Int /\ -g.max_loss <= Payoff(g, s) /\ Payoff(g, s) <= credit
            /\ ~(body - wing < s /\ s <= body + wing) => Payoff(g, s) = -g.max_loss
<1>1. Max({0, wing - credit}) = wing - credit
  BY LargerOfTwo
<1>2. QED
  BY <1>1 DEF Geometry, Payoff, Bounded

\* For any grid of prices, any distribution over it and any structure whose credit is
\* within its wing, position_risk's expected value is at least the maximum loss, and each
\* price outside the wings takes the whole wing off the credit.
THEOREM ValuesFitLosses ==
  ASSUME NEW body \in Nat, NEW wing \in Nat, NEW credit \in Nat, credit <= wing,
         NEW w \in [Prices -> Nat]
  PROVE  LET g == Geometry(body, wing, credit)
             r == PositionRisk(g, w)
         IN /\ -g.max_loss * r.all <= r.value
            /\ r.value <= g.credit * r.all - g.wing * r.max_loss
<1> DEFINE g == Geometry(body, wing, credit)
           r == PositionRisk(g, w)
           In == {s \in Prices : body - wing < s /\ s <= body + wing}
           inside == [s \in Prices |-> IF s \in In THEN w[s] ELSE 0]
           value == [s \in Prices |-> w[s] * Payoff(g, s)]
           low == [s \in Prices |-> (credit - wing) * w[s]]
           high == [s \in Prices |-> (credit - wing) * w[s] + wing * inside[s]]
<1>1. /\ g.body = body /\ g.wing = wing /\ g.credit = credit /\ g.max_loss = wing - credit
      /\ r.all = SumOver(w, Prices) /\ r.value = SumOver(value, Prices)
      /\ r.max_loss = SumOver(w, Prices) - SumOver(w, In)
  <2>1. Max({0, wing - credit}) = wing - credit
    BY LargerOfTwo
  <2>2. g.body = body /\ g.wing = wing /\ g.credit = credit /\ g.max_loss = wing - credit
    BY <2>1 DEF Geometry
  <2>3. QED
    BY <2>2 DEF PositionRisk, Weight, Within
<1>2. \A s \in Prices : s \in Nat /\ w[s] \in Nat /\ inside[s] \in Nat
                        /\ (s \in In => inside[s] = w[s]) /\ (s \notin In => inside[s] = 0)
  BY StructureAssumption
<1>3. \A s \in Prices : /\ Payoff(g, s) \in Int /\ credit - wing <= Payoff(g, s)
                        /\ Payoff(g, s) <= credit
                        /\ s \notin In => Payoff(g, s) = credit - wing
  <2> SUFFICES ASSUME NEW s \in Prices
               PROVE  /\ Payoff(g, s) \in Int /\ credit - wing <= Payoff(g, s)
                      /\ Payoff(g, s) <= credit
                      /\ s \notin In => Payoff(g, s) = credit - wing
    OBVIOUS
  <2>1. s \in Nat
    BY <1>2
  <2>2. /\ Payoff(g, s) \in Int /\ -g.max_loss <= Payoff(g, s) /\ Payoff(g, s) <= credit
        /\ ~(body - wing < s /\ s <= body + wing) => Payoff(g, s) = -g.max_loss
    BY <2>1, PayoffIsBounded
  <2>3. s \notin In => ~(body - wing < s /\ s <= body + wing)
    OBVIOUS
  <2>4. -g.max_loss = credit - wing
    BY <1>1
  <2> HIDE DEF g, In
  <2>5. QED
    BY <2>2, <2>3, <2>4
<1> HIDE DEF g, r, In, inside
<1>4. \A s \in Prices : /\ value[s] \in Int /\ low[s] \in Int /\ high[s] \in Int
                        /\ low[s] <= value[s] /\ value[s] <= high[s]
  <2> SUFFICES ASSUME NEW s \in Prices
               PROVE  /\ value[s] \in Int /\ low[s] \in Int /\ high[s] \in Int
                      /\ low[s] <= value[s] /\ value[s] <= high[s]
    OBVIOUS
  <2> DEFINE m == w[s]
             p == Payoff(g, s)
  <2>1. /\ value[s] = m * p /\ low[s] = (credit - wing) * m
        /\ high[s] = (credit - wing) * m + wing * inside[s]
    OBVIOUS
  <2>2. m \in Nat /\ p \in Int /\ credit - wing <= p /\ p <= credit
    BY <1>2, <1>3
  <2>3. inside[s] = m \/ (inside[s] = 0 /\ p = credit - wing)
    BY <1>2, <1>3
  <2> HIDE DEF m, p, value, low, high
  <2>4. m * (p - (credit - wing)) \in Nat /\ m * (credit - p) \in Nat
    BY <2>2
  <2>5. QED
    BY <2>1, <2>2, <2>3, <2>4
<1>5. IsFiniteSet(Prices) /\ In \subseteq Prices
  BY StructureAssumption DEF In
<1>6. SumOver(w, Prices) \in Int /\ SumOver(inside, Prices) = SumOver(w, In) /\ SumOver(w, In) \in Int
  <2>1. SumOver(inside, Prices) = SumOver(w, In)
    <3>1. \A s \in Prices : w[s] \in Int /\ inside[s] = IF s \in In THEN w[s] ELSE 0
      BY <1>2 DEF inside
    <3>2. QED
      BY <1>5, <3>1, PartAsSum
  <2>2. SumOver(w, Prices) \in Int /\ SumOver(inside, Prices) \in Int
    BY <1>2, <1>5, SumIsInt
  <2>3. QED
    BY <2>1, <2>2
<1>7. SumOver(low, Prices) = (credit - wing) * SumOver(w, Prices)
  <2>1. \A s \in Prices : w[s] \in Int /\ low[s] = (credit - wing) * w[s]
    BY <1>2
  <2> HIDE DEF low
  <2>2. credit - wing \in Int
    OBVIOUS
  <2>3. QED
    BY <1>5, <2>1, <2>2, SumsScale
<1>8. SumOver(high, Prices) = (credit - wing) * SumOver(w, Prices) + wing * SumOver(inside, Prices)
  <2>1. \A s \in Prices : /\ w[s] \in Int /\ inside[s] \in Int
                          /\ high[s] = (credit - wing) * w[s] + wing * inside[s]
    BY <1>2
  <2> HIDE DEF high
  <2>2. credit - wing \in Int /\ wing \in Int
    OBVIOUS
  <2>3. QED
    BY <1>5, <2>1, <2>2, SumsAdd
<1> HIDE DEF low, high, value
<1>9. SumOver(low, Prices) <= SumOver(value, Prices) /\ SumOver(value, Prices) <= SumOver(high, Prices)
  BY <1>4, <1>5, SumsCompare
<1> DEFINE all == SumOver(w, Prices)
           body2 == SumOver(w, In)
<1>10. /\ all \in Int /\ body2 \in Int /\ SumOver(value, Prices) \in Int
       /\ (credit - wing) * all <= SumOver(value, Prices)
       /\ SumOver(value, Prices) <= (credit - wing) * all + wing * body2
  BY <1>4, <1>5, <1>6, <1>7, <1>8, <1>9, SumIsInt
<1>11. /\ -(wing - credit) * all <= SumOver(value, Prices)
       /\ SumOver(value, Prices) <= credit * all - wing * (all - body2)
  <2> HIDE DEF all, body2
  <2> DEFINE v == SumOver(value, Prices)
  <2>1. v \in Int /\ (credit - wing) * all <= v /\ v <= (credit - wing) * all + wing * body2
    BY <1>10
  <2> HIDE DEF v
  <2>2. -(wing - credit) * all = (credit - wing) * all
    BY <1>10
  <2>3. credit * all - wing * (all - body2) = (credit - wing) * all + wing * body2
    BY <1>10
  <2>4. QED
    BY <2>1, <2>2, <2>3 DEF v
<1>12. QED
  BY <1>1, <1>11 DEF g, r

\* The geometries and the grid a run checks are such a case.
LEMMA ValuesOfGeometriesFit == ValueFitsTheLoss
<1> SUFFICES ASSUME NEW body \in Prices, NEW wing \in {1, 3, 4}, NEW credit \in {0, 1, 2},
                    NEW w \in [Prices -> Mass], Geometry(body, wing, credit).credit
                                                 <= Geometry(body, wing, credit).wing
             PROVE  LET g == Geometry(body, wing, credit)
                        r == PositionRisk(g, w)
                    IN /\ -g.max_loss * r.all <= r.value
                       /\ r.value <= g.credit * r.all - g.wing * r.max_loss
  BY DEF ValueFitsTheLoss, Geometries
<1>1. body \in Nat /\ wing \in Nat /\ credit \in Nat /\ w \in [Prices -> Nat]
  <2>1. \A s \in Prices : w[s] \in Nat
    BY StructureAssumption
  <2>2. QED
    BY <2>1, StructureAssumption
<1>2. credit <= wing
  BY DEF Geometry
<1>3. QED
  BY <1>1, <1>2, ValuesFitLosses

\* With the credit the service assumes, 45 % of the wing, the breakevens of any structure
\* lie between its wings.
THEOREM BreakevensLieInside ==
  \A body \in Nat, wing \in Nat \ {0} :
    LET g == Geometry(body, wing, AssumedCredit(wing))
    IN /\ body - wing < g.lower_breakeven /\ g.upper_breakeven < body + wing
       /\ g.max_loss + g.credit = wing
<1> SUFFICES ASSUME NEW body \in Nat, NEW wing \in Nat \ {0}
             PROVE  LET g == Geometry(body, wing, AssumedCredit(wing))
                    IN /\ body - wing < g.lower_breakeven /\ g.upper_breakeven < body + wing
                       /\ g.max_loss + g.credit = wing
  OBVIOUS
<1> DEFINE credit == AssumedCredit(wing)
<1>1. credit \in Nat /\ credit < wing
  BY DEF AssumedCredit, RoundDiv
<1> HIDE DEF credit
<1>2. Max({0, wing - credit}) = wing - credit
  BY <1>1, LargerOfTwo
<1>3. QED
  BY <1>1, <1>2 DEF Geometry, credit

\* The wings a run checks are such a case.
LEMMA BreakevensOfWingsLieInside == BreakevensAreInside
<1> SUFFICES ASSUME NEW wing \in 1 .. 200
             PROVE  LET g == Geometry(500, wing, AssumedCredit(wing))
                    IN /\ 500 - wing < g.lower_breakeven /\ g.upper_breakeven < 500 + wing
                       /\ g.max_loss + g.credit = wing
  BY DEF BreakevensAreInside
<1>1. 500 \in Nat /\ wing \in Nat \ {0}
  OBVIOUS
<1>2. QED
  BY <1>1, BreakevensLieInside, Zenon

-----------------------------------------------------------------------------
(* The score of a structure falls as its circumstances get worse.          *)

\* Every circumstance of y is at least as bad as that of x.
NoBetter(y, x) ==
  /\ y.prob <= x.prob /\ y.ratio <= x.ratio /\ x.event.score <= y.event.score
  /\ ~Worse(x.body, y.body) /\ ~Worse(x.regime, y.regime)

\* What the score of a structure depends on.
Circumstances ==
  [prob : Int, ratio : Nat, body : {"Low", "Medium", "High"},
   event : [score : Int, label : {"Low", "Medium", "High"}], regime : Regime]

\* The farther the pin from the expected move, the lower its score.
LEMMA PinFalls ==
  ASSUME NEW a \in Nat, NEW b \in Nat, a <= b
  PROVE  /\ PinRisk(a).score \in Int /\ PinRisk(b).score \in Int
         /\ PinRisk(b).score <= PinRisk(a).score
<1>1. \A r \in Nat :
        PinRisk(r).score = IF r <= 30 THEN Bounded(850 + (30 - r) * 5, 0, 1000)
                           ELSE IF r <= 70 THEN 450 + (70 - r) * 8
                           ELSE Bounded(300 - (r - 70) * 3, 0, 1000)
  <2> SUFFICES ASSUME NEW r \in Nat
               PROVE  PinRisk(r).score = IF r <= 30 THEN Bounded(850 + (30 - r) * 5, 0, 1000)
                                         ELSE IF r <= 70 THEN 450 + (70 - r) * 8
                                         ELSE Bounded(300 - (r - 70) * 3, 0, 1000)
    OBVIOUS
  <2>1. CASE r <= 30
    BY <2>1 DEF PinRisk
  <2>2. CASE r > 30 /\ r <= 70
    BY <2>2 DEF PinRisk
  <2>3. CASE r > 70
    BY <2>3 DEF PinRisk
  <2>4. QED
    BY <2>1, <2>2, <2>3
<1>2. QED
  BY <1>1 DEF Bounded

\* A regime that is no worse has no lower score.
LEMMA RegimesRank ==
  ASSUME NEW a \in Regime, NEW b \in Regime, ~Worse(b, a)
  PROVE  /\ VolScore(a) \in Int /\ VolScore(b) \in Int /\ VolScore(a) <= VolScore(b)
         /\ b = "high" => a = "high"
         /\ a = "low" => b = "low"
BY DEF Worse, VolScore, Regime

\* A lower danger at the body has a share that is no lower.
LEMMA LabelsRank ==
  ASSUME NEW a \in {"Low", "Medium", "High"}, NEW b \in {"Low", "Medium", "High"}, ~Worse(b, a)
  PROVE  BodyShare(a) \in Int /\ BodyShare(b) \in Int /\ BodyShare(b) <= BodyShare(a)
BY DEF Worse, BodyShare

\* A worse regime and a later event never shorten the term suggested.
LEMMA TermShortens ==
  ASSUME NEW a \in Regime, NEW b \in Regime, ~Worse(b, a), NEW m \in Int, NEW n \in Int, n <= m
  PROVE  SuggestedDte(a, m) <= SuggestedDte(b, n)
<1> DEFINE base(r) == CASE r = "low" -> 14 [] r = "high" -> 4 [] OTHER -> 7
<1>1. base(a) \in Nat /\ base(b) \in Nat /\ base(a) <= base(b) /\ base(a) >= 4
  BY DEF Worse, Regime
<1>2. \A r \in Regime, k \in Int :
        SuggestedDte(r, k) = IF k >= 700 THEN Max({2, base(r) - 3})
                             ELSE IF k >= 450 THEN Max({3, base(r) - 1}) ELSE base(r)
  BY DEF SuggestedDte
<1> HIDE DEF base
<1>3. \A r \in {a, b} : /\ Max({2, base(r) - 3}) = (IF 2 < base(r) - 3 THEN base(r) - 3 ELSE 2)
                         /\ Max({3, base(r) - 1}) = (IF 3 < base(r) - 1 THEN base(r) - 1 ELSE 3)
  <2>1. /\ 2 \in Int /\ 3 \in Int /\ base(a) - 3 \in Int /\ base(a) - 1 \in Int
        /\ base(b) - 3 \in Int /\ base(b) - 1 \in Int
    BY <1>1
  <2>2. QED
    BY <2>1, LargerOfTwo
<1>4. /\ SuggestedDte(a, m) = IF m >= 700 THEN Max({2, base(a) - 3})
                              ELSE IF m >= 450 THEN Max({3, base(a) - 1}) ELSE base(a)
      /\ SuggestedDte(b, n) = IF n >= 700 THEN Max({2, base(b) - 3})
                              ELSE IF n >= 450 THEN Max({3, base(b) - 1}) ELSE base(b)
  BY <1>2
<1>5. QED
  BY <1>1, <1>3, <1>4

\* The score rises with each of its five components.
LEMMA SafetyOfComponents ==
  ASSUME NEW c, NEW d, \A k \in {"prob_block", "pin_risk", "body_danger", "event_risk", "vol_regime"} :
           c[k] \in Int /\ d[k] \in Int /\ c[k] <= d[k]
  PROVE  /\ CreditSafety(c) \in Int /\ CreditSafety(d) \in Int
         /\ CreditSafety(c) <= CreditSafety(d)
         /\ ~Worse(SafetyLabel(CreditSafety(d)), SafetyLabel(CreditSafety(c)))
<1>1. /\ c.prob_block \in Int /\ d.prob_block \in Int /\ c.prob_block <= d.prob_block
      /\ c.pin_risk \in Int /\ d.pin_risk \in Int /\ c.pin_risk <= d.pin_risk
      /\ c.body_danger \in Int /\ d.body_danger \in Int /\ c.body_danger <= d.body_danger
      /\ c.event_risk \in Int /\ d.event_risk \in Int /\ c.event_risk <= d.event_risk
      /\ c.vol_regime \in Int /\ d.vol_regime \in Int /\ c.vol_regime <= d.vol_regime
  OBVIOUS
<1>2. /\ CreditSafety(c) \in Int /\ CreditSafety(d) \in Int
      /\ CreditSafety(c) <= CreditSafety(d)
  BY <1>1 DEF CreditSafety, RoundDiv
<1>3. \A m \in Int, n \in Int : m <= n => ~Worse(SafetyLabel(n), SafetyLabel(m))
  BY DEF SafetyLabel, Worse
<1>4. QED
  BY <1>2, <1>3

\* Whatever circumstances of a structure get worse, one or several of them: the score does
\* not rise, its label does not improve and the suggested term does not get longer.
THEOREM SafetyFalls ==
  ASSUME NEW x \in Circumstances, NEW y \in Circumstances, NoBetter(y, x)
  PROVE  /\ Rated(y) <= Rated(x)
         /\ ~Worse(SafetyLabel(Rated(x)), SafetyLabel(Rated(y)))
         /\ SuggestedDte(y.regime, y.event.score) <= SuggestedDte(x.regime, x.event.score)
<1> DEFINE Parts(z) == Components(z.prob, PinRisk(z.ratio).score, BodyShare(z.body),
                                  z.event.score, z.regime)
<1>1. /\ x.prob \in Int /\ y.prob \in Int /\ y.prob <= x.prob
      /\ x.event.score \in Int /\ y.event.score \in Int
      /\ x.event.score <= y.event.score
  BY DEF Circumstances, NoBetter
<1>2. /\ PinRisk(x.ratio).score \in Int /\ PinRisk(y.ratio).score \in Int
      /\ PinRisk(x.ratio).score <= PinRisk(y.ratio).score
  <2>1. x.ratio \in Nat /\ y.ratio \in Nat /\ y.ratio <= x.ratio
    BY DEF Circumstances, NoBetter
  <2>2. QED
    BY <2>1, PinFalls
<1>3. BodyShare(x.body) \in Int /\ BodyShare(y.body) \in Int
      /\ BodyShare(x.body) <= BodyShare(y.body)
  <2>1. x.body \in {"Low", "Medium", "High"} /\ y.body \in {"Low", "Medium", "High"}
        /\ ~Worse(x.body, y.body)
    BY DEF Circumstances, NoBetter
  <2>2. QED
    BY <2>1, LabelsRank
<1>4. x.regime \in Regime /\ y.regime \in Regime /\ ~Worse(x.regime, y.regime)
  BY DEF Circumstances, NoBetter
<1>5. VolScore(x.regime) \in Int /\ VolScore(y.regime) \in Int
      /\ VolScore(y.regime) <= VolScore(x.regime)
  BY <1>4, RegimesRank
<1>6. \A k \in {"prob_block", "pin_risk", "body_danger", "event_risk", "vol_regime"} :
        Parts(y)[k] \in Int /\ Parts(x)[k] \in Int /\ Parts(y)[k] <= Parts(x)[k]
  BY <1>1, <1>2, <1>3, <1>5 DEF Components
<1>7. Rated(x) = CreditSafety(Parts(x)) /\ Rated(y) = CreditSafety(Parts(y))
  BY DEF Rated
<1> HIDE DEF Parts
<1>8. SuggestedDte(y.regime, y.event.score) <= SuggestedDte(x.regime, x.event.score)
  BY <1>1, <1>4, TermShortens
<1>9. QED
  BY <1>6, <1>7, <1>8, SafetyOfComponents

\* A list of events has a score and one of three labels.
LEMMA EventIsRated ==
  ASSUME NEW events \in Seq([token : BOOLEAN, weight : Nat])
  PROVE  EventRisk(events) \in [score : Int, label : {"Low", "Medium", "High"}]
<1> DEFINE one(e) == IF e.token THEN 550 + RoundDiv(2 * e.weight, 5) ELSE 200 + RoundDiv(3 * e.weight, 10)
           First == DOMAIN events \cap 1 .. 10
           some == {one(events[k]) : k \in First}
           rated == [k \in First |-> one(events[k])]
<1>1. \A k \in First : one(events[k]) \in Int
  <2> SUFFICES ASSUME NEW k \in First PROVE one(events[k]) \in Int
    OBVIOUS
  <2> DEFINE E == [token : BOOLEAN, weight : Nat]
             e == events[k]
  <2>1. e \in E
    <3>1. events \in Seq(E) /\ k \in DOMAIN events
      OBVIOUS
    <3> HIDE DEF E
    <3>2. QED
      BY <3>1
  <2> HIDE DEF e
  <2>2. e.weight \in Nat
    BY <2>1
  <2>3. \A w \in Nat : 550 + RoundDiv(2 * w, 5) \in Int /\ 200 + RoundDiv(3 * w, 10) \in Int
    BY DEF RoundDiv
  <2>4. one(e) \in Int
    BY <2>2, <2>3, Zenon
  <2>5. QED
    BY <2>4 DEF e
<1>2. IsFiniteSet(First)
  <2>1. PICK n \in Nat : n = 10
    OBVIOUS
  <2>2. First \subseteq 1 .. n
    BY <2>1
  <2> HIDE DEF First
  <2>3. IsFiniteSet(1 .. n)
    BY FS_Interval
  <2>4. QED
    BY <2>2, <2>3, FS_Subset
<1>3. IsFiniteSet(some) /\ some \subseteq Int
  <2>1. some = {rated[k] : k \in First}
    BY Zenon
  <2>2. rated \in [First -> Int]
    BY <1>1, Zenon
  <2> HIDE DEF First, some, rated
  <2>3. IsFiniteSet({rated[k] : k \in First})
    BY <1>2, ImageIsFinite
  <2>4. QED
    BY <2>1, <2>2, <2>3
<1>4. EventRisk(events).score = Max({0} \cup some)
  BY Zenon DEF EventRisk
<1>5. EventRisk(events) = [score |-> EventRisk(events).score, label |-> EventRisk(events).label]
      /\ EventRisk(events).label \in {"Low", "Medium", "High"}
  BY DEF EventRisk
<1>6. Max({0} \cup some) \in Int
  <2> HIDE DEF some
  <2>1. IsFiniteSet(some \cup {0})
    BY <1>3, FS_AddElement
  <2>2. some \cup {0} = {0} \cup some
    OBVIOUS
  <2>3. IsFiniteSet({0} \cup some)
    BY <2>1, <2>2
  <2>4. {0} \cup some \subseteq Int /\ {0} \cup some # {}
    BY <1>3
  <2>5. QED
    BY <2>3, <2>4, LargestOf
<1>7. QED
  BY <1>4, <1>5, <1>6

\* The situations a run checks are such a case.
LEMMA SafetyOfSituationsFalls == SafetyIsMonotone
<1>1. Situations \subseteq Circumstances
  <2> DEFINE G == [score : Int, label : {"Low", "Medium", "High"}]
  <2>1. EventScores \subseteq G
    <3> DEFINE E == [token : BOOLEAN, weight : Nat]
               a == [token |-> FALSE, weight |-> 250]
               b == [token |-> FALSE, weight |-> 800]
               c == [token |-> TRUE, weight |-> 250]
               d == [token |-> TRUE, weight |-> 1000]
    <3>1. \A events \in Seq(E) : EventRisk(events) \in G
      BY EventIsRated, Zenon
    <3>2. a \in E /\ b \in E /\ c \in E /\ d \in E
      OBVIOUS
    <3>3. EventScores = {EventRisk(<<>>), EventRisk(<<a>>), EventRisk(<<b>>), EventRisk(<<c>>),
                         EventRisk(<<d>>)}
      BY DEF EventScores
    <3> HIDE DEF E, G, a, b, c, d
    <3>4. <<>> \in Seq(E) /\ <<a>> \in Seq(E) /\ <<b>> \in Seq(E) /\ <<c>> \in Seq(E) /\ <<d>> \in Seq(E)
      BY <3>2
    <3>5. QED
      BY <3>1, <3>3, <3>4
  <2>2. Chances \subseteq Int /\ Ratios \subseteq Nat
    BY DEF Chances, Ratios
  <2>3. ASSUME NEW x \in Situations PROVE x \in Circumstances
    <3>1. /\ x = [prob |-> x.prob, ratio |-> x.ratio, body |-> x.body, event |-> x.event,
                  regime |-> x.regime]
          /\ x.prob \in Chances /\ x.ratio \in Ratios /\ x.body \in {"Low", "Medium", "High"}
          /\ x.event \in EventScores /\ x.regime \in Regime
      BY DEF Situations
    <3>2. x.prob \in Int /\ x.ratio \in Nat /\ x.event \in G
      BY <2>1, <2>2, <3>1
    <3> HIDE DEF G
    <3>3. x \in [prob : Int, ratio : Nat, body : {"Low", "Medium", "High"}, event : G,
                 regime : Regime]
      BY <3>1, <3>2
    <3>4. QED
      BY <3>3 DEF Circumstances, G
  <2>4. QED
    BY <2>3
<1> SUFFICES ASSUME NEW x \in Situations, NEW y,
                    \/ \E v \in Ratios : v < x.ratio /\ y = [x EXCEPT !.ratio = v]
                    \/ \E v \in {"Low", "Medium", "High"} :
                         Worse(v, x.body) /\ y = [x EXCEPT !.body = v]
                    \/ \E v \in EventScores : v.score > x.event.score /\ y = [x EXCEPT !.event = v]
                    \/ \E v \in Chances : v < x.prob /\ y = [x EXCEPT !.prob = v]
                    \/ \E v \in Regime : Worse(v, x.regime) /\ y = [x EXCEPT !.regime = v]
             PROVE  /\ Rated(y) <= Rated(x)
                    /\ ~Worse(SafetyLabel(Rated(x)), SafetyLabel(Rated(y)))
                    /\ SuggestedDte(y.regime, y.event.score)
                         <= SuggestedDte(x.regime, x.event.score)
  BY Zenon DEF SafetyIsMonotone
<1>2. y \in Situations
  BY DEF Situations
<1>3. x \in Circumstances /\ y \in Circumstances
  BY <1>1, <1>2
<1>4. /\ x.prob \in Int /\ x.ratio \in Int /\ x.event.score \in Int
      /\ x.body \in {"Low", "Medium", "High"} /\ x.regime \in Regime
  <2>1. \A z \in Circumstances :
          /\ z.prob \in Int /\ z.ratio \in Nat /\ z.event.score \in Int
          /\ z.body \in {"Low", "Medium", "High"} /\ z.regime \in Regime
    BY DEF Circumstances
  <2>2. QED
    BY <1>3, <2>1
<1>5. /\ \A a, b \in {"Low", "Medium", "High"} : Worse(a, b) => ~Worse(b, a)
      /\ \A a, b \in Regime : Worse(a, b) => ~Worse(b, a)
      /\ \A a \in Regime \cup {"Low", "Medium", "High"} : ~Worse(a, a)
  BY DEF Worse, Regime
<1>6. NoBetter(y, x)
  <2>1. \A v \in EventScores : v.score \in Int
    <3>1. \A v \in EventScores : [x EXCEPT !.event = v] \in Situations
      BY DEF Situations
    <3>2. \A v \in EventScores : [x EXCEPT !.event = v] \in Circumstances
      BY <1>1, <3>1
    <3>3. \A v \in EventScores : [x EXCEPT !.event = v].event = v
      BY DEF Situations
    <3>4. \A z \in Circumstances : z.event.score \in Int
      BY DEF Circumstances
    <3>5. QED
      BY <3>2, <3>3, <3>4
  <2>2. /\ \A v \in Ratios : v \in Int
        /\ \A v \in Chances : v \in Int
    BY DEF Ratios, Chances
  <2>3. /\ \A v : [x EXCEPT !.ratio = v] = [prob |-> x.prob, ratio |-> v, body |-> x.body,
                                         event |-> x.event, regime |-> x.regime]
        /\ \A v : [x EXCEPT !.prob = v] = [prob |-> v, ratio |-> x.ratio, body |-> x.body,
                                        event |-> x.event, regime |-> x.regime]
        /\ \A v : [x EXCEPT !.body = v] = [prob |-> x.prob, ratio |-> x.ratio, body |-> v,
                                        event |-> x.event, regime |-> x.regime]
        /\ \A v : [x EXCEPT !.event = v] = [prob |-> x.prob, ratio |-> x.ratio, body |-> x.body,
                                         event |-> v, regime |-> x.regime]
        /\ \A v : [x EXCEPT !.regime = v] = [prob |-> x.prob, ratio |-> x.ratio, body |-> x.body,
                                          event |-> x.event, regime |-> v]
    BY DEF Situations
  <2>4. ASSUME NEW v \in Ratios, v < x.ratio, y = [x EXCEPT !.ratio = v] PROVE NoBetter(y, x)
    BY <1>4, <1>5, <2>2, <2>3, <2>4 DEF NoBetter
  <2>5. ASSUME NEW v \in {"Low", "Medium", "High"}, Worse(v, x.body), y = [x EXCEPT !.body = v]
        PROVE  NoBetter(y, x)
    BY <1>4, <1>5, <2>2, <2>3, <2>5 DEF NoBetter
  <2>6. ASSUME NEW v \in EventScores, v.score > x.event.score, y = [x EXCEPT !.event = v]
        PROVE  NoBetter(y, x)
    BY <1>4, <1>5, <2>1, <2>3, <2>6 DEF NoBetter
  <2>7. ASSUME NEW v \in Chances, v < x.prob, y = [x EXCEPT !.prob = v] PROVE NoBetter(y, x)
    BY <1>4, <1>5, <2>2, <2>3, <2>7 DEF NoBetter
  <2>8. ASSUME NEW v \in Regime, Worse(v, x.regime), y = [x EXCEPT !.regime = v]
        PROVE  NoBetter(y, x)
    BY <1>4, <1>5, <2>2, <2>3, <2>8 DEF NoBetter
  <2>9. QED
    BY <2>4, <2>5, <2>6, <2>7, <2>8
<1>7. QED
  BY <1>3, <1>6, SafetyFalls

-----------------------------------------------------------------------------
(* The history of a structure: outcomes that are counted and added up.      *)

\* What the simulator may say of one analog under a credit.
Fair(o, credit) ==
  /\ o.retained \in Int /\ 0 <= o.retained /\ o.retained <= 1000
  /\ o.lost => o.retained = 0
  /\ credit > 0 /\ ~o.lost => o.retained >= 550

\* The simulator says no more of one analog than is fair.
LEMMA OutcomesAreFair ==
  ASSUME NEW structure, structure.credit \in Nat, NEW close, NEW path,
         NEW o \in Outcome(structure, close, path)
  PROVE  Fair(o, structure.credit)
<1> DEFINE at == Scaled(structure, close)
           spot == structure.spot
           touched == \E k \in DOMAIN path :
                        LET away == path[k] * spot - at.body
                        IN 10 * Max({away, -away}) <= 4 * structure.wing * spot
           last == path[Len(path)]
           lost == at.low < last * spot /\ last * spot < at.high
           share == IF structure.credit = 0 \/ lost THEN 0 ELSE IF touched THEN 550 ELSE 1000
           row == [touched |-> touched, lost |-> lost, retained |-> share]
<1>1. o = row
  <2>1. Outcome(structure, close, path) = IF close <= 0 \/ path = <<>> THEN {} ELSE {row}
    BY Zenon DEF Outcome
  <2> HIDE DEF row
  <2>2. QED
    BY <2>1
<1> HIDE DEF touched, lost
<1>2. /\ o.lost = lost
      /\ o.retained = IF structure.credit = 0 \/ lost THEN 0 ELSE IF touched THEN 550 ELSE 1000
  BY <1>1
<1>3. CASE structure.credit = 0 \/ lost
  <2>1. o.retained = 0
    BY <1>2, <1>3, Zenon
  <2>2. ~(structure.credit > 0 /\ ~o.lost)
    <3>1. structure.credit = 0 => ~(structure.credit > 0)
      OBVIOUS
    <3>2. QED
      BY <1>2, <1>3, <3>1, Zenon
  <2>3. QED
    BY <2>1, <2>2 DEF Fair
<1>4. CASE ~(structure.credit = 0 \/ lost)
  <2>1. o.retained = 550 \/ o.retained = 1000
    BY <1>2, <1>4, Zenon
  <2>2. ~o.lost
    BY <1>2, <1>4, Zenon
  <2>3. QED
    BY <2>1, <2>2 DEF Fair
<1>5. QED
  BY <1>3, <1>4

\* For any structure and any number of analogs: each one that counts is a win or a loss, and
\* with a credit the share retained lies between 55 % and all of the share of the wins.
THEOREM AggregatesAddUp ==
  ASSUME NEW credit \in Nat, NEW outcomes, NEW n \in Nat, n = Len(outcomes),
         \A k \in 1 .. n : \A o \in outcomes[k] : Fair(o, credit)
  PROVE  /\ Aggregate(outcomes).n \in Nat /\ Aggregate(outcomes).n <= n
         /\ AddsUp(credit, Aggregate(outcomes))
<1> DEFINE valid == {k \in 1 .. Min({25, Len(outcomes)}) : outcomes[k] # {}}
           of == [k \in valid |-> AnyOf(outcomes[k])]
           won == {k \in valid : ~of[k].lost}
           lost == {k \in valid : of[k].lost}
           touched == {k \in valid : of[k].touched}
           kept == [k \in valid |-> of[k].retained]
           one == [k \in valid |-> IF k \in won THEN 1 ELSE 0]
           high == [k \in valid |-> 1000 * one[k]]
           low == [k \in valid |-> 550 * one[k]]
<1>1. /\ IsFiniteSet(valid) /\ Cardinality(valid) \in Nat /\ Cardinality(valid) <= n
      /\ valid \subseteq 1 .. n
  <2>1. Min({25, n}) \in Nat /\ Min({25, n}) <= n
    BY SmallerOfTwo
  <2>2. valid \subseteq 1 .. n
    BY <2>1
  <2> HIDE DEF valid
  <2>3. IsFiniteSet(1 .. n) /\ Cardinality(1 .. n) = n
    <3>1. 1 \in Int /\ n \in Int
      OBVIOUS
    <3>2. IsFiniteSet(1 .. n) /\ Cardinality(1 .. n) = IF 1 > n THEN 0 ELSE n - 1 + 1
      BY <3>1, FS_Interval
    <3>3. QED
      BY <3>2
  <2>4. QED
    BY <2>2, <2>3, FS_Subset, FS_CardinalityType
<1>2. \A k \in valid : of[k] \in outcomes[k]
  <2>1. \A k \in valid : \E o : o \in outcomes[k]
    OBVIOUS
  <2>2. QED
    BY <2>1 DEF AnyOf
<1>3. \A k \in valid : Fair(of[k], credit)
  <2> HIDE DEF valid, of
  <2>1. QED
    BY <1>1, <1>2
<1> HIDE DEF valid, of
<1>4. /\ won \subseteq valid /\ lost \subseteq valid /\ touched \subseteq valid
      /\ won \cup lost = valid /\ won \cap lost = {}
  BY Zenon
<1> HIDE DEF won, lost, touched
<1>5. /\ IsFiniteSet(won) /\ IsFiniteSet(lost) /\ IsFiniteSet(touched)
      /\ Cardinality(won) \in Nat /\ Cardinality(lost) \in Nat /\ Cardinality(touched) \in Nat
      /\ Cardinality(touched) <= Cardinality(valid)
      /\ Cardinality(won) + Cardinality(lost) = Cardinality(valid)
  <2>1. /\ IsFiniteSet(won) /\ IsFiniteSet(lost) /\ IsFiniteSet(touched)
        /\ Cardinality(touched) <= Cardinality(valid)
    BY <1>1, <1>4, FS_Subset
  <2>2. Cardinality(won) \in Nat /\ Cardinality(lost) \in Nat /\ Cardinality(touched) \in Nat
    BY <2>1, FS_CardinalityType
  <2>3. Cardinality(won \cup lost) = Cardinality(won) + Cardinality(lost) - Cardinality(won \cap lost)
    BY <2>1, FS_Union
  <2>4. Cardinality(won \cap lost) = 0
    BY <1>4, FS_EmptySet
  <2>5. Cardinality(valid) = Cardinality(won) + Cardinality(lost) - 0
    BY <1>4, <2>3, <2>4
  <2>6. QED
    BY <2>1, <2>2, <2>5
<1>6. /\ \A k \in valid : one[k] \in Int /\ kept[k] \in Int /\ low[k] \in Int /\ high[k] \in Int
      /\ \A k \in valid : kept[k] <= high[k]
      /\ credit > 0 => \A k \in valid : low[k] <= kept[k]
  <2> SUFFICES ASSUME NEW k \in valid
               PROVE  /\ one[k] \in Int /\ kept[k] \in Int /\ low[k] \in Int /\ high[k] \in Int
                      /\ kept[k] <= high[k]
                      /\ credit > 0 => low[k] <= kept[k]
    OBVIOUS
  <2>1. Fair(of[k], credit) /\ kept[k] = of[k].retained
    BY <1>3
  <2>2. /\ k \in won => ~of[k].lost /\ one[k] = 1
        /\ k \notin won => of[k].lost /\ one[k] = 0
    BY Zenon DEF won
  <2>3. low[k] = 550 * one[k] /\ high[k] = 1000 * one[k]
    OBVIOUS
  <2> HIDE DEF kept, one, low, high
  <2>4. CASE k \in won
    <3>1. /\ one[k] = 1 /\ kept[k] \in Int /\ kept[k] <= 1000
          /\ credit > 0 => 550 <= kept[k]
      BY <2>1, <2>2, <2>4 DEF Fair
    <3>2. QED
      BY <2>3, <3>1
  <2>5. CASE k \notin won
    <3>1. one[k] = 0 /\ kept[k] = 0
      BY <2>1, <2>2, <2>5 DEF Fair
    <3>2. low[k] = 0 /\ high[k] = 0
      BY <2>3, <3>1
    <3>3. QED
      BY <3>1, <3>2
  <2>6. QED
    BY <2>4, <2>5
<1>7. SumOver(one, valid) = Cardinality(won)
  <2>1. \A k \in valid : one[k] = IF k \in won THEN 1 ELSE 0
    OBVIOUS
  <2> HIDE DEF one
  <2>2. QED
    BY <1>1, <1>4, <2>1, SizeAsSum
<1>8. /\ SumOver(high, valid) = 1000 * Cardinality(won)
      /\ SumOver(low, valid) = 550 * Cardinality(won)
  <2>1. \A k \in valid : /\ one[k] \in Int /\ high[k] = 1000 * one[k]
                         /\ low[k] = 550 * one[k]
    BY <1>6
  <2> HIDE DEF one, high, low
  <2>2. PICK p, q \in Int : p = 1000 /\ q = 550
    OBVIOUS
  <2>3. \A k \in valid : one[k] \in Int /\ high[k] = p * one[k] /\ low[k] = q * one[k]
    BY <2>1, <2>2
  <2>4. SumOver(high, valid) = p * SumOver(one, valid)
    BY <1>1, <2>3, SumsScale
  <2>5. SumOver(low, valid) = q * SumOver(one, valid)
    BY <1>1, <2>3, SumsScale
  <2>6. QED
    BY <1>7, <2>2, <2>4, <2>5
<1> HIDE DEF one, high, low
<1>9. /\ SumOver(kept, valid) <= SumOver(high, valid)
      /\ credit > 0 => SumOver(low, valid) <= SumOver(kept, valid)
  <2> HIDE DEF kept
  <2>1. QED
    BY <1>1, <1>6, SumsCompare
<1>10. SumOver(kept, valid) \in Int
  <2> HIDE DEF kept
  <2>1. QED
    BY <1>1, <1>6, SumIsInt
<1>11. Aggregate(outcomes)
         = IF valid = {} THEN Nothing
           ELSE [n |-> Cardinality(valid), wins |-> Cardinality(won), losses |-> Cardinality(lost),
                 touches |-> Cardinality(touched), retained |-> SumOver(kept, valid)]
  BY Zenon DEF Aggregate, valid, of, won, lost, touched
<1> HIDE DEF kept
<1>12. CASE valid = {}
  BY <1>11, <1>12 DEF Nothing, AddsUp
<1>13. CASE valid # {}
  <2>1. /\ Aggregate(outcomes).n = Cardinality(valid) /\ Aggregate(outcomes).wins = Cardinality(won)
        /\ Aggregate(outcomes).losses = Cardinality(lost)
        /\ Aggregate(outcomes).touches = Cardinality(touched)
        /\ Aggregate(outcomes).retained = SumOver(kept, valid)
    BY <1>11, <1>13
  <2>2. QED
    BY <1>1, <1>5, <1>8, <1>9, <1>10, <2>1 DEF AddsUp
<1>14. QED
  BY <1>12, <1>13

\* The aggregates of two outcomes that a run checks are such a case.
LEMMA AggregatesOfTwoAddUp == AnalogsAddUp
<1>1. ASSUME NEW structure \in Structures, NEW a \in Outcomes(structure),
             NEW b \in Outcomes(structure)
      PROVE  /\ AddsUp(structure.credit, Aggregate(<<a, {}, b>>))
             /\ \A shown \in Explain(3, Aggregate(<<a, {}, b>>)) : shown.warned
  <2> DEFINE outcomes == <<a, {}, b>>
             sum == Aggregate(outcomes)
             small == sum.n < 8
  <2>1. structure.credit \in Nat
    BY DEF Structures
  <2>2. \A o \in a \cup b : Fair(o, structure.credit)
    <3>1. \A c \in Outcomes(structure) : \A o \in c : Fair(o, structure.credit)
      BY <2>1, OutcomesAreFair DEF Outcomes
    <3>2. QED
      BY <3>1
  <2>3. PICK n \in Nat : n = 3
    OBVIOUS
  <2>4. n = Len(outcomes) /\ \A k \in 1 .. n : \A o \in outcomes[k] : Fair(o, structure.credit)
    <3>1. outcomes[1] = a /\ outcomes[2] = {} /\ outcomes[3] = b /\ Len(outcomes) = 3
      OBVIOUS
    <3> HIDE DEF outcomes
    <3>2. QED
      BY <2>2, <2>3, <3>1
  <2> HIDE DEF outcomes
  <2>5. sum.n \in Nat /\ sum.n <= n /\ AddsUp(structure.credit, sum)
    BY <2>1, <2>4, AggregatesAddUp, Zenon
  <2>6. small = TRUE
    <3> HIDE DEF sum
    <3>1. QED
      BY <2>3, <2>5
  <2> HIDE DEF small
  <2>7. \A shown \in Explain(3, sum) : shown.warned
    <3>1. \A shown \in Explain(3, sum) : shown = [shown |-> Min({10, 3}), warned |-> small]
      BY DEF Explain, small
    <3>2. \A shown \in Explain(3, sum) : shown.warned = small
      BY <3>1
    <3>3. QED
      BY <2>6, <3>2
  <2>8. QED
    BY <2>5, <2>7 DEF sum, outcomes
<1>2. QED
  BY <1>1, Zenon DEF AnalogsAddUp

-----------------------------------------------------------------------------
(* The analogs: however the searches overlap, the best of them are listed.  *)

\* The rows the searches can list.
Found == [key : Keys, reason : {"exact_event_type", "earnings_beat_sell_off", "sector_rotation",
                                "semantic"}, score : {n \in Nat : n <= 100}]

\* A result lists a story once.
Single(S) ==
  /\ S \subseteq Found /\ IsFiniteSet(S)
  /\ \A c \in S, d \in S : c.key = d.key => c = d

\* Every story of T is in S, with no lower score.
Covers(S, T) == \A a \in T : \E c \in S : c.key = a.key /\ c.score >= a.score

\* What a row is made of, also with another score.
LEMMA FoundHasFields ==
  ASSUME NEW c \in Found
  PROVE  /\ c.key \in Keys /\ c.score \in Nat /\ c.score <= 100
         /\ \A s : [c EXCEPT !.score = s].key = c.key /\ [c EXCEPT !.score = s].score = s
         /\ \A s \in Nat : s <= 100 => [c EXCEPT !.score = s] \in Found
BY DEF Found

\* What covers a list covers what the list covers.
LEMMA CoversCovers ==
  ASSUME NEW R \in SUBSET Found, NEW S \in SUBSET Found, NEW T \in SUBSET Found,
         Covers(R, S), Covers(S, T)
  PROVE  Covers(R, T)
<1> SUFFICES ASSUME NEW a \in T PROVE \E c \in R : c.key = a.key /\ c.score >= a.score
  BY DEF Covers
<1>1. PICK b \in S : b.key = a.key /\ b.score >= a.score
  BY DEF Covers
<1>2. PICK c \in R : c.key = b.key /\ c.score >= b.score
  BY DEF Covers
<1>3. a.score \in Nat /\ b.score \in Nat /\ c.score \in Nat
  BY FoundHasFields
<1>4. QED
  BY <1>1, <1>2, <1>3

\* A detector lists a story once.
LEMMA DetectIsSingle ==
  ASSUME NEW corpus, DOMAIN corpus = Keys,
         NEW reason \in {"earnings_beat_sell_off", "sector_rotation"}
  PROVE  Single(Detect(corpus, reason))
<1> DEFINE worth == IF reason = "earnings_beat_sell_off" THEN 85 ELSE 70
           row == [k \in Keys |-> [key |-> k, reason |-> reason, score |-> worth]]
<1>1. \A c \in Detect(corpus, reason) : \E k \in Keys : c = row[k]
  BY DEF Detect
<1>2. \A k \in Keys : row[k] \in Found /\ row[k].key = k
  BY DEF Found
<1> HIDE DEF row
<1>3. IsFiniteSet({row[k] : k \in Keys})
  BY AnalogAssumption, ImageIsFinite
<1>4. Detect(corpus, reason) \subseteq {row[k] : k \in Keys}
  BY <1>1
<1>5. IsFiniteSet(Detect(corpus, reason))
  BY <1>3, <1>4, FS_Subset
<1>6. QED
  BY <1>1, <1>2, <1>5 DEF Single

\* The rows of a detector and those before are merged without losing a story.
LEMMA OverrideCovers ==
  ASSUME NEW found, NEW old, Single(found), Single(old)
  PROVE  /\ Single(Override(found, old))
         /\ Covers(Override(found, old), found) /\ Covers(Override(found, old), old)
<1> DEFINE S == Override(found, old)
<1>1. \A c \in found \cup old : c \in Found /\ c.score \in Nat
  BY FoundHasFields DEF Single
<1>2. \A c : c \in S <=> \/ c \in found /\ \A d \in old : d.key = c.key => d.score < c.score
                         \/ c \in old /\ \A d \in found : d.key = c.key => d.score <= c.score
  BY DEF Override
<1> HIDE DEF S
<1>3. \A c \in found, d \in found : c.key = d.key => c = d
  BY DEF Single
<1>4. \A c \in old, d \in old : c.key = d.key => c = d
  BY DEF Single
<1>5. Single(S)
  <2>1. S \subseteq found \cup old
    BY <1>2
  <2>2. IsFiniteSet(found \cup old)
    BY FS_Union DEF Single
  <2>3. IsFiniteSet(S)
    BY <2>1, <2>2, FS_Subset
  <2>4. ASSUME NEW c \in S, NEW d \in S, c.key = d.key PROVE c = d
    BY <1>1, <1>2, <1>3, <1>4, <2>4
  <2>5. QED
    BY <1>1, <2>1, <2>3, <2>4 DEF Single
<1>6. ASSUME NEW a \in found PROVE \E c \in S : c.key = a.key /\ c.score >= a.score
  <2>1. CASE \A d \in old : d.key = a.key => d.score < a.score
    BY <1>1, <1>2, <2>1
  <2>2. CASE \E d \in old : d.key = a.key /\ ~(d.score < a.score)
    <3>1. PICK d \in old : d.key = a.key /\ ~(d.score < a.score)
      BY <2>2
    <3>2. d.score >= a.score
      BY <1>1, <3>1
    <3>3. \A f \in found : f.key = d.key => f.score <= d.score
      BY <1>3, <3>1, <3>2
    <3>4. QED
      BY <1>2, <3>1, <3>2, <3>3
  <2>3. QED
    BY <2>1, <2>2
<1>7. ASSUME NEW a \in old PROVE \E c \in S : c.key = a.key /\ c.score >= a.score
  <2>1. CASE \A d \in found : d.key = a.key => d.score <= a.score
    BY <1>1, <1>2, <2>1
  <2>2. CASE \E d \in found : d.key = a.key /\ ~(d.score <= a.score)
    <3>1. PICK d \in found : d.key = a.key /\ ~(d.score <= a.score)
      BY <2>2
    <3>2. a.score < d.score /\ d.score >= a.score
      BY <1>1, <3>1
    <3>3. \A f \in old : f.key = d.key => f.score < d.score
      BY <1>4, <3>1, <3>2
    <3>4. QED
      BY <1>2, <3>1, <3>2, <3>3
  <2>3. QED
    BY <2>1, <2>2
<1>8. QED
  BY <1>5, <1>6, <1>7 DEF Covers, S

\* One neighbour more loses no story either, and lists none twice.
LEMMA MetCovers ==
  ASSUME NEW old, Single(old), NEW d \in Found
  PROVE  Single(Met(old, d)) /\ Covers(Met(old, d), old)
<1> DEFINE same == {c \in old : c.key = d.key}
           up == [c \in same |-> [c EXCEPT !.score = Min({100, @ + 15})]]
<1>1. /\ old \subseteq Found /\ IsFiniteSet(old)
      /\ \A c \in old, e \in old : c.key = e.key => c = e
  BY DEF Single
<1>2. \A c \in old : c.score \in Nat /\ c.score <= 100 /\ c \in Found
  BY <1>1, FoundHasFields
<1>3. CASE same = {}
  <2>1. Met(old, d) = old \cup {d}
    BY <1>3, Zenon DEF Met
  <2>2. IsFiniteSet(old \cup {d})
    BY <1>1, FS_AddElement
  <2>3. \A c \in old : c.key # d.key
    BY <1>3
  <2>4. Single(old \cup {d})
    BY <1>1, <2>2, <2>3 DEF Single
  <2>5. Covers(old \cup {d}, old)
    BY <1>2 DEF Covers
  <2>6. QED
    BY <2>1, <2>4, <2>5
<1>4. CASE same # {}
  <2>1. Met(old, d) = (old \ same) \cup {up[c] : c \in same}
    <3>1. Met(old, d) = (old \ same) \cup {[c EXCEPT !.score = Min({100, @ + 15})] : c \in same}
      BY <1>4, Zenon DEF Met
    <3>2. \A c \in same : up[c] = [c EXCEPT !.score = Min({100, @ + 15})]
      OBVIOUS
    <3> HIDE DEF up, same
    <3>3. QED
      BY <3>1, <3>2
  <2>2. ASSUME NEW c \in same
        PROVE  up[c] \in Found /\ up[c].key = c.key /\ up[c].score \in Nat /\ up[c].score >= c.score
    <3> DEFINE s == Min({100, c.score + 15})
    <3>1. c \in Found /\ c.score \in Nat /\ c.score <= 100
      BY <1>2
    <3>2. s \in Nat /\ s <= 100 /\ s >= c.score
      BY <3>1, SmallerOfTwo
    <3>3. up[c] = [c EXCEPT !.score = s]
      OBVIOUS
    <3> HIDE DEF s, up
    <3>4. QED
      BY <3>1, <3>2, <3>3, FoundHasFields
  <2>3. \A c \in same, e \in same : c = e
    BY <1>1
  <2>4. \A c \in old \ same : c.key # d.key
    OBVIOUS
  <2>5. \A c \in same : c.key = d.key /\ c \in old
    OBVIOUS
  <2> DEFINE upped == {up[c] : c \in same}
  <2>6. IsFiniteSet((old \ same) \cup upped)
    <3>1. IsFiniteSet(same) /\ IsFiniteSet(old \ same)
      BY <1>1, FS_Subset
    <3> HIDE DEF same, up
    <3>2. IsFiniteSet(upped)
      BY <3>1, ImageIsFinite
    <3>3. QED
      BY <3>1, <3>2, FS_Union
  <2>7. \A e \in upped : /\ e \in Found /\ e.key = d.key
                         /\ \A f \in upped : e = f
    <3> HIDE DEF up, same
    <3>1. QED
      BY <2>2, <2>3, <2>5
  <2>8. old \ same \subseteq old
    OBVIOUS
  <2>9. Single((old \ same) \cup upped)
    <3> HIDE DEF same, upped
    <3>1. QED
      BY <1>1, <2>4, <2>6, <2>7, <2>8 DEF Single
  <2>10. Covers((old \ same) \cup upped, old)
    <3> SUFFICES ASSUME NEW a \in old
                 PROVE  \E c \in (old \ same) \cup upped : c.key = a.key /\ c.score >= a.score
      BY DEF Covers
    <3>1. CASE a \in same
      <4> HIDE DEF up, same
      <4>1. QED
        BY <2>2, <3>1
    <3>2. CASE a \notin same
      BY <1>2, <3>2
    <3>3. QED
      BY <3>1, <3>2
  <2>11. QED
    BY <2>1, <2>9, <2>10
<1>5. QED
  BY <1>3, <1>4

\* Any number of neighbours loses no story, and lists none twice.
LEMMA BoostedCovers ==
  ASSUME NEW old, Single(old), NEW near \in Seq(Found)
  PROVE  Single(Boosted(old, near)) /\ Covers(Boosted(old, near), old)
<1> DEFINE n == Len(near)
           Single0 == {S \in SUBSET Found : Single(S)}
           IsAfter(h) == h = [k \in 0 .. n |-> IF k = 0 THEN old ELSE Met(h[k - 1], near[k])]
           step == [k \in 1 .. n |-> [S \in Single0 |-> Met(S, near[k])]]
<1>1. n \in Nat /\ \A k \in 1 .. n : near[k] \in Found
  OBVIOUS
<1>2. old \in Single0 /\ \A S \in Single0 : Single(S)
  BY DEF Single
<1>3. \A k \in 1 .. n : \A S \in Single0 : Met(S, near[k]) \in Single0 /\ Covers(Met(S, near[k]), S)
  <2> SUFFICES ASSUME NEW k \in 1 .. n, NEW S \in Single0
               PROVE  Met(S, near[k]) \in Single0 /\ Covers(Met(S, near[k]), S)
    OBVIOUS
  <2>1. Single(Met(S, near[k])) /\ Covers(Met(S, near[k]), S)
    BY <1>1, MetCovers
  <2>2. QED
    BY <2>1 DEF Single
<1>4. step \in [1 .. n -> [Single0 -> Single0]]
  <2> HIDE DEF Single0, n
  <2>1. QED
    BY <1>3
<1>5. PICK g : IsFold(g, n, Single0, old, step)
  <2> HIDE DEF Single0, n, step
  <2>1. QED
    BY <1>1, <1>2, <1>4, Folding
<1>6. /\ g \in [0 .. n -> Single0] /\ g[0] = old
      /\ \A k \in 1 .. n : g[k] = Met(g[k - 1], near[k])
  <2>1. g \in [0 .. n -> Single0] /\ g[0] = old /\ \A k \in 1 .. n : g[k] = step[k][g[k - 1]]
    BY <1>5 DEF IsFold
  <2>2. \A k \in 1 .. n : g[k - 1] \in Single0
    BY <1>1, <2>1
  <2> HIDE DEF Single0, n
  <2>3. \A k \in 1 .. n : step[k][g[k - 1]] = Met(g[k - 1], near[k])
    BY <2>2
  <2>4. QED
    BY <2>1, <2>3
<1>7. IsAfter(g)
  <2> HIDE DEF Single0, n
  <2>1. g = [k \in 0 .. n |-> g[k]]
    BY <1>6
  <2>2. \A k \in 0 .. n : g[k] = IF k = 0 THEN old ELSE Met(g[k - 1], near[k])
    BY <1>1, <1>6
  <2> HIDE DEF step
  <2>3. QED
    BY <2>1, <2>2
<1> DEFINE h == CHOOSE h : IsAfter(h)
<1>8. IsAfter(h) /\ Boosted(old, near) = h[n]
  <2>1. IsAfter(h)
    <3> HIDE DEF IsAfter
    <3>1. QED
      BY <1>7
  <2>2. Boosted(old, near) = h[n]
    BY Zenon DEF Boosted
  <2>3. QED
    BY <2>1, <2>2
<1>9. /\ h[0] = old
      /\ \A k \in 1 .. n : h[k] = Met(h[k - 1], near[k])
  <2> HIDE DEF h, n
  <2>1. \A k \in 0 .. n : h[k] = IF k = 0 THEN old ELSE Met(h[k - 1], near[k])
    BY <1>8
  <2>2. QED
    BY <1>1, <2>1
<1> HIDE DEF h, IsAfter, step
<1> DEFINE Fine == {k \in Nat : k <= n => h[k] \in Single0 /\ Covers(h[k], old)}
<1>10. 0 \in Fine
  <2>1. Covers(old, old)
    BY FoundHasFields DEF Covers, Single
  <2>2. QED
    BY <1>2, <1>9, <2>1
<1>11. ASSUME NEW k \in Nat, k \in Fine PROVE k + 1 \in Fine
  <2> SUFFICES ASSUME k + 1 <= n PROVE h[k + 1] \in Single0 /\ Covers(h[k + 1], old)
    OBVIOUS
  <2>1. k + 1 \in 1 .. n /\ h[k] \in Single0 /\ Covers(h[k], old)
    BY <1>1, <1>11
  <2>2. h[k + 1] = Met(h[k], near[k + 1])
    BY <1>1, <1>9, <2>1
  <2>3. h[k + 1] \in Single0 /\ Covers(h[k + 1], h[k])
    BY <1>3, <2>1, <2>2
  <2>4. h[k] \in SUBSET Found /\ h[k + 1] \in SUBSET Found /\ old \in SUBSET Found
    BY <1>2, <2>1, <2>3
  <2>5. QED
    BY <2>1, <2>3, <2>4, CoversCovers
<1> HIDE DEF Fine
<1>12. n \in Fine
  BY <1>1, <1>10, <1>11, Induction
<1>13. QED
  BY <1>1, <1>2, <1>8, <1>12 DEF Fine

\* The rows of the same event, before any pattern.
OfEvents(exact) == {[key |-> k, reason |-> "exact_event_type", score |-> 40] : k \in exact}

\* The rows of the same event list a story once.
LEMMA EventsAreSingle ==
  ASSUME NEW exact \in SUBSET Keys
  PROVE  Single(OfEvents(exact))
<1> DEFINE row == [k \in Keys |-> [key |-> k, reason |-> "exact_event_type", score |-> 40]]
<1>1. \A c \in OfEvents(exact) : \E k \in Keys : c = row[k]
  BY DEF OfEvents
<1>2. \A k \in Keys : row[k] \in Found /\ row[k].key = k
  BY DEF Found
<1> HIDE DEF row
<1>3. IsFiniteSet({row[k] : k \in Keys})
  BY AnalogAssumption, ImageIsFinite
<1>4. OfEvents(exact) \subseteq {row[k] : k \in Keys}
  BY <1>1
<1>5. IsFiniteSet(OfEvents(exact))
  BY <1>3, <1>4, FS_Subset
<1>6. QED
  BY <1>1, <1>2, <1>5 DEF Single

\* Without neighbours nothing is boosted.
LEMMA NothingNear ==
  ASSUME NEW old
  PROVE  Boosted(old, <<>>) = old
<1> DEFINE IsAfter(h) == h = [k \in 0 .. 0 |-> IF k = 0 THEN old ELSE Met(h[k - 1], <<>>[k])]
           h == CHOOSE h : IsAfter(h)
<1>1. Len(<<>>) = 0
  OBVIOUS
<1>2. IsAfter([k \in 0 .. 0 |-> old])
  OBVIOUS
<1>3. IsAfter(h)
  <2> HIDE DEF IsAfter
  <2>1. QED
    BY <1>2
<1>4. Boosted(old, <<>>) = h[0]
  BY <1>1, Zenon DEF Boosted
<1>5. h[0] = old
  <2> HIDE DEF h
  <2>1. QED
    BY <1>3
<1>6. QED
  BY <1>4, <1>5

\* A corpus without hints has no pattern.
LEMMA NothingDetected ==
  ASSUME NEW reason \in {"earnings_beat_sell_off", "sector_rotation"}
  PROVE  Detect([k \in Keys |-> {}], reason) = {}
BY DEF Detect

\* A detector that finds nothing changes nothing, and nothing is changed by it.
LEMMA OverridingNothing ==
  ASSUME NEW old
  PROVE  Override({}, old) = old /\ Override(old, {}) = old
BY DEF Override

\* However many neighbours the vectors have, and however the searches overlap, the blend
\* lists every story once, no lower than the events or the patterns alone rank it.
THEOREM BlendKeepsTheBest ==
  ASSUME NEW exact \in SUBSET Keys, NEW corpus \in Corpora, NEW near \in Seq(Found)
  PROVE  ListsTheBest(exact, corpus, near)
<1> DEFINE E == OfEvents(exact)
           sold == Detect(corpus, "earnings_beat_sell_off")
           rotated == Detect(corpus, "sector_rotation")
           first == Override(sold, E)
           second == Override(rotated, first)
           all == Candidates(exact, corpus, near)
           bare == [k \in Keys |-> {}]
<1>1. DOMAIN corpus = Keys
  BY DEF Corpora
<1>2. Single(E) /\ Single(sold) /\ Single(rotated) /\ Single({})
  BY <1>1, EventsAreSingle, DetectIsSingle, FS_EmptySet DEF Single
<1>3. /\ Single(first) /\ Covers(first, sold) /\ Covers(first, E)
      /\ Single(second) /\ Covers(second, rotated) /\ Covers(second, first)
  <2> HIDE DEF E, sold, rotated
  <2>1. Single(first) /\ Covers(first, sold) /\ Covers(first, E)
    BY <1>2, OverrideCovers
  <2> HIDE DEF first
  <2>2. QED
    BY <1>2, <2>1, OverrideCovers
<1>4. all = Boosted(second, near)
  BY Zenon DEF Candidates, OfEvents
<1>5. Single(all) /\ Covers(all, second)
  <2> HIDE DEF all, second
  <2>1. QED
    BY <1>3, <1>4, BoostedCovers
<1>6. Candidates(exact, bare, <<>>) = E
  <2>1. Candidates(exact, bare, <<>>)
          = Boosted(Override(Detect(bare, "sector_rotation"),
                             Override(Detect(bare, "earnings_beat_sell_off"), E)), <<>>)
    BY Zenon DEF Candidates, OfEvents
  <2>2. Detect(bare, "sector_rotation") = {} /\ Detect(bare, "earnings_beat_sell_off") = {}
    BY NothingDetected
  <2> HIDE DEF E, bare
  <2>3. Override({}, E) = E /\ Boosted(E, <<>>) = E
    BY OverridingNothing, NothingNear
  <2>4. QED
    BY <2>1, <2>2, <2>3
<1> DEFINE patterns == Override(rotated, sold)
<1>7. Candidates({}, corpus, <<>>) = patterns
  <2>1. Candidates({}, corpus, <<>>)
          = Boosted(Override(rotated, Override(sold, OfEvents({}))), <<>>)
    BY Zenon DEF Candidates, OfEvents
  <2>2. OfEvents({}) = {}
    BY DEF OfEvents
  <2> HIDE DEF sold, rotated
  <2>3. Override(sold, {}) = sold
    BY OverridingNothing
  <2>4. Boosted(patterns, <<>>) = patterns
    BY NothingNear
  <2>5. QED
    BY <2>1, <2>2, <2>3, <2>4
<1>8. all \subseteq Found /\ E \subseteq Found /\ sold \subseteq Found /\ rotated \subseteq Found
      /\ first \subseteq Found /\ second \subseteq Found
  BY <1>2, <1>3, <1>5 DEF Single
<1>9. patterns \subseteq sold \cup rotated
  <2> HIDE DEF sold, rotated
  <2>1. QED
    BY DEF Override
<1> HIDE DEF E, sold, rotated, first, second, patterns, bare, all
<1>10. Covers(all, E) /\ Covers(all, sold) /\ Covers(all, rotated)
  <2>1. Covers(second, E) /\ Covers(second, sold)
    BY <1>3, <1>8, CoversCovers
  <2>2. QED
    BY <1>3, <1>5, <1>8, <2>1, CoversCovers
<1>11. \A c \in all : c.score \in Nat /\ c.score <= 100 /\ c.key \in Keys
  BY <1>8, FoundHasFields
<1>12. \A a \in E \cup patterns :
         \E c \in all : c.key = a.key /\ c.score >= a.score /\ c.score <= 100
  BY <1>9, <1>10, <1>11 DEF Covers
<1>13. \A c \in all, d \in all : c.key = d.key => c = d
  BY <1>5 DEF Single
<1>14. ASSUME NEW c \in all, "selloff" \in corpus[c.key] /\ "earnings" \in corpus[c.key]
       PROVE  c.score >= 85
  <2> DEFINE a == [key |-> c.key, reason |-> "earnings_beat_sell_off", score |-> 85]
  <2>1. c.key \in {k \in DOMAIN corpus : {"earnings", "selloff"} \subseteq corpus[k]}
    BY <1>1, <1>11, <1>14
  <2>2. a \in sold
    BY <2>1 DEF Detect, sold
  <2>3. a.key = c.key /\ a.score = 85
    OBVIOUS
  <2> HIDE DEF a
  <2>4. PICK d \in all : d.key = a.key /\ d.score >= a.score
    BY <1>10, <2>2 DEF Covers
  <2>5. QED
    BY <1>13, <2>3, <2>4
<1>15. ASSUME NEW kept \in Ranked(all, 1)
       PROVE  kept \subseteq Best(all)
  <2>1. /\ kept \subseteq all /\ Cardinality(kept) = Min({1, Cardinality(all)})
        /\ \A a \in kept, b \in all \ kept : a.score >= b.score
    BY DEF Ranked
  <2>2. IsFiniteSet(all) /\ IsFiniteSet(kept)
    BY <1>5, <2>1, FS_Subset DEF Single
  <2>3. Cardinality(all) \in Nat /\ Cardinality(kept) \in Nat
    BY <2>2, FS_CardinalityType
  <2>4. Cardinality(kept) <= 1
    BY <2>1, <2>3, SmallerOfTwo
  <2>5. \A a \in kept, b \in kept : a = b
    <3> SUFFICES ASSUME NEW a \in kept, NEW b \in kept, a # b PROVE FALSE
      OBVIOUS
    <3>1. IsFiniteSet(kept \ {a}) /\ Cardinality(kept \ {a}) = Cardinality(kept) - 1
      BY <2>2, FS_RemoveElement
    <3>2. Cardinality(kept \ {a}) \in Nat
      BY <3>1, FS_CardinalityType
    <3>3. Cardinality(kept \ {a}) = 0
      BY <2>3, <2>4, <3>1, <3>2
    <3>4. kept \ {a} = {}
      BY <3>1, <3>3, FS_EmptySet
    <3>5. QED
      BY <3>4
  <2>6. QED
    BY <1>11, <2>1, <2>5 DEF Best
<1>16. QED
  BY <1>6, <1>7, <1>12, <1>13, <1>14, <1>15 DEF ListsTheBest, all, bare

\* The searches a run checks, with up to two neighbours, are such a case.
LEMMA AnalogsOfTwoSearches == AnalogsAreTheBest
<1> SUFFICES ASSUME NEW exact \in SUBSET Keys, NEW corpus \in Corpora,
                    NEW close \in UNION {[1 .. n -> Keys] : n \in 0 .. 2}
             PROVE  ListsTheBest(exact, corpus,
                      [k \in DOMAIN close |->
                         [key |-> close[k], reason |-> "semantic", score |-> 90]])
  BY Zenon DEF AnalogsAreTheBest
<1> DEFINE near == [k \in DOMAIN close |-> [key |-> close[k], reason |-> "semantic", score |-> 90]]
<1>1. PICK n \in 0 .. 2 : close \in [1 .. n -> Keys]
  <2> HIDE DEF near
  <2>1. QED
    BY Zenon
<1>2. \A k \in DOMAIN close : near[k] \in Found
  BY <1>1 DEF Found
<1>3. DOMAIN near = 1 .. n /\ near = [k \in 1 .. n |-> near[k]]
  BY <1>1
<1> HIDE DEF near
<1>4. near \in [1 .. n -> Found]
  BY <1>1, <1>2, <1>3
<1>5. near \in Seq(Found)
  BY <1>4
<1>6. QED
  BY <1>5, BlendKeepsTheBest DEF near

\* What the run checks of the options block and of its history holds for all geometries,
\* situations and searches it ranges over: the value fits the loss, the breakevens lie inside
\* the wings, the score falls as circumstances get worse; the analogs are the best found and
\* add up.  The theorems before say so of every value; none of them relates the loss of the
\* block to that of the history.
THEOREM BlocksStaySound == Spec => []BlocksAreSound
<1>1. BlocksAreSound
  BY ValuesOfGeometriesFit, BreakevensOfWingsLieInside, SafetyOfSituationsFalls,
     AnalogsOfTwoSearches, AggregatesOfTwoAddUp DEF BlocksAreSound
<1>2. QED
  BY <1>1, PTL

-----------------------------------------------------------------------------
(* The two cards.                                                          *)

\* The higher of two levels is one of them and no lower than either.
LEMMA HigherIsHigher ==
  ASSUME NEW a \in Level, NEW b \in Level
  PROVE  Higher(a, b) \in Level /\ Higher(a, a) = a /\ Higher(Higher(a, b), a) = Higher(a, b)
BY DEF Level, Higher, Height

\* Without an answer of the council, whatever the score of a block and the uncertainty of the
\* desks: the card and the summary take the same decision, and the summary claims no less risk.
THEOREM SummariesFollowCards ==
  ASSUME NEW x, NEW r, x.score \in Int, x.label = SafetyLabel(x.score), r.mapped = "none"
  PROVE  CardsAgree(x, r)
<1> DEFINE c == Card(x, r)
           e == Executive(x, r)
           own == IF x.score >= 700 THEN "Low" ELSE IF x.score >= 400 THEN "Medium" ELSE "High"
<1>1. c.score = (x.score + 5) \div 10 /\ c.risk = own
  BY DEF Card
<1>2. e.decision = DecisionOf(x.label, "none") /\ e.risk = RiskOf(x.label, r.uncertainty)
  BY DEF Executive
<1>3. DecisionOf(x.label, "none")
        = IF x.score >= 700 THEN "SAFE" ELSE IF x.score >= 400 THEN "WATCH" ELSE "AVOID"
  BY DEF DecisionOf, SafetyLabel
<1> HIDE DEF c, e
<1>4. FallbackDecision(c)
        = IF x.score >= 700 THEN "Enter" ELSE IF x.score >= 400 THEN "Wait" ELSE "Avoid"
  <2>1. CASE x.score >= 700
    BY <1>1, <2>1 DEF FallbackDecision
  <2>2. CASE x.score < 700 /\ x.score >= 400
    BY <1>1, <2>2 DEF FallbackDecision
  <2>3. CASE x.score < 400
    BY <1>1, <2>3 DEF FallbackDecision
  <2>4. QED
    BY <2>1, <2>2, <2>3
<1>5. e.decision = [Enter |-> "SAFE", Wait |-> "WATCH", Avoid |-> "AVOID"][FallbackDecision(c)]
  BY <1>2, <1>3, <1>4
<1>6. RiskOf(x.label, r.uncertainty)
        = IF r.uncertainty \in Level THEN Higher(own, r.uncertainty) ELSE own
  BY DEF RiskOf, SafetyLabel
<1>7. own \in Level
  BY DEF Level
<1> HIDE DEF own
<1>8. Higher(e.risk, c.risk) = e.risk
  BY <1>1, <1>2, <1>6, <1>7, HigherIsHigher
<1>9. QED
  BY <1>5, <1>8 DEF CardsAgree, c, e

-----------------------------------------------------------------------------
(* The block both are drawn from.                                          *)

\* An event as the calendar has it: its weight is a share.
Event == [token : BOOLEAN, weight : {w \in Nat : w <= 1000}]

\* The labels, scores and components of a block fit each other.
IsBlock(x) ==
  /\ x.pin.score \in Nat /\ x.pin.score <= 1000
  /\ x.pin.label = (IF x.pin.score >= 850 THEN "High"
                    ELSE IF x.pin.score >= 450 THEN "Medium" ELSE "Low")
  /\ x.event.score \in Nat /\ x.event.score <= 1000
  /\ x.event.label = (IF x.event.score >= 650 THEN "High"
                      ELSE IF x.event.score >= 350 THEN "Medium" ELSE "Low")
  /\ x.body.label \in Level /\ x.regime \in Regime /\ x.sigma \in Nat
  /\ x.components.prob_block \in Nat
  /\ x.components.pin_risk = 1000 - x.pin.score
  /\ x.components.body_danger = 1000 - BodyShare(x.body.label)
  /\ x.components.event_risk = 1000 - x.event.score
  /\ x.components.vol_regime = VolScore(x.regime)
  /\ x.score = CreditSafety(x.components) /\ x.label = SafetyLabel(x.score)

\* The score of a block is a whole number (of hundredths).
LEMMA ScoreIsNumber ==
  \A x : IsBlock(x) => x.score \in Int
<1> SUFFICES ASSUME NEW x, IsBlock(x) PROVE x.score \in Int
  OBVIOUS
<1> DEFINE k == x.components
<1>1. k.prob_block \in Int /\ k.pin_risk \in Int /\ k.event_risk \in Int
  BY DEF IsBlock
<1>2. k.body_danger \in Int
  BY DEF IsBlock, BodyShare
<1>3. k.vol_regime \in Int
  BY DEF IsBlock, VolScore
<1>4. x.score = CreditSafety(k)
  BY DEF IsBlock
<1> HIDE DEF k
<1> DEFINE sum == 35 * k.prob_block + 20 * k.pin_risk + 20 * k.body_danger
                  + 15 * k.event_risk + 10 * k.vol_regime
<1>5. sum \in Int
  BY <1>1, <1>2, <1>3
<1>6. x.score = RoundDiv(sum, 100)
  BY <1>4 DEF CreditSafety
<1> HIDE DEF sum
<1>7. RoundDiv(sum, 100) = (2 * sum + 100) \div 200
  BY <1>5 DEF RoundDiv
<1>8. QED
  BY <1>5, <1>6, <1>7

\* The label of the pin is a matter of its score.
LEMMA PinIsLabelled ==
  ASSUME NEW ratio \in Nat
  PROVE  LET p == PinRisk(ratio)
         IN /\ p.score \in Nat /\ p.score <= 1000
            /\ p.label = IF p.score >= 850 THEN "High"
                         ELSE IF p.score >= 450 THEN "Medium" ELSE "Low"
<1>1. CASE ratio <= 30
  BY <1>1 DEF PinRisk, Bounded
<1>2. CASE ratio > 30 /\ ratio <= 70
  BY <1>2 DEF PinRisk, Bounded
<1>3. CASE ratio > 70
  BY <1>3 DEF PinRisk, Bounded
<1>4. QED
  BY <1>1, <1>2, <1>3

\* So is that of the events, whose score is a share.
LEMMA EventIsLabelled ==
  ASSUME NEW events \in Seq(Event)
  PROVE  LET v == EventRisk(events)
         IN /\ v.score \in Nat /\ v.score <= 1000
            /\ v.label = IF v.score >= 650 THEN "High"
                         ELSE IF v.score >= 350 THEN "Medium" ELSE "Low"
<1> DEFINE one(e) == IF e.token THEN 550 + RoundDiv(2 * e.weight, 5) ELSE 200 + RoundDiv(3 * e.weight, 10)
           First == DOMAIN events \cap 1 .. 10
           some == {one(events[k]) : k \in First}
           rated == [k \in First |-> one(events[k])]
           Percent == {n \in Nat : n <= 1000}
<1>1. \A k \in First : one(events[k]) \in Percent
  <2> SUFFICES ASSUME NEW k \in First PROVE one(events[k]) \in Percent
    OBVIOUS
  <2> DEFINE e == events[k]
  <2>1. e \in Event
    BY events \in Seq(Event), k \in DOMAIN events
  <2> HIDE DEF e
  <2>2. e.weight \in Nat /\ e.weight <= 1000
    BY <2>1 DEF Event
  <2>3. \A w \in Nat : w <= 1000 => /\ 550 + RoundDiv(2 * w, 5) \in Percent
                                   /\ 200 + RoundDiv(3 * w, 10) \in Percent
    BY DEF RoundDiv
  <2> HIDE DEF Percent
  <2>4. one(e) \in Percent
    BY <2>2, <2>3, Zenon
  <2>5. QED
    BY <2>4 DEF e
<1>2. IsFiniteSet(First)
  <2>1. PICK n \in Nat : n = 10
    OBVIOUS
  <2>2. First \subseteq 1 .. n
    BY <2>1
  <2> HIDE DEF First
  <2>3. IsFiniteSet(1 .. n)
    BY FS_Interval
  <2>4. QED
    BY <2>2, <2>3, FS_Subset
<1>3. IsFiniteSet(some) /\ some \subseteq Percent
  <2>1. some = {rated[k] : k \in First}
    BY Zenon
  <2>2. rated \in [First -> Percent]
    BY <1>1, Zenon
  <2> HIDE DEF First, some, rated, Percent
  <2>3. IsFiniteSet({rated[k] : k \in First})
    BY <1>2, ImageIsFinite
  <2>4. QED
    BY <2>1, <2>2, <2>3
<1>4. EventRisk(events).score = Max({0} \cup some)
  BY Zenon DEF EventRisk
<1> DEFINE top == Max({0} \cup some)
<1>5. EventRisk(events).label = IF EventRisk(events).score >= 650 THEN "High"
                                ELSE IF EventRisk(events).score >= 350 THEN "Medium" ELSE "Low"
  <2>1. EventRisk(events)
          = [score |-> top,
             label |-> IF top >= 650 THEN "High" ELSE IF top >= 350 THEN "Medium" ELSE "Low"]
    BY Zenon DEF EventRisk
  <2> HIDE DEF top
  <2>2. QED
    BY <2>1
<1>6. Max({0} \cup some) \in Percent
  <2> HIDE DEF some
  <2>1. IsFiniteSet(some \cup {0})
    BY <1>3, FS_AddElement
  <2>2. some \cup {0} = {0} \cup some
    OBVIOUS
  <2>3. IsFiniteSet({0} \cup some)
    BY <2>1, <2>2
  <2>4. {0} \cup some \subseteq Int /\ {0} \cup some # {}
    BY <1>3
  <2>5. Max({0} \cup some) \in {0} \cup some
    BY <2>3, <2>4, LargestOf
  <2>6. 0 \in Percent
    OBVIOUS
  <2> HIDE DEF Percent, top
  <2>7. top \in {0} \cup some
    BY <2>5 DEF top
  <2>8. QED
    BY <1>3, <2>6, <2>7 DEF top
<1>7. QED
  BY <1>4, <1>5, <1>6

\* What compute makes of any price, events, chance and regime is such a block.
LEMMA BlocksAreRated ==
  ASSUME NEW close \in Nat, NEW half, NEW ratio \in Nat, NEW events \in Seq(Event),
         NEW prob \in Nat, NEW sigma \in Nat, NEW regime \in Regime,
         NEW x \in Intelligence(close, half, ratio, events, prob, sigma, regime)
  PROVE  /\ IsBlock(x) /\ x.components.prob_block = prob
         /\ x.sigma = sigma /\ x.regime = regime
<1> DEFINE pin == PinRisk(ratio)
           event == EventRisk(events)
           body == BodyDanger(close, half)
           parts == Components(prob, pin.score, BodyShare(body.label), event.score, regime)
           safety == CreditSafety(parts)
<1>1. /\ x.pin = pin /\ x.event = event /\ x.body = body /\ x.components = parts
      /\ x.score = safety /\ x.label = SafetyLabel(safety) /\ x.sigma = sigma /\ x.regime = regime
  BY DEF Intelligence
<1>2. body.label \in Level
  BY DEF BodyDanger, Level
<1>3. /\ parts.prob_block = prob /\ parts.pin_risk = 1000 - pin.score
      /\ parts.body_danger = 1000 - BodyShare(body.label)
      /\ parts.event_risk = 1000 - event.score /\ parts.vol_regime = VolScore(regime)
  BY DEF Components
<1>4. /\ pin.score \in Nat /\ pin.score <= 1000
      /\ pin.label = IF pin.score >= 850 THEN "High"
                     ELSE IF pin.score >= 450 THEN "Medium" ELSE "Low"
  BY PinIsLabelled
<1>5. /\ event.score \in Nat /\ event.score <= 1000
      /\ event.label = IF event.score >= 650 THEN "High"
                       ELSE IF event.score >= 350 THEN "Medium" ELSE "Low"
  BY EventIsLabelled
<1> HIDE DEF pin, event, body, parts
<1>6. QED
  BY <1>1, <1>2, <1>3, <1>4, <1>5 DEF IsBlock

\* The blocks a run checks are blocks of compute.
LEMMA BlocksOfTheRun ==
  ASSUME NEW x \in Blocks
  PROVE  IsBlock(x) /\ x.components.prob_block <= 750
<1> DEFINE a == [token |-> FALSE, weight |-> 800]
           b == [token |-> TRUE, weight |-> 250]
           c == [token |-> TRUE, weight |-> 1000]
<1> DEFINE H == {0, 300}
           R == {0, 1, 30, 31, 71, 200}
           V == {<<>>, <<a>>, <<b>>, <<c>>}
           G == {0, 240, 900}
<1>1. x \in UNION {Intelligence(10000, half, ratio, events, prob, sigma, regime) :
                     half \in H, ratio \in R, prob \in Chances, events \in V, sigma \in G,
                     regime \in Regime}
  BY DEF Blocks
<1> HIDE DEF H, R, V, G
<1>2. PICK half \in H, ratio \in R, prob \in Chances, events \in V, sigma \in G, regime \in Regime :
        x \in Intelligence(10000, half, ratio, events, prob, sigma, regime)
  BY <1>1
<1>3. events \in Seq(Event)
  <2>1. a \in Event /\ b \in Event /\ c \in Event
    BY DEF Event
  <2> HIDE DEF a, b, c
  <2>2. events = <<>> \/ events = <<a>> \/ events = <<b>> \/ events = <<c>>
    BY DEF V
  <2>3. <<>> \in Seq(Event) /\ <<a>> \in Seq(Event) /\ <<b>> \in Seq(Event) /\ <<c>> \in Seq(Event)
    BY <2>1
  <2>4. QED
    BY <2>2, <2>3, Zenon
<1>4. ratio \in Nat /\ prob \in Nat /\ prob <= 750 /\ sigma \in Nat /\ 10000 \in Nat
  BY DEF Chances, R, G
<1>5. QED
  BY <1>2, <1>3, <1>4, BlocksAreRated

\* A pin that is likely keeps the score below the threshold of Enter, whatever the other
\* scores are, as long as the chance of the range is no more than three quarters.
THEOREM EntersStayDefensible ==
  ASSUME NEW x, NEW r, IsBlock(x), x.components.prob_block <= 750
  PROVE  EntersAreDefensible(x, r)
<1> DEFINE c == Card(x, r)
<1>1. SUFFICES ASSUME FallbackDecision(c) = "Enter" PROVE Dynamics(c)[3] # "risky"
  BY DEF EntersAreDefensible
<1>2. /\ c.pin = x.pin.label
      /\ c.risk = IF x.score >= 700 THEN "Low" ELSE IF x.score >= 400 THEN "Medium" ELSE "High"
  BY DEF Card
<1> HIDE DEF c
<1>3. c.risk = "Low"
  BY <1>1 DEF FallbackDecision
<1>4. ~(x.score < 700)
  <2>1. x.score \in Int
    BY ScoreIsNumber
  <2>2. QED
    BY <1>2, <1>3, <2>1
<1>5. x.pin.label # "High"
  <2> SUFFICES ASSUME x.pin.label = "High" PROVE FALSE
    OBVIOUS
  <2> DEFINE k == x.components
  <2>1. x.pin.score \in Nat /\ x.pin.score >= 850
    BY DEF IsBlock
  <2>2. /\ k.prob_block \in Nat /\ k.prob_block <= 750
        /\ k.pin_risk \in Int /\ k.pin_risk <= 150
        /\ k.body_danger \in Int /\ k.body_danger <= 850
        /\ k.event_risk \in Int /\ k.event_risk <= 1000
        /\ k.vol_regime \in Int /\ k.vol_regime <= 850
    BY <2>1 DEF IsBlock, BodyShare, VolScore
  <2>3. x.score = CreditSafety(k)
    BY DEF IsBlock
  <2> HIDE DEF k
  <2>4. CreditSafety(k) < 700
    BY <2>2 DEF CreditSafety, RoundDiv
  <2>5. QED
    BY <1>4, <2>3, <2>4
<1>6. Dynamics(c)[3] = IF c.pin = "High" \/ c.risk = "High" THEN "risky"
                       ELSE IF c.pin = "Medium" THEN "moderate" ELSE "defensible"
  BY DEF Dynamics
<1>7. QED
  BY <1>2, <1>3, <1>5, <1>6

\* So the two cards drawn from one block agree, also where rounding crosses a threshold.
LEMMA CardsOfTheRunAgree == TwoCardsAgree
<1>1. ASSUME NEW score \in 0 .. 1000, NEW uncertainty \in Level \cup {"none"}
      PROVE  CardsAgree([score |-> score, label |-> SafetyLabel(score), sigma |-> 100,
                         pin |-> [label |-> "Low"], event |-> [label |-> "Low"]],
                        [Facts EXCEPT !.uncertainty = uncertainty])
  <2> DEFINE x == [score |-> score, label |-> SafetyLabel(score), sigma |-> 100,
                   pin |-> [label |-> "Low"], event |-> [label |-> "Low"]]
             r == [Facts EXCEPT !.uncertainty = uncertainty]
  <2>1. x.score \in Int /\ x.label = SafetyLabel(x.score)
    OBVIOUS
  <2>2. r.mapped = "none"
    BY DEF Facts
  <2> HIDE DEF x, r
  <2>3. CardsAgree(x, r)
    BY <2>1, <2>2, SummariesFollowCards
  <2>4. QED
    BY <2>3 DEF x, r
<1>2. ASSUME NEW x \in Blocks PROVE EntersAreDefensible(x, Facts)
  BY BlocksOfTheRun, EntersStayDefensible
<1>3. QED
  BY <1>1, <1>2 DEF TwoCardsAgree

-----------------------------------------------------------------------------
(* The explanations: rows that add up to the score, bars that add up to    *)
(* 100 %.                                                                  *)

\* Rounding is off by at most one half.
LEMMA Rounding ==
  \A a \in Int, b \in Int :
    /\ b # 0 => RoundDiv(a, b) \in Int
    /\ b > 0 => /\ RoundDiv(a, b) \in Int
                /\ 2 * (b * RoundDiv(a, b)) <= 2 * a + b
                /\ 2 * a - b <= 2 * (b * RoundDiv(a, b))
<1> SUFFICES ASSUME NEW a \in Int, NEW b \in Int
             PROVE  /\ b # 0 => RoundDiv(a, b) \in Int
                    /\ b > 0 => /\ RoundDiv(a, b) \in Int
                                /\ 2 * (b * RoundDiv(a, b)) <= 2 * a + b
                                /\ 2 * a - b <= 2 * (b * RoundDiv(a, b))
  OBVIOUS
<1>1. ASSUME NEW c \in Int, NEW d \in Int, d > 0
      PROVE  c \div d \in Int /\ d * (c \div d) <= c /\ c < d * (c \div d) + d
  BY <1>1
<1>2. CASE b < 0
  <2>1. RoundDiv(a, b) = (b - 2 * a) \div (-2 * b)
    BY <1>2 DEF RoundDiv
  <2>2. QED
    BY <1>1, <1>2, <2>1
<1>3. CASE b > 0
  <2> DEFINE c == 2 * a + b
             d == 2 * b
             q == c \div d
  <2>1. RoundDiv(a, b) = q
    BY <1>3 DEF RoundDiv
  <2>2. c \in Int /\ d \in Int /\ d > 0
    BY <1>3
  <2>3. q \in Int /\ d * q <= c /\ c < d * q + d
    <3> HIDE DEF c, d
    <3>1. QED
      BY <1>1, <2>2
  <2> HIDE DEF q
  <2>4. d * q = 2 * (b * q)
    BY <2>3
  <2>5. QED
    BY <1>3, <2>1, <2>3, <2>4
<1>4. QED
  BY <1>2, <1>3

\* A sum of natural numbers is one, and no term is larger.
LEMMA SumIsNat ==
  ASSUME NEW S, IsFiniteSet(S), NEW f, \A s \in S : f[s] \in Nat
  PROVE  SumOver(f, S) \in Nat /\ \A s \in S : f[s] <= SumOver(f, S)
<1>1. ASSUME NEW T \in SUBSET S PROVE SumOver(f, T) \in Int /\ 0 <= SumOver(f, T)
  <2> DEFINE zero == [s \in T |-> 0 * f[s]]
  <2>1. IsFiniteSet(T)
    BY FS_Subset
  <2>2. \A s \in T : f[s] \in Int /\ zero[s] = 0 * f[s] /\ zero[s] \in Int /\ zero[s] <= f[s]
    OBVIOUS
  <2> HIDE DEF zero
  <2>3. SumOver(f, T) \in Int
    BY <2>1, <2>2, SumIsInt
  <2>4. SumOver(zero, T) = 0 * SumOver(f, T)
    BY <2>1, <2>2, SumsScale
  <2>5. SumOver(zero, T) <= SumOver(f, T)
    BY <2>1, <2>2, SumsCompare
  <2>6. QED
    BY <2>3, <2>4, <2>5
<1>2. ASSUME NEW s \in S PROVE f[s] <= SumOver(f, S)
  <2>1. SumOver(f, S) = f[s] + SumOver(f, S \ {s})
    BY SumPeels
  <2>2. SumOver(f, S \ {s}) \in Int /\ 0 <= SumOver(f, S \ {s})
    BY <1>1
  <2>3. QED
    BY <2>1, <2>2
<1>3. QED
  BY <1>1, <1>2

\* A bound on each term bounds the sum, by the number of terms.
LEMMA SumsWithin ==
  ASSUME NEW S, IsFiniteSet(S), NEW f, NEW g, NEW a \in Int, NEW b \in Int, NEW c \in Int,
         \A s \in S : f[s] \in Int /\ g[s] \in Int /\ a * g[s] <= b * f[s] + c
  PROVE  /\ SumOver(f, S) \in Int /\ SumOver(g, S) \in Int /\ Cardinality(S) \in Nat
         /\ a * SumOver(g, S) <= b * SumOver(f, S) + c * Cardinality(S)
<1> DEFINE one == [s \in S |-> IF s \in S THEN 1 ELSE 0]
           low == [s \in S |-> a * g[s]]
           high == [s \in S |-> b * f[s] + c * one[s]]
<1>1. /\ SumOver(f, S) \in Int /\ SumOver(g, S) \in Int /\ Cardinality(S) \in Nat
  BY SumIsInt, FS_CardinalityType
<1>2. \A s \in S : one[s] = 1 /\ one[s] = IF s \in S THEN 1 ELSE 0
  OBVIOUS
<1>3. SumOver(one, S) = Cardinality(S)
  <2> HIDE DEF one
  <2>1. S \subseteq S
    OBVIOUS
  <2>2. QED
    BY <1>2, <2>1, SizeAsSum
<1>4. \A s \in S : low[s] = a * g[s] /\ high[s] = b * f[s] + c * one[s]
  OBVIOUS
<1> HIDE DEF one, low, high
<1>5. SumOver(low, S) = a * SumOver(g, S)
  BY <1>4, SumsScale
<1>6. SumOver(high, S) = b * SumOver(f, S) + c * SumOver(one, S)
  BY <1>2, <1>4, SumsAdd
<1>7. \A s \in S : low[s] \in Int /\ high[s] \in Int /\ low[s] <= high[s]
  <2> SUFFICES ASSUME NEW s \in S PROVE low[s] \in Int /\ high[s] \in Int /\ low[s] <= high[s]
    OBVIOUS
  <2>1. a * g[s] \in Int /\ b * f[s] + c \in Int /\ a * g[s] <= b * f[s] + c
    OBVIOUS
  <2>2. c * one[s] = c
    BY <1>2
  <2>3. low[s] = a * g[s] /\ high[s] = b * f[s] + c
    BY <1>4, <2>2
  <2>4. QED
    BY <2>1, <2>3
<1>8. SumOver(low, S) <= SumOver(high, S)
  BY <1>7, SumsCompare
<1>9. QED
  BY <1>1, <1>3, <1>5, <1>6, <1>8

\* A positive factor can be cancelled.
LEMMA Cancelling ==
  ASSUME NEW n \in Int, n > 0, NEW a \in Int, NEW b \in Int, n * a <= n * b
  PROVE  a <= b
<1>1. ASSUME b < a PROVE FALSE
  <2>1. b + 1 <= a
    BY <1>1
  <2>2. n * (b + 1) <= n * a
    BY <2>1
  <2>3. n * (b + 1) = n * b + n
    OBVIOUS
  <2>4. QED
    BY <2>2, <2>3
<1>2. QED
  BY <1>1

\* Shares of a whole, each rounded, add up to the whole within one half per share.
LEMMA SharesAddUp ==
  ASSUME NEW S, IsFiniteSet(S), NEW f, \A s \in S : f[s] \in Int, SumOver(f, S) > 0,
         NEW g, \A s \in S : g[s] = RoundDiv(1000 * f[s], SumOver(f, S))
  PROVE  /\ SumOver(g, S) \in Int /\ Cardinality(S) \in Nat
         /\ 2 * SumOver(g, S) <= 2000 + Cardinality(S)
         /\ 2000 - Cardinality(S) <= 2 * SumOver(g, S)
<1> DEFINE n == SumOver(f, S)
           m == SumOver(g, S)
           c == Cardinality(S)
<1>1. n \in Int /\ n > 0
  BY SumIsInt
<1> HIDE DEF n
<1>2. PICK p \in Int, t \in Int : p = 2000 /\ t = 2 * n
  BY <1>1
<1>3. ASSUME NEW s \in S
      PROVE  /\ f[s] \in Int /\ g[s] \in Int
             /\ t * g[s] <= p * f[s] + n /\ p * f[s] <= t * g[s] + n
  <2> DEFINE a == 1000 * f[s]
             q == RoundDiv(a, n)
  <2>1. a \in Int /\ g[s] = q /\ f[s] \in Int
    BY DEF n
  <2>2. 2 * a = p * f[s]
    BY <1>2, <2>1
  <2> HIDE DEF a
  <2>3. q \in Int /\ 2 * (n * q) <= 2 * a + n /\ 2 * a - n <= 2 * (n * q)
    <3>1. a \in Int
      BY <2>1
    <3>2. n > 0 => /\ RoundDiv(a, n) \in Int
                   /\ 2 * (n * RoundDiv(a, n)) <= 2 * a + n
                   /\ 2 * a - n <= 2 * (n * RoundDiv(a, n))
      BY <1>1, <3>1, Rounding, Zenon
    <3>3. QED
      BY <1>1, <3>2, Zenon
  <2> HIDE DEF q
  <2>4. 2 * (n * q) = t * q /\ n * q \in Int
    BY <1>1, <1>2, <2>3
  <2>5. t * q \in Int /\ t * q <= 2 * a + n /\ 2 * a <= t * q + n
    BY <1>1, <2>1, <2>3, <2>4
  <2>6. QED
    BY <2>1, <2>2, <2>3, <2>5
<1>4. \A s \in S : f[s] \in Int /\ g[s] \in Int /\ t * g[s] <= p * f[s] + n
  BY <1>3
<1>5. \A s \in S : g[s] \in Int /\ f[s] \in Int /\ p * f[s] <= t * g[s] + n
  BY <1>3
<1>6. /\ m \in Int /\ c \in Nat
      /\ t * m <= p * n + n * c
  <2>1. /\ SumOver(f, S) \in Int /\ SumOver(g, S) \in Int /\ Cardinality(S) \in Nat
        /\ t * SumOver(g, S) <= p * SumOver(f, S) + n * Cardinality(S)
    BY <1>1, <1>4, SumsWithin, Zenon
  <2>2. QED
    BY <2>1 DEF n
<1>7. p * n <= t * m + n * c
  <2>1. p * SumOver(f, S) <= t * SumOver(g, S) + n * Cardinality(S)
    BY <1>1, <1>5, SumsWithin, Zenon
  <2>2. QED
    BY <2>1 DEF n
<1> HIDE DEF m, c
<1>8. n * (2 * m) <= n * (p + c)
  <2>1. n * (2 * m) = t * m /\ n * (p + c) = p * n + n * c
    BY <1>1, <1>2, <1>6
  <2>2. QED
    BY <1>6, <2>1
<1>9. n * p <= n * (2 * m + c)
  <2>1. n * p = p * n /\ n * (2 * m + c) = t * m + n * c
    BY <1>1, <1>2, <1>6
  <2>2. QED
    BY <1>7, <2>1
<1>10. 2 * m <= p + c /\ p <= 2 * m + c
  <2>1. 2 * m \in Int /\ p + c \in Int /\ 2 * m + c \in Int
    BY <1>2, <1>6
  <2>2. QED
    BY <1>1, <1>2, <1>8, <1>9, <2>1, Cancelling
<1>11. QED
  BY <1>2, <1>6, <1>10 DEF m, c

\* What is put on one row is put on the total.
LEMMA TotalsTakeTheRest ==
  ASSUME NEW S, IsFiniteSet(S), NEW f, f = [s \in S |-> f[s]], \A s \in S : f[s] \in Int,
         NEW x \in S, NEW n \in Int
  PROVE  Total([f EXCEPT ![x] = @ + n]) = Total(f) + n
<1> DEFINE g == [f EXCEPT ![x] = @ + n]
           R == S \ {x}
<1>1. DOMAIN f = S /\ DOMAIN g = S
  BY Zenon
<1>2. g[x] = f[x] + n /\ \A s \in R : g[s] = f[s]
  BY <1>1
<1> HIDE DEF g
<1>3. \A s \in S : g[s] \in Int
  BY <1>2
<1>4. IsFiniteSet(R)
  BY FS_Subset
<1>5. SumOver(g, R) = SumOver(f, R) /\ SumOver(f, R) \in Int
  <2>1. \A s \in R : f[s] \in Int /\ g[s] \in Int /\ f[s] <= g[s] /\ g[s] <= f[s]
    BY <1>2
  <2> HIDE DEF R
  <2>2. SumOver(f, R) <= SumOver(g, R)
    BY <1>4, <2>1, SumsCompare
  <2>3. SumOver(g, R) <= SumOver(f, R)
    BY <1>4, <2>1, SumsCompare
  <2>4. SumOver(f, R) \in Int /\ SumOver(g, R) \in Int
    BY <1>4, <2>1, SumIsInt
  <2>5. QED
    BY <2>2, <2>3, <2>4
<1>6. SumOver(f, S) = f[x] + SumOver(f, R)
  BY SumPeels
<1>7. SumOver(g, S) = g[x] + SumOver(g, R)
  BY <1>3, SumPeels
<1>8. QED
  BY <1>1, <1>2, <1>5, <1>6, <1>7 DEF Total, g

\* The rows of a breakdown are whole numbers, whatever the clamp does to the factor.
LEMMA FittedRows ==
  ASSUME NEW S, IsFiniteSet(S), NEW given, DOMAIN given = S, \A s \in S : given[s] \in Int,
         NEW target \in Int
  PROVE  LET laid == Fitted(given, target)
         IN laid = [s \in S |-> laid[s]] /\ \A s \in S : laid[s] \in Int
<1> DEFINE total == Total(given)
           factor(d) == IF total = 0 THEN 0
                        ELSE IF Size(target) > 2 * Size(total)
                          THEN IF (target < 0) = (total < 0) THEN 2 * d ELSE -2 * d
                        ELSE RoundDiv(d * target, total)
           laid == [s \in S |-> factor(given[s])]
<1>1. Fitted(given, target) = laid
  BY Zenon DEF Fitted
<1>2. total \in Int
  BY SumIsInt DEF Total
<1> HIDE DEF total
<1>3. ASSUME NEW d \in Int PROVE factor(d) \in Int
  <2>1. total # 0 => RoundDiv(d * target, total) \in Int
    <3>1. d * target \in Int
      OBVIOUS
    <3>2. QED
      BY <1>2, <3>1, Rounding
  <2> DEFINE q == RoundDiv(d * target, total)
  <2> HIDE DEF q
  <2>2. 2 * d \in Int /\ -2 * d \in Int /\ 0 \in Int
    OBVIOUS
  <2>3. QED
    BY <2>1, <2>2 DEF q
<1> HIDE DEF factor
<1>4. \A s \in S : laid[s] = factor(given[s]) /\ laid[s] \in Int
  BY <1>3
<1>5. laid = [s \in S |-> laid[s]]
  BY Zenon
<1>6. QED
  BY <1>1, <1>4, <1>5

\* For every block and card: the rows and the anchor of a breakdown add up to the score.
THEOREM BreakdownsAddUp ==
  ASSUME NEW x, NEW s, x.sigma \in Nat, x.score \in Int
  PROVE  LET b == Breakdown(x, s) IN b.anchor + Total(b.rows) = b.final /\ b.final = x.score
<1> DEFINE anchor == Anchor(x.sigma)
           given == Impacts(x, s)
           laid == Fitted(given, x.score - anchor)
           residual == x.score - anchor - Total(laid)
<1>1. anchor \in Int
  BY DEF Anchor, Bounded, RoundDiv
<1>2. DOMAIN given = 1 .. 5 /\ \A k \in 1 .. 5 : given[k] \in Int
  <2>1. /\ PinImpact(x.pin.score) \in Int /\ EventImpact(x.event.score) \in Int
        /\ VolImpact(x.regime) \in Int /\ BodyImpact(x.body.label) \in Int
        /\ LiquidityImpact(s.liquidity) \in Int
    BY DEF PinImpact, EventImpact, VolImpact, BodyImpact, LiquidityImpact
  <2>2. QED
    BY <2>1 DEF Impacts
<1>3. Breakdown(x, s)
        = [anchor |-> anchor, rows |-> [laid EXCEPT ![5] = @ + residual], final |-> x.score]
  BY Zenon DEF Breakdown
<1> HIDE DEF anchor, given
<1>4. PICK S : S = 1 .. 5
  OBVIOUS
<1>5. IsFiniteSet(S) /\ 5 \in S
  <2>1. PICK n \in Int, m \in Int : n = 1 /\ m = 5
    OBVIOUS
  <2>2. IsFiniteSet(n .. m)
    BY FS_Interval
  <2>3. QED
    BY <1>4, <2>1, <2>2
<1>6. laid = [k \in S |-> laid[k]] /\ \A k \in S : laid[k] \in Int
  <2>1. x.score - anchor \in Int
    BY <1>1
  <2>2. DOMAIN given = S /\ \A k \in S : given[k] \in Int
    BY <1>2, <1>4
  <2>3. QED
    BY <1>5, <2>1, <2>2, FittedRows
<1> HIDE DEF laid
<1>7. Total(laid) \in Int
  <2>1. DOMAIN laid = S
    BY <1>6
  <2>2. QED
    BY <1>5, <1>6, <2>1, SumIsInt DEF Total
<1>8. residual \in Int
  BY <1>1, <1>7
<1>9. Total([laid EXCEPT ![5] = @ + residual]) = Total(laid) + residual
  <2> HIDE DEF residual
  <2>1. QED
    BY <1>5, <1>6, <1>8, TotalsTakeTheRest
<1>10. QED
  BY <1>1, <1>3, <1>7, <1>9

\* For up to seven drivers, whatever their weights: the bars add up to 100 % within 0.3.
THEOREM BarsAddUp ==
  ASSUME NEW magnitudes, NEW S, IsFiniteSet(S), Cardinality(S) <= 7, DOMAIN magnitudes = S,
         \A s \in S : magnitudes[s] \in Nat
  PROVE  Size(Total(Bars(magnitudes)) - 1000) <= 3
<1> DEFINE n == Total(magnitudes)
           pct == [k \in DOMAIN magnitudes |-> RoundDiv(1000 * magnitudes[k], n)]
           K == {k \in DOMAIN magnitudes : pct[k] >= 10}
           laid == [k \in K |-> pct[k]]
           seen == Total(laid)
<1>1. n \in Nat
  BY SumIsNat DEF Total
<1>2. Shares(magnitudes) = laid
  BY Zenon DEF Shares
<1> DEFINE drawn(some, sum) ==
             IF n = 0 THEN [k \in {1} |-> 1000]
             ELSE IF sum > 0 /\ Size(sum - 1000) > 2
               THEN [k \in DOMAIN some |-> RoundDiv(1000 * some[k], sum)]
             ELSE some
<1>3. Bars(magnitudes) = drawn(laid, seen)
  <2> DEFINE got == Shares(magnitudes)
             sum == Total(got)
  <2>1. Bars(magnitudes) = drawn(got, sum)
    BY Zenon DEF Bars
  <2> HIDE DEF laid
  <2>2. got = laid /\ sum = seen
    BY <1>2
  <2> HIDE DEF got, sum, seen, drawn
  <2>3. QED
    BY <2>1, <2>2
<1>4. CASE n = 0
  <2> DEFINE one == [k \in {1} |-> 1000]
  <2>1. DOMAIN one = {1} /\ \A k \in {1} : one[k] = 1000 /\ one[k] \in Int
    OBVIOUS
  <2> HIDE DEF one
  <2>2. IsFiniteSet({1}) /\ 1 \in {1} /\ {1} \ {1} = {} /\ IsFiniteSet({})
    BY FS_Singleton, FS_EmptySet
  <2>3. SumOver(one, {1}) = one[1] + SumOver(one, {1} \ {1})
    BY <2>1, <2>2, SumPeels
  <2>4. SumOver(one, {}) = 0
    BY <2>2, SumFirst
  <2>5. Total(one) = 1000
    BY <2>1, <2>2, <2>3, <2>4 DEF Total
  <2>6. Bars(magnitudes) = one
    BY <1>3, <1>4 DEF one
  <2>7. QED
    BY <2>5, <2>6 DEF Size
<1>5. CASE n > 0
  <2>1. \A k \in S : /\ pct[k] = RoundDiv(1000 * magnitudes[k], n) /\ pct[k] \in Int
                     /\ magnitudes[k] \in Int
    <3>1. \A k \in S : 1000 * magnitudes[k] \in Int
      OBVIOUS
    <3>2. QED
      BY <1>1, <1>5, <3>1, Rounding
  <2>2. K \subseteq S /\ IsFiniteSet(K) /\ Cardinality(K) \in Nat /\ Cardinality(K) <= 7
    <3>1. K \subseteq S
      OBVIOUS
    <3> HIDE DEF K
    <3>2. QED
      BY <3>1, FS_Subset, FS_CardinalityType
  <2>3. K # {}
    <3>0. SUFFICES ASSUME K = {} PROVE FALSE
      OBVIOUS
    <3>1. ASSUME NEW s \in S PROVE 2000 * magnitudes[s] <= 19 * n
      <4> DEFINE a == 1000 * magnitudes[s]
                 q == RoundDiv(a, n)
      <4>1. pct[s] = q /\ q \in Int /\ a \in Int
        BY <2>1
      <4> HIDE DEF pct
      <4>7. s \notin K /\ s \in DOMAIN magnitudes
        BY <3>0
      <4>8. q < 10
        BY <4>1, <4>7
      <4>2. 2000 * magnitudes[s] = 2 * a
        OBVIOUS
      <4> HIDE DEF a
      <4>3. 2 * a - n <= 2 * (n * q)
        <5> HIDE DEF n
        <5>1. QED
          BY <1>1, <1>5, <4>1, Rounding
      <4> HIDE DEF q
      <4>4. n * q <= n * 9
        BY <1>1, <1>5, <4>1, <4>8
      <4>5. n * q \in Int /\ n * 9 = 9 * n
        BY <1>1, <4>1
      <4>6. QED
        BY <1>1, <4>1, <4>2, <4>3, <4>4, <4>5, <4>8
    <3> DEFINE f == magnitudes
               c == Cardinality(S)
    <3>2. PICK a \in Int, b \in Int, m \in Int : a = 2000 /\ b = 0 /\ m = 19 * n
      BY <1>1
    <3>3. \A s \in S : f[s] \in Int /\ f[s] \in Int /\ a * f[s] <= b * f[s] + m
      BY <2>1, <3>1, <3>2
    <3>4. /\ SumOver(f, S) \in Int /\ Cardinality(S) \in Nat
          /\ a * SumOver(f, S) <= b * SumOver(f, S) + m * Cardinality(S)
      BY <3>3, SumsWithin, Zenon
    <3>5. n = SumOver(f, S)
      BY DEF Total
    <3> HIDE DEF f, n, c
    <3>6. 2000 * n <= 19 * n * c
      BY <1>1, <3>2, <3>4, <3>5 DEF c
    <3>7. c \in Nat /\ c <= 7
      BY <3>4 DEF c
    <3>8. 19 * n * c <= 19 * n * 7
      BY <1>1, <3>7
    <3>9. 19 * n * c \in Int
      BY <1>1, <3>7
    <3>10. QED
      BY <1>1, <1>5, <3>6, <3>8, <3>9
  <2>4. DOMAIN laid = K /\ \A k \in K : laid[k] \in Nat /\ laid[k] >= 10 /\ laid[k] \in Int
    BY <2>1
  <2>5. seen = SumOver(laid, K)
    BY <2>4 DEF Total
  <2> HIDE DEF K, pct, laid, seen
  <2>6. seen \in Nat /\ seen > 0
    <3>1. PICK k \in K : TRUE
      BY <2>3
    <3>2. SumOver(laid, K) \in Nat /\ laid[k] <= SumOver(laid, K)
      BY <2>2, <2>4, <3>1, SumIsNat
    <3>3. QED
      BY <2>4, <2>5, <3>1, <3>2
  <2>7. CASE Size(seen - 1000) > 2
    <3> DEFINE g == [k \in DOMAIN laid |-> RoundDiv(1000 * laid[k], seen)]
    <3>1. DOMAIN g = K /\ \A k \in K : g[k] = RoundDiv(1000 * laid[k], SumOver(laid, K))
      BY <2>4, <2>5
    <3>2. Bars(magnitudes) = g
      BY <1>3, <1>5, <2>6, <2>7
    <3> HIDE DEF g
    <3>3. /\ SumOver(g, K) \in Int
          /\ 2 * SumOver(g, K) <= 2000 + Cardinality(K)
          /\ 2000 - Cardinality(K) <= 2 * SumOver(g, K)
      <4>1. SumOver(laid, K) > 0
        BY <2>5, <2>6
      <4>2. QED
        BY <2>2, <2>4, <3>1, <4>1, SharesAddUp
    <3>4. Total(Bars(magnitudes)) = SumOver(g, K)
      BY <3>1, <3>2 DEF Total
    <3>5. QED
      BY <2>2, <3>3, <3>4 DEF Size
  <2>8. CASE ~(Size(seen - 1000) > 2)
    <3>1. Bars(magnitudes) = laid
      BY <1>3, <1>5, <2>8
    <3>2. Total(Bars(magnitudes)) = seen
      BY <3>1 DEF seen
    <3>3. QED
      BY <2>6, <2>8, <3>2 DEF Size
  <2>9. QED
    BY <2>7, <2>8
<1>6. QED
  BY <1>1, <1>4, <1>5

\* The five drivers of a block weigh natural numbers.
LEMMA DriversOfBlocks ==
  ASSUME NEW x, NEW s, IsBlock(x)
  PROVE  Size(Total(Bars(Magnitudes(x, s))) - 1000) <= 3
<1> DEFINE m == Magnitudes(x, s)
<1>1. PICK S : S = 1 .. 5
  OBVIOUS
<1>2. IsFiniteSet(S) /\ Cardinality(S) <= 7
  <2>1. PICK a \in Int, b \in Int : a = 1 /\ b = 5
    OBVIOUS
  <2>2. IsFiniteSet(a .. b) /\ Cardinality(a .. b) = IF a > b THEN 0 ELSE b - a + 1
    BY FS_Interval
  <2>3. QED
    BY <1>1, <2>1, <2>2
<1>3. DOMAIN m = S /\ \A k \in S : m[k] \in Nat
  <2> DEFINE l == CASE s.liquidity = "Poor" -> 600 [] s.liquidity = "Average" -> 250
                    [] OTHER -> 0
  <2>1. l \in Nat
    OBVIOUS
  <2>2. m = <<x.components.pin_risk, x.components.event_risk, x.components.vol_regime,
              x.components.body_danger, l>>
    BY DEF Magnitudes
  <2> HIDE DEF l
  <2>3. /\ x.components.pin_risk \in Nat /\ x.components.event_risk \in Nat
        /\ x.components.vol_regime \in Nat /\ x.components.body_danger \in Nat
    BY DEF IsBlock, VolScore, BodyShare
  <2> HIDE DEF m
  <2>4. DOMAIN m = 1 .. 5
    BY <2>2
  <2>5. QED
    BY <1>1, <2>1, <2>2, <2>3, <2>4
<1> HIDE DEF m
<1>4. QED
  BY <1>2, <1>3, BarsAddUp DEF m

\* The slot of the sensitivity holds the bars of the block and the card, and needs one.
LEMMA SensitivitiesOfALayer ==
  \A x, cards, r, broken :
    "sensitivity" \notin broken =>
      /\ Layer(x, cards, r, broken).sensitivity = {} <=> cards = {}
      /\ \A t \in Layer(x, cards, r, broken).sensitivity :
           \E s \in cards : t.bars = Bars(Magnitudes(x, s))
<1> TAKE x, cards, r, broken
<1> HAVE "sensitivity" \notin broken
<1> DEFINE layer == Layer(x, cards, r, broken)
           row(s) ==
             [bars |-> Bars(Magnitudes(x, s)), fragile |-> Fragile(x, r),
              triggers |-> Triggers(x, s),
              disagreement |-> Disagreement(r.round1, r.round2, r.round3)]
<1>1. layer.sensitivity = Sensitivity(x, cards, r)
  BY DEF Layer
<1>2. \A s : row(s).bars = Bars(Magnitudes(x, s))
  BY Zenon
<1>3. Sensitivity(x, cards, r) = {row(s) : s \in cards}
  BY SMT DEF Sensitivity
<1> HIDE DEF layer, row
<1>4. /\ layer.sensitivity = {} <=> cards = {}
      /\ \A t \in layer.sensitivity : \E s \in cards : t.bars = Bars(Magnitudes(x, s))
  BY <1>1, <1>2, <1>3
<1>5. QED
  BY <1>4 DEF layer

\* So the explanations of every block a run checks add up, whichever builder fails and whether
\* there is a card or not.
LEMMA ExplanationsOfTheRun == ExplanationsAddUp
<1>1. ASSUME NEW x \in Blocks, NEW cards, NEW broken, "sensitivity" \notin broken
      PROVE  LayerAddsUp(Layer(x, cards, Facts, broken), cards, broken)
  <2> DEFINE layer == Layer(x, cards, Facts, broken)
             w(s) == Breakdown(x, s)
             bars(s) == Bars(Magnitudes(x, s))
  <2>1. IsBlock(x)
    BY BlocksOfTheRun
  <2>2. ASSUME NEW s PROVE w(s).anchor + Total(w(s).rows) = w(s).final
    <3>1. x.sigma \in Nat /\ x.score \in Int
      BY <2>1, ScoreIsNumber DEF IsBlock
    <3>2. QED
      BY <3>1, BreakdownsAddUp
  <2>3. ASSUME NEW s PROVE Size(Total(bars(s)) - 1000) <= 3
    BY <2>1, DriversOfBlocks
  <2>4. /\ layer.breakdown = IF "breakdown" \in broken THEN {} ELSE {w(s) : s \in Graded(cards)}
        /\ Graded(cards) # {}
    BY Zenon DEF Layer, Graded
  <2>5. /\ layer.sensitivity = {} <=> cards = {}
        /\ \A t \in layer.sensitivity : \E s \in cards : t.bars = bars(s)
    BY <1>1, SensitivitiesOfALayer
  <2> HIDE DEF layer, w, bars
  <2>6. LayerAddsUp(layer, cards, broken)
    <3>1. "breakdown" \notin broken => layer.breakdown # {}
      BY <2>4
    <3>2. \A b \in layer.breakdown : b.anchor + Total(b.rows) = b.final
      BY <2>2, <2>4
    <3>3. \A t \in layer.sensitivity : Size(Total(t.bars) - 1000) <= 3
      BY <2>3, <2>5
    <3>4. QED
      BY <2>5, <3>1, <3>2, <3>3 DEF LayerAddsUp
  <2>7. QED
    BY <2>6 DEF layer
<1>2. \A broken \in SUBSET {"breakdown", "liquidity"} : "sensitivity" \notin broken
  OBVIOUS
<1>3. QED
  BY <1>1, <1>2 DEF ExplanationsAddUp

-----------------------------------------------------------------------------
(* The conditions that would change the decision.                          *)

\* The fifth condition of a list is shown, and those before it.
LEMMA FirstFiveAreShown ==
  ASSUME NEW list, NEW k \in Nat, k >= 1, k <= 5, k \in DOMAIN list, list[k][1]
  PROVE  list[k][2] \in FirstOpen(list, 5)
<1>1. PICK a \in Int : a = 1
  OBVIOUS
<1>2. IsFiniteSet(a .. k) /\ Cardinality(a .. k) <= 5
  <2>1. IsFiniteSet(a .. k) /\ Cardinality(a .. k) = k - a + 1
    BY <1>1, FS_Interval
  <2>2. QED
    BY <1>1, <2>1
<1>3. Open(list) \cap 1 .. k \subseteq a .. k
  BY <1>1
<1> DEFINE T == Open(list) \cap 1 .. k
<1>4. Cardinality(T) <= 5
  <2> HIDE DEF T
  <2>1. Cardinality(T) <= Cardinality(a .. k) /\ IsFiniteSet(T)
    BY <1>2, <1>3, FS_Subset DEF T
  <2>2. Cardinality(T) \in Nat /\ Cardinality(a .. k) \in Nat
    BY <1>2, <2>1, FS_CardinalityType
  <2>3. QED
    BY <1>2, <2>1, <2>2
<1>5. k \in Open(list)
  BY DEF Open
<1>6. QED
  BY <1>4, <1>5, Zenon DEF FirstOpen

\* So credit safety is named wherever it keeps the decision from another one: it is the fourth
\* condition of the way to Enter and the fifth of the way to Avoid.
LEMMA TriggersOfTheRun == TriggersNameTheCause
<1>1. ASSUME NEW x, NEW s
      PROVE  LET t == Triggers(x, s)
             IN /\ s.decision # "Enter" /\ x.score < 700 => "safety" \in t["Enter"]
                /\ s.decision # "Avoid" /\ s.score >= 40 => "safety" \in t["Avoid"]
  <2> DEFINE t == Triggers(x, s)
             e == ToEnter(x, s)
             a == ToAvoid(x, s)
             branch == [Enter |-> e, Avoid |-> a, Wait |-> ToWait(s)]
             D == {u \in DOMAIN branch : u # s.decision /\ Open(branch[u]) # {}}
  <2>1. t = [u \in D |-> FirstOpen(branch[u], 5)]
    BY Zenon DEF Triggers
  <2>2. 4 \in DOMAIN e /\ e[4] = <<x.score < 700, "safety">>
    BY DEF ToEnter
  <2>3. 5 \in DOMAIN a /\ a[5] = <<s.score >= 40, "safety">>
    BY DEF ToAvoid
  <2> HIDE DEF e, a
  <2>4. ASSUME s.decision # "Enter", x.score < 700 PROVE "safety" \in t["Enter"]
    <3>1. e[4][1] /\ e[4][2] = "safety"
      <4>1. (x.score < 700) = TRUE
        BY <2>4
      <4>2. e[4] = <<TRUE, "safety">>
        BY <2>2, <4>1, Zenon
      <4>3. QED
        BY <4>2
    <3>2. "safety" \in FirstOpen(e, 5)
      BY <2>2, <3>1, FirstFiveAreShown
    <3>3. 4 \in Open(e)
      BY <2>2, <3>1 DEF Open
    <3>4. "Enter" \in DOMAIN branch /\ branch["Enter"] = e
      OBVIOUS
    <3> HIDE DEF branch, t
    <3>5. QED
      BY <2>1, <2>4, <3>2, <3>3, <3>4
  <2>5. ASSUME s.decision # "Avoid", s.score >= 40 PROVE "safety" \in t["Avoid"]
    <3>1. a[5][1] /\ a[5][2] = "safety"
      <4>1. (s.score >= 40) = TRUE
        BY <2>5
      <4>2. a[5] = <<TRUE, "safety">>
        BY <2>3, <4>1, Zenon
      <4>3. QED
        BY <4>2
    <3>2. "safety" \in FirstOpen(a, 5)
      BY <2>3, <3>1, FirstFiveAreShown
    <3>3. 5 \in Open(a)
      BY <2>3, <3>1 DEF Open
    <3>4. "Avoid" \in DOMAIN branch /\ branch["Avoid"] = a
      OBVIOUS
    <3> HIDE DEF branch, t
    <3>5. QED
      BY <2>1, <2>5, <3>2, <3>3, <3>4
  <2>6. QED
    BY <2>4, <2>5
<1>2. ASSUME NEW s \in Cards, NEW score \in {395, 399, 695, 700}
      PROVE  LET x == [score |-> score, close |-> 100, body |-> [lo |-> 97, hi |-> 103]]
                 t == Triggers(x, s)
             IN /\ s.decision # "Enter" /\ score < 700 => "safety" \in t["Enter"]
                /\ s.decision # "Avoid" /\ s.score >= 40 => "safety" \in t["Avoid"]
  <2> DEFINE x == [score |-> score, close |-> 100, body |-> [lo |-> 97, hi |-> 103]]
  <2>1. x.score = score
    OBVIOUS
  <2> HIDE DEF x
  <2>2. /\ s.decision # "Enter" /\ score < 700 => "safety" \in Triggers(x, s)["Enter"]
        /\ s.decision # "Avoid" /\ s.score >= 40 => "safety" \in Triggers(x, s)["Avoid"]
    BY <1>1, <2>1
  <2>3. QED
    BY <2>2 DEF x
<1>3. QED
  BY <1>2, Zenon DEF TriggersNameTheCause

-----------------------------------------------------------------------------
(* How easily the position trades.                                         *)

\* The axes of an assessment: three grades.
IsGraded(axes) ==
  /\ DOMAIN axes = {"underlying", "options", "execution"}
  /\ axes.underlying \in {1, 2, 3} /\ axes.options \in {1, 2, 3} /\ axes.execution \in {1, 2, 3}

\* Where an axis is poor the reason names a poor one.
LEMMA ReasonsArePoor ==
  ASSUME NEW axes, IsGraded(axes), 1 \in {axes[k] : k \in DOMAIN axes}
  PROVE  Reason(axes) \in DOMAIN axes /\ axes[Reason(axes)] = 1
<1>1. axes.underlying = 1 \/ axes.options = 1 \/ axes.execution = 1
  BY DEF IsGraded
<1>2. CASE axes.execution = 1
  <2>1. Reason(axes) = "execution"
    BY <1>2 DEF Reason
  <2>2. QED
    BY <1>2, <2>1 DEF IsGraded
<1>3. CASE axes.execution # 1 /\ axes.options = 1
  <2>1. Reason(axes) = "options"
    BY <1>3 DEF Reason
  <2>2. QED
    BY <1>3, <2>1 DEF IsGraded
<1>4. CASE axes.execution # 1 /\ axes.options # 1 /\ axes.underlying = 1
  <2>1. Reason(axes) = "underlying"
    BY <1>4 DEF Reason
  <2>2. QED
    BY <1>4, <2>1 DEF IsGraded
<1>5. QED
  BY <1>1, <1>2, <1>3, <1>4

\* The tape is graded by the volume and the card alone, the other axes by the block alone.
LEMMA AssessmentsAreGraded ==
  ASSUME NEW x, NEW s, NEW r
  PROVE  LET a == Assessment(x, s, r)
         IN /\ IsGraded(a.axes) /\ a.reason = Reason(a.axes)
            /\ a.axes.options = Axes(x, 0).options
            /\ a.axes.execution = Axes(x, 0).execution
<1> DEFINE a == Assessment(x, s, r)
           volume == IF r.desk > 0 THEN r.desk ELSE r.tape
           axes == Axes(x, volume)
           up == axes.underlying = 2 /\ s.liquidity = "Good"
           raised == IF up THEN [axes EXCEPT !.underlying = 3] ELSE axes
<1>1. a = [axes |-> raised, reason |-> Reason(raised)]
  BY Zenon DEF Assessment
<1>2. /\ IsGraded(axes) /\ axes.options = Axes(x, 0).options
      /\ axes.execution = Axes(x, 0).execution
  BY DEF Axes, IsGraded
<1> HIDE DEF axes
<1>3. IsGraded([axes EXCEPT !.underlying = 3])
  BY <1>2 DEF IsGraded
<1>4. /\ [axes EXCEPT !.underlying = 3].options = axes.options
      /\ [axes EXCEPT !.underlying = 3].execution = axes.execution
  BY <1>2 DEF IsGraded
<1> HIDE DEF up
<1>5. /\ IsGraded(raised) /\ raised.options = axes.options
      /\ raised.execution = axes.execution
  BY <1>2, <1>3, <1>4
<1> HIDE DEF raised, a
<1>6. QED
  BY <1>1, <1>2, <1>5 DEF a

\* For all blocks with one body, all facts and all middling: as the pin and the event get worse
\* no assumption becomes less fragile and no grade of the exit better, and where an axis is
\* poor the reason names a poor one.
THEOREM WorseBlocksAreNoEasier ==
  ASSUME NEW x, NEW y, IsBlock(x), IsBlock(y), y.body = x.body, y.score <= x.score,
         y.pin.score >= x.pin.score, y.event.score >= x.event.score, NEW r
  PROVE  /\ Fragile(x, r) \subseteq Fragile(y, r)
         /\ \A s : LET a == Assessment(x, s, r)
                       b == Assessment(y, s, r)
                   IN /\ b.axes.execution <= a.axes.execution
                      /\ b.axes.options <= a.axes.options
                      /\ 1 \in {a.axes[k] : k \in DOMAIN a.axes} =>
                           a.reason \in DOMAIN a.axes /\ a.axes[a.reason] = 1
<1>1. /\ x.pin.score \in Nat /\ y.pin.score \in Nat /\ x.event.score \in Nat
      /\ y.event.score \in Nat /\ x.score \in Int /\ y.score \in Int
  BY ScoreIsNumber DEF IsBlock
<1>2. /\ x.pin.label = "High" => y.pin.label = "High"
      /\ x.pin.label = "Medium" => y.pin.label \in {"Medium", "High"}
      /\ x.event.label = "High" => y.event.label = "High"
  BY <1>1 DEF IsBlock
<1>3. /\ x.label = SafetyLabel(x.score) /\ y.label = SafetyLabel(y.score)
  BY DEF IsBlock
<1>4. Fragile(x, r) \subseteq Fragile(y, r)
  BY <1>2 DEF Fragile
<1>5. Axes(y, 0).execution <= Axes(x, 0).execution
  <2> DEFINE poor(z) == z.pin.score >= 700 \/ z.pin.label = "High" \/ z.body.label = "High"
             fair(z) == z.pin.score >= 400 \/ z.pin.label = "Medium" \/ z.body.label = "Medium"
  <2>1. poor(x) => poor(y)
    BY <1>1, <1>2
  <2>2. fair(x) => fair(y) \/ poor(y)
    BY <1>1, <1>2
  <2>3. \A z : Axes(z, 0).execution = IF poor(z) THEN 1 ELSE IF fair(z) THEN 2 ELSE 3
    BY DEF Axes
  <2> HIDE DEF poor, fair
  <2>4. QED
    BY <2>1, <2>2, <2>3
<1>6. Axes(y, 0).options <= Axes(x, 0).options
  <2>1. \A z : Axes(z, 0).options = CASE z.label = "SAFE" -> 3 [] z.label = "CAUTION" -> 2
                                      [] OTHER -> 1
    BY DEF Axes
  <2>2. QED
    BY <1>1, <1>3, <2>1 DEF SafetyLabel
<1>7. ASSUME NEW s
      PROVE  LET a == Assessment(x, s, r)
                 b == Assessment(y, s, r)
             IN /\ b.axes.execution <= a.axes.execution
                /\ b.axes.options <= a.axes.options
                /\ 1 \in {a.axes[k] : k \in DOMAIN a.axes} =>
                     a.reason \in DOMAIN a.axes /\ a.axes[a.reason] = 1
  <2> DEFINE a == Assessment(x, s, r)
             b == Assessment(y, s, r)
  <2>1. /\ IsGraded(a.axes) /\ a.reason = Reason(a.axes)
        /\ a.axes.options = Axes(x, 0).options /\ a.axes.execution = Axes(x, 0).execution
    BY AssessmentsAreGraded
  <2>2. b.axes.options = Axes(y, 0).options /\ b.axes.execution = Axes(y, 0).execution
    BY AssessmentsAreGraded
  <2> HIDE DEF a, b
  <2>3. 1 \in {a.axes[k] : k \in DOMAIN a.axes} =>
          a.reason \in DOMAIN a.axes /\ a.axes[a.reason] = 1
    BY <2>1, ReasonsArePoor
  <2>4. QED
    BY <1>5, <1>6, <2>1, <2>2, <2>3 DEF a, b
<1>8. QED
  BY <1>4, <1>7

\* So it is for every two blocks a run checks.
LEMMA WorseOfTheRun == WorseIsNotEasier
<1> DEFINE some == {x \in Blocks : x.sigma = 0 /\ x.regime = "low"}
           middling == {s \in Cards : s.decision = "Wait" /\ s.score = 40 /\ s.pin = "Low"
                                   /\ s.event = "Low" /\ s.iv = "Good"}
           eased(x, y, s, r) ==
             LET a == Assessment(x, s, r)
                 b == Assessment(y, s, r)
             IN /\ b.axes.execution <= a.axes.execution /\ b.axes.options <= a.axes.options
                /\ 1 \in {a.axes[k] : k \in DOMAIN a.axes} =>
                     a.reason \in DOMAIN a.axes /\ a.axes[a.reason] = 1
           with(v) == [Facts EXCEPT !.desk = v]
           Ordered(x, y) == /\ y.body = x.body /\ y.score <= x.score
                            /\ y.pin.score >= x.pin.score /\ y.event.score >= x.event.score
<1>1. ASSUME NEW x \in some, NEW y \in some, Ordered(x, y)
      PROVE  /\ Fragile(x, Facts) \subseteq Fragile(y, Facts)
             /\ \A s \in middling, v \in {100, 500, 2000} : eased(x, y, s, with(v))
  <2>1. IsBlock(x) /\ IsBlock(y)
    BY BlocksOfTheRun
  <2>2. Fragile(x, Facts) \subseteq Fragile(y, Facts)
    BY <1>1, <2>1, WorseBlocksAreNoEasier
  <2>3. \A r, s : eased(x, y, s, r)
    BY <1>1, <2>1, WorseBlocksAreNoEasier
  <2> HIDE DEF eased
  <2>4. QED
    BY <2>2, <2>3
<1>2. QED
  BY <1>1 DEF WorseIsNotEasier

-----------------------------------------------------------------------------
(* How the members differ.                                                 *)

\* A card of a member, as far as its stance goes.
View == [today : {"Bullish", "Bearish", "Sideways"}, next : {"Bullish", "Bearish", "Sideways"},
         up : Level, down : Level]

\* The mirror image of a day has the mirror image of the stance.
LEMMA StancesAreTurned ==
  \A o \in View : Stance(o) \in DOMAIN Turned /\ Stance(Mirror(o)) = Turned[Stance(o)]
<1> TAKE o \in View
<1> DEFINE said(v, word) == {k \in {"today", "next"} : v[k] = word}
           rising(v) == Cardinality(said(v, "Bullish"))
                        + (IF v.up = "High" /\ v.down # "High" THEN 1 ELSE 0)
           falling(v) == Cardinality(said(v, "Bearish"))
                         + (IF v.down = "High" /\ v.up # "High" THEN 1 ELSE 0)
           m == Mirror(o)
<1>1. \A v : Stance(v) = IF rising(v) > falling(v) THEN "Bullish"
                         ELSE IF falling(v) > rising(v) THEN "Bearish" ELSE "Neutral"
  BY Zenon DEF Stance
<1>2. /\ m.up = o.down /\ m.down = o.up
      /\ said(m, "Bullish") = said(o, "Bearish") /\ said(m, "Bearish") = said(o, "Bullish")
  BY DEF Mirror, View
<1>3. \A word : Cardinality(said(o, word)) \in Nat
  <2> TAKE word
  <2>1. IsFiniteSet({"today"})
    BY FS_Singleton
  <2>2. IsFiniteSet({"today"} \cup {"next"})
    BY <2>1, FS_AddElement
  <2>3. said(o, word) \in SUBSET ({"today"} \cup {"next"})
    OBVIOUS
  <2> HIDE DEF said
  <2>4. IsFiniteSet(said(o, word))
    BY <2>2, <2>3, FS_Subset
  <2>5. QED
    BY <2>4, FS_CardinalityType
<1> HIDE DEF said, m
<1>4. rising(m) = falling(o) /\ falling(m) = rising(o)
  BY <1>2
<1>5. rising(o) \in Int /\ falling(o) \in Int
  BY <1>3
<1> HIDE DEF rising, falling
<1>6. QED
  BY <1>1, <1>4, <1>5 DEF Turned, m

\* turned and back are the mirror images of the first views of the team T and of the revisions
\* that came, none or one of a member.
Mirrored(T, round1, round3, turned, back) ==
  /\ DOMAIN turned = T /\ \A role \in T : turned[role] = Mirror(round1[role])
  /\ DOMAIN back = DOMAIN round3
  /\ \A role \in DOMAIN round3 :
       \/ round3[role] = {} /\ back[role] = {}
       \/ \E o \in View : round3[role] = {o} /\ back[role] = {Mirror(o)}

\* A view that was revised is one of the views that were brought.
LEMMA ViewsAreRevised ==
  ASSUME NEW T, NEW round1 \in [T -> View], NEW round3, NEW turned, NEW back,
         Mirrored(T, round1, round3, turned, back)
  PROVE  /\ DOMAIN Revised(round1, round3) = T /\ DOMAIN Revised(turned, back) = T
         /\ \A role \in T :
              /\ Revised(round1, round3)[role] \in View
              /\ Revised(turned, back)[role] = Mirror(Revised(round1, round3)[role])
         /\ \A role \in T : (role \in DOMAIN round3 => round3[role] = {}) =>
              Revised(round1, round3)[role] = round1[role]
<1> DEFINE new(r, role) == IF role \in DOMAIN r THEN r[role] ELSE {}
           used(a, r) == [role \in DOMAIN a |->
                            IF new(r, role) = {} THEN a[role] ELSE CHOOSE o \in new(r, role) : TRUE]
<1>1. \A a, r : Revised(a, r) = used(a, r)
  BY Zenon DEF Revised
<1>2. DOMAIN round1 = T /\ DOMAIN turned = T
  BY DEF Mirrored
<1>3. \A role \in T : turned[role] = Mirror(round1[role]) /\ round1[role] \in View
  BY DEF Mirrored
<1>4. \A role \in T :
        \/ new(round3, role) = {} /\ new(back, role) = {}
        \/ \E o \in View : new(round3, role) = {o} /\ new(back, role) = {Mirror(o)}
  BY DEF Mirrored
<1>5. \A role \in T :
        /\ used(round1, round3)[role]
             = IF new(round3, role) = {} THEN round1[role]
               ELSE CHOOSE o \in new(round3, role) : TRUE
        /\ used(turned, back)[role]
             = IF new(back, role) = {} THEN turned[role]
               ELSE CHOOSE o \in new(back, role) : TRUE
  <2> HIDE DEF new
  <2>1. QED
    BY <1>2
<1>6. \A role : role \notin DOMAIN round3 \/ round3[role] = {} => new(round3, role) = {}
  OBVIOUS
<1>7. DOMAIN used(round1, round3) = T /\ DOMAIN used(turned, back) = T
  BY <1>2
<1> HIDE DEF new, used
<1>8. ASSUME NEW role \in T
      PROVE  /\ used(round1, round3)[role] \in View
             /\ used(turned, back)[role] = Mirror(used(round1, round3)[role])
  <2>1. CASE new(round3, role) = {} /\ new(back, role) = {}
    BY <1>3, <1>5, <2>1
  <2>2. CASE \E o \in View : new(round3, role) = {o} /\ new(back, role) = {Mirror(o)}
    <3>1. PICK o \in View : new(round3, role) = {o} /\ new(back, role) = {Mirror(o)}
      BY <2>2
    <3>2. \A v : (CHOOSE w \in {v} : TRUE) = v
      OBVIOUS
    <3>3. used(round1, round3)[role] = o
      BY <1>5, <3>1, <3>2
    <3>4. used(turned, back)[role] = Mirror(o)
      BY <1>5, <3>1, <3>2
    <3>5. QED
      BY <3>3, <3>4
  <2>3. QED
    BY <1>4, <2>1, <2>2
<1>9. QED
  BY <1>1, <1>5, <1>6, <1>7, <1>8

\* Every member of a team has one stance: the counts add up to the team.
LEMMA StancesAddUp ==
  ASSUME NEW T, IsFiniteSet(T), NEW st, \A role \in T : st[role] \in DOMAIN Turned
  PROVE  LET n(t) == Cardinality({role \in T : st[role] = t})
         IN n("Bullish") + n("Bearish") + n("Neutral") = Cardinality(T)
<1> DEFINE who(t) == {role \in T : st[role] = t}
           n(t) == Cardinality(who(t))
<1>1. DOMAIN Turned = {"Bullish", "Bearish", "Neutral"}
  BY DEF Turned
<1>2. \A t : who(t) \in SUBSET T /\ IsFiniteSet(who(t)) /\ n(t) \in Nat
  <2> TAKE t
  <2>1. who(t) \in SUBSET T
    OBVIOUS
  <2> HIDE DEF who
  <2>2. QED
    BY <2>1, FS_Subset, FS_CardinalityType
<1>3. n("Bullish") + n("Bearish") + n("Neutral") = Cardinality(T)
  <2> DEFINE A == who("Bullish")
             B == who("Bearish")
             C == who("Neutral")
  <2>1. (A \cup B) \cup C = T /\ A \cap B = {} /\ (A \cup B) \cap C = {}
    BY <1>1
  <2>2. IsFiniteSet(A) /\ IsFiniteSet(B) /\ IsFiniteSet(C)
    BY <1>2
  <2>3. /\ Cardinality(A) = n("Bullish") /\ Cardinality(B) = n("Bearish")
        /\ Cardinality(C) = n("Neutral")
    OBVIOUS
  <2> HIDE DEF A, B, C, n
  <2>4. /\ IsFiniteSet(A \cup B)
        /\ Cardinality(A \cup B) = Cardinality(A) + Cardinality(B) - Cardinality(A \cap B)
    BY <2>2, FS_Union
  <2>5. Cardinality((A \cup B) \cup C)
          = Cardinality(A \cup B) + Cardinality(C) - Cardinality((A \cup B) \cap C)
    BY <2>2, <2>4, FS_Union
  <2>6. Cardinality({}) = 0
    BY FS_EmptySet
  <2>7. n("Bullish") \in Nat /\ n("Bearish") \in Nat /\ n("Neutral") \in Nat
    BY <1>2
  <2>8. Cardinality(T) = n("Bullish") + n("Bearish") - 0 + n("Neutral") - 0
    BY <2>1, <2>3, <2>4, <2>5, <2>6
  <2>9. QED
    BY <2>7, <2>8
<1>4. QED
  BY <1>3

\* All have the same stance just where one count is that of the team.
LEMMA StancesConverge ==
  ASSUME NEW T, IsFiniteSet(T), T # {}, NEW st, \A role \in T : st[role] \in DOMAIN Turned
  PROVE  Cardinality({st[role] : role \in T}) <= 1
           <=> \E t \in DOMAIN Turned : Cardinality({role \in T : st[role] = t}) = Cardinality(T)
<1> DEFINE who(t) == {role \in T : st[role] = t}
           n(t) == Cardinality(who(t))
           all == {st[role] : role \in T}
<1>1. \A t : who(t) \in SUBSET T /\ IsFiniteSet(who(t)) /\ n(t) \in Nat
  <2> TAKE t
  <2>1. who(t) \in SUBSET T
    OBVIOUS
  <2> HIDE DEF who
  <2>2. QED
    BY <2>1, FS_Subset, FS_CardinalityType
<1>2. Cardinality(T) \in Nat
  BY FS_CardinalityType
<1>3. ASSUME Cardinality(all) <= 1 PROVE \E t \in DOMAIN Turned : n(t) = Cardinality(T)
  <2>1. PICK role \in T : TRUE
    OBVIOUS
  <2>2. IsFiniteSet(all)
    <3> HIDE DEF all
    <3>1. QED
      BY ImageIsFinite DEF all
  <2>3. st[role] \in all
    BY <2>1
  <2>4. Cardinality(all) \in Nat /\ Cardinality(all) # 0
    <3> HIDE DEF all
    <3>1. QED
      BY <2>2, <2>3, FS_CardinalityType, FS_EmptySet
  <2>5. PICK t : all = {t}
    <3> HIDE DEF all
    <3>1. Cardinality(all) = 1
      BY <1>3, <2>4
    <3>2. QED
      BY <2>2, <3>1, FS_Singleton
  <2>6. who(t) = T
    BY <2>5
  <2>7. t \in DOMAIN Turned
    BY <2>1, <2>3, <2>5
  <2>8. QED
    BY <2>6, <2>7
<1>4. ASSUME NEW t \in DOMAIN Turned, n(t) = Cardinality(T) PROVE Cardinality(all) <= 1
  <2>1. who(t) = T
    <3> HIDE DEF who
    <3>1. QED
      BY <1>1, <1>4, FS_Subset DEF n
  <2>2. all = {t}
    BY <2>1
  <2> HIDE DEF all
  <2>3. Cardinality(all) = 1
    BY <2>2, FS_Singleton
  <2>4. QED
    BY <2>3
<1> HIDE DEF n, all
<1>5. Cardinality(all) <= 1 <=> \E t \in DOMAIN Turned : n(t) = Cardinality(T)
  BY <1>3, <1>4
<1>6. QED
  BY <1>5 DEF n, all

\* What a disagreement shows of the views of a team that has one.
LEMMA DisagreementsShow ==
  ASSUME NEW round1, NEW round2, NEW round3, NEW d \in Disagreement(round1, round2, round3)
  PROVE  LET used == Revised(round1, round3)
             st == [role \in DOMAIN used |-> Stance(used[role])]
             converged == Cardinality({st[role] : role \in DOMAIN used}) <= 1
         IN /\ d.stances = st
            /\ d.counts = [t \in {"Bullish", "Bearish", "Neutral"} |->
                             Cardinality({role \in DOMAIN used : st[role] = t})]
            /\ d.converged = converged
            /\ d.conflict \in (IF converged THEN {{}} ELSE Conflict(round2))
<1> DEFINE used == Revised(round1, round3)
           st == [role \in DOMAIN used |-> Stance(used[role])]
           converged == Cardinality({st[role] : role \in DOMAIN used}) <= 1
           counts == [t \in {"Bullish", "Bearish", "Neutral"} |->
                        Cardinality({role \in DOMAIN used : st[role] = t})]
           open == IF converged THEN {{}} ELSE Conflict(round2)
           row(c) == [stances |-> st, counts |-> counts, converged |-> converged, conflict |-> c]
<1>1. Disagreement(round1, round2, round3)
        = IF DOMAIN round1 = {} THEN {} ELSE {row(c) : c \in open}
  BY Zenon DEF Disagreement
<1>2. \A c : /\ row(c).stances = st /\ row(c).counts = counts
             /\ row(c).converged = converged /\ row(c).conflict = c
  BY Zenon
<1> HIDE DEF row, open
<1>3. PICK c \in open : d = row(c)
  BY <1>1
<1>4. QED
  BY <1>2, <1>3, Zenon DEF open

\* For every team, its first views, the revisions that came and the critiques: a team that sees
\* the mirror image of the day is shown with the mirror image of its stances, every member
\* counts once, and the team has converged just where one stance has all of it.
THEOREM TeamsAreShownFairly ==
  ASSUME NEW T, IsFiniteSet(T), T # {}, NEW round1 \in [T -> View], NEW round2, NEW round3,
         NEW turned, NEW back, Mirrored(T, round1, round3, turned, back),
         NEW d \in Disagreement(round1, round2, round3),
         NEW m \in Disagreement(turned, round2, back)
  PROVE  /\ ShownFairly(d, m, T)
         /\ d.conflict \in (IF d.converged THEN {{}} ELSE Conflict(round2))
         /\ \A role \in T : (role \in DOMAIN round3 => round3[role] = {}) =>
              d.stances[role] = Stance(round1[role])
<1> DEFINE used == Revised(round1, round3)
           over == Revised(turned, back)
           st == [role \in DOMAIN used |-> Stance(used[role])]
           ts == [role \in DOMAIN over |-> Stance(over[role])]
           n(t) == Cardinality({role \in T : st[role] = t})
           k(t) == Cardinality({role \in T : ts[role] = t})
           Three == {"Bullish", "Bearish", "Neutral"}
           converged == Cardinality({st[role] : role \in T}) <= 1
           one == \E t \in DOMAIN Turned : n(t) = Cardinality(T)
<1>1. /\ DOMAIN used = T /\ DOMAIN over = T
      /\ \A role \in T : used[role] \in View /\ over[role] = Mirror(used[role])
      /\ \A role \in T : (role \in DOMAIN round3 => round3[role] = {}) =>
           used[role] = round1[role]
  BY ViewsAreRevised
<1>2. /\ d.stances = st
      /\ d.counts = [t \in Three |-> Cardinality({role \in DOMAIN used : st[role] = t})]
      /\ d.converged = (Cardinality({st[role] : role \in DOMAIN used}) <= 1)
      /\ d.conflict \in (IF Cardinality({st[role] : role \in DOMAIN used}) <= 1 THEN {{}}
                         ELSE Conflict(round2))
  BY DisagreementsShow, Zenon
<1>3. /\ m.stances = ts
      /\ m.counts = [t \in Three |-> Cardinality({role \in DOMAIN over : ts[role] = t})]
      /\ m.converged = (Cardinality({ts[role] : role \in DOMAIN over}) <= 1)
      /\ m.conflict \in (IF Cardinality({ts[role] : role \in DOMAIN over}) <= 1 THEN {{}}
                         ELSE Conflict(round2))
  BY DisagreementsShow, Zenon
<1> HIDE DEF used, over
<1>4. \A role \in T : /\ st[role] = Stance(used[role]) /\ ts[role] = Stance(over[role])
                      /\ st[role] \in DOMAIN Turned /\ ts[role] = Turned[st[role]]
  BY <1>1, StancesAreTurned
<1>5. DOMAIN Turned = Three /\ \A t \in Three : Turned[t] \in Three /\ Turned[Turned[t]] = t
  BY DEF Turned
<1>6. d.stances = st /\ m.stances = ts
  BY <1>2, <1>3
<1> HIDE DEF st, ts
<1>7. \A t \in Three : d.counts[t] = n(t) /\ m.counts[t] = k(t)
  <2> HIDE DEF Three
  <2>1. \A t \in Three : /\ d.counts[t] = Cardinality({role \in DOMAIN used : st[role] = t})
                         /\ m.counts[t] = Cardinality({role \in DOMAIN over : ts[role] = t})
    BY <1>2, <1>3
  <2>2. QED
    BY <1>1, <2>1
<1>8. \A t \in Three : k(Turned[t]) = n(t)
  <2> SUFFICES ASSUME NEW t \in Three PROVE k(Turned[t]) = n(t)
    OBVIOUS
  <2>1. {role \in T : ts[role] = Turned[t]} = {role \in T : st[role] = t}
    <3> HIDE DEF Three
    <3>1. QED
      BY <1>4, <1>5
  <2>2. QED
    BY <2>1
<1>9. /\ n("Bullish") + n("Bearish") + n("Neutral") = Cardinality(T)
      /\ converged <=> one
  <2>1. \A role \in T : st[role] \in DOMAIN Turned
    BY <1>4
  <2>2. n("Bullish") + n("Bearish") + n("Neutral") = Cardinality(T)
    BY <2>1, StancesAddUp
  <2>3. converged <=> one
    BY <2>1, StancesConverge
  <2>4. QED
    BY <2>2, <2>3
<1>10. d.converged = converged
  BY <1>1, <1>2
<1>11. \A role \in T : m.stances[role] = Turned[d.stances[role]]
  BY <1>4, <1>6
<1>12. \A t \in DOMAIN Turned : m.counts[Turned[t]] = d.counts[t]
  <2> HIDE DEF n, k, Three
  <2>1. QED
    BY <1>5, <1>7, <1>8
<1>13. d.counts.Bullish + d.counts.Bearish + d.counts.Neutral = Cardinality(T)
  <2>1. "Bullish" \in Three /\ "Bearish" \in Three /\ "Neutral" \in Three
    OBVIOUS
  <2> HIDE DEF n, Three
  <2>2. QED
    BY <1>7, <1>9, <2>1
<1>14. d.converged <=> \E t \in DOMAIN Turned : d.counts[t] = Cardinality(T)
  <2>1. one <=> \E t \in DOMAIN Turned : d.counts[t] = Cardinality(T)
    <3> HIDE DEF n, Three
    <3>1. QED
      BY <1>5, <1>7
  <2>2. converged <=> \E t \in DOMAIN Turned : d.counts[t] = Cardinality(T)
    <3> HIDE DEF converged, one
    <3>1. QED
      BY <1>9, <2>1
  <2>3. QED
    BY <1>10, <2>2
<1>15. d.conflict \in (IF d.converged THEN {{}} ELSE Conflict(round2))
  <2>1. d.conflict \in (IF converged THEN {{}} ELSE Conflict(round2))
    BY <1>1, <1>2
  <2> HIDE DEF converged
  <2>2. QED
    BY <1>10, <2>1
<1>16. \A role \in T : (role \in DOMAIN round3 => round3[role] = {}) =>
         d.stances[role] = Stance(round1[role])
  BY <1>1, <1>4, <1>6
<1>17. QED
  BY <1>11, <1>12, <1>13, <1>14, <1>15, <1>16 DEF ShownFairly

\* The theme two of three name is the foremost one.
LEMMA ThemesOfTheRun ==
  Conflict([enums |-> <<"event", "event", "pin">>, numbers |-> <<"pin">>]) = {{"event", "pin"}}
<1> DEFINE words == <<"event", "event", "pin">>
           sums == <<"pin">>
           times(themes, t) == Cardinality({k \in DOMAIN themes : themes[k] = t})
<1>1. \A themes : Foremost(themes)
        = {t \in ToSet(themes) : \A u \in ToSet(themes) : times(themes, u) <= times(themes, t)}
  BY Zenon DEF Foremost
<1>2. ToSet(words) = {"event", "pin"} /\ ToSet(sums) = {"pin"}
  BY DEF ToSet
<1>3. times(words, "event") = 2 /\ times(words, "pin") = 1
  <2>1. /\ {k \in DOMAIN words : words[k] = "event"} = {1} \cup {2}
        /\ {k \in DOMAIN words : words[k] = "pin"} = {3}
    OBVIOUS
  <2>2. IsFiniteSet({1}) /\ Cardinality({1}) = 1 /\ Cardinality({3}) = 1
    BY FS_Singleton
  <2>3. Cardinality({1} \cup {2}) = 2
    BY <2>2, FS_AddElement
  <2>4. QED
    BY <2>1, <2>2, <2>3
<1>4. times(sums, "pin") = 1
  <2>1. {k \in DOMAIN sums : sums[k] = "pin"} = {1}
    OBVIOUS
  <2>2. QED
    BY <2>1, FS_Singleton
<1>5. words # <<>> /\ sums # <<>>
  OBVIOUS
<1> HIDE DEF words, sums, times
<1>6. Foremost(words) = {"event"} /\ Foremost(sums) = {"pin"}
  BY <1>1, <1>2, <1>3, <1>4
<1>7. Conflict([enums |-> words, numbers |-> sums])
        = {e \cup n : e \in {{t} : t \in Foremost(words)}, n \in {{t} : t \in Foremost(sums)}}
  BY <1>5 DEF Conflict
<1>8. {e \cup n : e \in {{t} : t \in {"event"}}, n \in {{t} : t \in {"pin"}}} = {{"event", "pin"}}
  <2>1. {{t} : t \in {"event"}} = {{"event"}} /\ {{t} : t \in {"pin"}} = {{"pin"}}
    OBVIOUS
  <2>2. \A A, B : {e \cup n : e \in {A}, n \in {B}} = {A \cup B}
    OBVIOUS
  <2>3. {"event"} \cup {"pin"} = {"event", "pin"}
    OBVIOUS
  <2> DEFINE one == {{t} : t \in {"event"}}
             other == {{t} : t \in {"pin"}}
  <2>4. one = {{"event"}} /\ other = {{"pin"}}
    BY <2>1
  <2> HIDE DEF one, other
  <2>5. {e \cup n : e \in one, n \in other} = {{"event"} \cup {"pin"}}
    BY <2>4
  <2>6. QED
    BY <2>3, <2>5 DEF one, other
<1>9. Conflict([enums |-> words, numbers |-> sums]) = {{"event", "pin"}}
  BY <1>6, <1>7, <1>8
<1>10. QED
  BY <1>9 DEF words, sums

\* So it is for the team of two a run checks, whose foremost themes are the event and the pin.
LEMMA StanceOfTheRun == StanceIsFair
<1> DEFINE Views == [today : {"Bullish", "Bearish", "Sideways"}, next : {"Bullish", "Sideways"},
                     up : {"High", "Low"}, down : {"High", "Medium"}]
           said == [enums |-> <<"event", "event", "pin">>, numbers |-> <<"pin">>]
           team == {"desk", "judge"}
           revised(new) == [role \in {"judge"} |-> new]
           turned(round1) == [role \in DOMAIN round1 |-> Mirror(round1[role])]
           back(new) == [role \in {"judge"} |-> {Mirror(o) : o \in new}]
<1>1. IsFiniteSet(team) /\ team # {}
  <2>1. team = {"desk"} \cup {"judge"}
    OBVIOUS
  <2>2. IsFiniteSet({"desk"})
    BY FS_Singleton
  <2>3. IsFiniteSet({"desk"} \cup {"judge"})
    BY <2>2, FS_AddElement
  <2>4. QED
    BY <2>1, <2>3
<1>2. Views \subseteq View
  BY DEF View, Level
<1>3. ASSUME NEW round1 \in [team -> Views], NEW new \in {{}} \cup {{o} : o \in Views}
      PROVE  LET shown == Disagreement(round1, said, revised(new))
                 over == Disagreement(turned(round1), said, back(new))
             IN /\ shown # {}
                /\ \A d \in shown, m \in over :
                     /\ ShownFairly(d, m, team)
                     /\ d.conflict = (IF d.converged THEN {} ELSE {"event", "pin"})
                     /\ new = {} => d.stances["judge"] = Stance(round1["judge"])
  <2> DEFINE r == revised(new)
             shown == Disagreement(round1, said, r)
             over == Disagreement(turned(round1), said, back(new))
  <2>1. round1 \in [team -> View]
    <3> HIDE DEF Views, team
    <3>1. QED
      BY <1>2
  <2>2. DOMAIN r = {"judge"} /\ r["judge"] = new
    OBVIOUS
  <2>3. new = {} \/ \E o \in View : new = {o}
    <3> HIDE DEF Views
    <3>1. QED
      BY <1>2
  <2>4. Mirrored(team, round1, r, turned(round1), back(new))
    <3>1. DOMAIN round1 = team
      OBVIOUS
    <3>2. /\ DOMAIN turned(round1) = team
          /\ \A role \in team : turned(round1)[role] = Mirror(round1[role])
      BY <3>1
    <3>3. DOMAIN back(new) = {"judge"} /\ back(new)["judge"] = {Mirror(o) : o \in new}
      OBVIOUS
    <3> HIDE DEF r, turned, back, team
    <3>4. \/ r["judge"] = {} /\ back(new)["judge"] = {}
          \/ \E o \in View : r["judge"] = {o} /\ back(new)["judge"] = {Mirror(o)}
      BY <2>2, <2>3, <3>3
    <3>5. QED
      BY <2>2, <3>2, <3>3, <3>4 DEF Mirrored
  <2>5. Conflict(said) = {{"event", "pin"}}
    BY ThemesOfTheRun
  <2> HIDE DEF r, said, team
  <2>6. ASSUME NEW d \in shown, NEW m \in over
        PROVE  /\ ShownFairly(d, m, team)
               /\ d.conflict = (IF d.converged THEN {} ELSE {"event", "pin"})
               /\ new = {} => d.stances["judge"] = Stance(round1["judge"])
    <3>3. /\ ShownFairly(d, m, team)
          /\ d.conflict \in (IF d.converged THEN {{}} ELSE Conflict(said))
          /\ \A role \in team : (role \in DOMAIN r => r[role] = {}) =>
               d.stances[role] = Stance(round1[role])
      <4> HIDE DEF turned, back
      <4>1. /\ d \in Disagreement(round1, said, r)
            /\ m \in Disagreement(turned(round1), said, back(new))
        OBVIOUS
      <4> HIDE DEF shown, over
      <4>2. QED
        BY <1>1, <2>1, <2>4, <4>1, TeamsAreShownFairly
    <3>4. d.conflict = (IF d.converged THEN {} ELSE {"event", "pin"})
      BY <2>5, <3>3
    <3>5. "judge" \in team
      BY DEF team
    <3>6. QED
      BY <2>2, <3>3, <3>4, <3>5
  <2>7. shown # {}
    <3> DEFINE used == Revised(round1, r)
               st == [role \in DOMAIN used |-> Stance(used[role])]
               counts == [t \in {"Bullish", "Bearish", "Neutral"} |->
                            Cardinality({role \in DOMAIN used : st[role] = t})]
               converged == Cardinality({st[role] : role \in DOMAIN used}) <= 1
               open == IF converged THEN {{}} ELSE Conflict(said)
               row(c) == [stances |-> st, counts |-> counts, converged |-> converged,
                          conflict |-> c]
    <3>1. shown = IF DOMAIN round1 = {} THEN {} ELSE {row(c) : c \in open}
      BY Zenon DEF Disagreement
    <3>2. open # {}
      BY <2>5
    <3>3. DOMAIN round1 # {}
      BY <1>1, <2>1
    <3> HIDE DEF row, open
    <3>4. QED
      BY <3>1, <3>2, <3>3
  <2>8. QED
    BY <2>6, <2>7 DEF r
<1>4. QED
  BY <1>3, Zenon DEF StanceIsFair

\* The cards and the explanations of a report are consistent in every state: the two cards
\* agree, the explanations add up, the conditions name what decides, the team is shown fairly,
\* and what is worse is no easier.
THEOREM CardsStayConsistent == Spec => []CardsAreConsistent
<1>1. CardsAreConsistent
  BY CardsOfTheRunAgree, ExplanationsOfTheRun, TriggersOfTheRun, StanceOfTheRun, WorseOfTheRun
     DEF CardsAreConsistent
<1>2. QED
  BY <1>1, PTL
=============================================================================
