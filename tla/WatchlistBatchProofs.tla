------------------------ MODULE WatchlistBatchProofs ------------------------
(***************************************************************************)
(* Proofs about WatchlistBatch, for every watchlist and any number of      *)
(* batch runs: nothing is stranded, a ticker is queued once and has one    *)
(* result, a batch run returns with the whole watchlist done, and the      *)
(* service implements RefreshBoard.                                        *)
(*                                                                         *)
(* The queue is what a loop over the tickers makes of it.  What such a     *)
(* loop leaves is proved by induction over its rounds: the set of the      *)
(* rounds that are as claimed holds 0, and with n it holds n + 1.          *)
(***************************************************************************)
EXTENDS WatchlistBatch, SequenceTheorems, WellFoundedInduction, TLAPS

-----------------------------------------------------------------------------
(* Loops.                                                                  *)

\* Induction over a set of numbers: the least number outside it would have a
\* predecessor inside.
LEMMA Induction ==
  ASSUME NEW T, 0 \in T, \A n \in Nat : n \in T => n + 1 \in T
  PROVE  Nat \subseteq T
<1> DEFINE Bad == {n \in Nat : n \notin T}
           R == OpToRel(<, Nat)
<1>1. IsWellFoundedOn(R, Nat)
  BY NatLessThanWellFounded
<1>2. \A x, y \in Nat : x < y => <<x, y>> \in R
  BY DEF OpToRel
<1> HIDE DEF R
<1> SUFFICES ASSUME Bad # {} PROVE FALSE
  OBVIOUS
<1>3. PICK n \in Bad : \A m \in Bad : ~ (<<m, n>> \in R)
  BY <1>1, WFMin
<1>4. n - 1 \in Bad /\ n \in Nat /\ n - 1 \in Nat /\ n - 1 < n
  BY <1>3
<1> HIDE DEF Bad
<1>5. QED
  BY <1>2, <1>3, <1>4

\* g lists what folding step over 1 .. n makes of base.
IsFold(g, n, S, base, step) ==
  /\ g \in [0 .. n -> S]
  /\ g[0] = base
  /\ \A i \in 1 .. n : g[i] = step[i][g[i - 1]]

\* Folding a sequence of functions on S over a value of S can be done.
LEMMA Folding ==
  ASSUME NEW S, NEW base \in S, NEW N \in Nat, NEW step \in [1 .. N -> [S -> S]]
  PROVE  \E g : IsFold(g, N, S, base, step)
<1> DEFINE T == {n \in Nat : n <= N => \E g : IsFold(g, n, S, base, step)}
<1>1. 0 \in T
  <2>1. IsFold([i \in 0 .. 0 |-> base], 0, S, base, step)
    BY DEF IsFold
  <2>2. QED
    BY <2>1
<1>2. ASSUME NEW n \in Nat, n \in T PROVE n + 1 \in T
  <2> SUFFICES ASSUME n + 1 <= N PROVE \E g : IsFold(g, n + 1, S, base, step)
    OBVIOUS
  <2>1. PICK g : IsFold(g, n, S, base, step)
    BY <1>2
  <2> DEFINE new == step[n + 1][g[n]]
             h == [i \in 0 .. n + 1 |-> IF i = n + 1 THEN new ELSE g[i]]
  <2>2. g \in [0 .. n -> S] /\ g[0] = base /\ \A i \in 1 .. n : g[i] = step[i][g[i - 1]]
    BY <2>1 DEF IsFold
  <2>3. new \in S
    <3>1. g[n] \in S /\ n + 1 \in 1 .. N
      BY <2>2
    <3>2. QED
      BY <3>1
  <2>4. ASSUME NEW i \in 1 .. n + 1 PROVE h[i] = step[i][h[i - 1]]
    <3>1. h[i - 1] = g[i - 1]
      OBVIOUS
    <3>2. CASE i = n + 1
      BY <3>1, <3>2
    <3>3. CASE i # n + 1
      BY <2>2, <3>1, <3>3
    <3>4. QED
      BY <3>2, <3>3
  <2> HIDE DEF new
  <2>5. h \in [0 .. n + 1 -> S] /\ h[0] = base
    BY <2>2, <2>3
  <2> HIDE DEF h
  <2>6. IsFold(h, n + 1, S, base, step)
    BY <2>4, <2>5 DEF IsFold
  <2>7. QED
    BY <2>6
<1>3. N \in T
  <2> HIDE DEF T
  <2>1. QED
    BY <1>1, <1>2, Induction
<1>4. QED
  BY <1>3

-----------------------------------------------------------------------------
(* The queue.                                                              *)

\* A push leaves the queue as it is or appends the ticker.
LEMMA PushedType ==
  ASSUME NEW q \in Seq(Ticker), NEW t \in Ticker
  PROVE  /\ Pushed(q, t) \in Seq(Ticker)
         /\ Pushed(q, t) \in {q, Append(q, t)}
BY DEF Pushed

\* The recursion of Enqueued has a solution, whose last value it is.
LEMMA EnqueuedIsFold ==
  ASSUME queue \in Seq(Ticker), NEW s \in Seq(Ticker)
  PROVE  \E f : /\ f[0] = queue
                /\ \A n \in 1 .. Len(s) : f[n] = Pushed(f[n - 1], s[n])
                /\ Enqueued(s) = f[Len(s)]
<1> DEFINE S == Seq(Ticker)
           N == Len(s)
           step == [n \in 1 .. N |-> [q \in S |-> Pushed(q, s[n])]]
           Rec(f) == f = [n \in 0 .. N |-> IF n = 0 THEN queue ELSE Pushed(f[n - 1], s[n])]
<1>1. N \in Nat /\ queue \in S /\ \A n \in 1 .. N : s[n] \in Ticker
  OBVIOUS
<1>2. step \in [1 .. N -> [S -> S]]
  BY <1>1, PushedType
<1>3. \A n \in 1 .. N, q \in S : step[n][q] = Pushed(q, s[n])
  OBVIOUS
<1> HIDE DEF S, N, step
<1>4. PICK g : IsFold(g, N, S, queue, step)
  BY <1>1, <1>2, Folding
<1>5. g \in [0 .. N -> S] /\ g[0] = queue /\ \A n \in 1 .. N : g[n] = step[n][g[n - 1]]
  BY <1>4 DEF IsFold
<1>6. ASSUME NEW n \in 1 .. N PROVE g[n] = Pushed(g[n - 1], s[n])
  <2>1. n - 1 \in 0 .. N
    BY <1>1
  <2>2. QED
    BY <1>3, <1>5, <2>1
<1>7. Rec(g)
  BY <1>5, <1>6
<1> DEFINE f == CHOOSE f : Rec(f)
<1>8. Rec(f)
  <2> HIDE DEF Rec
  <2>1. QED
    BY <1>7
<1>9. Enqueued(s) = f[N]
  BY DEF Enqueued, N
<1> HIDE DEF f
<1>10. QED
  BY <1>1, <1>8, <1>9 DEF N

\* The elements of a sequence with one appended.
LEMMA SetOfAppend ==
  ASSUME NEW S, NEW q \in Seq(S), NEW t \in S
  PROVE  ToSet(Append(q, t)) = ToSet(q) \cup {t}
BY AppendProperties DEF ToSet

Distinct(s) == \A i, j \in DOMAIN s : s[i] = s[j] => i = j

\* What the queue has to be: no ticker twice, and none that is in hand.
Waiting(q) == q \in Seq(Ticker) /\ Distinct(q) /\ current \notin ToSet(q)

\* enqueue_ticker keeps it so, and leaves the ticker pending.
LEMMA PushKeeps ==
  ASSUME NEW q, NEW t \in Ticker, Waiting(q)
  PROVE  /\ Waiting(Pushed(q, t))
         /\ ToSet(Pushed(q, t)) = ToSet(q) \cup ({t} \ {current})
<1>1. CASE t \in ToSet(q) \cup {current}
  BY <1>1 DEF Pushed, Waiting
<1>2. CASE t \notin ToSet(q) \cup {current}
  <2>1. Pushed(q, t) = Append(q, t) /\ q \in Seq(Ticker)
    BY <1>2 DEF Pushed, Waiting
  <2>2. Append(q, t) \in Seq(Ticker) /\ ToSet(Append(q, t)) = ToSet(q) \cup {t}
    BY <2>1, SetOfAppend
  <2>3. Distinct(Append(q, t))
    BY <1>2, <2>1 DEF Waiting, Distinct, ToSet
  <2>4. QED
    BY <1>2, <2>1, <2>2, <2>3 DEF Waiting
<1>3. QED
  BY <1>1, <1>2

\* So does enqueue_ticker for each of s: the rounds of the loop by induction.
LEMMA EnqueuedKeeps ==
  ASSUME Waiting(queue), NEW s \in Seq(Ticker)
  PROVE  /\ Waiting(Enqueued(s))
         /\ ToSet(Enqueued(s)) = ToSet(queue) \cup (ToSet(s) \ {current})
<1> DEFINE N == Len(s)
           Upto(n) == {s[i] : i \in 1 .. n}
<1>1. PICK f : /\ f[0] = queue
               /\ \A n \in 1 .. N : f[n] = Pushed(f[n - 1], s[n])
               /\ Enqueued(s) = f[N]
  BY EnqueuedIsFold DEF Waiting
<1> DEFINE Good(n) == /\ Waiting(f[n])
                      /\ ToSet(f[n]) = ToSet(queue) \cup (Upto(n) \ {current})
           T == {n \in Nat : n <= N => Good(n)}
<1>2. 0 \in T
  BY <1>1
<1>3. ASSUME NEW n \in Nat, n \in T PROVE n + 1 \in T
  <2> SUFFICES ASSUME n + 1 <= N PROVE Good(n + 1)
    OBVIOUS
  <2>1. Good(n)
    BY <1>3
  <2>2. s[n + 1] \in Ticker /\ f[n + 1] = Pushed(f[n], s[n + 1])
    BY <1>1
  <2>3. Waiting(f[n + 1]) /\ ToSet(f[n + 1]) = ToSet(f[n]) \cup ({s[n + 1]} \ {current})
    BY <2>1, <2>2, PushKeeps
  <2>4. Upto(n + 1) = Upto(n) \cup {s[n + 1]}
    OBVIOUS
  <2> HIDE DEF Upto
  <2>5. QED
    BY <2>1, <2>3, <2>4
<1>4. N \in T
  <2>1. N \in Nat
    OBVIOUS
  <2> HIDE DEF T, N
  <2>2. QED
    BY <1>2, <1>3, <2>1, Induction
<1>5. Upto(N) = ToSet(s) /\ N \in Nat
  BY DEF ToSet
<1>6. QED
  <2> HIDE DEF N, Upto
  <2>1. Good(N)
    BY <1>4, <1>5
  <2>2. QED
    BY <1>1, <1>5, <2>1

\* The recursion of NotCurrent on a queue without the ticker in hand copies it.
LEMMA NotCurrentCopies ==
  ASSUME NEW q \in Seq(Ticker), current \notin ToSet(q)
  PROVE  NotCurrent(q) = q
<1> DEFINE S == Seq(Ticker)
           N == Len(q)
           Next1(k, n) == IF q[n] = current THEN k ELSE Append(k, q[n])
           step == [n \in 1 .. N |-> [k \in S |-> Next1(k, n)]]
           Rec(f) == f = [n \in 0 .. N |-> IF n = 0 THEN <<>> ELSE Next1(f[n - 1], n)]
<1>1. N \in Nat /\ <<>> \in S /\ \A n \in 1 .. N : q[n] \in Ticker /\ q[n] # current
  BY DEF ToSet
<1>2. \A n \in 1 .. N, k \in S : Next1(k, n) = Append(k, q[n]) /\ Next1(k, n) \in S
  BY <1>1
<1>3. step \in [1 .. N -> [S -> S]] /\ \A n \in 1 .. N, k \in S : step[n][k] = Next1(k, n)
  BY <1>2
<1> HIDE DEF S, N, step, Next1
<1>4. PICK g : IsFold(g, N, S, <<>>, step)
  BY <1>1, <1>3, Folding
<1>5. g \in [0 .. N -> S] /\ g[0] = <<>> /\ \A n \in 1 .. N : g[n] = step[n][g[n - 1]]
  BY <1>4 DEF IsFold
<1>6. ASSUME NEW n \in 1 .. N PROVE g[n] = Next1(g[n - 1], n)
  <2>1. n - 1 \in 0 .. N
    BY <1>1
  <2>2. QED
    BY <1>3, <1>5, <2>1
<1>7. Rec(g)
  BY <1>5, <1>6
<1> DEFINE f == CHOOSE f : Rec(f)
<1>8. Rec(f)
  <2> HIDE DEF Rec
  <2>1. QED
    BY <1>7
<1>9. NotCurrent(q) = f[N]
  BY DEF NotCurrent, N, Next1
<1> HIDE DEF f
<1> DEFINE Good(n) == f[n] \in S /\ Len(f[n]) = n /\ \A i \in 1 .. n : f[n][i] = q[i]
           T == {n \in Nat : n <= N => Good(n)}
<1>10. 0 \in T
  BY <1>1, <1>8
<1>11. ASSUME NEW n \in Nat, n \in T PROVE n + 1 \in T
  <2> SUFFICES ASSUME n + 1 <= N PROVE Good(n + 1)
    OBVIOUS
  <2>1. Good(n) /\ n + 1 \in 1 .. N
    BY <1>1, <1>11
  <2>2. f[n + 1] = Append(f[n], q[n + 1])
    <3>1. f[n + 1] = Next1(f[n], n + 1)
      BY <1>1, <1>8, <2>1
    <3>2. QED
      BY <1>2, <2>1, <3>1
  <2>3. QED
    BY <1>1, <2>1, <2>2 DEF S
<1>12. N \in T
  <2> HIDE DEF T
  <2>1. QED
    BY <1>1, <1>10, <1>11, Induction
<1>13. Good(N)
  BY <1>1, <1>12
<1>14. QED
  <2>1. f[N] \in Seq(Ticker) /\ Len(f[N]) = Len(q) /\ \A i \in 1 .. Len(f[N]) : f[N][i] = q[i]
    BY <1>13 DEF N, S
  <2>2. QED
    BY <1>9, <2>1, SeqEqual

-----------------------------------------------------------------------------
(* The invariant.                                                          *)

\* A ticker in hand has no result while it is refreshed, and is on the failed
\* list while its failure is written.
InHand ==
  /\ worker \in {"none", "starting"} <=> current = NoTicker
  /\ worker = "refreshing" => current \notin completed \cup failed
  /\ worker = "marking" => current \in failed

\* While a batch run is pending every ticker has a result or is to get one; once it
\* is woken all of them have theirs.
Covered ==
  \A b \in Batch :
    /\ batch[b] # "none" => Ticker \subseteq completed \cup failed \cup ToSet(queue) \cup {current}
    /\ batch[b] = "woken" => current = NoTicker /\ Ticker \subseteq completed \cup failed

BatchInv ==
  /\ TypeOK
  /\ NothingStranded
  /\ RefreshedOnce
  /\ OneResult
  /\ InHand
  /\ Covered

\* In every state of the invariant each ticker queued is queued once and waiting.
LEMMA QueueIsWaiting ==
  ASSUME BatchInv
  PROVE  Waiting(queue)
BY DEF BatchInv, TypeOK, RefreshedOnce, Waiting, Distinct

\* A queue that waits after a step, and is reported as it is, keeps RefreshedOnce.
LEMMA WaitingIsRefreshedOnce ==
  ASSUME Waiting(queue)', queued' = queue'
  PROVE  RefreshedOnce'
BY DEF RefreshedOnce, Waiting, Distinct

\* What a request does to the queue and to the worker.
LEMMA Enqueuing ==
  ASSUME BatchInv, NEW s \in Seq(Ticker), EnqueueAll(s), UNCHANGED current
  PROVE  /\ Waiting(queue') /\ queued' = queue'
         /\ ToSet(queue') = ToSet(queue) \cup (ToSet(s) \ {current})
         /\ worker' \in {worker, "starting"} /\ (worker' # worker => worker = "none")
         /\ idle' \in BOOLEAN
         /\ idle' => idle /\ queue' = queue
         /\ idle' <=> worker' = "none"
         /\ queue' # <<>> \/ current # NoTicker => worker' # "none"
         /\ state' \in {state, "running"}
<1>1. Waiting(queue) /\ queued = queue
  BY QueueIsWaiting DEF BatchInv, RefreshedOnce
<1>2. /\ Waiting(Enqueued(s))
      /\ ToSet(Enqueued(s)) = ToSet(queue) \cup (ToSet(s) \ {current})
  BY <1>1, EnqueuedKeeps
<1>3. NotCurrent(Enqueued(s)) = Enqueued(s)
  BY <1>2, NotCurrentCopies DEF Waiting
<1>4. CASE Enqueued(s) = queue
  <2>1. UNCHANGED <<queue, queued, state, idle, worker>>
    BY <1>4 DEF EnqueueAll
  <2>2. QED
    BY <1>1, <1>2, <1>4, <2>1 DEF BatchInv, TypeOK, NothingStranded
<1>5. CASE Enqueued(s) # queue
  <2>1. /\ queue' = Enqueued(s)
        /\ queued' = NotCurrent(queue')
        /\ state' = "running"
        /\ idle' = FALSE
        /\ worker' = IF worker = "none" THEN "starting" ELSE worker
    BY <1>5 DEF EnqueueAll
  <2>2. QED
    BY <1>2, <1>3, <2>1
<1>6. QED
  BY <1>4, <1>5

\* A queue and its first element.
LEMMA HeadAndTail ==
  ASSUME NEW q, Waiting(q), q # <<>>
  PROVE  /\ Tail(q) \in Seq(Ticker) /\ Distinct(Tail(q))
         /\ Head(q) \in Ticker /\ Head(q) # current
         /\ ToSet(Tail(q)) = ToSet(q) \ {Head(q)}
         /\ Head(q) \in ToSet(q)
<1>1. q \in Seq(Ticker) /\ Distinct(q) /\ current \notin ToSet(q)
  BY DEF Waiting
<1>2. /\ Head(q) = q[1] /\ Len(q) \in Nat /\ Len(q) > 0 /\ DOMAIN q = 1 .. Len(q)
      /\ Tail(q) \in Seq(Ticker) /\ Len(Tail(q)) = Len(q) - 1
      /\ DOMAIN Tail(q) = 1 .. Len(q) - 1
      /\ \A i \in 1 .. Len(q) - 1 : Tail(q)[i] = q[i + 1]
  BY <1>1, HeadTailProperties
<1>3. Head(q) \in ToSet(q) /\ Head(q) \in Ticker
  BY <1>1, <1>2 DEF ToSet
<1>4. Distinct(Tail(q))
  BY <1>1, <1>2 DEF Distinct
<1>5. ToSet(Tail(q)) \subseteq ToSet(q) \ {Head(q)}
  BY <1>1, <1>2 DEF ToSet, Distinct
<1>6. ASSUME NEW t \in ToSet(q) \ {Head(q)} PROVE t \in ToSet(Tail(q))
  <2>1. PICK i \in 1 .. Len(q) : t = q[i]
    BY <1>2 DEF ToSet
  <2>2. i - 1 \in 1 .. Len(q) - 1 /\ Tail(q)[i - 1] = t
    BY <1>2, <1>6, <2>1
  <2>3. QED
    BY <1>2, <2>2 DEF ToSet
<1>7. QED
  BY <1>1, <1>2, <1>3, <1>4, <1>5, <1>6

\* Going on with the result lists comp and fail, the ticker in hand being on one of
\* them, keeps the invariant.
LEMMA GoingOn ==
  ASSUME BatchInv, worker # "none", \A b \in Batch : batch[b] # "woken",
         NEW comp, NEW fail, comp \subseteq Ticker, fail \subseteq Ticker, comp \cap fail = {},
         completed \cup failed \subseteq comp \cup fail,
         current = NoTicker \/ current \in comp \cup fail,
         LoopOn(comp, fail), UNCHANGED awaitFull
  PROVE  BatchInv'
<1> USE DEF BatchInv
<1>1. CASE TakeNext(comp, fail)
  <2> DEFINE t == Head(queue)
  <2>1. /\ queue # <<>> /\ queue' = Tail(queue) /\ queued' = NotCurrent(Tail(queue))
        /\ current' = t /\ completed' = comp \ {t} /\ failed' = fail \ {t}
        /\ worker' = "refreshing" /\ UNCHANGED <<idle, state, batch>>
    BY <1>1 DEF TakeNext
  <2>2. /\ Tail(queue) \in Seq(Ticker) /\ Distinct(Tail(queue)) /\ t \in Ticker
        /\ ToSet(Tail(queue)) = ToSet(queue) \ {t} /\ current \notin ToSet(queue)
    BY <2>1, QueueIsWaiting, HeadAndTail DEF Waiting
  <2>3. queued' = queue'
    BY <2>1, <2>2, NotCurrentCopies
  <2> HIDE DEF t
  <2>4. TypeOK'
    BY <2>1, <2>2, <2>3 DEF TypeOK
  <2>5. NothingStranded'
    BY <2>1 DEF NothingStranded
  <2>6. RefreshedOnce'
    BY <2>1, <2>2, <2>3 DEF RefreshedOnce, Distinct
  <2>7. OneResult' /\ InHand'
    BY <2>1, <2>2, WatchlistAssumption DEF OneResult, InHand
  <2>8. Covered'
    <3>1. ASSUME NEW b \in Batch, batch[b] # "none"
          PROVE  Ticker \subseteq comp \cup fail \cup ToSet(queue)
      BY <3>1, WatchlistAssumption DEF Covered
    <3>2. comp \cup fail \cup ToSet(queue)
            \subseteq completed' \cup failed' \cup ToSet(queue') \cup {current'}
      BY <2>1, <2>2
    <3>3. QED
      BY <2>1, <3>1, <3>2 DEF Covered
  <2>9. QED
    BY <2>4, <2>5, <2>6, <2>7, <2>8
<1>2. CASE Leave(comp, fail)
  <2>1. /\ queue = <<>> /\ queue' = queue /\ queued' = <<>>
        /\ current' = NoTicker /\ worker' = "none" /\ idle' = TRUE
        /\ state' = IF awaitFull THEN state ELSE "idle"
        /\ batch' = [b \in Batch |-> IF batch[b] = "waiting" THEN "woken" ELSE batch[b]]
        /\ completed' = comp /\ failed' = fail
    BY <1>2 DEF Leave
  <2>2. /\ batch' \in [Batch -> {"none", "waiting", "woken"}]
        /\ \A b \in Batch : batch'[b] # "waiting" /\ (batch'[b] = "woken" => batch[b] = "waiting")
    BY <2>1 DEF TypeOK
  <2>3. TypeOK'
    BY <2>1, <2>2 DEF TypeOK
  <2>4. NothingStranded'
    BY <2>1, <2>2 DEF NothingStranded
  <2>5. ToSet(<<>>) = {}
    BY DEF ToSet
  <2>6. RefreshedOnce'
    BY <2>1, <2>5 DEF RefreshedOnce
  <2>7. OneResult' /\ InHand'
    BY <2>1 DEF OneResult, InHand
  <2>8. Covered'
    <3>1. ASSUME NEW b \in Batch, batch'[b] # "none" PROVE Ticker \subseteq comp \cup fail
      <4>1. Ticker \subseteq completed \cup failed \cup {current}
        BY <2>1, <2>2, <2>5, <3>1 DEF Covered, TypeOK
      <4>2. QED
        BY <4>1, WatchlistAssumption
    <3>2. QED
      BY <2>1, <3>1 DEF Covered
  <2>9. QED
    BY <2>3, <2>4, <2>6, <2>7, <2>8
<1>3. QED
  BY <1>1, <1>2 DEF LoopOn

\* BatchInv holds at the start: nothing is queued, in hand or pending.
LEMMA InitInv == Init => BatchInv
<1>1. ToSet(<<>>) = {}
  BY DEF ToSet
<1>2. Init => TypeOK
  <2> SUFFICES ASSUME Init PROVE TypeOK
    OBVIOUS
  <2>1. idle \in BOOLEAN /\ awaitFull \in BOOLEAN
    BY DEF Init
  <2>2. batch \in [Batch -> {"none", "waiting", "woken"}] /\ state = "idle" /\ worker = "none"
    BY DEF Init
  <2>3. queue \in Seq(Ticker) /\ queued \in Seq(Ticker) /\ completed = {} /\ failed = {}
    BY DEF Init
  <2>4. QED
    BY <2>1, <2>2, <2>3 DEF Init, TypeOK
<1>3. Init => NothingStranded
  BY DEF Init, NothingStranded
<1>4. Init => RefreshedOnce
  BY <1>1 DEF Init, RefreshedOnce
<1>5. Init => OneResult /\ InHand /\ Covered
  BY DEF Init, OneResult, InHand, Covered
<1>6. QED
  BY <1>2, <1>3, <1>4, <1>5 DEF BatchInv

\* A batch run only returns between two workers, so none is woken while a ticker is in hand.
LEMMA NoneWoken ==
  ASSUME BatchInv, worker \in {"refreshing", "marking"}
  PROVE  (\A b \in Batch : batch[b] # "woken") /\ current \in Ticker
BY DEF BatchInv, TypeOK, InHand, Covered

\* Every step keeps BatchInv.
LEMMA StepInv == BatchInv /\ [Next]_vars => BatchInv'
<1> SUFFICES ASSUME BatchInv, [Next]_vars PROVE BatchInv'
  OBVIOUS
<1>1. ASSUME NEW t \in Ticker, RunSingle(t)
      PROVE  BatchInv'
  <2>1. EnqueueAll(<<t>>) /\ UNCHANGED <<awaitFull, batch, current, completed, failed>>
    BY <1>1 DEF RunSingle
  <2>2. <<t>> \in Seq(Ticker)
    OBVIOUS
  <2>3. /\ Waiting(queue') /\ queued' = queue'
        /\ ToSet(queue') = ToSet(queue) \cup (ToSet(<<t>>) \ {current})
        /\ worker' \in {worker, "starting"} /\ (worker' # worker => worker = "none")
        /\ idle' \in BOOLEAN
        /\ idle' => idle
        /\ idle' <=> worker' = "none"
        /\ queue' # <<>> \/ current # NoTicker => worker' # "none"
        /\ state' \in {state, "running"}
    BY <2>1, <2>2, Enqueuing
  <2>4. TypeOK'
    BY <2>1, <2>3 DEF BatchInv, TypeOK, Waiting
  <2>5. NothingStranded'
    BY <2>1, <2>3 DEF BatchInv, NothingStranded
  <2>6. RefreshedOnce'
    BY <2>1, <2>3 DEF RefreshedOnce, Waiting, Distinct
  <2>7. OneResult' /\ InHand' /\ Covered'
    BY <2>1, <2>3 DEF BatchInv, OneResult, InHand, Covered
  <2>8. QED
    BY <2>4, <2>5, <2>6, <2>7 DEF BatchInv
<1>2. ASSUME NEW b \in Batch, RunOnce(b)
      PROVE  BatchInv'
  <2>1. /\ awaitFull' = TRUE /\ EnqueueAll(Watchlist)
        /\ batch' = [batch EXCEPT ![b] = IF idle' THEN "woken" ELSE "waiting"]
        /\ UNCHANGED <<current, completed, failed>>
    BY <1>2 DEF RunOnce
  <2>2. /\ Waiting(queue') /\ queued' = queue'
        /\ ToSet(queue') = ToSet(queue) \cup (Ticker \ {current})
        /\ worker' \in {worker, "starting"} /\ (worker' # worker => worker = "none")
        /\ idle' \in BOOLEAN
        /\ idle' => idle /\ queue' = queue
        /\ idle' <=> worker' = "none"
        /\ queue' # <<>> \/ current # NoTicker => worker' # "none"
        /\ state' \in {state, "running"}
    BY <2>1, Enqueuing, WatchlistAssumption
  <2>3. TypeOK'
    BY <2>1, <2>2 DEF BatchInv, TypeOK, Waiting
  <2>4. NothingStranded'
    BY <2>1, <2>2, <2>3 DEF BatchInv, NothingStranded, TypeOK
  <2>5. RefreshedOnce'
    BY <2>1, <2>2 DEF RefreshedOnce, Waiting, Distinct
  <2>6. OneResult' /\ InHand'
    BY <2>1, <2>2 DEF BatchInv, OneResult, InHand
  <2>7. Ticker \subseteq ToSet(queue') \cup {current}
    BY <2>2
  <2>8. idle' => current = NoTicker /\ Ticker = {}
    <3>1. SUFFICES ASSUME idle' PROVE current = NoTicker /\ Ticker = {}
      OBVIOUS
    <3>2. queue' = <<>> /\ current = NoTicker
      BY <2>2, <3>1
    <3>3. ToSet(<<>>) = {}
      BY DEF ToSet
    <3>4. QED
      BY <2>7, <3>2, <3>3, WatchlistAssumption
  <2>9. Covered'
    BY <2>1, <2>7, <2>8 DEF BatchInv, Covered, TypeOK
  <2>10. QED
    BY <2>3, <2>4, <2>5, <2>6, <2>9 DEF BatchInv
<1>3. ASSUME NEW b \in Batch, RunOnceReturns(b)
      PROVE  BatchInv'
  BY <1>3 DEF RunOnceReturns, BatchInv, TypeOK, NothingStranded, RefreshedOnce, OneResult, InHand, Covered
<1>4. CASE WorkerStarts
  <2>1. current = NoTicker
    BY <1>4 DEF WorkerStarts, BatchInv, InHand
  <2>2. completed \subseteq Ticker /\ failed \subseteq Ticker /\ completed \cap failed = {}
    BY DEF BatchInv, TypeOK, OneResult
  <2>3. QED
    BY <1>4, <2>1, <2>2, GoingOn DEF WorkerStarts
<1>5. CASE RefreshCompletes
  <2>1. /\ worker = "refreshing" /\ LoopOn(completed \cup {current}, failed) /\ UNCHANGED awaitFull
    BY <1>5 DEF RefreshCompletes
  <2>2. (completed \cup {current}) \cap failed = {}
    BY <2>1 DEF BatchInv, OneResult, InHand
  <2>3. completed \cup {current} \subseteq Ticker /\ failed \subseteq Ticker
    BY <2>1, NoneWoken DEF BatchInv, TypeOK
  <2>4. QED
    BY <2>1, <2>2, <2>3, NoneWoken, GoingOn
<1>6. CASE RefreshFails
  <2>1. current \in Ticker
    BY <1>6, NoneWoken DEF RefreshFails
  <2>2. QED
    BY <1>6, <2>1, WatchlistAssumption
      DEF RefreshFails, BatchInv, TypeOK, NothingStranded, RefreshedOnce, OneResult, InHand, Covered
<1>7. CASE FailureMarked
  <2>1. worker = "marking" /\ LoopOn(completed, failed) /\ UNCHANGED awaitFull
    BY <1>7 DEF FailureMarked
  <2>2. /\ completed \subseteq Ticker /\ failed \subseteq Ticker /\ completed \cap failed = {}
        /\ current \in failed
    BY <2>1 DEF BatchInv, TypeOK, OneResult, InHand
  <2>3. QED
    BY <2>1, <2>2, NoneWoken, GoingOn
<1>8. CASE UNCHANGED vars
  BY <1>8 DEF vars, BatchInv, TypeOK, NothingStranded, RefreshedOnce, OneResult, InHand, Covered
<1>9. QED
  BY <1>1, <1>2, <1>3, <1>4, <1>5, <1>6, <1>7, <1>8 DEF Next, WorkerStep

\* BatchInv holds in every reachable state.
LEMMA BatchInvariant == Spec => []BatchInv
BY InitInv, StepInv, PTL DEF Spec

\* Every variable of the service keeps its type; only tickers of the watchlist are
\* queued or have results.
THEOREM TypeCorrect == Spec => []TypeOK
BY BatchInvariant, PTL DEF BatchInv

\* While a ticker is queued or in hand there is a worker, and a batch run only
\* waits while the worker is there to wake it.
THEOREM NothingIsStranded == Spec => []NothingStranded
BY BatchInvariant, PTL DEF BatchInv

\* No ticker is on the queue twice or while it is in hand, and the status shows the
\* queue as it is.
THEOREM TickersAreRefreshedOnce == Spec => []RefreshedOnce
BY BatchInvariant, PTL DEF BatchInv

\* A ticker is never on both result lists, however often it was refreshed.
THEOREM OneResultEach == Spec => []OneResult
BY BatchInvariant, PTL DEF BatchInv

-----------------------------------------------------------------------------
(* The batch run.                                                          *)

\* When run_once returns, every ticker of the watchlist has a result: only the worker's
\* last step wakes a run, and no worker starts before a woken run has returned.
THEOREM BatchesCoverTheWatchlist == Spec => BatchCoversWatchlist
<1> DEFINE Step == \A b \in Batch :
                     batch[b] = "woken" /\ batch'[b] = "none" => completed \cup failed = Ticker
<1>1. BatchInv /\ [Next]_vars => Step
  BY DEF BatchInv, TypeOK, Covered
<1> HIDE DEF Step
<1>2. BatchInv /\ [Next]_vars => [Step]_vars
  BY <1>1
<1>3. Spec => [][Step]_vars
  BY <1>2, BatchInvariant, PTL DEF Spec
<1>4. QED
  BY <1>3 DEF BatchCoversWatchlist, Step

-----------------------------------------------------------------------------
(* The refinement.                                                         *)

\* The board's variables and steps in terms of the service's.
LEMMA BoardStep ==
  ASSUME BatchInv, [Next]_vars
  PROVE  [Board!Next]_<<ToSet(queue), current, Outcome>>
<1>1. ASSUME NEW s \in Seq(Ticker), EnqueueAll(s), UNCHANGED <<current, completed, failed>>
      PROVE  Board!Ask
  <2>1. ToSet(queue') = ToSet(queue) \cup (ToSet(s) \ {current})
    BY <1>1, Enqueuing
  <2>2. ToSet(s) \ {current} \in SUBSET (Ticker \ {current})
    BY DEF ToSet
  <2>3. Outcome' = Outcome
    BY <1>1 DEF Outcome
  <2>4. QED
    BY <1>1, <2>1, <2>2, <2>3 DEF Board!Ask
<1>2. ASSUME NEW t \in Ticker, RunSingle(t)
      PROVE  Board!Next
  <2>1. <<t>> \in Seq(Ticker) /\ EnqueueAll(<<t>>) /\ UNCHANGED <<current, completed, failed>>
    BY <1>2 DEF RunSingle
  <2>2. QED
    BY <1>1, <2>1 DEF Board!Next
<1>3. ASSUME NEW b \in Batch, RunOnce(b)
      PROVE  Board!Next
  BY <1>1, <1>3, WatchlistAssumption DEF RunOnce, Board!Next
<1>4. ASSUME NEW b \in Batch, RunOnceReturns(b)
      PROVE  UNCHANGED <<ToSet(queue), current, Outcome>>
  BY <1>4 DEF RunOnceReturns, Outcome
<1>5. ASSUME NEW comp, NEW fail, TakeNext(comp, fail)
      PROVE  \E t \in ToSet(queue) :
               /\ ToSet(queue') = ToSet(queue) \ {t} /\ current' = t /\ t \in Ticker
               /\ completed' = comp \ {t} /\ failed' = fail \ {t}
  BY <1>5, QueueIsWaiting, HeadAndTail DEF TakeNext
<1>6. ASSUME NEW comp, NEW fail, Leave(comp, fail)
      PROVE  /\ ToSet(queue) = {} /\ ToSet(queue') = ToSet(queue) /\ current' = NoTicker
             /\ completed' = comp /\ failed' = fail
  BY <1>6 DEF Leave, ToSet
<1>7. CASE WorkerStarts
  <2>1. current = NoTicker /\ LoopOn(completed, failed)
    BY <1>7 DEF WorkerStarts, BatchInv, InHand
  <2>2. CASE TakeNext(completed, failed)
    <3>1. PICK t \in ToSet(queue) :
            /\ ToSet(queue') = ToSet(queue) \ {t} /\ current' = t /\ t \in Ticker
            /\ completed' = completed \ {t} /\ failed' = failed \ {t}
      BY <1>5, <2>2
    <3>2. Outcome' = [Outcome EXCEPT ![t] = "none"]
      BY <3>1 DEF Outcome
    <3>3. QED
      BY <2>1, <3>1, <3>2 DEF Board!Next, Board!Begin, Board!Open
  <2>3. CASE Leave(completed, failed)
    BY <1>6, <2>1, <2>3 DEF Outcome
  <2>4. QED
    BY <2>1, <2>2, <2>3 DEF LoopOn
\* The ticker in hand closes with its result.
<1>8. ASSUME NEW comp, NEW fail, NEW result \in {"completed", "failed"}, LoopOn(comp, fail),
             current \in Ticker, Outcome[current] \in {"none", result},
             [t \in Ticker |-> IF t \in comp THEN "completed"
                               ELSE IF t \in fail THEN "failed" ELSE "none"]
               = [Outcome EXCEPT ![current] = result]
      PROVE  Board!Close
  <2> DEFINE recorded == [Outcome EXCEPT ![current] = result]
             results == [t \in Ticker |-> IF t \in comp THEN "completed"
                                          ELSE IF t \in fail THEN "failed" ELSE "none"]
  <2>1. CASE TakeNext(comp, fail)
    <3>1. PICK t \in ToSet(queue) :
            /\ ToSet(queue') = ToSet(queue) \ {t} /\ current' = t /\ t \in Ticker
            /\ completed' = comp \ {t} /\ failed' = fail \ {t}
      BY <1>5, <2>1
    <3>2. Outcome' = [results EXCEPT ![t] = "none"]
      BY <3>1 DEF Outcome
    <3>3. Outcome' = [recorded EXCEPT ![t] = "none"]
      BY <1>8, <3>2
    <3>4. current # NoTicker
      BY <1>8, WatchlistAssumption
    <3> HIDE DEF recorded, results
    <3>5. QED
      BY <1>8, <3>1, <3>3, <3>4 DEF Board!Close, recorded
  <2>2. CASE Leave(comp, fail)
    <3>1. Outcome' = recorded
      BY <1>6, <1>8, <2>2 DEF Outcome
    <3>2. current # NoTicker
      BY <1>8, WatchlistAssumption
    <3>3. QED
      BY <1>6, <1>8, <2>2, <3>1, <3>2 DEF Board!Close
  <2>3. QED
    BY <1>8, <2>1, <2>2 DEF LoopOn
<1>9. CASE RefreshCompletes
  <2>1. /\ current \in Ticker /\ current \notin completed \cup failed
        /\ LoopOn(completed \cup {current}, failed)
    BY <1>9, NoneWoken DEF RefreshCompletes, BatchInv, InHand
  <2>2. Outcome[current] = "none"
    BY <2>1 DEF Outcome
  <2>3. [t \in Ticker |-> IF t \in completed \cup {current} THEN "completed"
                          ELSE IF t \in failed THEN "failed" ELSE "none"]
          = [Outcome EXCEPT ![current] = "completed"]
    BY <2>1 DEF Outcome
  <2>4. Board!Close
    BY <1>8, <2>1, <2>2, <2>3
  <2>5. QED
    BY <2>4 DEF Board!Next
<1>10. CASE RefreshFails
  <2>1. /\ current \in Ticker /\ current \notin completed \cup failed
        /\ failed' = failed \cup {current} /\ UNCHANGED <<queue, current, completed>>
    BY <1>10, NoneWoken DEF RefreshFails, BatchInv, InHand
  <2>2. Outcome[current] = "none" /\ Outcome' = [Outcome EXCEPT ![current] = "failed"]
    BY <2>1 DEF Outcome
  <2>3. current # NoTicker
    BY <2>1, WatchlistAssumption
  <2>4. QED
    BY <2>1, <2>2, <2>3 DEF Board!Next, Board!Record
<1>11. CASE FailureMarked
  <2>1. current \in Ticker /\ current \in failed /\ current \notin completed /\ LoopOn(completed, failed)
    BY <1>11, NoneWoken DEF FailureMarked, BatchInv, InHand, OneResult
  <2>2. Outcome[current] = "failed"
    BY <2>1 DEF Outcome
  <2>3. [t \in Ticker |-> IF t \in completed THEN "completed"
                          ELSE IF t \in failed THEN "failed" ELSE "none"]
          = [Outcome EXCEPT ![current] = "failed"]
    BY <2>2 DEF Outcome
  <2>4. Board!Close
    BY <1>8, <2>1, <2>2, <2>3
  <2>5. QED
    BY <2>4 DEF Board!Next
<1>12. CASE UNCHANGED vars
  BY <1>12 DEF vars, Outcome
<1>13. QED
  BY <1>2, <1>3, <1>4, <1>7, <1>9, <1>10, <1>11, <1>12 DEF Next, WorkerStep

\* The service implements the board: nothing asked for is dropped, one ticker at a time
\* is refreshed, and its outcome is recorded before the next begins.
THEOREM ServiceImplementsBoard == Spec => ImplementsBoard
<1>1. Init => Board!Init
  <2>1. ToSet(<<>>) = {}
    BY DEF ToSet
  <2>2. QED
    BY <2>1 DEF Init, Board!Init, Outcome
<1>2. QED
  BY <1>1, BoardStep, BatchInvariant, PTL DEF Spec, ImplementsBoard, Board!Spec
=============================================================================
