------------------------ MODULE LlmConcurrencyProofs ------------------------
(***************************************************************************)
(* Proofs about LlmConcurrency: permits are conserved, the active count is *)
(* exact, no wake-up is lost, and the manager implements PermitPool, for   *)
(* every set of calls, every limit and any number of event loops.          *)
(***************************************************************************)
EXTENDS LlmConcurrency, FiniteSetTheorems, SequenceTheorems, TLAPS

-----------------------------------------------------------------------------
(* The inductive invariant: who may be where at once.                      *)

Shape ==
  /\ pc \in [Call -> {"idle", "queued", "posting", "refused"}]
  /\ value \in Nat
  /\ queue \in Seq(Call)
  /\ granted \in SUBSET Call
  /\ active \in Nat
  /\ waiting \in 0 .. MaxWaiting
  /\ loop \in 1 .. MaxLoop
  /\ bound \in 0 .. MaxLoop

\* The calls in acquire() are queued once or granted, never both.
Placed ==
  /\ \A c \in granted : pc[c] = "queued"
  /\ \A i \in DOMAIN queue : pc[queue[i]] = "queued" /\ queue[i] \notin granted
  /\ \A i, j \in DOMAIN queue : queue[i] = queue[j] => i = j

PermitInv ==
  /\ Shape
  /\ Placed
  /\ PermitsConserved
  /\ ActiveIsExact
  /\ NoLostWakeup

-----------------------------------------------------------------------------
(* Sequences and finite sets.                                              *)

\* Taking one element out of a sequence leaves the others in place or one
\* place earlier.
LEMMA RemovedElement ==
  ASSUME NEW S, NEW s \in Seq(S), NEW i \in 1 .. Len(s)
  PROVE  /\ RemoveAt(s, i) \in Seq(S)
         /\ Len(RemoveAt(s, i)) = Len(s) - 1
         /\ \A j \in 1 .. Len(s) - 1 :
              RemoveAt(s, i)[j] = IF j < i THEN s[j] ELSE s[j + 1]
<1> DEFINE front == SubSeq(s, 1, i - 1)
           back  == SubSeq(s, i + 1, Len(s))
<1>1. /\ front \in Seq(S) /\ Len(front) = i - 1
      /\ \A j \in 1 .. i - 1 : front[j] = s[j]
  BY SubSeqProperties
<1>2. /\ back \in Seq(S) /\ Len(back) = Len(s) - i
      /\ \A j \in 1 .. Len(s) - i : back[j] = s[i + j]
  BY SubSeqProperties
<1>3. RemoveAt(s, i) = front \o back
  BY DEF RemoveAt
<1> HIDE DEF front, back
<1>4. /\ front \o back \in Seq(S)
      /\ Len(front \o back) = Len(s) - 1
      /\ \A j \in 1 .. Len(s) - 1 :
           (front \o back)[j] = IF j <= i - 1 THEN front[j] ELSE back[j - (i - 1)]
  BY <1>1, <1>2, ConcatProperties
<1>5. ASSUME NEW j \in 1 .. Len(s) - 1
      PROVE  (front \o back)[j] = IF j < i THEN s[j] ELSE s[j + 1]
  BY <1>1, <1>2, <1>4
<1>6. QED
  BY <1>3, <1>4, <1>5

\* The calls in the exchange are finitely many, as are the granted ones.
LEMMA FinitelyMany ==
  ASSUME Shape
  PROVE  /\ IsFiniteSet(granted) /\ Cardinality(granted) \in Nat
         /\ IsFiniteSet(Posting) /\ Cardinality(Posting) \in Nat
<1>1. granted \in SUBSET Call /\ Posting \in SUBSET Call
  BY DEF Shape, Posting
<1>2. QED
  BY <1>1, ConcurrencyAssumption, FS_Subset, FS_CardinalityType

-----------------------------------------------------------------------------
(* Handing a permit to the longest waiter.                                 *)

Distinct(q) == \A i, j \in DOMAIN q : q[i] = q[j] => i = j

\* Whatever permits v are on the counter and grants g under way, none is lost,
\* the queue loses its head at most, and a free permit with a queue left means
\* that somebody is about to resume.
LEMMA Waking ==
  ASSUME NEW v \in Nat, NEW g \in SUBSET Call, IsFiniteSet(g),
         queue \in Seq(Call), Distinct(queue), \A i \in DOMAIN queue : queue[i] \notin g,
         WakeNext(v, g)
  PROVE  /\ value' \in Nat
         /\ granted' \in SUBSET Call
         /\ IsFiniteSet(granted')
         /\ queue' \in Seq(Call)
         /\ value' + Cardinality(granted') = v + Cardinality(g)
         /\ \A c \in granted' : c \in g \/ \E i \in DOMAIN queue : c = queue[i]
         /\ \A i \in DOMAIN queue' : /\ queue'[i] \notin granted'
                                     /\ \E j \in DOMAIN queue : queue'[i] = queue[j]
         /\ Distinct(queue')
         /\ value' > 0 /\ queue' # <<>> => granted' # {}
<1>1. CASE v > 0 /\ queue # <<>>
  <2>1. /\ value' = v - 1
        /\ granted' = g \cup {Head(queue)}
        /\ queue' = Tail(queue)
    BY <1>1 DEF WakeNext
  <2>2. /\ Len(queue) \in Nat /\ Len(queue) > 0 /\ DOMAIN queue = 1 .. Len(queue)
        /\ Head(queue) = queue[1] /\ 1 \in DOMAIN queue
        /\ Tail(queue) \in Seq(Call) /\ DOMAIN Tail(queue) = 1 .. Len(queue) - 1
        /\ \A i \in 1 .. Len(queue) - 1 : Tail(queue)[i] = queue[i + 1]
    BY <1>1, HeadTailProperties
  <2>3. /\ queue[1] \in Call /\ queue[1] \notin g
        /\ IsFiniteSet(granted')
        /\ Cardinality(granted') = Cardinality(g) + 1
    BY <2>1, <2>2, FS_AddElement
  <2>4. Cardinality(g) \in Nat
    BY FS_CardinalityType
  <2>5. ASSUME NEW i \in 1 .. Len(queue) - 1
        PROVE  /\ i + 1 \in DOMAIN queue
               /\ queue[i + 1] \notin g
               /\ queue[i + 1] # queue[1]
    BY <2>2 DEF Distinct
  <2>6. Distinct(Tail(queue))
    <3>1. SUFFICES ASSUME NEW i \in 1 .. Len(queue) - 1, NEW j \in 1 .. Len(queue) - 1,
                          queue[i + 1] = queue[j + 1]
                   PROVE  i = j
      BY <2>2 DEF Distinct
    <3>2. i + 1 = j + 1
      BY <2>5, <3>1 DEF Distinct
    <3>3. QED
      BY <3>2
  <2>7. value' \in Nat /\ value' + Cardinality(granted') = v + Cardinality(g)
    BY <1>1, <2>1, <2>3, <2>4
  <2>8. \A i \in DOMAIN queue' : /\ queue'[i] \notin granted'
                                 /\ \E j \in DOMAIN queue : queue'[i] = queue[j]
    BY <2>1, <2>2, <2>5
  <2>9. QED
    BY <2>1, <2>2, <2>3, <2>6, <2>7, <2>8
<1>2. CASE ~(v > 0 /\ queue # <<>>)
  <2>1. value' = v /\ granted' = g /\ queue' = queue
    BY <1>2 DEF WakeNext
  <2>2. QED
    BY <1>2, <2>1
<1>3. QED
  BY <1>1, <1>2

-----------------------------------------------------------------------------
(* The invariant holds initially and is preserved by every action.         *)

\* PermitInv holds at the start.
LEMMA InitInv == Init => PermitInv
<1> SUFFICES ASSUME Init PROVE PermitInv
  OBVIOUS
<1>1. Shape
  BY ConcurrencyAssumption DEF Init, Shape, NoLoop
<1>2. Placed
  BY DEF Init, Placed
<1>3. Posting = {} /\ granted = {}
  BY DEF Init, Posting
<1>4. PermitsConserved /\ ActiveIsExact
  BY <1>3, FS_EmptySet, ConcurrencyAssumption DEF Init, PermitsConserved, ActiveIsExact
<1>5. NoLostWakeup
  BY DEF Init, NoLostWakeup
<1>6. QED
  BY <1>1, <1>2, <1>4, <1>5 DEF PermitInv

\* Posting gains or loses the call that moves, or stays as it is.
LEMMA PostingMoves ==
  ASSUME Shape, NEW c \in Call, NEW to \in {"idle", "queued", "posting", "refused"},
         pc' = [pc EXCEPT ![c] = to]
  PROVE  /\ pc' \in [Call -> {"idle", "queued", "posting", "refused"}]
         /\ pc'[c] = to
         /\ \A d \in Call \ {c} : pc'[d] = pc[d]
         /\ IsFiniteSet(Posting') /\ Cardinality(Posting') \in Nat
         /\ pc[c] # "posting" /\ to = "posting"
              => /\ Posting' = Posting \cup {c}
                 /\ Cardinality(Posting') = Cardinality(Posting) + 1
         /\ pc[c] = "posting" /\ to # "posting"
              => /\ Posting' = Posting \ {c}
                 /\ Cardinality(Posting') = Cardinality(Posting) - 1
         /\ pc[c] # "posting" /\ to # "posting" => Posting' = Posting
<1>1. /\ pc' \in [Call -> {"idle", "queued", "posting", "refused"}]
      /\ pc'[c] = to
      /\ \A d \in Call \ {c} : pc'[d] = pc[d]
  BY DEF Shape
<1>2. IsFiniteSet(Posting) /\ Cardinality(Posting) \in Nat
  BY FinitelyMany
<1>3. pc[c] # "posting" /\ to = "posting" => Posting' = Posting \cup {c} /\ c \notin Posting
  BY <1>1 DEF Posting
<1>4. pc[c] = "posting" /\ to # "posting" => Posting' = Posting \ {c} /\ c \in Posting
  BY <1>1 DEF Posting
<1>5. pc[c] # "posting" /\ to # "posting" => Posting' = Posting
  BY <1>1 DEF Posting
<1>6. pc[c] = "posting" /\ to = "posting" => Posting' = Posting
  BY <1>1 DEF Posting
<1>7. Posting' \in SUBSET Call
  BY DEF Posting
<1>8. IsFiniteSet(Posting') /\ Cardinality(Posting') \in Nat
  BY <1>7, ConcurrencyAssumption, FS_Subset, FS_CardinalityType
<1>9. QED
  BY <1>1, <1>2, <1>3, <1>4, <1>5, <1>8, FS_AddElement, FS_RemoveElement

\* A call that takes a free permit, queues, is refused or gives up.
LEMMA EnteringKeeps ==
  ASSUME PermitInv, NEW c \in Call,
         AcquireNow(c) \/ Enqueue(c) \/ Refuse(c) \/ GiveUp(c)
  PROVE  PermitInv'
<1> USE DEF PermitInv
<1>1. Cardinality(granted) \in Nat /\ Cardinality(Posting) \in Nat
  BY FinitelyMany
<1>2. CASE AcquireNow(c)
  <2>1. /\ pc[c] = "idle" /\ pc' = [pc EXCEPT ![c] = "posting"]
        /\ value # 0 /\ queue = <<>> /\ granted = {}
        /\ value' = value - 1 /\ active' = active + 1
        /\ UNCHANGED <<queue, granted, waiting, loop, bound>>
    BY <1>2 DEF AcquireNow, Locked
  <2>2. /\ pc' \in [Call -> {"idle", "queued", "posting", "refused"}]
        /\ Cardinality(Posting') = Cardinality(Posting) + 1
    BY <2>1, PostingMoves
  <2> Shape'
    BY <2>1, <2>2 DEF Shape
  <2>3. Placed'
    BY <2>1 DEF Placed, Shape
  <2>4. PermitsConserved' /\ ActiveIsExact'
    BY <1>1, <2>1, <2>2 DEF PermitsConserved, ActiveIsExact, Shape
  <2>5. NoLostWakeup'
    BY <2>1 DEF NoLostWakeup
  <2>6. QED
    BY <2>2, <2>3, <2>4, <2>5
<1>3. CASE Enqueue(c)
  <2>1. /\ pc[c] = "idle" /\ pc' = [pc EXCEPT ![c] = "queued"]
        /\ value = 0 \/ queue # <<>> \/ granted # {}
        /\ bound' = loop /\ waiting < MaxWaiting /\ waiting' = waiting + 1
        /\ queue' = Append(queue, c)
        /\ UNCHANGED <<value, granted, active, loop>>
    BY <1>3 DEF Enqueue, Locked
  <2>2. /\ queue' \in Seq(Call) /\ Len(queue) \in Nat
        /\ DOMAIN queue = 1 .. Len(queue) /\ DOMAIN queue' = 1 .. Len(queue) + 1
        /\ \A i \in 1 .. Len(queue) : queue'[i] = queue[i]
        /\ queue'[Len(queue) + 1] = c
    BY <2>1, AppendProperties DEF Shape
  <2>3. /\ pc' \in [Call -> {"idle", "queued", "posting", "refused"}]
        /\ Posting' = Posting
    BY <2>1, PostingMoves
  <2> Shape'
    <3>1. waiting' \in 0 .. MaxWaiting /\ bound' \in 0 .. MaxLoop
      BY <2>1, ConcurrencyAssumption DEF Shape
    <3>2. QED
      BY <2>1, <2>2, <2>3, <3>1 DEF Shape
  <2>4. c \notin granted /\ \A i \in 1 .. Len(queue) : queue[i] # c
    BY <2>1, <2>2 DEF Placed
  <2>5. Placed'
    <3>1. \A d \in granted' : pc'[d] = "queued"
      BY <2>1, PostingMoves DEF Placed, Shape
    <3>2. \A i \in DOMAIN queue' : pc'[queue'[i]] = "queued" /\ queue'[i] \notin granted'
      <4> SUFFICES ASSUME NEW i \in DOMAIN queue'
                   PROVE  pc'[queue'[i]] = "queued" /\ queue'[i] \notin granted'
        OBVIOUS
      <4>1. CASE i = Len(queue) + 1
        BY <2>1, <2>2, <2>4, <4>1, PostingMoves DEF Shape
      <4>2. CASE i # Len(queue) + 1
        <5>1. i \in 1 .. Len(queue) /\ queue'[i] = queue[i]
          BY <2>2, <4>2
        <5>2. queue[i] \in Call \ {c} /\ pc[queue[i]] = "queued" /\ queue[i] \notin granted
          BY <2>2, <2>4, <5>1 DEF Placed, Shape
        <5>3. QED
          BY <2>1, <5>1, <5>2, PostingMoves
      <4>3. QED
        BY <4>1, <4>2
    <3>3. \A i, j \in DOMAIN queue' : queue'[i] = queue'[j] => i = j
      BY <2>2, <2>4 DEF Placed
    <3>4. QED
      BY <3>1, <3>2, <3>3 DEF Placed
  <2>6. PermitsConserved' /\ ActiveIsExact'
    BY <2>1, <2>3 DEF PermitsConserved, ActiveIsExact
  <2>7. NoLostWakeup'
    BY <2>1 DEF NoLostWakeup, Shape
  <2>8. QED
    BY <2>3, <2>5, <2>6, <2>7
<1>4. CASE Refuse(c) \/ GiveUp(c)
  <2>1. /\ pc[c] \in {"idle", "refused"}
        /\ pc' = [pc EXCEPT ![c] = "refused"] \/ pc' = [pc EXCEPT ![c] = "idle"]
        /\ waiting' \in 0 .. MaxWaiting
        /\ UNCHANGED <<value, queue, granted, active, loop, bound>>
    BY <1>4, ConcurrencyAssumption DEF Refuse, GiveUp, Shape
  <2>2. Shape' /\ Posting' = Posting /\ \A d \in Call : pc[d] = "queued" => pc'[d] = "queued"
    BY <2>1, PostingMoves DEF Shape
  <2>3. Placed'
    BY <2>1, <2>2 DEF Placed, Shape
  <2>4. QED
    BY <2>1, <2>2, <2>3 DEF PermitsConserved, ActiveIsExact, NoLostWakeup
<1>5. QED
  BY <1>2, <1>3, <1>4

\* A step in which call c leaves acquire() or the exchange and the semaphore
\* hands on a permit, the books being balanced but for that.
LEMMA WakingKeeps ==
  ASSUME PermitInv, NEW c \in Call, NEW to \in {"idle", "posting"},
         pc' = [pc EXCEPT ![c] = to],
         NEW v \in Nat, NEW g \in SUBSET granted, WakeNext(v, g),
         c \notin g, \A i \in DOMAIN queue : queue[i] # c,
         v + Cardinality(g) + Cardinality(Posting') = MaxLlm,
         active' = Cardinality(Posting'),
         waiting' \in 0 .. MaxWaiting, UNCHANGED <<loop, bound>>
  PROVE  PermitInv'
<1> USE DEF PermitInv
<1>1. /\ pc' \in [Call -> {"idle", "queued", "posting", "refused"}]
      /\ \A d \in Call \ {c} : pc'[d] = pc[d]
      /\ Cardinality(Posting') \in Nat
  BY PostingMoves
<1>2. g \in SUBSET Call /\ IsFiniteSet(g)
  BY FinitelyMany, FS_Subset DEF Shape
<1>3. /\ queue \in Seq(Call) /\ Distinct(queue)
      /\ \A i \in DOMAIN queue : queue[i] \notin g
  BY DEF Shape, Placed, Distinct
<1>4. /\ value' \in Nat
      /\ granted' \in SUBSET Call
      /\ queue' \in Seq(Call)
      /\ value' + Cardinality(granted') = v + Cardinality(g)
      /\ \A d \in granted' : d \in g \/ \E i \in DOMAIN queue : d = queue[i]
      /\ \A i \in DOMAIN queue' : /\ queue'[i] \notin granted'
                                  /\ \E j \in DOMAIN queue : queue'[i] = queue[j]
      /\ Distinct(queue')
      /\ value' > 0 /\ queue' # <<>> => granted' # {}
      /\ IsFiniteSet(granted')
  BY <1>2, <1>3, Waking
<1>5. Shape'
  BY <1>1, <1>4 DEF Shape
<1>6. Placed'
  <2>1. \A d \in Call \ {c} : pc[d] = "queued" => pc'[d] = "queued"
    BY <1>1
  <2>2. ASSUME NEW d \in granted'
        PROVE  pc'[d] = "queued"
    <3>1. d \in Call \ {c} /\ pc[d] = "queued"
      BY <1>4 DEF Placed
    <3>2. QED
      BY <2>1, <3>1
  <2>3. ASSUME NEW i \in DOMAIN queue'
        PROVE  pc'[queue'[i]] = "queued" /\ queue'[i] \notin granted'
    <3>1. PICK j \in DOMAIN queue : queue'[i] = queue[j]
      BY <1>4
    <3>2. queue[j] \in Call
      BY <1>3
    <3>3. queue'[i] \in Call \ {c} /\ pc[queue'[i]] = "queued"
      BY <3>1, <3>2 DEF Placed
    <3>4. QED
      BY <1>4, <2>1, <3>3
  <2>4. QED
    BY <1>4, <2>2, <2>3 DEF Placed, Distinct
<1>7. PermitsConserved'
  BY <1>4, <1>1, <1>2, FS_CardinalityType DEF PermitsConserved
<1>8. ActiveIsExact' /\ NoLostWakeup'
  BY <1>4 DEF ActiveIsExact, NoLostWakeup
<1>9. QED
  BY <1>5, <1>6, <1>7, <1>8

\* A call that resumes with its permit, ends its exchange, or is cancelled.
LEMMA LeavingKeeps ==
  ASSUME PermitInv, NEW c \in Call,
         Resumed(c) \/ Finish(c) \/ CancelPosting(c) \/ CancelQueued(c) \/ CancelGranted(c)
  PROVE  PermitInv'
<1> USE DEF PermitInv
<1>1. /\ Shape /\ Placed
      /\ value \in Nat /\ active = Cardinality(Posting)
      /\ IsFiniteSet(granted) /\ Cardinality(granted) \in Nat
      /\ IsFiniteSet(Posting) /\ Cardinality(Posting) \in Nat
      /\ value + Cardinality(granted) + Cardinality(Posting) = MaxLlm
      /\ waiting \in 0 .. MaxWaiting
  BY FinitelyMany DEF PermitsConserved, ActiveIsExact, Shape
<1>2. c \in granted => /\ pc[c] = "queued"
                       /\ \A i \in DOMAIN queue : queue[i] # c
                       /\ Cardinality(granted \ {c}) = Cardinality(granted) - 1
                       /\ granted \ {c} \in SUBSET granted
  <2>1. Cardinality(granted \ {c})
          = IF c \in granted THEN Cardinality(granted) - 1 ELSE Cardinality(granted)
    BY <1>1, FS_RemoveElement
  <2>2. granted \ {c} \in SUBSET granted
    OBVIOUS
  <2>3. c \in granted => pc[c] = "queued" /\ \A i \in DOMAIN queue : queue[i] # c
    BY <1>1 DEF Placed
  <2>4. QED
    BY <2>1, <2>2, <2>3
<1>3. pc[c] = "posting" => /\ c \notin granted
                           /\ \A i \in DOMAIN queue : queue[i] # c
                           /\ active > 0
                           /\ c \in Posting
  <2>1. pc[c] = "posting" => c \in Posting
    BY DEF Posting
  <2>2. c \in Posting => Cardinality(Posting) # 0
    BY <1>1, FS_EmptySet
  <2>3. QED
    BY <1>1, <2>1, <2>2 DEF Placed
<1>4. CASE Resumed(c)
  <2>1. /\ c \in granted /\ WakeNext(value, granted \ {c})
        /\ waiting' = IF waiting > 0 THEN waiting - 1 ELSE 0
        /\ active' = active + 1
        /\ pc' = [pc EXCEPT ![c] = "posting"]
        /\ UNCHANGED <<loop, bound>>
    BY <1>4 DEF Resumed
  <2>2. Cardinality(Posting') = Cardinality(Posting) + 1
    BY <1>1, <1>2, <2>1, PostingMoves
  <2>3. /\ waiting' \in 0 .. MaxWaiting
        /\ value + Cardinality(granted \ {c}) + Cardinality(Posting') = MaxLlm
        /\ active' = Cardinality(Posting')
    BY <1>1, <1>2, <2>1, <2>2, ConcurrencyAssumption
  <2>4. QED
    BY <1>1, <1>2, <2>1, <2>3, WakingKeeps
<1>5. CASE Finish(c) \/ CancelPosting(c)
  <2>1. /\ pc[c] = "posting" /\ pc' = [pc EXCEPT ![c] = "idle"]
        /\ active' = IF active > 0 THEN active - 1 ELSE 0
        /\ WakeNext(value + 1, granted)
        /\ UNCHANGED <<waiting, loop, bound>>
    BY <1>5 DEF Finish, CancelPosting, Release
  <2>2. Cardinality(Posting') = Cardinality(Posting) - 1
    BY <1>1, <2>1, PostingMoves
  <2>3. /\ (value + 1) + Cardinality(granted) + Cardinality(Posting') = MaxLlm
        /\ active' = Cardinality(Posting')
        /\ value + 1 \in Nat /\ waiting' \in 0 .. MaxWaiting
    BY <1>1, <1>3, <2>1, <2>2
  <2>4. QED
    BY <1>1, <1>3, <2>1, <2>3, WakingKeeps
<1>6. CASE CancelGranted(c)
  <2>1. /\ c \in granted /\ WakeNext(value + 1, granted \ {c})
        /\ pc' = [pc EXCEPT ![c] = "idle"]
        /\ UNCHANGED <<active, waiting, loop, bound>>
    BY <1>6 DEF CancelGranted
  <2>2. Posting' = Posting
    BY <1>1, <1>2, <2>1, PostingMoves
  <2>3. /\ (value + 1) + Cardinality(granted \ {c}) + Cardinality(Posting') = MaxLlm
        /\ active' = Cardinality(Posting')
        /\ value + 1 \in Nat /\ waiting' \in 0 .. MaxWaiting
    BY <1>1, <1>2, <2>1, <2>2
  <2>4. QED
    BY <1>1, <1>2, <2>1, <2>3, WakingKeeps
<1>7. CASE CancelQueued(c)
  <2>1. PICK i \in DOMAIN queue : queue[i] = c /\ queue' = RemoveAt(queue, i)
    BY <1>7 DEF CancelQueued
  <2>2. /\ pc' = [pc EXCEPT ![c] = "idle"]
        /\ UNCHANGED <<value, granted, active, waiting, loop, bound>>
    BY <1>7 DEF CancelQueued
  <2>3. /\ queue \in Seq(Call) /\ Len(queue) \in Nat /\ DOMAIN queue = 1 .. Len(queue)
        /\ queue' \in Seq(Call) /\ DOMAIN queue' = 1 .. Len(queue) - 1
        /\ \A j \in 1 .. Len(queue) - 1 : queue'[j] = IF j < i THEN queue[j] ELSE queue[j + 1]
    <3>1. queue \in Seq(Call) /\ Len(queue) \in Nat /\ i \in 1 .. Len(queue)
      BY <1>1, <2>1 DEF Shape
    <3>2. /\ RemoveAt(queue, i) \in Seq(Call)
          /\ Len(RemoveAt(queue, i)) = Len(queue) - 1
          /\ \A j \in 1 .. Len(queue) - 1 :
               RemoveAt(queue, i)[j] = IF j < i THEN queue[j] ELSE queue[j + 1]
      BY <3>1, RemovedElement
    <3>3. /\ DOMAIN queue = 1 .. Len(queue)
          /\ DOMAIN queue' = 1 .. Len(queue')
      BY <2>1, <3>1, <3>2
    <3>4. QED
      BY <2>1, <3>1, <3>2, <3>3
  <2>4. pc[c] = "queued" /\ c \notin granted
    BY <1>1, <2>1 DEF Placed
  <2>5. /\ pc' \in [Call -> {"idle", "queued", "posting", "refused"}]
        /\ \A d \in Call \ {c} : pc'[d] = pc[d]
        /\ Posting' = Posting
    BY <1>1, <2>2, <2>4, PostingMoves
  <2>6. Shape'
    BY <1>1, <2>2, <2>3, <2>5 DEF Shape
  <2>7. ASSUME NEW j \in DOMAIN queue'
        PROVE  \E k \in DOMAIN queue : k # i /\ queue'[j] = queue[k] /\ k = IF j < i THEN j ELSE j + 1
    BY <2>1, <2>3
  <2>8. Placed'
    <3>1. \A d \in granted' : pc'[d] = "queued"
      BY <1>1, <2>2, <2>4, <2>5 DEF Placed, Shape
    <3>2. ASSUME NEW j \in DOMAIN queue'
          PROVE  pc'[queue'[j]] = "queued" /\ queue'[j] \notin granted'
      <4>1. PICK k \in DOMAIN queue : k # i /\ queue'[j] = queue[k]
        BY <2>7
      <4>2. queue[k] \in Call \ {c} /\ pc[queue[k]] = "queued" /\ queue[k] \notin granted
        BY <1>1, <2>1, <2>3, <4>1 DEF Placed
      <4>3. QED
        BY <2>2, <2>5, <4>1, <4>2
    <3>3. ASSUME NEW j \in DOMAIN queue', NEW k \in DOMAIN queue', queue'[j] = queue'[k]
          PROVE  j = k
      <4>1. (IF j < i THEN j ELSE j + 1) = (IF k < i THEN k ELSE k + 1)
        BY <1>1, <2>7, <3>3 DEF Placed
      <4>2. QED
        BY <2>1, <2>3, <4>1
    <3>4. QED
      BY <3>1, <3>2, <3>3 DEF Placed
  <2>9. NoLostWakeup'
    <3>1. queue # <<>>
      BY <2>1, <2>3
    <3>2. QED
      BY <2>2, <3>1 DEF NoLostWakeup
  <2>10. QED
    BY <1>1, <2>2, <2>5, <2>6, <2>8, <2>9 DEF PermitsConserved, ActiveIsExact
<1>8. QED
  BY <1>4, <1>5, <1>6, <1>7

\* Every step keeps PermitInv.
LEMMA StepInv == PermitInv /\ [Next]_vars => PermitInv'
<1> SUFFICES ASSUME PermitInv, [Next]_vars PROVE PermitInv'
  OBVIOUS
<1>1. CASE NewLoop
  <2>1. loop' \in 1 .. MaxLoop /\ UNCHANGED <<pc, value, queue, granted, active, waiting, bound>>
    BY <1>1, ConcurrencyAssumption DEF NewLoop, PermitInv, Shape
  <2>2. QED
    BY <2>1 DEF PermitInv, Shape, Placed, PermitsConserved, ActiveIsExact, NoLostWakeup, Posting
<1>2. CASE UNCHANGED vars
  BY <1>2 DEF vars, PermitInv, Shape, Placed, PermitsConserved, ActiveIsExact, NoLostWakeup,
              Posting
<1>3. QED
  BY <1>1, <1>2, EnteringKeeps, LeavingKeeps DEF Next

\* PermitInv holds in every reachable state.
LEMMA PermitInvariant == Spec => []PermitInv
<1>1. QED
  BY InitInv, StepInv, PTL DEF Spec

-----------------------------------------------------------------------------
\* Every variable keeps its type; the counter and the active count never leave
\* the range of the limit.
THEOREM TypeCorrect == Spec => []TypeOK
<1>1. PermitInv => TypeOK
  <2> SUFFICES ASSUME PermitInv PROVE TypeOK
    OBVIOUS
  <2>1. value \in 0 .. MaxLlm /\ active \in 0 .. MaxLlm
    BY FinitelyMany, ConcurrencyAssumption
       DEF PermitInv, Shape, PermitsConserved, ActiveIsExact
  <2>2. QED
    BY <2>1 DEF PermitInv, Shape, TypeOK
<1>2. QED
  BY <1>1, PermitInvariant, PTL

\* No permit is lost or made, however and wherever calls end.
THEOREM PermitsAreConserved == Spec => []PermitsConserved
BY PermitInvariant, PTL DEF PermitInv

\* The reported active count is the number of calls in the exchange.
THEOREM ActiveCountIsExact == Spec => []ActiveIsExact
BY PermitInvariant, PTL DEF PermitInv

\* While calls are queued and permits are free, a granted call is to resume.
THEOREM NoWakeupIsLost == Spec => []NoLostWakeup
BY PermitInvariant, PTL DEF PermitInv

-----------------------------------------------------------------------------
(* The manager implements the pool: the holders are the calls in the       *)
(* exchange and those whose grant is under way.                            *)

Holders == granted \cup Posting

\* There are as many holders as permits off the counter.
LEMMA HoldersCounted ==
  ASSUME PermitInv
  PROVE  /\ IsFiniteSet(Holders)
         /\ value + Cardinality(Holders) = MaxLlm
         /\ granted \cap Posting = {}
         /\ Holders \in SUBSET Call
         /\ \A i \in DOMAIN queue : queue[i] \in Call \ Holders
<1>1. granted \cap Posting = {}
  BY DEF PermitInv, Placed, Posting
<1>2. IsFiniteSet(granted) /\ IsFiniteSet(Posting)
  BY FinitelyMany DEF PermitInv
<1>3. Cardinality(Holders) = Cardinality(granted) + Cardinality(Posting) /\ IsFiniteSet(Holders)
  <2>1. /\ IsFiniteSet(granted \cup Posting)
        /\ Cardinality(granted \cup Posting)
             = Cardinality(granted) + Cardinality(Posting) - Cardinality(granted \cap Posting)
    BY <1>2, FS_Union
  <2>2. Cardinality(granted \cap Posting) = 0
    BY <1>1, FS_EmptySet
  <2>3. QED
    BY <2>1, <2>2, FinitelyMany DEF Holders, PermitInv
<1>4. value + Cardinality(Holders) = MaxLlm
  BY <1>3, FinitelyMany DEF PermitInv, Shape, PermitsConserved
<1>5. Holders \in SUBSET Call
  BY DEF Holders, PermitInv, Shape, Posting
<1>6. ASSUME NEW i \in DOMAIN queue
      PROVE  queue[i] \in Call \ Holders
  BY DEF Holders, Posting, PermitInv, Shape, Placed
<1>7. QED
  BY <1>1, <1>3, <1>4, <1>5, <1>6

\* Waking adds the longest waiter to the grants, or nobody.
LEMMA WakingGrants ==
  ASSUME PermitInv, NEW v, NEW g, WakeNext(v, g)
  PROVE  \/ granted' = g
         \/ /\ v > 0
            /\ \E d \in Call \ Holders : granted' = g \cup {d}
<1>1. CASE v > 0 /\ queue # <<>>
  <2>1. queue \in Seq(Call)
    BY DEF PermitInv, Shape
  <2>2. Head(queue) = queue[1] /\ 1 \in DOMAIN queue
    BY <1>1, <2>1, HeadTailProperties
  <2>3. Head(queue) \in Call \ Holders
    BY <2>2, HoldersCounted
  <2>4. QED
    BY <1>1, <2>3 DEF WakeNext
<1>2. CASE ~(v > 0 /\ queue # <<>>)
  BY <1>2 DEF WakeNext
<1>3. QED
  BY <1>1, <1>2

\* The pool counts with the same operator.
LEMMA SameCardinality ==
  ASSUME NEW S
  PROVE  Pool!Cardinality(S) = Cardinality(S)
BY Zenon DEF Pool!Cardinality, Cardinality

\* Every step of the manager is a step of the pool or leaves the holders alone.
LEMMA PoolStep ==
  ASSUME PermitInv, PermitInv', [Next]_vars
  PROVE  [Pool!Give \/ Pool!Take]_Holders
<1>1. /\ value \in Nat /\ pc \in [Call -> {"idle", "queued", "posting", "refused"}]
      /\ IsFiniteSet(Holders) /\ Cardinality(Holders) \in Nat
      /\ value + Cardinality(Holders) = MaxLlm
      /\ granted \cap Posting = {} /\ granted \in SUBSET Call
  BY HoldersCounted, FS_CardinalityType DEF PermitInv, Shape
<1>2. \A d : Cardinality({d}) = 1
  BY FS_AddElement, FS_EmptySet
<1>3. Cardinality({}) = 0
  BY FS_EmptySet
\* A holder that leaves with at most one call coming in is a Give.
<1>4. ASSUME NEW c \in Holders,
             \/ Holders' = Holders \ {c}
             \/ \E d \in Call \ Holders : Holders' = (Holders \ {c}) \cup {d}
      PROVE  Pool!Give
  <2>1. CASE Holders' = Holders \ {c}
    <3>1. /\ {} \in SUBSET (Call \ Holders) /\ Cardinality({}) <= 1
          /\ Holders' = (Holders \ {c}) \cup {}
      BY <1>3, <2>1
    <3>2. QED
      BY <3>1, SameCardinality DEF Pool!Give, Holders
  <2>2. ASSUME NEW d \in Call \ Holders, Holders' = (Holders \ {c}) \cup {d}
        PROVE  Pool!Give
    <3>1. {d} \in SUBSET (Call \ Holders) /\ Cardinality({d}) <= 1
      BY <1>2
    <3>2. QED
      BY <2>2, <3>1, SameCardinality DEF Pool!Give, Holders
  <2>3. QED
    BY <1>4, <2>1, <2>2
\* A call that comes in while the counter has a permit is a Take.
<1>5. ASSUME NEW d \in Call \ Holders, Holders' = Holders \cup {d}, value > 0
      PROVE  Pool!Take
  <2>1. Cardinality(Holders) < MaxLlm
    BY <1>1, <1>5, ConcurrencyAssumption
  <2>2. QED
    BY <1>5, <2>1, SameCardinality DEF Pool!Take, Holders
<1>6. ASSUME NEW c \in Call, AcquireNow(c)
      PROVE  Pool!Take
  <2>1. value > 0 /\ granted = {} /\ granted' = granted /\ pc[c] = "idle"
    BY <1>1, <1>6 DEF AcquireNow, Locked
  <2>2. Posting' = Posting \cup {c} /\ c \notin Holders
    BY <1>1, <1>6, <2>1 DEF AcquireNow, Posting, Holders
  <2>3. QED
    BY <1>5, <2>1, <2>2 DEF Holders
<1>7. ASSUME NEW c \in Call, Enqueue(c) \/ Refuse(c) \/ GiveUp(c) \/ CancelQueued(c)
      PROVE  UNCHANGED Holders
  <2>1. pc[c] # "posting"
    BY <1>7 DEF Enqueue, Refuse, GiveUp, CancelQueued, PermitInv, Placed
  <2>2. granted' = granted /\ Posting' = Posting
    BY <1>1, <1>7, <2>1 DEF Enqueue, Refuse, GiveUp, CancelQueued, Posting
  <2>3. QED
    BY <2>2 DEF Holders
<1>8. ASSUME NEW c \in Call, Resumed(c)
      PROVE  [Pool!Give \/ Pool!Take]_Holders
  <2>1. c \in granted /\ WakeNext(value, granted \ {c}) /\ pc' = [pc EXCEPT ![c] = "posting"]
    BY <1>8 DEF Resumed
  <2>2. Posting' = Posting \cup {c}
    BY <1>1, <2>1 DEF Posting
  <2>3. \/ granted' = granted \ {c}
        \/ value > 0 /\ \E d \in Call \ Holders : granted' = (granted \ {c}) \cup {d}
    BY <2>1, WakingGrants
  <2>4. \/ Holders' = Holders
        \/ value > 0 /\ \E d \in Call \ Holders : Holders' = Holders \cup {d}
    BY <2>1, <2>2, <2>3 DEF Holders
  <2>5. QED
    BY <1>5, <2>4
<1>9. ASSUME NEW c \in Call, Finish(c) \/ CancelPosting(c)
      PROVE  Pool!Give
  <2>1. pc[c] = "posting" /\ pc' = [pc EXCEPT ![c] = "idle"] /\ WakeNext(value + 1, granted)
    BY <1>9 DEF Finish, CancelPosting, Release
  <2>2. Posting' = Posting \ {c} /\ c \in Posting /\ c \notin granted
    BY <1>1, <2>1 DEF Posting
  <2>3. granted' = granted \/ \E d \in Call \ Holders : granted' = granted \cup {d}
    BY <2>1, WakingGrants
  <2>4. /\ c \in Holders
        /\ \/ Holders' = Holders \ {c}
           \/ \E d \in Call \ Holders : Holders' = (Holders \ {c}) \cup {d}
    BY <2>2, <2>3 DEF Holders
  <2>5. QED
    BY <1>4, <2>4
<1>10. ASSUME NEW c \in Call, CancelGranted(c)
       PROVE  Pool!Give
  <2>1. c \in granted /\ pc' = [pc EXCEPT ![c] = "idle"] /\ WakeNext(value + 1, granted \ {c})
    BY <1>10 DEF CancelGranted
  <2>2. Posting' = Posting /\ c \notin Posting
    BY <1>1, <2>1 DEF Posting
  <2>3. granted' = granted \ {c} \/ \E d \in Call \ Holders : granted' = (granted \ {c}) \cup {d}
    BY <2>1, WakingGrants
  <2>4. /\ c \in Holders
        /\ \/ Holders' = Holders \ {c}
           \/ \E d \in Call \ Holders : Holders' = (Holders \ {c}) \cup {d}
    BY <2>1, <2>2, <2>3 DEF Holders
  <2>5. QED
    BY <1>4, <2>4
<1>11. CASE NewLoop \/ UNCHANGED vars
  BY <1>11 DEF NewLoop, vars, Holders, Posting
<1>12. QED
  BY <1>6, <1>7, <1>8, <1>9, <1>10, <1>11 DEF Next

\* The manager implements a pool of MaxLlm permits.
THEOREM ManagerImplementsPool == Spec => ImplementsPool
<1>1. Init => Pool!Init
  BY DEF Init, Pool!Init, Posting
<1>2. PermitInv /\ PermitInv' /\ [Next]_vars => [Pool!Give \/ Pool!Take]_(granted \cup Posting)
  BY PoolStep DEF Holders
<1>3. QED
  BY <1>1, <1>2, PermitInvariant, PTL DEF Spec, ImplementsPool, Pool!Spec
=============================================================================
