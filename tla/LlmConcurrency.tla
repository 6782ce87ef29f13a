--------------------------- MODULE LlmConcurrency ---------------------------
(***************************************************************************)
(* The permits of in-flight LLM calls: LlmConcurrencyManager, the asyncio  *)
(* semaphore under it and the part of _post_json_resilient that takes a    *)
(* permit and hands it back, whatever way the call ends.                   *)
(*                                                                         *)
(* The bodies under the manager's lock contain no await, so the lock is    *)
(* never contended and an operation is one step, except that a call may be *)
(* suspended in semaphore.acquire() and in the HTTP exchange (retries and  *)
(* 429 sleeps included).  A task may be cancelled at either place.         *)
(*                                                                         *)
(* The manager outlives event loops: a Celery worker process starts one    *)
(* per task (asyncio.run) and keeps the gateway singleton.  asyncio binds  *)
(* a semaphore to the loop in which a caller first has to wait and refuses *)
(* to wait in any other.                                                   *)
(***************************************************************************)
EXTENDS Naturals, FiniteSets, SequencesExt

CONSTANTS
  Call,        \* the calls that may run at once
  MaxLlm,      \* dil_max_concurrent_llm_requests, at least 1
  MaxLoop,     \* bound: event loops of the process
  MaxWaiting   \* bound: the waiting counter

ASSUME ConcurrencyAssumption ==
  /\ IsFiniteSet(Call)
  /\ {MaxLlm, MaxLoop, MaxWaiting} \subseteq Nat \ {0}

NoLoop == 0

VARIABLES
  pc,        \* pc[c]: where call c is
  value,     \* the semaphore's counter
  queue,     \* calls suspended in acquire, in order
  granted,   \* calls whose acquire was granted and that have not yet resumed
  active,    \* _active
  waiting,   \* _waiting
  loop,      \* the running event loop
  bound      \* the loop the semaphore is bound to

vars == <<pc, value, queue, granted, active, waiting, loop, bound>>

Posting == {c \in Call : pc[c] = "posting"}

-----------------------------------------------------------------------------
(* The semaphore.                                                          *)

Locked == value = 0 \/ queue # <<>> \/ granted # {}

\* With v permits on the counter and the grants g under way, hand one permit to
\* the longest waiter if there is one (_wake_up_next).
WakeNext(v, g) ==
  IF v > 0 /\ queue # <<>>
  THEN /\ value' = v - 1
       /\ granted' = g \cup {Head(queue)}
       /\ queue' = Tail(queue)
  ELSE /\ value' = v
       /\ granted' = g
       /\ UNCHANGED queue

-----------------------------------------------------------------------------
(* LlmConcurrencyManager.                                                  *)

\* acquire() that finds a permit: waiting goes up and down again.
AcquireNow(c) ==
  /\ pc[c] = "idle"
  /\ ~Locked
  /\ value' = value - 1
  /\ active' = active + 1
  /\ pc' = [pc EXCEPT ![c] = "posting"]
  /\ UNCHANGED <<queue, granted, waiting, loop, bound>>

\* acquire() that has to wait.
Enqueue(c) ==
  /\ pc[c] = "idle"
  /\ Locked
  /\ bound \in {NoLoop, loop}
  /\ waiting < MaxWaiting
  /\ bound' = loop
  /\ waiting' = waiting + 1
  /\ queue' = Append(queue, c)
  /\ pc' = [pc EXCEPT ![c] = "queued"]
  /\ UNCHANGED <<value, granted, active, loop>>

\* acquire() that has to wait in another loop than the one the semaphore is
\* bound to raises RuntimeError after waiting was counted.
Refuse(c) ==
  /\ pc[c] = "idle"
  /\ Locked
  /\ bound \notin {NoLoop, loop}
  /\ waiting < MaxWaiting
  /\ waiting' = waiting + 1
  /\ pc' = [pc EXCEPT ![c] = "refused"]
  /\ UNCHANGED <<value, queue, granted, active, loop, bound>>

\* The rest of acquire() once the permit was granted.
Resumed(c) ==
  /\ c \in granted
  /\ WakeNext(value, granted \ {c})
  /\ waiting' = IF waiting > 0 THEN waiting - 1 ELSE 0
  /\ active' = active + 1
  /\ pc' = [pc EXCEPT ![c] = "posting"]
  /\ UNCHANGED <<loop, bound>>

Release ==
  /\ active' = IF active > 0 THEN active - 1 ELSE 0
  /\ WakeNext(value + 1, granted)

-----------------------------------------------------------------------------
(* _post_json_resilient.                                                   *)

\* Mutant: released is not set after after_request, so the finally releases too.
Finish_ReleasesTwice(c) ==
  /\ pc[c] = "posting"
  /\ active' = IF active > 1 THEN active - 2 ELSE 0
  /\ value' = value + 2
  /\ pc' = [pc EXCEPT ![c] = "idle"]
  /\ UNCHANGED <<queue, granted, waiting, loop, bound>>

\* The exchange ends, well or badly: after_request releases and sets released.
Finish(c) ==
  /\ pc[c] = "posting"
  /\ Release
  /\ pc' = [pc EXCEPT ![c] = "idle"]
  /\ UNCHANGED <<waiting, loop, bound>>

\* Mutant: no finally clause, and CancelledError is no Exception.
CancelPosting_KeepsPermit(c) ==
  /\ pc[c] = "posting"
  /\ pc' = [pc EXCEPT ![c] = "idle"]
  /\ UNCHANGED <<value, queue, granted, active, waiting, loop, bound>>

\* Cancelled in the exchange: no except clause applies, the finally releases.
CancelPosting(c) ==
  /\ pc[c] = "posting"
  /\ Release
  /\ pc' = [pc EXCEPT ![c] = "idle"]
  /\ UNCHANGED <<waiting, loop, bound>>

\* Cancelled while suspended in acquire, which is outside the try: waiting is
\* not taken back.
CancelQueued(c) ==
  /\ \E i \in DOMAIN queue : queue[i] = c /\ queue' = RemoveAt(queue, i)
  /\ pc' = [pc EXCEPT ![c] = "idle"]
  /\ UNCHANGED <<value, granted, active, waiting, loop, bound>>

\* Mutant: the permit comes back, the next waiter is not told.
CancelGranted_WakesNobody(c) ==
  /\ c \in granted
  /\ value' = value + 1
  /\ granted' = granted \ {c}
  /\ pc' = [pc EXCEPT ![c] = "idle"]
  /\ UNCHANGED <<queue, active, waiting, loop, bound>>

\* Cancelled between the grant and the resumption: the semaphore takes the
\* permit back and hands it on.
CancelGranted(c) ==
  /\ c \in granted
  /\ WakeNext(value + 1, granted \ {c})
  /\ pc' = [pc EXCEPT ![c] = "idle"]
  /\ UNCHANGED <<active, waiting, loop, bound>>

\* The failover loop sees the RuntimeError as a failed provider.
GiveUp(c) ==
  /\ pc[c] = "refused"
  /\ pc' = [pc EXCEPT ![c] = "idle"]
  /\ UNCHANGED <<value, queue, granted, active, waiting, loop, bound>>

\* asyncio.run returns, having cancelled what was left, and the next task of
\* the worker process starts a loop of its own.
NewLoop ==
  /\ loop < MaxLoop
  /\ \A c \in Call : pc[c] = "idle"
  /\ loop' = loop + 1
  /\ UNCHANGED <<pc, value, queue, granted, active, waiting, bound>>

-----------------------------------------------------------------------------
Init ==
  /\ pc = [c \in Call |-> "idle"]
  /\ value = MaxLlm
  /\ queue = <<>>
  /\ granted = {}
  /\ active = 0
  /\ waiting = 0
  /\ loop = 1
  /\ bound = NoLoop

Next ==
  \/ \E c \in Call :
       \/ AcquireNow(c) \/ Enqueue(c) \/ Refuse(c) \/ Resumed(c) \/ Finish(c)
       \/ CancelPosting(c) \/ CancelQueued(c) \/ CancelGranted(c) \/ GiveUp(c)
  \/ NewLoop

Spec == Init /\ [][Next]_vars

\* Ready callbacks run and HTTP exchanges end (total timeout, bounded retries).
FairSpec ==
  Spec /\ \A c \in Call : WF_vars(Resumed(c)) /\ WF_vars(Finish(c) \/ CancelPosting(c))

-----------------------------------------------------------------------------
\* Every variable has its type; the counter and the active count never leave
\* the range of the limit.
TypeOK ==
  /\ pc \in [Call -> {"idle", "queued", "posting", "refused"}]
  /\ value \in 0 .. MaxLlm
  /\ queue \in Seq(Call)
  /\ granted \subseteq Call
  /\ active \in 0 .. MaxLlm
  /\ waiting \in 0 .. MaxWaiting
  /\ loop \in 1 .. MaxLoop
  /\ bound \in 0 .. MaxLoop

\* No permit is lost or made, however calls end: the counter, the grants under
\* way and the calls in the exchange always add up to the limit.
PermitsConserved == value + Cardinality(granted) + Cardinality(Posting) = MaxLlm

\* The reported active count is the number of calls in the exchange; the clamp
\* at zero in release() never bites.
ActiveIsExact == active = Cardinality(Posting)

\* No wakeup is lost: while calls are queued and the counter has permits, some
\* granted call is still to resume, and resuming passes the next permit on.
NoLostWakeup == value > 0 /\ queue # <<>> => granted # {}

\* A call that had to wait gets its permit (or is cancelled).
WaitersServed == \A c \in Call : pc[c] = "queued" ~> pc[c] # "queued"

\* The manager implements a pool of MaxLlm permits: a step changes the holders by
\* one call taking, or one giving back and at most the next one taking.
Pool == INSTANCE PermitPool WITH Limit <- MaxLlm, holders <- granted \cup Posting
ImplementsPool == Pool!Spec

\* "Process-wide semaphore": a call that finds no permit waits for one.
NobodyRefused == \A c \in Call : pc[c] # "refused"

\* The statistics call "waiting" the number of calls that wait.
WaitingIsExact ==
  waiting = Cardinality({c \in Call : pc[c] = "queued"})
=============================================================================
