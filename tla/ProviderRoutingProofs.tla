----------------------- MODULE ProviderRoutingProofs -----------------------
(***************************************************************************)
(* Proofs about ProviderRouting: the shape of its state, the thresholds    *)
(* and the probes of expired breakers, for every set of providers, roles   *)
(* and chains and every setting of the thresholds and durations.           *)
(***************************************************************************)
EXTENDS ProviderRouting, WellFoundedInduction, TLAPS

-----------------------------------------------------------------------------
(* The inductive invariant: each record is good on its own, and each       *)
(* failover loop holds positions of its chain.                             *)

GoodHealth ==
  {h \in HealthRecord :
     /\ h.fails >= FailureThreshold => h.state = "COOLDOWN"
     /\ h.state # "UNHEALTHY"}

GoodBreaker ==
  {b \in BreakerRecord :
     /\ b.fails >= FailureThreshold => b.state # "CLOSED"
     /\ b.state = "OPEN" => \/ b.probeLeft <= b.openLeft
                            \/ b.probeLeft + OpenDuration <= b.openLeft + ProbeInterval}

GoodRun(r) ==
  {x \in RunRecord :
     /\ x.todo \subseteq Positions(r)
     /\ x.pc \in {"calling", "backoff"} => x.todo # {}}

RoutingInv ==
  /\ health \in [Provider -> GoodHealth]
  /\ breaker \in [Provider -> GoodBreaker]
  /\ run \in [Role -> RunRecord]
  /\ \A r \in Role : run[r] \in GoodRun(r)

-----------------------------------------------------------------------------
(* What the operators on one record preserve.                              *)

\* The constants' types, one by one.
LEMMA Constants ==
  /\ DegradedThreshold \in Nat /\ DegradedThreshold > 0
  /\ FailureThreshold \in Nat /\ FailureThreshold > 0
  /\ Cooldown \in Nat /\ OpenDuration \in Nat
  /\ ProbeInterval \in Nat
  /\ PostAttempts \in Nat /\ PostAttempts > 0 /\ MaxRetries \in Nat
BY RoutingAssumption

\* The values a record may be set to lie in its fields' ranges.
LEMMA Ranges ==
  /\ 0 \in 0 .. FailureThreshold /\ 0 \in 0 .. DegradedThreshold
  /\ 0 \in 0 .. Cooldown /\ Cooldown \in 0 .. Cooldown
  /\ 0 \in 0 .. OpenDuration /\ OpenDuration \in 0 .. OpenDuration
  /\ 0 \in 0 .. ProbeInterval /\ ProbeInterval \in 0 .. ProbeInterval
  /\ \A n \in 0 .. FailureThreshold : Bump(n, FailureThreshold) \in 0 .. FailureThreshold
  /\ \A n \in 0 .. DegradedThreshold : Bump(n, DegradedThreshold) \in 0 .. DegradedThreshold
  /\ \A n \in 0 .. Cooldown : Elapse(n) \in 0 .. Cooldown
  /\ \A n \in 0 .. OpenDuration : Elapse(n) \in 0 .. OpenDuration
  /\ \A n \in 0 .. ProbeInterval : Elapse(n) \in 0 .. ProbeInterval
BY Constants DEF Bump, Elapse

\* The health store's record stays good whatever is read or recorded.
LEMMA HealthStaysGood ==
  ASSUME NEW h \in GoodHealth
  PROVE  /\ ExitCooldown(h) \in GoodHealth
         /\ HealthSuccess(h) \in GoodHealth
         /\ \A isRateLimit \in BOOLEAN : HealthFailure(h, isRateLimit) \in GoodHealth
         /\ [h EXCEPT !.left = Elapse(@)] \in GoodHealth
<1>1. Healthy \in GoodHealth
  BY Constants DEF Healthy, GoodHealth, HealthRecord
<1>2. ExitCooldown(h) \in GoodHealth
  <2>1. CASE h.state = "COOLDOWN" /\ h.left = 0
    BY <1>1, <2>1 DEF ExitCooldown
  <2>2. CASE ~(h.state = "COOLDOWN" /\ h.left = 0)
    BY <2>2 DEF ExitCooldown
  <2>3. QED
    BY <2>1, <2>2
<1>3. HealthSuccess(h) \in GoodHealth
  <2> DEFINE e == ExitCooldown(h)
             s == IF e.state \in {"DEGRADED", "UNHEALTHY"} THEN "HEALTHY" ELSE e.state
  <2>1. e \in HealthRecord /\ e.state # "UNHEALTHY"
    BY <1>2 DEF GoodHealth
  <2>2. s \in {"HEALTHY", "DEGRADED", "UNHEALTHY", "COOLDOWN"} /\ s # "UNHEALTHY"
    BY <2>1 DEF HealthRecord
  <2> HIDE DEF e, s
  <2>3. [e EXCEPT !.fails = 0, !.limits = 0] \in HealthRecord
    BY <2>1, Ranges DEF HealthRecord
  <2>4. [e EXCEPT !.fails = 0, !.limits = 0].fails = 0
    BY <2>1 DEF HealthRecord
  <2>5. ASSUME NEW g \in HealthRecord, g.fails = 0
        PROVE  [g EXCEPT !.state = s] \in GoodHealth
    BY <2>2, <2>5, Constants DEF GoodHealth, HealthRecord
  <2>6. HealthSuccess(h) = [[e EXCEPT !.fails = 0, !.limits = 0] EXCEPT !.state = s]
    BY DEF HealthSuccess, e, s
  <2>7. QED
    BY <2>3, <2>4, <2>5, <2>6
<1>4. ASSUME NEW isRateLimit \in BOOLEAN
      PROVE  HealthFailure(h, isRateLimit) \in GoodHealth
  <2>1. ASSUME NEW e \in GoodHealth, NEW fails \in 0 .. FailureThreshold,
               NEW limits \in 0 .. DegradedThreshold
        PROVE  [state  |-> IF fails >= FailureThreshold THEN "COOLDOWN"
                           ELSE IF limits >= DegradedThreshold THEN "DEGRADED" ELSE e.state,
                fails  |-> fails,
                limits |-> limits,
                left   |-> IF fails >= FailureThreshold THEN Cooldown ELSE e.left]
                 \in GoodHealth
    BY Constants DEF GoodHealth, HealthRecord
  <2>2. ASSUME NEW e \in GoodHealth
        PROVE  /\ Bump(e.fails, FailureThreshold) \in 0 .. FailureThreshold
               /\ (IF isRateLimit THEN Bump(e.limits, DegradedThreshold) ELSE 0)
                    \in 0 .. DegradedThreshold
    BY Ranges DEF GoodHealth, HealthRecord
  <2>3. QED
    BY <1>2, <2>1, <2>2 DEF HealthFailure
<1>5. [h EXCEPT !.left = Elapse(@)] \in GoodHealth
  BY Constants DEF GoodHealth, HealthRecord, Elapse
<1>6. QED
  BY <1>2, <1>3, <1>4, <1>5

\* A breaker's record stays good whatever is asked or recorded.
LEMMA BreakerStaysGood ==
  ASSUME NEW b \in GoodBreaker
  PROVE  /\ ForceOpen(b) \in GoodBreaker
         /\ ToHalfOpen(b) \in GoodBreaker
         /\ BreakerSuccess(b) \in GoodBreaker
         /\ BreakerFailure(b) \in GoodBreaker
         /\ AfterRequest(b) \in GoodBreaker
         /\ \A h \in GoodHealth : RegistryAfter(b, h) \in GoodBreaker
         /\ [b EXCEPT !.openLeft = Elapse(@), !.probeLeft = Elapse(@)] \in GoodBreaker
\* Opening makes any record good: the stamp of a probe has at most the whole
\* interval to run, the open time all of its duration.
<1>1. \A x \in BreakerRecord : ForceOpen(x) \in GoodBreaker
  <2> SUFFICES ASSUME NEW x \in BreakerRecord
               PROVE  ForceOpen(x) \in GoodBreaker
    OBVIOUS
  <2>1. ForceOpen(x) \in BreakerRecord
    BY Ranges DEF ForceOpen, BreakerRecord
  <2>2. /\ ForceOpen(x).state = "OPEN"
        /\ ForceOpen(x).openLeft = OpenDuration
        /\ ForceOpen(x).probeLeft = x.probeLeft
    BY DEF ForceOpen, BreakerRecord
  <2>3. x.probeLeft \in 0 .. ProbeInterval
    BY DEF BreakerRecord
  <2>4. QED
    BY <2>1, <2>2, <2>3, Constants DEF GoodBreaker
<1>2. \A x \in GoodBreaker : ToHalfOpen(x) \in GoodBreaker
  BY Constants DEF ToHalfOpen, GoodBreaker, BreakerRecord
<1>3. BreakerSuccess(b) \in GoodBreaker
  BY Constants DEF BreakerSuccess, Closed, GoodBreaker, BreakerRecord
<1>4. BreakerFailure(b) \in GoodBreaker
  <2> DEFINE counted == [b EXCEPT !.fails = Bump(@, FailureThreshold)]
  <2>1. counted \in BreakerRecord
    BY Ranges DEF GoodBreaker, BreakerRecord
  <2>2. /\ counted.state = b.state
        /\ counted.fails = Bump(b.fails, FailureThreshold)
        /\ counted.openLeft = b.openLeft
        /\ counted.probeLeft = b.probeLeft
    BY DEF GoodBreaker, BreakerRecord
  <2> HIDE DEF counted
  <2>3. CASE b.state = "HALF_OPEN" \/ (b.state = "CLOSED" /\ counted.fails >= FailureThreshold)
    <3>1. BreakerFailure(b) = ForceOpen(counted)
      BY <2>3 DEF BreakerFailure, counted
    <3>2. QED
      BY <3>1, <2>1, <1>1
  <2>4. CASE ~(b.state = "HALF_OPEN" \/ (b.state = "CLOSED" /\ counted.fails >= FailureThreshold))
    <3>1. BreakerFailure(b) = counted
      BY <2>4 DEF BreakerFailure, counted
    <3>2. counted \in GoodBreaker
      BY <2>1, <2>2, <2>4 DEF GoodBreaker
    <3>3. QED
      BY <3>1, <3>2
  <2>5. QED
    BY <2>3, <2>4
<1>5. \A x \in GoodBreaker : AfterRequest(x) \in GoodBreaker
  <2>1. ASSUME NEW x \in GoodBreaker, x.state = "HALF_OPEN"
        PROVE  [x EXCEPT !.probeLeft = ProbeInterval] \in GoodBreaker
    BY <2>1, Constants DEF GoodBreaker, BreakerRecord
  <2>2. QED
    BY <1>2, <2>1 DEF AfterRequest
<1>6. \A h \in GoodHealth : RegistryAfter(b, h) \in GoodBreaker
  <2>1. b \in BreakerRecord
    BY DEF GoodBreaker
  <2>2. QED
    BY <2>1, <1>1, <1>5 DEF RegistryAfter, RegistryBreaker
<1>7. [b EXCEPT !.openLeft = Elapse(@), !.probeLeft = Elapse(@)] \in GoodBreaker
  <2> DEFINE x == [b EXCEPT !.openLeft = Elapse(@), !.probeLeft = Elapse(@)]
  <2>1. x \in BreakerRecord
    BY Ranges DEF GoodBreaker, BreakerRecord
  <2>2. /\ x.state = b.state
        /\ x.fails = b.fails
        /\ x.openLeft = Elapse(b.openLeft)
        /\ x.probeLeft = Elapse(b.probeLeft)
    BY DEF GoodBreaker, BreakerRecord
  <2>3. \/ b.probeLeft <= b.openLeft
        \/ b.probeLeft + OpenDuration <= b.openLeft + ProbeInterval
        => \/ Elapse(b.probeLeft) <= Elapse(b.openLeft)
           \/ Elapse(b.probeLeft) + OpenDuration <= Elapse(b.openLeft) + ProbeInterval
    BY Constants DEF GoodBreaker, BreakerRecord, Elapse
  <2> HIDE DEF x
  <2>4. x \in GoodBreaker
    BY <2>1, <2>2, <2>3 DEF GoodBreaker
  <2>5. QED
    BY <2>4 DEF x
<1>8. QED
  BY <1>1, <1>2, <1>3, <1>4, <1>5, <1>6, <1>7 DEF GoodBreaker

-----------------------------------------------------------------------------
(* What the operators of the failover loop preserve.                       *)

\* A set of chain positions has a first one.
LEMMA FirstIsMember ==
  ASSUME NEW S \in SUBSET Nat, S # {}
  PROVE  First(S) \in S
<1>1. PICK x \in S : \A y \in S : ~(<<y, x>> \in OpToRel(<, Nat))
  BY NatLessThanWellFounded, WFMin
<1>2. ASSUME NEW y \in S
      PROVE  x <= y
  <2>1. x \in Nat /\ y \in Nat
    OBVIOUS
  <2>2. ~(y < x)
    BY <1>1, <2>1 DEF OpToRel
  <2>3. QED
    BY <2>1, <2>2
<1>3. QED
  BY <1>1, <1>2 DEF First

\* The positions of a chain are positions of a sequence of providers.
LEMMA PositionsOfChain ==
  ASSUME NEW r \in Role
  PROVE  /\ Positions(r) \subseteq Nat
         /\ \A i \in Positions(r) : Chain[r][i] \in Provider
<1>1. Chain[r] \in Seq(Provider)
  BY RoutingAssumption
<1>2. QED
  BY <1>1 DEF Positions

\* Going on with any positions of the chain, or with none, leaves a good loop.
LEMMA WalkIsGood ==
  ASSUME NEW r \in Role, NEW S \in SUBSET Positions(r)
  PROVE  Walk(S) \in GoodRun(r)
<1>1. S \subseteq Nat
  BY PositionsOfChain
<1>2. 1 \in 1 .. PostAttempts /\ 0 \in 0 .. MaxRetries
  BY Constants
<1>3. Walk(S) \in RunRecord
  BY <1>1, <1>2 DEF Walk, RunRecord
<1>4. Walk(S).todo = S /\ (Walk(S).pc \in {"calling", "backoff"} => S # {})
  BY DEF Walk
<1>5. QED
  BY <1>3, <1>4 DEF GoodRun

\* A loop that is under way calls a provider; going on to the next leaves it good.
LEMMA NextProviderIsGood ==
  ASSUME NEW r \in Role, run[r] \in GoodRun(r)
  PROVE  /\ NextProvider(r) \in GoodRun(r)
         /\ run[r].pc \in {"calling", "backoff"} => Current(r) \in Provider
<1>1. /\ run[r].todo \in SUBSET Positions(r)
      /\ run[r].pc \in {"calling", "backoff"} => run[r].todo # {}
  BY DEF GoodRun
<1>2. NextProvider(r) \in GoodRun(r)
  BY <1>1, WalkIsGood DEF NextProvider
<1>3. ASSUME run[r].pc \in {"calling", "backoff"}
      PROVE  Current(r) \in Provider
  <2>1. First(run[r].todo) \in run[r].todo
    BY <1>1, <1>3, PositionsOfChain, FirstIsMember
  <2>2. QED
    BY <1>1, <2>1, PositionsOfChain DEF Current
<1>4. QED
  BY <1>2, <1>3

-----------------------------------------------------------------------------
(* The invariant holds initially and is preserved by every action.         *)

\* What an answer leaves in the two stores, whichever it is.
LEMMA RecordingIsGood ==
  ASSUME health \in [Provider -> GoodHealth], breaker \in [Provider -> GoodBreaker],
         NEW p \in Provider
  PROVE  /\ RecordSuccess(p) => /\ health' \in [Provider -> GoodHealth]
                                /\ breaker' \in [Provider -> GoodBreaker]
         /\ \A isRateLimit \in BOOLEAN :
              RecordFailure(p, isRateLimit) => /\ health' \in [Provider -> GoodHealth]
                                               /\ breaker' \in [Provider -> GoodBreaker]
         /\ health' = [health EXCEPT ![p] = HealthFailure(@, TRUE)]
              => health' \in [Provider -> GoodHealth]
<1>1. health[p] \in GoodHealth /\ breaker[p] \in GoodBreaker
  OBVIOUS
<1>2. /\ HealthSuccess(health[p]) \in GoodHealth
      /\ \A isRateLimit \in BOOLEAN : HealthFailure(health[p], isRateLimit) \in GoodHealth
  BY <1>1, HealthStaysGood
<1>3. /\ BreakerSuccess(breaker[p]) \in GoodBreaker
      /\ BreakerFailure(breaker[p]) \in GoodBreaker
  BY <1>1, BreakerStaysGood
<1>4. QED
  BY <1>2, <1>3 DEF RecordSuccess, RecordFailure

\* A step that changes the loop of one role to a good one keeps all loops good.
LEMMA OneLoopChanges ==
  ASSUME RoutingInv, NEW r \in Role, NEW x \in GoodRun(r), run' = [run EXCEPT ![r] = x]
  PROVE  /\ run' \in [Role -> RunRecord]
         /\ \A q \in Role : run'[q] \in GoodRun(q)
<1>1. x \in RunRecord
  BY DEF GoodRun
<1>2. QED
  BY <1>1 DEF RoutingInv

\* RoutingInv holds at the start.
LEMMA InitInv == Init => RoutingInv
<1> SUFFICES ASSUME Init PROVE RoutingInv
  OBVIOUS
<1>1. Healthy \in GoodHealth
  BY Constants DEF Healthy, GoodHealth, HealthRecord
<1>2. Closed \in GoodBreaker
  BY Constants DEF Closed, GoodBreaker, BreakerRecord
<1>3. \A r \in Role : Walk({}) \in GoodRun(r)
  BY WalkIsGood
<1>4. \A r \in Role : run[r] \in GoodRun(r) /\ run[r] \in RunRecord
  BY <1>3 DEF Init, GoodRun
<1>5. QED
  BY <1>1, <1>2, <1>4 DEF Init, RoutingInv

\* Every step keeps RoutingInv.
LEMMA StepInv == RoutingInv /\ [Next]_vars => RoutingInv'
<1> SUFFICES ASSUME RoutingInv, [Next]_vars PROVE RoutingInv'
  OBVIOUS
<1>1. /\ health \in [Provider -> GoodHealth]
      /\ breaker \in [Provider -> GoodBreaker]
      /\ run \in [Role -> RunRecord]
      /\ \A r \in Role : run[r] \in GoodRun(r)
  BY DEF RoutingInv
<1>2. ASSUME NEW r \in Role, Begin(r)
      PROVE  RoutingInv'
  <2>1. health' \in [Provider -> GoodHealth]
    BY <1>1, <1>2, HealthStaysGood DEF Begin, HealthRead
  <2>2. HealthRead(r) \in [Provider -> GoodHealth]
    BY <1>1, HealthStaysGood DEF HealthRead
  <2>3. breaker' \in [Provider -> GoodBreaker]
    BY <1>1, <1>2, <2>2, BreakerStaysGood DEF Begin, BreakersRead
  <2>4. Clients(r) \in SUBSET Positions(r)
    BY DEF Clients, BreakerFilter, HealthFilter, OrAll
  <2>5. Walk(Clients(r)) \in GoodRun(r)
    BY <2>4, WalkIsGood
  <2>6. QED
    BY <1>2, <2>1, <2>3, <2>5, OneLoopChanges DEF Begin, RoutingInv
<1>3. ASSUME NEW r \in Role, Answer(r)
      PROVE  RoutingInv'
  <2>1. run[r] \in GoodRun(r) /\ run[r].pc = "calling"
    BY <1>1, <1>3 DEF Answer, Succeed, Garbled, RetryRateLimit, RateLimited, RetryPost,
                      Failed, Unsent
  <2>2. Current(r) \in Provider /\ NextProvider(r) \in GoodRun(r)
    BY <2>1, NextProviderIsGood
  <2>3. /\ run[r] \in RunRecord /\ run[r].todo # {}
        /\ run[r].todo \subseteq Positions(r)
    BY <2>1 DEF GoodRun
  <2>4. CASE Succeed(r)
    <3>1. Walk({}) \in GoodRun(r)
      BY WalkIsGood
    <3>2. QED
      BY <1>1, <2>2, <2>4, <3>1, RecordingIsGood, OneLoopChanges DEF Succeed, RoutingInv
  <2>5. CASE Garbled(r)
    BY <1>1, <2>2, <2>5, RecordingIsGood, OneLoopChanges DEF Garbled, RoutingInv
  <2>6. CASE RetryRateLimit(r)
    <3> DEFINE x == [run[r] EXCEPT !.pc = "backoff", !.limits = @ + 1]
    <3>1. run[r].limits + 1 \in 0 .. MaxRetries
      BY <2>3, <2>6, Constants DEF RetryRateLimit, RunRecord
    <3>2. x \in RunRecord /\ x.todo = run[r].todo
      BY <2>3, <3>1 DEF RunRecord
    <3>3. run' = [run EXCEPT ![r] = x]
      BY <2>6 DEF RetryRateLimit
    <3> HIDE DEF x
    <3>4. x \in GoodRun(r)
      BY <2>3, <3>2 DEF GoodRun
    <3>5. QED
      BY <1>1, <2>2, <2>6, <3>3, <3>4, RecordingIsGood, OneLoopChanges
         DEF RetryRateLimit, RoutingInv
  <2>7. CASE RateLimited(r)
    BY <1>1, <2>2, <2>7, RecordingIsGood, OneLoopChanges DEF RateLimited, RoutingInv
  <2>8. CASE RetryPost(r)
    <3> DEFINE x == [run[r] EXCEPT !.pc = "backoff", !.post = @ + 1, !.limits = 0]
    <3>1. run[r].post + 1 \in 1 .. PostAttempts /\ 0 \in 0 .. MaxRetries
      BY <2>3, <2>8, Constants DEF RetryPost, RunRecord
    <3>2. x \in RunRecord /\ x.todo = run[r].todo
      BY <2>3, <3>1 DEF RunRecord
    <3>3. run' = [run EXCEPT ![r] = x]
      BY <2>8 DEF RetryPost
    <3> HIDE DEF x
    <3>4. x \in GoodRun(r)
      BY <2>3, <3>2 DEF GoodRun
    <3>5. QED
      BY <1>1, <2>8, <3>3, <3>4, OneLoopChanges DEF RetryPost, RoutingInv
  <2>9. CASE Failed(r)
    BY <1>1, <2>2, <2>9, RecordingIsGood, OneLoopChanges DEF Failed, RoutingInv
  <2>10. CASE Unsent(r)
    BY <1>1, <2>2, <2>10, OneLoopChanges DEF Unsent, RoutingInv
  <2>11. QED
    BY <1>3, <2>4, <2>5, <2>6, <2>7, <2>8, <2>9, <2>10 DEF Answer
<1>4. ASSUME NEW r \in Role, Resume(r)
      PROVE  RoutingInv'
  <2>1. run[r] \in RunRecord /\ run[r] \in GoodRun(r) /\ run[r].pc = "backoff"
    BY <1>1, <1>4 DEF Resume
  <2>2. [run[r] EXCEPT !.pc = "calling"] \in GoodRun(r)
    BY <2>1 DEF GoodRun, RunRecord
  <2>3. run' = [run EXCEPT ![r] = [run[r] EXCEPT !.pc = "calling"]]
    BY <1>4 DEF Resume
  <2>4. QED
    BY <1>1, <1>4, <2>2, <2>3, OneLoopChanges DEF Resume, RoutingInv
<1>5. ASSUME NEW r \in Role, Cancelled(r)
      PROVE  RoutingInv'
  <2>1. Walk({}) \in GoodRun(r)
    BY WalkIsGood
  <2>2. QED
    BY <1>1, <1>5, <2>1, OneLoopChanges DEF Cancelled, RoutingInv
<1>6. CASE Snapshot
  BY <1>1, <1>6, HealthStaysGood, BreakerStaysGood DEF Snapshot, RoutingInv
<1>7. CASE Tick
  BY <1>1, <1>7, HealthStaysGood, BreakerStaysGood DEF Tick, RoutingInv
<1>8. CASE UNCHANGED vars
  BY <1>1, <1>8 DEF vars, RoutingInv
<1>9. QED
  BY <1>2, <1>3, <1>4, <1>5, <1>6, <1>7, <1>8 DEF Next

\* The invariant is one of the specification.
LEMMA RoutingInvariant == Spec => []RoutingInv
<1>1. QED
  BY InitInv, StepInv, PTL DEF Spec

-----------------------------------------------------------------------------
\* The records of the health store and the breakers and the failover loops keep
\* their shape, and a loop that calls has a provider left to call.
THEOREM TypeCorrect == Spec => []TypeOK
<1>1. RoutingInv => TypeOK
  <2> SUFFICES ASSUME RoutingInv PROVE TypeOK
    OBVIOUS
  <2>1. health \in [Provider -> HealthRecord] /\ breaker \in [Provider -> BreakerRecord]
    BY DEF RoutingInv, GoodHealth, GoodBreaker
  <2>2. run \in [Role -> RunRecord]
    BY DEF RoutingInv
  <2>3. \A r \in Role : /\ run[r].todo \subseteq Positions(r)
                        /\ run[r].pc \in {"calling", "backoff"} => run[r].todo # {}
    BY DEF RoutingInv, GoodRun
  <2>4. QED
    BY <2>1, <2>2, <2>3 DEF TypeOK
<1>2. QED
  BY <1>1, RoutingInvariant, PTL

\* A provider that reached the failure threshold is cooling down in the health
\* store and not CLOSED in its breaker, whatever calls were under way.
THEOREM ThresholdsTrip == Spec => []ThresholdTrips
<1>1. RoutingInv => ThresholdTrips
  BY DEF RoutingInv, ThresholdTrips, GoodHealth, GoodBreaker
<1>2. QED
  BY <1>1, RoutingInvariant, PTL

\* A breaker whose open time is over has a probe to give, at once or when the
\* probe interval has outlasted the open duration: no longer can the stamp of
\* an earlier probe, which _open() keeps, hold it back.
THEOREM ExpiredBreakersProbe == Spec => []ExpiredBreakerProbes
<1>1. RoutingInv => ExpiredBreakerProbes
  <2> SUFFICES ASSUME RoutingInv, NEW p \in Provider,
                      breaker[p].state = "OPEN", breaker[p].openLeft = 0,
                      ~(breaker[p].probeLeft + OpenDuration <= ProbeInterval)
               PROVE  Admits(breaker[p])
    BY DEF ExpiredBreakerProbes
  <2>1. /\ breaker[p] \in BreakerRecord
        /\ \/ breaker[p].probeLeft <= breaker[p].openLeft
           \/ breaker[p].probeLeft + OpenDuration <= breaker[p].openLeft + ProbeInterval
    BY DEF RoutingInv, GoodBreaker
  <2>2. breaker[p].probeLeft = 0
    BY <2>1, Constants DEF BreakerRecord
  <2>3. /\ ToHalfOpen(breaker[p]).state = "HALF_OPEN"
        /\ ToHalfOpen(breaker[p]).probeLeft = 0
    BY <2>1, <2>2 DEF ToHalfOpen, BreakerRecord
  <2>4. QED
    BY <2>3 DEF Admits
<1>2. QED
  BY <1>1, RoutingInvariant, PTL

-----------------------------------------------------------------------------
(* What a filtered chain may hold.                                         *)

\* Only the beginning of a loop makes an inactive role active.
LEMMA OnlyBeginActivates ==
  ASSUME [Next]_vars, NEW r \in Role, RoutingInv, ~Active(r), Active(r)'
  PROVE  Begin(r)
<1> USE DEF Active
<1>1. /\ run \in [Role -> RunRecord]
      /\ run[r].pc \notin {"calling", "backoff"}
      /\ run'[r].pc \in {"calling", "backoff"}
  BY DEF RoutingInv
<1>2. ASSUME NEW q \in Role, Begin(q)
      PROVE  Begin(r)
  BY <1>1, <1>2 DEF Begin
<1>3. ASSUME NEW q \in Role, Answer(q)
      PROVE  FALSE
  BY <1>1, <1>3 DEF Answer, Succeed, Garbled, RetryRateLimit, RateLimited, RetryPost,
                    Failed, Unsent
<1>4. ASSUME NEW q \in Role, Resume(q) \/ Cancelled(q)
      PROVE  FALSE
  BY <1>1, <1>4 DEF Resume, Cancelled
<1>5. CASE Snapshot \/ Tick \/ UNCHANGED vars
  BY <1>1, <1>5 DEF Snapshot, Tick, vars
<1>6. QED
  BY <1>2, <1>3, <1>4, <1>5 DEF Next

\* What Begin hands to the loop.
LEMMA ChainHandedOn ==
  ASSUME RoutingInv, NEW r \in Role, Begin(r)
  PROVE  /\ run'[r].todo \subseteq BreakerFilter(r)
         /\ health' = HealthRead(r)
         /\ breaker' = BreakersRead(r)
         /\ \A i \in Positions(r) : Chain[r][i] \in Provider
<1>1. run' = [run EXCEPT ![r] = Walk(Clients(r))]
  BY DEF Begin
<1>2. run'[r] = Walk(Clients(r))
  BY <1>1 DEF RoutingInv
<1>3. run'[r].todo = Clients(r)
  BY <1>2 DEF Walk
<1>4. QED
  BY <1>3, PositionsOfChain DEF Begin, Clients

\* The health filter keeps what is not cooling down, or everything when all is.
LEMMA HealthFilterKeeps ==
  ASSUME NEW r \in Role
  PROVE  /\ HealthFilter(r) \subseteq Positions(r)
         /\ \/ \A i \in HealthFilter(r) : HealthRead(r)[Chain[r][i]].state # "COOLDOWN"
            \/ \A i \in Positions(r) : HealthRead(r)[Chain[r][i]].state = "COOLDOWN"
         /\ \A i \in Positions(r) \ HealthFilter(r) :
              HealthRead(r)[Chain[r][i]].state = "COOLDOWN"
<1> DEFINE some == {i \in Positions(r) : HealthRead(r)[Chain[r][i]].state # "COOLDOWN"}
<1>1. HealthFilter(r) = IF some = {} THEN Positions(r) ELSE some
  BY DEF HealthFilter, OrAll
<1>2. QED
  BY <1>1

\* The registry asks the breaker itself whenever the health store does not say
\* COOLDOWN; a breaker that admits is left CLOSED or with its probe stamped.
LEMMA AskingABreaker ==
  ASSUME NEW b \in BreakerRecord, NEW h \in GoodHealth
  PROVE  /\ RegistryAllows(b, h) =>
              /\ Admits(b)
              /\ \/ RegistryAfter(b, h).state = "CLOSED"
                 \/ /\ RegistryAfter(b, h).state = "HALF_OPEN"
                    /\ RegistryAfter(b, h).probeLeft = ProbeInterval
         /\ ~RegistryAllows(b, h) => h.state = "COOLDOWN" \/ ~Admits(b)
<1>1. ASSUME h.state # "COOLDOWN"
      PROVE  RegistryBreaker(b, h) = b
  BY <1>1 DEF RegistryBreaker, GoodHealth
<1>2. /\ RegistryAllows(b, h) <=> h.state # "COOLDOWN" /\ Admits(b)
      /\ h.state # "COOLDOWN" => RegistryAfter(b, h) = AfterRequest(b)
  BY <1>1 DEF RegistryAllows, RegistryAfter
<1>3. ToHalfOpen(b) \in BreakerRecord
  BY DEF ToHalfOpen, BreakerRecord
<1>4. ASSUME Admits(b)
      PROVE  \/ AfterRequest(b).state = "CLOSED"
             \/ AfterRequest(b).state = "HALF_OPEN" /\ AfterRequest(b).probeLeft = ProbeInterval
  <2> DEFINE c == ToHalfOpen(b)
  <2>1. c \in BreakerRecord /\ (c.state = "CLOSED" \/ (c.state = "HALF_OPEN" /\ c.probeLeft = 0))
    BY <1>3, <1>4 DEF Admits
  <2>2. AfterRequest(b) = IF c.state = "HALF_OPEN" /\ c.probeLeft = 0
                          THEN [c EXCEPT !.probeLeft = ProbeInterval] ELSE c
    BY DEF AfterRequest
  <2> HIDE DEF c
  <2>3. QED
    BY <2>1, <2>2 DEF BreakerRecord
<1>5. QED
  BY <1>2, <1>4

\* A chain keeps a provider that is cooling down only when all its providers are.
THEOREM CooldownSkipped == Spec => CooldownIsSkipped
<1>1. ASSUME RoutingInv, [Next]_vars, NEW r \in Role, ~Active(r), Active(r)'
      PROVE  \/ \A i \in run'[r].todo : health'[Chain[r][i]].state # "COOLDOWN"
             \/ \A i \in Positions(r) : health'[Chain[r][i]].state = "COOLDOWN"
  <2>1. Begin(r)
    BY <1>1, OnlyBeginActivates
  <2>2. run'[r].todo \subseteq HealthFilter(r) /\ health' = HealthRead(r)
    BY <1>1, <2>1, ChainHandedOn DEF BreakerFilter, OrAll
  <2>3. QED
    BY <2>2, HealthFilterKeeps
<1>2. RoutingInv /\ [Next]_vars =>
        [\A r \in Role :
           ~Active(r) /\ Active(r)' =>
             \/ \A i \in run'[r].todo : health'[Chain[r][i]].state # "COOLDOWN"
             \/ \A i \in Positions(r) : health'[Chain[r][i]].state = "COOLDOWN"]_vars
  BY <1>1
<1>3. QED
  BY <1>2, RoutingInvariant, PTL DEF Spec, CooldownIsSkipped

\* A chain keeps only providers whose breaker admitted the role, unless the
\* breakers refuse every provider of the chain that is not cooling down.
THEOREM RefusingBreakersSkipped == Spec => RefusingBreakerIsSkipped
<1> DEFINE Kept(r, i) ==
             LET before == breaker[Chain[r][i]]
                 after  == breaker'[Chain[r][i]]
             IN  /\ Admits(before)
                 /\ \/ after.state = "CLOSED"
                    \/ after.state = "HALF_OPEN" /\ after.probeLeft = ProbeInterval
           Refused(r, i) == \/ health'[Chain[r][i]].state = "COOLDOWN"
                            \/ ~Admits(breaker[Chain[r][i]])
<1>1. ASSUME RoutingInv, [Next]_vars, NEW r \in Role, ~Active(r), Active(r)'
      PROVE  \/ \A i \in run'[r].todo : Kept(r, i)
             \/ \A i \in Positions(r) : Refused(r, i)
  <2>1. Begin(r)
    BY <1>1, OnlyBeginActivates
  <2>2. /\ run'[r].todo \subseteq BreakerFilter(r)
        /\ health' = HealthRead(r)
        /\ breaker' = BreakersRead(r)
        /\ \A i \in Positions(r) : Chain[r][i] \in Provider
    BY <1>1, <2>1, ChainHandedOn
  <2> DEFINE Allowed(i) == RegistryAllows(breaker[Chain[r][i]], HealthRead(r)[Chain[r][i]])
  <2>3. \A i \in HealthFilter(r) :
          breaker'[Chain[r][i]] = RegistryAfter(breaker[Chain[r][i]], HealthRead(r)[Chain[r][i]])
    BY <2>2, HealthFilterKeeps DEF BreakersRead, Providers
  <2>4. \A p \in Provider : breaker[p] \in BreakerRecord /\ HealthRead(r)[p] \in GoodHealth
    BY <1>1, HealthStaysGood DEF RoutingInv, GoodBreaker, HealthRead
  <2>5. CASE \E i \in HealthFilter(r) : Allowed(i)
    <3>1. \A i \in run'[r].todo : i \in HealthFilter(r) /\ i \in Positions(r) /\ Allowed(i)
      BY <2>2, <2>5, HealthFilterKeeps DEF BreakerFilter, OrAll
    <3>2. QED
      BY <2>2, <2>3, <2>4, <3>1, AskingABreaker
  <2>6. CASE \A i \in HealthFilter(r) : ~Allowed(i)
    <3>1. ASSUME NEW i \in Positions(r), health'[Chain[r][i]].state # "COOLDOWN"
          PROVE  ~Admits(breaker[Chain[r][i]])
      <4>1. i \in HealthFilter(r)
        BY <2>2, <3>1, HealthFilterKeeps
      <4>2. QED
        BY <2>2, <2>4, <2>6, <3>1, <4>1, AskingABreaker
    <3>2. QED
      BY <3>1
  <2>7. QED
    BY <2>5, <2>6
<1>2. RoutingInv /\ [Next]_vars =>
        [\A r \in Role :
           ~Active(r) /\ Active(r)' =>
             \/ \A i \in run'[r].todo : Kept(r, i)
             \/ \A i \in Positions(r) : Refused(r, i)]_vars
  BY <1>1
<1>3. QED
  BY <1>2, RoutingInvariant, PTL DEF Spec, RefusingBreakerIsSkipped
=============================================================================
