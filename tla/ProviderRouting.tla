-------------------------- MODULE ProviderRouting --------------------------
(***************************************************************************)
(* Which LLM provider a role is sent to, and what the answer does to the   *)
(* provider's standing.  Every desk, assessment member and council member  *)
(* walks its own chain of providers (execute_with_failover); the chain is  *)
(* filtered once, up front, by the shared health store and the shared      *)
(* circuit breakers, which the answers of all roles update.                *)
(*                                                                         *)
(* Every operation below runs without an await in the code, so on the one  *)
(* event loop it is one step; a step reads the wall clock once.  A         *)
(* deadline is kept as the time left to it, 0 when it has passed or is     *)
(* None: every comparison the code makes with datetime.now() is "has it    *)
(* passed".  A failure counter stops at the threshold it is compared with. *)
(***************************************************************************)
EXTENDS Naturals, Sequences

CONSTANTS
  Provider,            \* the provider keys a chain may name
  Configured,          \* those with an API key: the keys of client_map
  Role,                \* the desks, assessment and council members
  Chain,               \* [Role -> Seq(Provider)]: each role's provider_chain
  DegradedThreshold,   \* dil_health_degraded_429_threshold
  FailureThreshold,    \* dil_health_unhealthy_failure_threshold (both users)
  Cooldown,            \* dil_provider_cooldown_s
  OpenDuration,        \* dil_cb_open_duration_s
  ProbeInterval,       \* dil_cb_probe_interval_s
  MaxRetries,          \* dil_429_max_retries
  PostAttempts         \* tenacity's stop_after_attempt

ASSUME RoutingAssumption ==
  /\ Configured \subseteq Provider
  /\ Chain \in [Role -> Seq(Provider)]
  /\ \A r \in Role : \A i, j \in DOMAIN Chain[r] : Chain[r][i] = Chain[r][j] => i = j
  /\ {DegradedThreshold, FailureThreshold, Cooldown, OpenDuration, PostAttempts}
       \subseteq Nat \ {0}
  /\ {ProbeInterval, MaxRetries} \subseteq Nat

VARIABLES
  health,   \* health[p]: the health store's record of p
  breaker,  \* breaker[p]: the circuit breaker's record of p
  run       \* run[r]: the failover loop of role r

vars == <<health, breaker, run>>

HealthRecord ==
  [state  : {"HEALTHY", "DEGRADED", "UNHEALTHY", "COOLDOWN"},
   fails  : 0 .. FailureThreshold,     \* consecutive_failures
   limits : 0 .. DegradedThreshold,    \* consecutive_429s
   left   : 0 .. Cooldown]             \* to cooldown_until

BreakerRecord ==
  [state     : {"CLOSED", "OPEN", "HALF_OPEN"},
   fails     : 0 .. FailureThreshold,  \* failure_count
   openLeft  : 0 .. OpenDuration,      \* to opened_at + open_duration_s
   probeLeft : 0 .. ProbeInterval]     \* to last_probe_at + probe_interval_s

RunRecord ==
  [pc    : {"idle", "calling", "backoff"},
   todo  : SUBSET Nat,           \* chain positions left, the current one first
   post  : 1 .. PostAttempts,    \* tenacity's attempt number
   limits: 0 .. MaxRetries]      \* rate_limit_attempt

Bump(n, cap) == IF n < cap THEN n + 1 ELSE cap
Elapse(n) == IF n > 0 THEN n - 1 ELSE 0

-----------------------------------------------------------------------------
(* The health store, one record at a time.                                 *)

Healthy == [state |-> "HEALTHY", fails |-> 0, limits |-> 0, left |-> 0]

\* Mutant: the expired cooldown is cleared but the state is not restored.
ExitCooldown_KeepsState(h) ==
  IF h.state = "COOLDOWN" /\ h.left = 0 THEN [Healthy EXCEPT !.state = "COOLDOWN"] ELSE h

ExitCooldown(h) == IF h.state = "COOLDOWN" /\ h.left = 0 THEN Healthy ELSE h

HealthSuccess(h0) ==
  LET h == ExitCooldown(h0)
  IN  [h EXCEPT !.fails = 0, !.limits = 0,
                !.state = IF @ \in {"DEGRADED", "UNHEALTHY"} THEN "HEALTHY" ELSE @]

\* Mutant: the threshold is compared before the failure is counted.
HealthFailure_OffByOne(h0, isRateLimit) ==
  LET h      == ExitCooldown(h0)
      limits == IF isRateLimit THEN Bump(h.limits, DegradedThreshold) ELSE 0
      cools  == h.fails >= FailureThreshold
  IN  [state  |-> IF cools THEN "COOLDOWN"
                  ELSE IF limits >= DegradedThreshold THEN "DEGRADED" ELSE h.state,
       fails  |-> Bump(h.fails, FailureThreshold),
       limits |-> limits,
       left   |-> IF cools THEN Cooldown ELSE h.left]

\* Reaching the failure threshold passes through UNHEALTHY straight to COOLDOWN.
HealthFailure(h0, isRateLimit) ==
  LET h      == ExitCooldown(h0)
      fails  == Bump(h.fails, FailureThreshold)
      limits == IF isRateLimit THEN Bump(h.limits, DegradedThreshold) ELSE 0
      cools  == fails >= FailureThreshold
  IN  [state  |-> IF cools THEN "COOLDOWN"
                  ELSE IF limits >= DegradedThreshold THEN "DEGRADED" ELSE h.state,
       fails  |-> fails,
       limits |-> limits,
       left   |-> IF cools THEN Cooldown ELSE h.left]

-----------------------------------------------------------------------------
(* The circuit breaker, one record at a time.                              *)

Closed == [state |-> "CLOSED", fails |-> 0, openLeft |-> 0, probeLeft |-> 0]

ForceOpen(b) == [b EXCEPT !.state = "OPEN", !.openLeft = OpenDuration]

ToHalfOpen(b) ==
  IF b.state = "OPEN" /\ b.openLeft = 0 THEN [b EXCEPT !.state = "HALF_OPEN"] ELSE b

BreakerSuccess(b) == Closed

BreakerFailure(b) ==
  LET counted == [b EXCEPT !.fails = Bump(@, FailureThreshold)]
  IN  IF \/ b.state = "HALF_OPEN"
         \/ b.state = "CLOSED" /\ counted.fails >= FailureThreshold
      THEN ForceOpen(counted)
      ELSE counted

\* allow_request: what it answers, and the record it leaves: a granted probe is
\* stamped.
Admits(b0) ==
  LET b == ToHalfOpen(b0)
  IN  b.state = "CLOSED" \/ (b.state = "HALF_OPEN" /\ b.probeLeft = 0)

AfterRequest(b0) ==
  LET b == ToHalfOpen(b0)
  IN  IF b.state = "HALF_OPEN" /\ b.probeLeft = 0
      THEN [b EXCEPT !.probeLeft = ProbeInterval]
      ELSE b

\* CircuitBreakerRegistry.allow: the health state is consulted first.
RegistryBreaker(b, h) == IF h.state \in {"COOLDOWN", "UNHEALTHY"} THEN ForceOpen(b) ELSE b
RegistryAllows(b, h) == h.state # "COOLDOWN" /\ Admits(RegistryBreaker(b, h))
RegistryAfter(b, h) ==
  IF h.state = "COOLDOWN" THEN ForceOpen(b) ELSE AfterRequest(RegistryBreaker(b, h))

-----------------------------------------------------------------------------
(* Filtering a role's chain.  S is a set of positions of the chain; both   *)
(* filters hand back all they were given when they would leave nothing.    *)

Positions(r) == 1 .. Len(Chain[r])
Providers(r, S) == {Chain[r][i] : i \in S}
OrAll(some, all) == IF some = {} THEN all ELSE some

HealthRead(r) ==
  [p \in Provider |-> IF p \in Providers(r, Positions(r)) THEN ExitCooldown(health[p])
                      ELSE health[p]]

\* Mutant: the filter drops the state that is never seen instead of COOLDOWN.
HealthFilter_WrongState(r) ==
  OrAll({i \in Positions(r) : HealthRead(r)[Chain[r][i]].state # "UNHEALTHY"}, Positions(r))

HealthFilter(r) ==
  OrAll({i \in Positions(r) : HealthRead(r)[Chain[r][i]].state # "COOLDOWN"}, Positions(r))

BreakerFilter(r) ==
  OrAll({i \in HealthFilter(r) : RegistryAllows(breaker[Chain[r][i]], HealthRead(r)[Chain[r][i]])},
        HealthFilter(r))

BreakersRead(r) ==
  [p \in Provider |-> IF p \in Providers(r, HealthFilter(r))
                      THEN RegistryAfter(breaker[p], HealthRead(r)[p])
                      ELSE breaker[p]]

-----------------------------------------------------------------------------
(* The failover loop.                                                      *)

First(S) == CHOOSE i \in S : \A j \in S : i <= j
Current(r) == Chain[r][First(run[r].todo)]

\* Go on with the positions S: call the first of them, or end.
Walk(S) ==
  [pc     |-> IF S = {} THEN "idle" ELSE "calling",
   todo   |-> S,
   post   |-> 1,
   limits |-> 0]

NextProvider(r) == Walk(run[r].todo \ {First(run[r].todo)})

\* execute_with_failover filters the chain once; a provider without a client
\* is passed over.
Clients(r) == {i \in BreakerFilter(r) : Chain[r][i] \in Configured}

Begin(r) ==
  /\ run[r].pc = "idle"
  /\ health' = HealthRead(r)
  /\ breaker' = BreakersRead(r)
  /\ run' = [run EXCEPT ![r] = Walk(Clients(r))]

\* after_request, as seen by the health store and the breakers.
RecordSuccess(p) ==
  /\ health' = [health EXCEPT ![p] = HealthSuccess(@)]
  /\ breaker' = [breaker EXCEPT ![p] = BreakerSuccess(@)]

RecordFailure(p, isRateLimit) ==
  /\ health' = [health EXCEPT ![p] = HealthFailure(@, isRateLimit)]
  /\ breaker' = [breaker EXCEPT ![p] = BreakerFailure(@)]

Succeed(r) ==
  /\ run[r].pc = "calling"
  /\ RecordSuccess(Current(r))
  /\ run' = [run EXCEPT ![r] = Walk({})]

\* The HTTP call succeeded, so it counts as a success, but prompt_fn could not
\* parse the text: the loop goes on to the next provider.
Garbled(r) ==
  /\ run[r].pc = "calling"
  /\ RecordSuccess(Current(r))
  /\ run' = [run EXCEPT ![r] = NextProvider(r)]

\* Mutant: rate_limit_attempt is not counted.
RetryRateLimit_Uncounted(r) ==
  /\ run[r].pc = "calling"
  /\ run[r].limits < MaxRetries
  /\ health' = [health EXCEPT ![Current(r)] = HealthFailure(@, TRUE)]
  /\ run' = [run EXCEPT ![r].pc = "backoff"]
  /\ UNCHANGED breaker

\* A 429 that handle_429 lets the caller retry: the health store hears of it,
\* the breaker does not.
RetryRateLimit(r) ==
  /\ run[r].pc = "calling"
  /\ run[r].limits < MaxRetries
  /\ health' = [health EXCEPT ![Current(r)] = HealthFailure(@, TRUE)]
  /\ run' = [run EXCEPT ![r].pc = "backoff", ![r].limits = @ + 1]
  /\ UNCHANGED breaker

\* A 429 with the retries used up, or one whose body names an exhausted quota.
RateLimited(r) ==
  /\ run[r].pc = "calling"
  /\ RecordFailure(Current(r), TRUE)
  /\ run' = [run EXCEPT ![r] = NextProvider(r)]

\* A 408, 409, 5xx or connection error that tenacity tries again.
RetryPost(r) ==
  /\ run[r].pc = "calling"
  /\ run[r].post < PostAttempts
  /\ run' = [run EXCEPT ![r].pc = "backoff", ![r].post = @ + 1, ![r].limits = 0]
  /\ UNCHANGED <<health, breaker>>

\* Any other error, or the last attempt's.
Failed(r) ==
  /\ run[r].pc = "calling"
  /\ RecordFailure(Current(r), FALSE)
  /\ run' = [run EXCEPT ![r] = NextProvider(r)]

\* The call did not get to the HTTP exchange (no permit: before_request is
\* outside the try): nobody records it.
Unsent(r) ==
  /\ run[r].pc = "calling"
  /\ run' = [run EXCEPT ![r] = NextProvider(r)]
  /\ UNCHANGED <<health, breaker>>

\* The task is cancelled: CancelledError passes every except clause.
Cancelled(r) ==
  /\ run[r].pc \in {"calling", "backoff"}
  /\ run' = [run EXCEPT ![r] = Walk({})]
  /\ UNCHANGED <<health, breaker>>

Resume(r) ==
  /\ run[r].pc = "backoff"
  /\ run' = [run EXCEPT ![r].pc = "calling"]
  /\ UNCHANGED <<health, breaker>>

\* GET /dil/health reads every record, which moves the expired ones on.
Snapshot ==
  /\ health' = [p \in Provider |-> ExitCooldown(health[p])]
  /\ breaker' = [p \in Provider |-> ToHalfOpen(breaker[p])]
  /\ UNCHANGED run

Tick ==
  /\ health' = [p \in Provider |-> [health[p] EXCEPT !.left = Elapse(@)]]
  /\ breaker' = [p \in Provider |-> [breaker[p] EXCEPT !.openLeft = Elapse(@),
                                                       !.probeLeft = Elapse(@)]]
  /\ UNCHANGED run

-----------------------------------------------------------------------------
Init ==
  /\ health = [p \in Provider |-> Healthy]
  /\ breaker = [p \in Provider |-> Closed]
  /\ run = [r \in Role |-> Walk({})]

Answer(r) ==
  \/ Succeed(r)
  \/ Garbled(r)
  \/ RetryRateLimit(r)
  \/ RateLimited(r)
  \/ RetryPost(r)
  \/ Failed(r)
  \/ Unsent(r)

Next ==
  \/ \E r \in Role : Begin(r) \/ Answer(r) \/ Resume(r) \/ Cancelled(r)
  \/ Snapshot
  \/ Tick

Spec == Init /\ [][Next]_vars

\* Time passes, a request ends (the HTTP client has a total timeout) and a
\* sleeping call wakes up.
FairSpec ==
  /\ Spec
  /\ WF_vars(Tick)
  /\ \A r \in Role : WF_vars(Answer(r) \/ Resume(r))

-----------------------------------------------------------------------------
\* Every record has its shape, and a role's loop only holds positions of its
\* chain, at least one of them while it is calling.
TypeOK ==
  /\ health \in [Provider -> HealthRecord]
  /\ breaker \in [Provider -> BreakerRecord]
  /\ run \in [Role -> RunRecord]
  /\ \A r \in Role :
       /\ run[r].todo \subseteq Positions(r)
       /\ run[r].pc \in {"calling", "backoff"} => run[r].todo # {}

\* A provider that reached the failure threshold is out of service: in the
\* health store it is cooling down, in its breaker it is not CLOSED; and the
\* UNHEALTHY state the registry also tests for is never left in the store.
ThresholdTrips ==
  \A p \in Provider :
    /\ health[p].fails >= FailureThreshold => health[p].state = "COOLDOWN"
    /\ breaker[p].fails >= FailureThreshold => breaker[p].state # "CLOSED"
    /\ health[p].state # "UNHEALTHY"

\* _open() does not clear last_probe_at, so a breaker opens again with the stamp
\* of its last probe running.  Once the open time is over it has a probe to give
\* at once, or after no more than what the probe interval exceeds the open
\* duration by: nothing, where the interval is not the longer one.
ExpiredBreakerProbes ==
  \A p \in Provider :
    breaker[p].state = "OPEN" /\ breaker[p].openLeft = 0
      => \/ Admits(breaker[p])
         \/ breaker[p].probeLeft + OpenDuration <= ProbeInterval

Active(r) == run[r].pc \in {"calling", "backoff"}

\* A chain keeps a provider that is cooling down only when every provider of
\* the chain is cooling down (the last resort).
CooldownIsSkipped ==
  [][\A r \in Role :
       ~Active(r) /\ Active(r)' =>
         \/ \A i \in run'[r].todo : health'[Chain[r][i]].state # "COOLDOWN"
         \/ \A i \in Positions(r) : health'[Chain[r][i]].state = "COOLDOWN"]_vars

\* A chain keeps only providers whose breaker admitted a request as the role
\* began, each CLOSED or on a probe stamped by that very request, so that no
\* other role is admitted by the same probe; unless the breakers refused every
\* provider of the chain that is not cooling down (the last resort).
RefusingBreakerIsSkipped ==
  [][\A r \in Role :
       ~Active(r) /\ Active(r)' =>
         \/ \A i \in run'[r].todo :
              LET before == breaker[Chain[r][i]]
                  after  == breaker'[Chain[r][i]]
              IN  /\ Admits(before)
                  /\ \/ after.state = "CLOSED"
                     \/ after.state = "HALF_OPEN" /\ after.probeLeft = ProbeInterval
         \/ \A i \in Positions(r) :
              \/ health'[Chain[r][i]].state = "COOLDOWN"
              \/ ~Admits(breaker[Chain[r][i]])]_vars

\* The retries of one call and the walk along the chain are both bounded:
\* a role is never under way for good; it ends, with an answer or without.
RolesFinish == \A r \in Role : []<>~Active(r)

\* Once calls stop failing, every provider becomes admissible again and again:
\* cooldowns and open breakers run out, however often chains are filtered.
FailureStep == \E p \in Provider : health'[p].fails > health[p].fails
                                   \/ breaker'[p].fails > breaker[p].fails
                                   \/ health'[p].left > health[p].left
Admissible(p) ==
  LET h == ExitCooldown(health[p]) IN h.state # "COOLDOWN" /\ RegistryAllows(breaker[p], h)
Recovery == (<>[][~FailureStep]_vars) => \A p \in Provider : []<>Admissible(p)

\* The plan of the resilience layer: "skip provider unless it is the only
\* configured option" and "if filtered chain empty, try all providers once".
\* A role that begins calls a provider unless its chain has none with a client.
OnlyOptionIsTried ==
  \A r \in Role :
    Clients(r) = {} => Providers(r, Positions(r)) \cap Configured = {}

\* The plan: five consecutive failures put a provider in COOLDOWN for
\* DIL_PROVIDER_COOLDOWN_S.  A cooldown that has time left does not end.
CooldownRunsItsTime ==
  [][\A p \in Provider :
       health[p].state = "COOLDOWN" /\ health[p].left > 0
         => health'[p].state = "COOLDOWN"]_vars

\* The plan's transition list reaches CLOSED from HALF_OPEN only, when the
\* probe succeeds.
ClosesThroughProbe ==
  [][\A p \in Provider :
       breaker[p].state = "OPEN" => breaker'[p].state # "CLOSED"]_vars
=============================================================================
