------------------------------- MODULE IbkrLink -------------------------------
(***************************************************************************)
(* The connection to the IBKR Gateway (IbkrConnection with its watcher     *)
(* task), the streaming subscriptions kept on it (MarketDataService) and   *)
(* the price loop that asks for them (MarketDataWorker), from the start of *)
(* the application to its shutdown.                                        *)
(*                                                                         *)
(* The watcher replaces the ib_async client on every attempt.  A ticker    *)
(* object, or the client the price loop holds across an await, is "live"   *)
(* while the connection it was made on is up, and "dead" from then on.     *)
(***************************************************************************)
EXTENDS Naturals

CONSTANTS
  Symbol   \* the watchlist, numbered in the order in which it is sorted

ASSUME LinkAssumption == Symbol \subseteq Nat

VARIABLES
  listed,   \* the symbols that IBKR has a contract for; never changes
  app,      \* "off", "starting", "up", "stopping", "down": the lifespan hook
  gateway,  \* the Gateway accepts connections
  link,     \* the client of the connection is connected
  state,    \* IbkrConnection.state
  event,    \* _connected_event is set
  watcher,  \* where the watcher task is
  slot,     \* slot[s]: the ticker object of the subscription of s
  loop,     \* where the price loop is
  held,     \* the client the price loop subscribes with
  todo      \* the symbols it still has to look at

vars == <<listed, app, gateway, link, state, event, watcher, slot, loop, held, todo>>
connection == <<state, event, watcher>>
streams == <<listed, slot, loop, held, todo>>

Connected == state = "connected" /\ link

\* What a closed socket does to everything made on it.
Killed(x) == IF x = "live" THEN "dead" ELSE x
SocketCloses ==
  /\ slot' = [s \in Symbol |-> Killed(slot[s])]
  /\ held' = Killed(held)

-----------------------------------------------------------------------------
(* The lifespan hook.                                                      *)

\* connect() starts the watcher and waits for the event or a timeout.
Connect ==
  /\ app = "off"
  /\ app' = "starting"
  /\ watcher' = "attempting"
  /\ UNCHANGED <<gateway, link, state, event, streams>>

\* MarketDataWorker.start, whether or not the wait succeeded.
StartWorker ==
  /\ app = "starting"
  /\ app' = "up"
  /\ loop' = "asleep"
  /\ UNCHANGED <<listed, gateway, link, connection, slot, held, todo>>

\* cancel_subscriptions: the slots are emptied only when there is a client to cancel with.
CancelSubscriptions == slot' = IF Connected THEN [s \in Symbol |-> "none"] ELSE slot

\* MarketDataWorker.stop cancels the loop at whatever it awaits.
StopWorker ==
  /\ app = "up"
  /\ app' = "stopping"
  /\ loop' = "off"
  /\ held' = "none"
  /\ todo' = {}
  /\ CancelSubscriptions
  /\ UNCHANGED <<listed, gateway, link, connection>>

\* disconnect() cancels the watcher wherever it is and closes its client.
Disconnect ==
  /\ app = "stopping"
  /\ app' = "down"
  /\ watcher' = "none"
  /\ link' = FALSE
  /\ state' = "disconnected"
  /\ event' = FALSE
  /\ SocketCloses
  /\ UNCHANGED <<listed, gateway, loop, todo>>

-----------------------------------------------------------------------------
(* The watcher.                                                            *)

\* _attempt_connect drops the old client and connects a new one.
Attempt ==
  /\ watcher = "attempting"
  /\ watcher' = "connecting"
  /\ state' = "connecting"
  /\ link' = FALSE
  /\ SocketCloses
  /\ UNCHANGED <<listed, app, gateway, event, loop, todo>>

ConnectSucceeds ==
  /\ watcher = "connecting"
  /\ gateway
  /\ watcher' = "watching"
  /\ state' = "connected"
  /\ event' = TRUE
  /\ link' = TRUE
  /\ UNCHANGED <<app, gateway, streams>>

\* Mutant: an attempt that fails ends the watcher.
ConnectFails_Ends ==
  /\ watcher = "connecting"
  /\ watcher' = "none"
  /\ state' = "failed"
  /\ event' = FALSE
  /\ UNCHANGED <<app, gateway, link, streams>>

\* connectAsync raises: refused, or no answer in time.
ConnectFails ==
  /\ watcher = "connecting"
  /\ watcher' = "backoff"
  /\ state' = "failed"
  /\ event' = FALSE
  /\ UNCHANGED <<app, gateway, link, streams>>

BackoffOver ==
  /\ watcher = "backoff"
  /\ watcher' = "attempting"
  /\ UNCHANGED <<app, gateway, link, state, event, streams>>

\* The poll of _wait_until_disconnect_or_stop finds the link down.
Notice ==
  /\ watcher = "watching"
  /\ ~link
  /\ watcher' = "attempting"
  /\ state' = "disconnected"
  /\ event' = FALSE
  /\ UNCHANGED <<app, gateway, link, streams>>

-----------------------------------------------------------------------------
(* The Gateway.                                                            *)

\* The link goes down, with the Gateway or alone.
Drop ==
  /\ link
  /\ link' = FALSE
  /\ gateway' \in {gateway, FALSE}
  /\ SocketCloses
  /\ UNCHANGED <<listed, app, connection, loop, todo>>

GatewayStops ==
  /\ gateway /\ ~link
  /\ gateway' = FALSE
  /\ UNCHANGED <<app, link, connection, streams>>

GatewayStarts ==
  /\ ~gateway
  /\ gateway' = TRUE
  /\ UNCHANGED <<app, link, connection, streams>>

-----------------------------------------------------------------------------
(* One round of the price loop.                                            *)

\* Mutant: a service that has subscribed before does not look again.
Wake_Once ==
  /\ loop = "asleep"
  /\ Connected
  /\ loop' = "subscribing"
  /\ held' = "live"
  /\ todo' = IF \A s \in Symbol : slot[s] = "none" THEN Symbol ELSE {}
  /\ UNCHANGED <<listed, app, gateway, link, connection, slot>>

\* subscribe_quotes takes the client and skips the symbols that have a ticker.
Wake ==
  /\ loop = "asleep"
  /\ Connected
  /\ loop' = "subscribing"
  /\ held' = "live"
  /\ todo' = {s \in Symbol : slot[s] = "none"}
  /\ UNCHANGED <<listed, app, gateway, link, connection, slot>>

\* The symbols come in sorted order.
Turn(s) == loop = "subscribing" /\ s \in todo /\ \A q \in todo : s <= q

\* qualifyContractsAsync answers and the market data request goes out.
Subscribe(s) ==
  /\ Turn(s)
  /\ s \in listed /\ held = "live"
  /\ slot' = [slot EXCEPT ![s] = "live"]
  /\ todo' = todo \ {s}
  /\ UNCHANGED <<listed, app, gateway, link, connection, loop, held>>

\* It raises, because the link is down or the answer is late: the symbol is skipped.
QualifyFails(s) ==
  /\ Turn(s)
  /\ todo' = todo \ {s}
  /\ UNCHANGED <<listed, app, gateway, link, connection, slot, loop, held>>

\* An exception out of the market data request ends the round: nothing is drained.
RoundRaises ==
  /\ loop' = "asleep"
  /\ held' = "none"
  /\ todo' = {}
  /\ UNCHANGED <<listed, app, gateway, link, connection, slot>>

\* For a contract it does not know qualifyContractsAsync raises nothing and returns
\* nothing, which nobody looks at; the request for the unqualified contract raises,
\* or opens a stream that is never fed.
Rejected(s) ==
  /\ Turn(s)
  /\ s \notin listed /\ held = "live"
  /\ \/ RoundRaises
     \/ /\ slot' = [slot EXCEPT ![s] = "mute"]
        /\ todo' = todo \ {s}
        /\ UNCHANGED <<listed, app, gateway, link, connection, loop, held>>

\* The link went down between the qualification and the request.
RequestFails ==
  /\ loop = "subscribing" /\ todo # {}
  /\ held = "dead"
  /\ RoundRaises

\* Every symbol was looked at; drain_quotes comes next.
AllLookedAt ==
  /\ loop = "subscribing" /\ todo = {}
  /\ loop' = "draining"
  /\ held' = "none"
  /\ UNCHANGED <<listed, app, gateway, link, connection, slot, todo>>

\* The quotes are cached, sampled and published; the loop sleeps.
RoundEnds ==
  /\ loop = "draining"
  /\ loop' = "asleep"
  /\ UNCHANGED <<listed, app, gateway, link, connection, slot, held, todo>>

-----------------------------------------------------------------------------
Init ==
  /\ listed \in SUBSET Symbol
  /\ app = "off"
  /\ gateway \in BOOLEAN
  /\ link = FALSE
  /\ state = "disconnected"
  /\ event = FALSE
  /\ watcher = "none"
  /\ slot = [s \in Symbol |-> "none"]
  /\ loop = "off"
  /\ held = "none"
  /\ todo = {}

WatcherStep == Attempt \/ ConnectSucceeds \/ ConnectFails \/ BackoffOver \/ Notice
LoopStep ==
  \/ Wake \/ RequestFails \/ AllLookedAt \/ RoundEnds
  \/ \E s \in Symbol : Subscribe(s) \/ QualifyFails(s) \/ Rejected(s)

Next ==
  \/ Connect \/ StartWorker \/ StopWorker \/ Disconnect
  \/ WatcherStep
  \/ Drop \/ GatewayStops \/ GatewayStarts
  \/ LoopStep

Spec == Init /\ [][Next]_vars

\* Timeouts expire, awaits end and the loops go round.  A Gateway that accepts
\* connections accepts one eventually, and a contract IBKR lists is qualified in
\* time in one of the rounds that ask for it.
FairSpec ==
  /\ Spec
  /\ WF_vars(Connect) /\ WF_vars(StartWorker)
  /\ WF_vars(WatcherStep) /\ SF_vars(ConnectSucceeds)
  /\ WF_vars(LoopStep) /\ \A s \in Symbol : SF_vars(Subscribe(s))

-----------------------------------------------------------------------------
(* Properties.                                                             *)

TypeOK ==
  /\ listed \in SUBSET Symbol
  /\ app \in {"off", "starting", "up", "stopping", "down"}
  /\ gateway \in BOOLEAN /\ link \in BOOLEAN /\ event \in BOOLEAN
  /\ state \in {"disconnected", "connecting", "connected", "failed"}
  /\ watcher \in {"none", "attempting", "connecting", "watching", "backoff"}
  /\ slot \in [Symbol -> {"none", "live", "dead", "mute"}]
  /\ loop \in {"off", "asleep", "subscribing", "draining"}
  /\ held \in {"none", "live", "dead"}
  /\ todo \in SUBSET Symbol

\* Once the Gateway is there to stay, the watcher connects, and again after every
\* drop of the link: the retries never end before the shutdown.
Reconnects == <>[](gateway /\ app \in {"starting", "up"}) => []<>Connected

\* A symbol whose qualification failed, or whose round was cut short, is tried again.
\* With the link up for good every symbol up to the first that IBKR does not list has
\* a subscription, and when it lists them all the rounds reach the drain.  (One
\* unlisted symbol can cost all those after it their subscription.)
StreamsStart ==
  <>[](Connected /\ app = "up") =>
    /\ \A s \in Symbol :
         {q \in Symbol : q <= s} \subseteq listed => <>[](slot[s] # "none")
    /\ Symbol \subseteq listed => []<>(loop = "draining")

\* The price loop, every second, "Drains every dirty ib_async.Ticker snapshot" and
\* "No-ops when IBKR is disconnected" (worker.py): with the link up for good it
\* drains again and again.  It does not when one symbol is not listed.
RoundsDrain == <>[](Connected /\ app = "up") => []<>(loop = "draining")

\* "The watcher task stays running for the life of the process so a brief Gateway
\* restart heals transparently" (ibkr_connection.py): with the link up for good,
\* every symbol of a watchlist that IBKR lists has a subscription that is fed.
StreamsHeal ==
  Symbol \subseteq listed /\ <>[](Connected /\ app = "up") =>
    \A s \in Symbol : <>[](slot[s] = "live")
=============================================================================
