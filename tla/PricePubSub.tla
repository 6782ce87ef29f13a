----------------------------- MODULE PricePubSub -----------------------------
(***************************************************************************)
(* The fanout of prices and opportunity versions: MarketDataPubSub with    *)
(* its tick buffer, the WebSocket handler of each client with its          *)
(* forwarding task, and the optional Redis bridge in front of the broker.  *)
(* No coroutine suspends while it holds the broker's lock or between the   *)
(* put_nowait calls of a dispatch, so a flush is one step.                 *)
(***************************************************************************)
EXTENDS Naturals, Sequences, FiniteSets, SequencesExt

CONSTANTS
  Client,       \* the WebSocket clients
  Ticker,       \* the watchlist
  Filter,       \* the filters a client asks for: tickers and message types
  QueueMax,     \* the size of a client's queue
  MaxMessages   \* messages published in the model's life

Types == {"tick", "opportunity_version"}

ASSUME PubSubAssumption ==
  /\ Filter \subseteq [tickers : SUBSET Ticker, types : SUBSET Types]
  /\ QueueMax \in Nat \ {0}
  /\ MaxMessages \in Nat

Message == [type : Types, ticker : Ticker, seq : 1 .. MaxMessages]
NoMsg == [type |-> "none"]

VARIABLES
  bridged,  \* REDIS_PUBSUB_ENABLED with a Redis client
  link,     \* the listener is subscribed to the channels
  wire,     \* messages in the channels
  seq,      \* messages published so far
  buffer,   \* _tick_buffer in its dictionary's order
  flushing, \* the flush task runs
  phase,    \* phase[c]: where the handler of the client is
  peer,     \* peer[c]: the client's end of the socket is open
  tickers,  \* tickers[c]: the subscriber's filter, empty for all
  types,    \* types[c]: the subscriber's message types
  queue,    \* queue[c]: the subscriber's queue
  sending,  \* sending[c]: what the forwarding task is sending
  forward,  \* forward[c]: the forwarding task is alive
  shown,    \* shown[c][t]: the last tick the client received (history)
  quiet,    \* quiet[c]: the last answer to the client was "unsubscribed" (history)
  lost      \* <<c, m>>: c did not get tick m, its queue was full or the link down (history)

clientVars == <<phase, peer, tickers, types, queue, sending, forward, shown, quiet>>
pubSubVars == <<bridged, link, wire, seq, buffer, flushing, clientVars, lost>>

-----------------------------------------------------------------------------
(* The broker.                                                             *)

\* A subscriber is in the list from subscribe() to unsubscribe().
Listed(c) == phase[c] # "off"

Accepts(c, m) ==
  /\ Listed(c)
  /\ m.type \in types[c]
  /\ tickers[c] = {} \/ m.ticker \in tickers[c]

\* put_nowait on a full queue drops the new message.
PutNowait(q, m) == IF Len(q) < QueueMax THEN Append(q, m) ELSE q

\* The queue of c when the messages ms have been dispatched in turn.
Offered(c, ms) ==
  LET f[n \in 0 .. Len(ms)] ==
        IF n = 0 THEN queue[c]
        ELSE IF Accepts(c, ms[n]) THEN PutNowait(f[n - 1], ms[n]) ELSE f[n - 1]
  IN f[Len(ms)]

Overflow(c, ms) == {m \in ToSet(ms) : Accepts(c, m)} \ ToSet(Offered(c, ms))

Ticks(ms) == {m \in ms : m.type = "tick"}

\* _dispatch of the messages ms, in order, to every subscriber.
Dispatch(ms) ==
  /\ queue' = [c \in Client |-> Offered(c, ms)]
  /\ lost' = lost \cup UNION {{<<c, m>> : m \in Ticks(Overflow(c, ms))} : c \in Client}

\* Mutant: the first tick of a window is kept.
Put_KeepsFirst(b, m) ==
  IF \E i \in DOMAIN b : b[i].ticker = m.ticker THEN b ELSE Append(b, m)

\* A dictionary keeps the place of a key that is assigned again.
Put(b, m) ==
  IF \E i \in DOMAIN b : b[i].ticker = m.ticker
  THEN [i \in DOMAIN b |-> IF b[i].ticker = m.ticker THEN m ELSE b[i]]
  ELSE Append(b, m)

\* publish_tick and publish_opportunity_version of the broker.
Take(m) ==
  IF m.type = "tick"
  THEN buffer' = Put(buffer, m) /\ UNCHANGED <<queue, lost>>
  ELSE Dispatch(<<m>>) /\ UNCHANGED buffer

LostToAll(ms) == {c \in Client : Listed(c)} \X Ticks(ms)

\* The workers publish to the broker or to the channel.  Those of this process end
\* before the broker stops.
Publish(k, t) ==
  LET m == [type |-> k, ticker |-> t, seq |-> seq + 1] IN
  /\ seq < MaxMessages
  /\ flushing \/ bridged
  /\ seq' = seq + 1
  /\ CASE ~bridged -> Take(m) /\ UNCHANGED wire
       [] bridged /\ link -> wire' = Append(wire, m) /\ UNCHANGED <<buffer, queue, lost>>
       [] bridged /\ ~link -> lost' = lost \cup LostToAll({m}) /\ UNCHANGED <<wire, buffer, queue>>
  /\ UNCHANGED <<bridged, link, flushing, phase, peer, tickers, types, sending, forward, shown, quiet>>

\* The listener hands a message of the channel to the broker.
Reinject ==
  /\ wire # <<>>
  /\ Take(Head(wire))
  /\ wire' = Tail(wire)
  /\ UNCHANGED <<bridged, link, seq, flushing, phase, peer, tickers, types,
                 sending, forward, shown, quiet>>

\* Redis forgets what a subscriber that is not there would have got.
LinkBreaks ==
  /\ bridged /\ link
  /\ link' = FALSE
  /\ wire' = <<>>
  /\ lost' = lost \cup LostToAll(ToSet(wire))
  /\ UNCHANGED <<bridged, seq, buffer, flushing, clientVars>>

LinkReturns ==
  /\ bridged /\ ~link
  /\ link' = TRUE
  /\ UNCHANGED <<bridged, wire, seq, buffer, flushing, clientVars, lost>>

\* Mutant: the buffer is not cleared.
Flush_KeepsBuffer ==
  /\ flushing /\ buffer # <<>>
  /\ Dispatch(buffer)
  /\ UNCHANGED <<bridged, link, wire, seq, buffer, flushing, phase, peer, tickers,
                 types, sending, forward, shown, quiet>>

Flush ==
  /\ flushing /\ buffer # <<>>
  /\ Dispatch(buffer)
  /\ buffer' = <<>>
  /\ UNCHANGED <<bridged, link, wire, seq, flushing, phase, peer, tickers, types,
                 sending, forward, shown, quiet>>

\* stop() of the broker, with the market data worker.
Stop ==
  /\ flushing
  /\ flushing' = FALSE
  /\ UNCHANGED <<bridged, link, wire, seq, buffer, clientVars, lost>>

-----------------------------------------------------------------------------
(* The handler of one client.                                              *)

brokerVars == <<bridged, link, wire, seq, buffer, flushing, lost>>

\* The socket is accepted and subscribed to everything.
Connect(c) ==
  /\ phase[c] = "off"
  /\ phase' = [phase EXCEPT ![c] = "open"]
  /\ peer' = [peer EXCEPT ![c] = TRUE]
  /\ forward' = [forward EXCEPT ![c] = TRUE]
  /\ UNCHANGED <<brokerVars, tickers, types, queue, sending, shown, quiet>>

\* "subscribe" with a list of tickers, a list of types, or both.
Subscribe(c, f) ==
  /\ phase[c] = "open" /\ peer[c]
  /\ tickers' = [tickers EXCEPT ![c] = f.tickers]
  /\ types' = [types EXCEPT ![c] = f.types]
  /\ quiet' = [quiet EXCEPT ![c] = FALSE]
  /\ UNCHANGED <<brokerVars, phase, peer, queue, sending, forward, shown>>

\* "unsubscribe" empties the filter.
Unsubscribe(c) ==
  /\ phase[c] = "open" /\ peer[c]
  /\ tickers' = [tickers EXCEPT ![c] = {}]
  /\ quiet' = [quiet EXCEPT ![c] = TRUE]
  /\ UNCHANGED <<brokerVars, phase, peer, types, queue, sending, forward, shown>>

\* _forward_to_socket takes a message and awaits the socket.
Get(c) ==
  /\ forward[c] /\ sending[c] = NoMsg /\ queue[c] # <<>>
  /\ sending' = [sending EXCEPT ![c] = Head(queue[c])]
  /\ queue' = [queue EXCEPT ![c] = Tail(@)]
  /\ UNCHANGED <<brokerVars, phase, peer, tickers, types, forward, shown, quiet>>

Sent(c) ==
  /\ forward[c] /\ sending[c] # NoMsg /\ peer[c]
  /\ shown' = IF sending[c].type = "tick"
              THEN [shown EXCEPT ![c][sending[c].ticker] = sending[c].seq] ELSE shown
  /\ sending' = [sending EXCEPT ![c] = NoMsg]
  /\ UNCHANGED <<brokerVars, phase, peer, tickers, types, queue, forward, quiet>>

\* The task ends on a closed socket; the handler only hears of it from receive_text.
SendFails(c) ==
  /\ forward[c] /\ sending[c] # NoMsg /\ ~peer[c]
  /\ forward' = [forward EXCEPT ![c] = FALSE]
  /\ sending' = [sending EXCEPT ![c] = NoMsg]
  /\ UNCHANGED <<brokerVars, phase, peer, tickers, types, queue, shown, quiet>>

HangUp(c) ==
  /\ phase[c] = "open" /\ peer[c]
  /\ peer' = [peer EXCEPT ![c] = FALSE]
  /\ UNCHANGED <<brokerVars, phase, tickers, types, queue, sending, forward, shown, quiet>>

\* receive_text raises: the finally block cancels the forwarding task and awaits it.
Disconnected(c) ==
  /\ phase[c] = "open" /\ ~peer[c]
  /\ phase' = [phase EXCEPT ![c] = "leaving"]
  /\ forward' = [forward EXCEPT ![c] = FALSE]
  /\ sending' = [sending EXCEPT ![c] = NoMsg]
  /\ UNCHANGED <<brokerVars, peer, tickers, types, queue, shown, quiet>>

\* The subscriber leaves the list, and nothing of it is left for a next connection.
RemoveSubscriber(c) ==
  /\ phase[c] = "leaving"
  /\ phase' = [phase EXCEPT ![c] = "off"]
  /\ tickers' = [tickers EXCEPT ![c] = {}]
  /\ types' = [types EXCEPT ![c] = Types]
  /\ queue' = [queue EXCEPT ![c] = <<>>]
  /\ shown' = [shown EXCEPT ![c] = [t \in Ticker |-> 0]]
  /\ quiet' = [quiet EXCEPT ![c] = FALSE]
  /\ lost' = {x \in lost : x[1] # c}
  /\ UNCHANGED <<bridged, link, wire, seq, buffer, flushing, peer, sending, forward>>

-----------------------------------------------------------------------------
PubSubInit ==
  /\ bridged \in BOOLEAN
  /\ link = bridged
  /\ wire = <<>> /\ buffer = <<>>
  /\ seq = 0
  /\ flushing = TRUE
  /\ phase = [c \in Client |-> "off"]
  /\ peer = [c \in Client |-> FALSE]
  /\ tickers = [c \in Client |-> {}]
  /\ types = [c \in Client |-> Types]
  /\ queue = [c \in Client |-> <<>>]
  /\ sending = [c \in Client |-> NoMsg]
  /\ forward = [c \in Client |-> FALSE]
  /\ shown = [c \in Client |-> [t \in Ticker |-> 0]]
  /\ quiet = [c \in Client |-> FALSE]
  /\ lost = {}

PubSubNext ==
  \/ \E k \in Types, t \in Ticker : Publish(k, t)
  \/ Reinject \/ LinkBreaks \/ LinkReturns \/ Flush \/ Stop
  \/ \E c \in Client :
       \/ Connect(c) \/ Unsubscribe(c)
       \/ \E f \in Filter : Subscribe(c, f)
       \/ Get(c) \/ Sent(c) \/ SendFails(c)
       \/ HangUp(c) \/ Disconnected(c) \/ RemoveSubscriber(c)

PubSubSpec == PubSubInit /\ [][PubSubNext]_pubSubVars

\* The loops and handlers are tasks of the event loop, and a client reads its socket.
Fairness ==
  /\ WF_pubSubVars(Reinject) /\ WF_pubSubVars(Flush)
  /\ \A c \in Client :
       /\ WF_pubSubVars(Get(c)) /\ WF_pubSubVars(Sent(c) \/ SendFails(c))
       /\ WF_pubSubVars(Disconnected(c)) /\ WF_pubSubVars(RemoveSubscriber(c))

FairSpec == PubSubSpec /\ Fairness

-----------------------------------------------------------------------------
(* Properties.                                                             *)

PubSubTypeOK ==
  /\ bridged \in BOOLEAN /\ link \in BOOLEAN /\ flushing \in BOOLEAN
  /\ wire \in Seq(Message) /\ buffer \in Seq(Message)
  /\ seq \in 0 .. MaxMessages
  /\ phase \in [Client -> {"off", "open", "leaving"}]
  /\ peer \in [Client -> BOOLEAN] /\ forward \in [Client -> BOOLEAN]
  /\ quiet \in [Client -> BOOLEAN]
  /\ tickers \in [Client -> SUBSET Ticker] /\ types \in [Client -> SUBSET Types]
  /\ queue \in [Client -> Seq(Message)]
  /\ sending \in [Client -> Message \cup {NoMsg}]
  /\ shown \in [Client -> [Ticker -> 0 .. MaxMessages]]
  /\ lost \subseteq Client \X Message

OnTheWay(c) == (IF sending[c] = NoMsg THEN <<>> ELSE <<sending[c]>>) \o queue[c]

\* What is on its way to a client is newer than what the client has, and each ticker's
\* messages of one type are in the order of their publication: no price comes twice and
\* none goes back in time, across overflow, coalescing and the bridge; and the queue
\* stays within its limit.
InOrder ==
  \A c \in Client :
    LET w == OnTheWay(c) IN
    /\ Len(queue[c]) <= QueueMax
    /\ \A i \in DOMAIN w : w[i].type = "tick" => w[i].seq > shown[c][w[i].ticker]
    /\ \A i, j \in DOMAIN w :
         i < j /\ w[i].type = w[j].type /\ w[i].ticker = w[j].ticker => w[i].seq < w[j].seq

Wants(c, t) ==
  /\ phase[c] = "open" /\ peer[c]
  /\ "tick" \in types[c]
  /\ tickers[c] = {} \/ t \in tickers[c]

Pending(t, n) ==
  \E m \in ToSet(buffer) \cup ToSet(wire) : m = [type |-> "tick", ticker |-> t, seq |-> n]

Missed(c, t, n) ==
  \E m \in Message : m.type = "tick" /\ m.ticker = t /\ m.seq >= n /\ <<c, m>> \in lost

\* A published tick, or a later one of its ticker, reaches every client that wants it,
\* unless the client leaves or changes its filter, the feed stops, or a loss is recorded:
\* coalescing alone never costs a client the last price.
LatestArrives ==
  \A c \in Client, t \in Ticker, n \in 1 .. MaxMessages :
    (Pending(t, n) /\ Wants(c, t)) ~>
      (shown[c][t] >= n \/ ~Wants(c, t) \/ Missed(c, t, n) \/ ~flushing)

\* "After unsubscribe further publishes must not reach the queue"
\* (test_websocket.py), for a client that was answered "unsubscribed".
UnsubscribedIsSilent ==
  [][\A c \in Client : quiet[c] /\ quiet'[c] => Len(queue'[c]) <= Len(queue[c])]_pubSubVars
=============================================================================
