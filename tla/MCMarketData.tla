----------------------------- MODULE MCMarketData -----------------------------
(* The quote and the candles of one symbol in one run.  The two flush loops *)
(* share no state beyond the stream, whose ticks either model has as steps  *)
(* of its own, so their interleavings show nothing new: a behaviour is one  *)
(* of the quote or one of the candles, and the other part rests.            *)
EXTENDS QuoteFreshness, Candles

VARIABLE part  \* which of the two the behaviour is about

MarketInit == Init /\ CandleInit /\ part \in {"quote", "candles"}

MarketNext ==
  /\ \/ part = "quote" /\ Next /\ UNCHANGED candleVars
     \/ part = "candles" /\ CandleNext /\ UNCHANGED vars
  /\ UNCHANGED part

MarketSpec == MarketInit /\ [][MarketNext]_<<vars, candleVars, part>>
=============================================================================
