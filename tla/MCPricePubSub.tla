--------------------------- MODULE MCPricePubSub ---------------------------
(* Two tickers, and a client that may ask for the prices of one of them or *)
(* for the opportunity versions alone.                                     *)
EXTENDS PricePubSub

CONSTANTS spy, qqq

MCFilter ==
  {[tickers |-> {spy}, types |-> Types],
   [tickers |-> {}, types |-> {"opportunity_version"}]}
=============================================================================
