---------------------------- MODULE RefreshBoard ----------------------------
(***************************************************************************)
(* What the watchlist batch promises: a ticker asked for is refreshed, one *)
(* ticker at a time, and its outcome is on the board from then on until    *)
(* its next refresh begins.                                                *)
(***************************************************************************)
CONSTANTS Ticker, NoTicker

VARIABLES
  wanted,    \* tickers asked for, not yet begun
  serving,   \* the ticker being refreshed, or NoTicker
  outcome    \* outcome[t] of the last refresh

Init ==
  /\ wanted = {}
  /\ serving = NoTicker
  /\ outcome = [t \in Ticker |-> "none"]

\* A request for the ticker being refreshed asks for nothing new.
Ask == \E T \in SUBSET (Ticker \ {serving}) :
         /\ wanted' = wanted \cup T
         /\ UNCHANGED <<serving, outcome>>

Open(t) ==
  /\ wanted' = wanted \ {t}
  /\ serving' = t
  /\ outcome' = [outcome EXCEPT ![t] = "none"]

\* The worker takes a ticker when it has none in hand, ...
Begin == serving = NoTicker /\ \E t \in wanted : Open(t)

\* ... records how the ticker in hand went, ...
Record == \E result \in {"completed", "failed"} :
            /\ serving # NoTicker
            /\ outcome[serving] = "none"
            /\ outcome' = [outcome EXCEPT ![serving] = result]
            /\ UNCHANGED <<wanted, serving>>

\* ... and may go straight on to the next one, having recorded the last.
Close ==
  /\ serving # NoTicker
  /\ \E result \in {"completed", "failed"} :
       LET recorded == [outcome EXCEPT ![serving] = result]
       IN  /\ outcome[serving] \in {"none", result}
           /\ \/ /\ serving' = NoTicker
                 /\ outcome' = recorded
                 /\ wanted = {}
                 /\ UNCHANGED wanted
              \/ \E t \in wanted :
                   /\ wanted' = wanted \ {t}
                   /\ serving' = t
                   /\ outcome' = [recorded EXCEPT ![t] = "none"]

Next == Ask \/ Begin \/ Record \/ Close

Spec == Init /\ [][Next]_<<wanted, serving, outcome>>

\* Whatever is asked for is begun.
EventuallyBegun == \A t \in Ticker : t \in wanted ~> serving = t
=============================================================================
