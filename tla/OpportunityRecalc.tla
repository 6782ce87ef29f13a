-------------------------- MODULE OpportunityRecalc --------------------------
(***************************************************************************)
(* The opportunity worker for one ticker: each cycle decides whether to    *)
(* recalculate, has the rows of both sides generated from live option      *)
(* quotes, replaces the stored rows in one transaction and announces the   *)
(* sides over the broker.  Time passes in slots of a day; many cycles fit  *)
(* in a slot.                                                              *)
(***************************************************************************)
EXTENDS Integers, FiniteSets

CONSTANTS
  Price,       \* underlying prices, any two of them OPP_RECALC_PRICE_PCT apart
  Iv,          \* implied volatilities, any two of them OPP_RECALC_IV_PCT apart
  DaySlots,    \* slots in a day
  OpenSlot,    \* the slot that begins with the market's opening
  Weekend,     \* days without a session
  MaxAge,      \* OPP_RECALC_MAX_AGE_S in slots
  LastSlot,    \* the model's time ends here
  MaxVersions  \* recalculations in the model's life

ASSUME RecalcAssumption ==
  /\ Price \subseteq Nat \ {0} /\ Iv \subseteq Nat \ {0}
  /\ DaySlots \in Nat \ {0} /\ OpenSlot \in 0 .. DaySlots - 1
  /\ Weekend \subseteq Nat
  /\ MaxAge \in Nat \ {0} /\ LastSlot \in Nat /\ MaxVersions \in Nat

Side == {"call", "put"}
Trigger == {"startup", "market_open", "price_move", "stale"}
NoBasis == [price |-> 0, iv |-> 0]

VARIABLES
  now,      \* the current slot
  price,    \* the quote's last price, 0 for none
  iv,       \* the volatility the next snapshot will show
  at,       \* last_recalc_at, -1 for None
  atPrice,  \* last_recalc_price, 0 for None
  atIv,     \* last_recalc_iv, 0 for None
  openDate, \* last_market_open_date, -1 for None
  doing,    \* what the cycle does with the ticker
  trigger,  \* why it does it, "none" between two cycles
  basis,    \* the price and the volatility of the result in hand
  sides,    \* the sides of the result that have rows
  version,  \* the last opportunity_version made
  live,     \* live[s]: the version of the stored rows of the side, 0 for no rows
  liveOf,   \* the price the stored rows were computed for, 0 for none (history)
  seen,     \* seen[s]: what a client that refetches announced sides shows
  tried,    \* when the last recalculation ended, -1 for never (history)
  raised    \* it ended with an exception (history)

state == <<at, atPrice, atIv, openDate>>
job == <<doing, trigger, basis, sides>>
store == <<version, live, liveOf>>
past == <<tried, raised>>
vars == <<now, price, iv, state, job, store, seen, past>>

Today == now \div DaySlots
MarketOpen == now % DaySlots >= OpenSlot /\ Today \notin Weekend

-----------------------------------------------------------------------------
(* The world.                                                              *)

Time ==
  /\ now < LastSlot
  /\ now' = now + 1
  /\ UNCHANGED <<price, iv, state, job, store, seen, past>>

Quote ==
  /\ price' \in Price \ {price}
  /\ UNCHANGED <<now, iv, state, job, store, seen, past>>

Volatility ==
  /\ iv' \in Iv \ {iv}
  /\ UNCHANGED <<now, price, state, job, store, seen, past>>

-----------------------------------------------------------------------------
(* One cycle.                                                              *)

Moved(p) == p # 0 /\ atPrice # 0 /\ p # atPrice

\* Mutant: only the age is looked at during a session.
Decided_IgnoresMove(p) ==
  CASE at = -1 -> IF MarketOpen THEN "startup" ELSE "first"
    [] at # -1 /\ MarketOpen /\ openDate # Today -> "market_open"
    [] at # -1 /\ MarketOpen /\ openDate = Today /\ now - at >= MaxAge -> "stale"
    [] OTHER -> "none"

\* _decide_recalc_trigger, in its order; "first" stands for the first cycle before the
\* market opens, which only takes its time.
Decided(p) ==
  CASE at = -1 -> IF MarketOpen THEN "startup" ELSE "first"
    [] at # -1 /\ MarketOpen /\ openDate # Today -> "market_open"
    [] at # -1 /\ MarketOpen /\ openDate = Today /\ Moved(p) -> "price_move"
    [] at # -1 /\ MarketOpen /\ openDate = Today /\ ~Moved(p) /\ now - at >= MaxAge -> "stale"
    [] OTHER -> "none"

FirstCycle ==
  /\ doing = "idle" /\ Decided(price) = "first"
  /\ at' = now
  /\ UNCHANGED <<now, price, iv, atPrice, atIv, openDate, job, store, seen, past>>

Decide ==
  /\ doing = "idle" /\ Decided(price) \in Trigger
  /\ version < MaxVersions
  /\ doing' = "generating"
  /\ trigger' = Decided(price)
  /\ basis' = [price |-> price, iv |-> 0]
  /\ UNCHANGED <<now, price, iv, state, sides, store, seen, past>>

\* The ticker is done with, well or badly.
JobOver(failed) ==
  /\ doing' = "idle" /\ trigger' = "none" /\ basis' = NoBasis /\ sides' = {}
  /\ tried' = now /\ raised' = failed

\* Mutant: a skipped result leaves the time alone.
Skipped_KeepsTime ==
  /\ doing = "generating"
  /\ JobOver(FALSE)
  /\ UNCHANGED <<now, price, iv, state, store, seen>>

\* generate() gives a reason instead of rows: no price, no connection, no chain, no quotes.
Skipped ==
  /\ doing = "generating"
  /\ at' = now
  /\ JobOver(FALSE)
  /\ UNCHANGED <<now, price, iv, atPrice, atIv, openDate, store, seen>>

\* Mutant: the state is updated before the rows are stored.
Generated_UpdatesState ==
  /\ doing = "generating" /\ basis.price # 0
  /\ doing' = "persisting"
  /\ sides' \in (SUBSET Side) \ {{}}
  /\ version' = version + 1
  /\ basis' = [basis EXCEPT !.iv = iv]
  /\ atPrice' = basis.price
  /\ UNCHANGED <<now, price, iv, at, atIv, openDate, trigger, live, liveOf, seen, past>>

\* generate() gives rows for one side or both, under a new version, with or without a
\* volatility (only a body strike near the price shows one).
Generated ==
  /\ doing = "generating" /\ basis.price # 0
  /\ doing' = "persisting"
  /\ sides' \in (SUBSET Side) \ {{}}
  /\ version' = version + 1
  /\ basis' \in {basis, [basis EXCEPT !.iv = iv]}
  /\ UNCHANGED <<now, price, iv, state, trigger, live, liveOf, seen, past>>

\* An exception of generate() or of the transaction is caught in the cycle.
Raises ==
  /\ doing \in {"generating", "persisting"}
  /\ JobOver(TRUE)
  /\ UNCHANGED <<now, price, iv, state, store, seen>>

\* replace_opportunities of both sides and append_history, with one commit.
Commit ==
  /\ doing = "persisting"
  /\ live' = [s \in Side |-> IF s \in sides THEN version ELSE 0]
  /\ liveOf' = basis.price
  /\ doing' = "call"
  /\ UNCHANGED <<now, price, iv, state, trigger, basis, sides, version, seen, past>>

\* A message per side that has rows, call before put; the client refetches the side.
Announce(s) ==
  /\ doing = s
  /\ seen' = IF s \in sides THEN [seen EXCEPT ![s] = live[s]] ELSE seen
  /\ doing' = IF s = "call" THEN "put" ELSE "updating"
  /\ UNCHANGED <<now, price, iv, state, trigger, basis, sides, store, past>>

\* _update_recalc_state
Update ==
  /\ doing = "updating"
  /\ at' = now
  /\ atPrice' = basis.price
  /\ atIv' = IF basis.iv = 0 THEN atIv ELSE basis.iv
  /\ openDate' = Today
  /\ JobOver(FALSE)
  /\ UNCHANGED <<now, price, iv, store, seen>>

\* The process restarts with an empty state; the client connects again and reads all.
Restart ==
  /\ at # -1 \/ doing # "idle"
  /\ at' = -1 /\ atPrice' = 0 /\ atIv' = 0 /\ openDate' = -1
  /\ doing' = "idle" /\ trigger' = "none" /\ basis' = NoBasis /\ sides' = {}
  /\ tried' = -1 /\ raised' = FALSE
  /\ seen' = live
  /\ UNCHANGED <<now, price, iv, store>>

-----------------------------------------------------------------------------
Init ==
  /\ now = 0
  /\ price = 0 /\ iv \in Iv
  /\ at = -1 /\ atPrice = 0 /\ atIv = 0 /\ openDate = -1
  /\ doing = "idle" /\ trigger = "none" /\ basis = NoBasis /\ sides = {}
  /\ version = 0 /\ liveOf = 0
  /\ live = [s \in Side |-> 0] /\ seen = [s \in Side |-> 0]
  /\ tried = -1 /\ raised = FALSE

Work ==
  \/ FirstCycle \/ Decide \/ Skipped \/ Generated \/ Raises \/ Commit
  \/ (\E s \in Side : Announce(s)) \/ Update

Next == Time \/ Quote \/ Volatility \/ Work \/ Restart

Spec == Init /\ [][Next]_vars

\* The loop is one task, and each of its awaits ends, well or badly.
FairSpec == Spec /\ WF_vars(Work)

-----------------------------------------------------------------------------
(* Properties.                                                             *)

TypeOK ==
  /\ now \in 0 .. LastSlot
  /\ price \in Price \cup {0} /\ iv \in Iv
  /\ at \in -1 .. now /\ tried \in -1 .. now /\ raised \in BOOLEAN
  /\ atPrice \in Price \cup {0} /\ atIv \in Iv \cup {0}
  /\ openDate \in -1 .. Today
  /\ doing \in {"idle", "generating", "persisting", "call", "put", "updating"}
  /\ trigger \in Trigger \cup {"none"} /\ (trigger = "none" <=> doing = "idle")
  /\ basis \in [price : Price \cup {0}, iv : Iv \cup {0}]
  /\ sides \subseteq Side
  /\ version \in 0 .. MaxVersions /\ liveOf \in Price \cup {0}
  /\ live \in [Side -> 0 .. version] /\ seen \in [Side -> 0 .. version]

\* A price move is measured from the price of the rows that are stored, whatever failed
\* on the way: else a move could be missed for as long as the rows are old.
BasisIsLive ==
  doing \in {"idle", "generating", "persisting"} /\ atPrice # 0 => atPrice = liveOf

StaleBegins == doing = "idle" /\ doing' = "generating" /\ trigger' = "stale"

\* After a recalculation or a skip, the age alone triggers no sooner than MaxAge later.
SkipsAreSpaced ==
  [][StaleBegins /\ ~raised => now - tried >= MaxAge]_vars

\* During a session, a price that stays away from that of the stored rows is recalculated.
MoveIsRecalculated ==
  (MarketOpen /\ openDate = Today /\ Moved(price)) ~>
    (\/ trigger = "price_move" \/ ~Moved(price) \/ at = -1
     \/ ~MarketOpen \/ openDate # Today \/ version = MaxVersions)

\* "Update last_recalc_at on every failure so the stale trigger doesn't loop every 45 s"
\* (opportunity_worker.py).
FailuresAreSpaced ==
  [][StaleBegins => now - tried >= MaxAge]_vars

\* "Publishes one opportunity_version message per (ticker, side)" (opportunity_worker.py)
\* "so clients refetch only what changed" (pubsub.py): a client shows what is stored.
EverySideIsSeen == doing = "idle" => seen = live

\* "Recalc fires when ANY of these is true" (config.py), OPP_RECALC_IV_PCT among them.
IvMoveTriggers ==
  MarketOpen /\ doing = "idle" /\ atIv # 0 /\ iv # atIv => Decided(price) # "none"
=============================================================================
