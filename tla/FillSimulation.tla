--------------------------- MODULE FillSimulation ---------------------------
(***************************************************************************)
(* FillSimulator, its cost models and the transaction cost analysis        *)
(* (adapters/execution: fill_simulator, cost_models, models, tca): one     *)
(* order is filled bar by bar and what the fills cost is then reported.    *)
(*                                                                         *)
(* Quantities are in tenths of a share, so that a tenth of a volume is     *)
(* whole; prices in 1/20000 of a price unit, so that a mid price moved by  *)
(* basis points is.                                                        *)
(***************************************************************************)
EXTENDS Integers, Sequences, Functions, SequencesExt

CONSTANTS
  SimQuantities,   \* order sizes
  Volumes,         \* volumes of a bar
  Books,           \* order books: [bid, ask, size], or a set with NoBook
  Dailies,         \* avg_daily_volume: 0 for None
  SlippageModels,  \* of "fixed", "volume", "sqrt", "linear"
  MinFill,         \* min_fill_quantity
  Unlimited,       \* unlimited_liquidity
  MaxBars          \* bars given

ASSUME SimAssumption ==
  /\ SimQuantities \subseteq Nat \ {0} /\ Volumes \subseteq Nat /\ Dailies \subseteq Nat
  /\ Books \subseteq [bid : Nat, ask : Nat, size : Nat]
  /\ SlippageModels \subseteq {"fixed", "volume", "sqrt", "linear"}
  /\ MinFill \in Nat /\ Unlimited \in BOOLEAN

NoBook == [bid |-> 0, ask |-> 0, size |-> 0]
Close == 10    \* every bar's closing price
Bps == 20000   \* price units per unit of Close

VARIABLES
  simOrder,      \* side, quantity; filled_quantity stays 0
  simModel,      \* slippage_model
  simDaily,      \* avg_daily_volume
  simBook,       \* the book beside each bar, which stays as it is
  simRemaining,  \* remaining, counted down by simulate_order_execution
  simFills,      \* the fills so far
  simBars,       \* bars seen
  simState,      \* "running", "done" or "raised"
  simReport      \* analyze_execution's report

simVars == <<simOrder, simModel, simDaily, simBook, simRemaining, simFills, simBars,
             simState, simReport>>

\* BrokerOrder and Fill, as far as the simulation looks at them.
SimOrders == [side : {"BUY", "SELL"}, quantity : SimQuantities]
FillOf(quantity, price) == [quantity |-> quantity, price |-> price]

EmptyReport == [filled |-> 0, notional |-> 0, slippage |-> 0, spread |-> 0, impact |-> 0]

SimInit ==
  /\ simOrder \in SimOrders
  /\ simModel \in SlippageModels
  /\ simDaily \in Dailies
  /\ simBook \in Books
  /\ simRemaining = simOrder.quantity
  /\ simFills = <<>>
  /\ simBars = 0
  \* LinearSlippageModel is not imported.
  /\ simState = IF simModel = "linear" THEN "raised" ELSE "running"
  /\ simReport = EmptyReport
-----------------------------------------------------------------------------
Lesser(a, b) == IF a < b THEN a ELSE b
Isqrt(n) == CHOOSE k \in 0..n : k * k <= n /\ n < (k + 1) * (k + 1)

\* Slip: the bar's volume is not capped at the order.
FillQuantityUncapped(remaining, volume, book) ==
  LET offered == IF book.size > 0 THEN book.size ELSE volume IN
  IF Unlimited THEN remaining ELSE IF offered < MinFill THEN 0 ELSE offered

\* _get_available_depth and _determine_fill_quantity: a tenth of the book's best
\* level, or of the volume without one, and nothing below the minimum.
FillQuantity(remaining, volume, book) ==
  LET offered == Lesser(remaining, IF book.size > 0 THEN book.size ELSE volume) IN
  IF Unlimited THEN remaining ELSE IF offered < MinFill THEN 0 ELSE offered

\* The slippage models, in basis points.  VolumeBasedSlippageModel also stands for
\* "sqrt".
Slippage(model, quantity, daily) ==
  CASE model = "fixed" -> 1
    [] model \in {"volume", "sqrt"} -> (quantity * 1000) \div daily

\* MarketImpactModel: a tenth of the participation and a twentieth of its root.
Impact(quantity, daily) ==
  IF daily = 0 THEN 0 ELSE (quantity * 100) \div daily + Isqrt((quantity * 25000) \div daily)

\* None <= 0 raises: a volume model without a daily volume.
SlippageRaises(model, daily) == model \in {"volume", "sqrt"} /\ daily = 0

Mid(book) == IF book = NoBook THEN Close * Bps ELSE ((book.bid + book.ask) * Bps) \div 2

\* The side of the book the order takes.
Quote(side, book) ==
  CASE book = NoBook -> Close * Bps
    [] book # NoBook /\ side = "BUY" -> book.ask * Bps
    [] book # NoBook /\ side = "SELL" -> book.bid * Bps

\* _calculate_fill_price: away from the quote by slippage and impact.
FillPrice(side, model, daily, book, quantity) ==
  LET quote == Quote(side, book)
      adverse == (quote \div 10000) * (Slippage(model, quantity, daily) + Impact(quantity, daily))
  IN IF side = "BUY" THEN quote + adverse ELSE quote - adverse

\* simulate_fill and the body of simulate_order_execution's loop.  The fill is sized
\* from the order, which is not told of it; a price that is not positive raises.
Bar(volume, filled) ==
  /\ simState = "running" /\ simBars < MaxBars /\ simRemaining > 0
  /\ simBars' = simBars + 1
  /\ LET quantity == FillQuantity(simOrder.quantity, volume, simBook)
         price == FillPrice(simOrder.side, simModel, simDaily, simBook, quantity)
     IN CASE ~filled \/ quantity = 0 -> UNCHANGED <<simRemaining, simFills, simState>>
          [] filled /\ quantity > 0 /\ SlippageRaises(simModel, simDaily) ->
               simState' = "raised" /\ UNCHANGED <<simRemaining, simFills>>
          [] OTHER ->
               IF price <= 0 THEN simState' = "raised" /\ UNCHANGED <<simRemaining, simFills>>
               ELSE /\ simFills' = Append(simFills, FillOf(quantity, price))
                    /\ simRemaining' = simRemaining - quantity
                    /\ UNCHANGED simState
  /\ UNCHANGED <<simOrder, simModel, simDaily, simBook, simReport>>
-----------------------------------------------------------------------------
Sum(op(_), fills) == SumFunction([i \in DOMAIN fills |-> op(fills[i])])
FilledQuantity(fills) == Sum(LAMBDA f : f.quantity, fills)
Notional(fills) == Sum(LAMBDA f : f.quantity * f.price, fills)

\* calculate_slippage, and implementation_shortfall, which is the same: what the
\* order paid over its arrival price, signed by its side.
SlippageCost(side, arrival, fills) ==
  LET over == Notional(fills) - arrival * FilledQuantity(fills)
  IN IF side = "BUY" THEN over ELSE -over

\* _calculate_spread_cost_dollars: half the spread for each share.
SpreadCost(side, book, fills) ==
  (IF book = NoBook THEN 0
   ELSE IF side = "BUY" THEN book.ask * Bps - Mid(book) ELSE Mid(book) - book.bid * Bps)
    * FilledQuantity(fills)

\* _calculate_market_impact: from the arrival to the price after the trade.
ImpactCost(side, arrival, after, fills) ==
  (IF side = "BUY" THEN after - arrival ELSE arrival - after) * FilledQuantity(fills)

\* analyze_execution: the order arrived at the mid price, the market ended at the
\* close.  No fills give the empty report.
Report(order, fills, book) ==
  IF fills = <<>> THEN EmptyReport
  ELSE [filled |-> FilledQuantity(fills), notional |-> Notional(fills),
        slippage |-> SlippageCost(order.side, Mid(book), fills),
        spread |-> SpreadCost(order.side, book, fills),
        impact |-> ImpactCost(order.side, Mid(book), Close * Bps, fills)]

\* The bars are used up or the order is: the fills are analysed.
Analyze ==
  /\ simState = "running" /\ (simBars = MaxBars \/ simRemaining <= 0)
  /\ simState' = "done"
  /\ simReport' = Report(simOrder, simFills, simBook)
  /\ UNCHANGED <<simOrder, simModel, simDaily, simBook, simRemaining, simFills, simBars>>

SimNext ==
  \/ \E v \in Volumes, filled \in BOOLEAN : Bar(v, filled)
  \/ Analyze

SimSpec == SimInit /\ [][SimNext]_simVars
-----------------------------------------------------------------------------
\* The fills of one order pass its quantity by less than one bar's fill, however the
\* bars' volumes vary, although each is sized as if it were the first
\* (fill_simulator.py, simulate_order_execution: "Cap at remaining" caps at a
\* remaining quantity nobody counts down).
OvershootWithinOneFill ==
  /\ simFills # <<>> => FilledQuantity(SubSeq(simFills, 1, Len(simFills) - 1)) < simOrder.quantity
  /\ \A i \in DOMAIN simFills : simFills[i].quantity <= simOrder.quantity
  /\ simRemaining = simOrder.quantity - FilledQuantity(simFills)
=============================================================================
