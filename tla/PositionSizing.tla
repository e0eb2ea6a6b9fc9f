--------------------------- MODULE PositionSizing ----------------------------
(***************************************************************************)
(* Position sizing: the strategies of domain/risk/position_sizer, the      *)
(* fixed-risk sizer of core/risk_management/position_sizer, and the        *)
(* RiskManager of domain/risk that cuts sizes when execution has been      *)
(* expensive.                                                              *)
(*                                                                         *)
(* Prices and the portfolio's value are whole.  Rates are percentages, and *)
(* the risk per trade, which is multiplied over and over, is in millionths *)
(* of the portfolio, rounded down where the code has floating point.       *)
(***************************************************************************)
EXTENDS Integers, Sequences, FiniteSets, Functions

CONSTANTS
  SizedSymbols,
  PortfolioValues,     \* portfolio_value, 0 among them
  Requests,            \* [entry, stop, confidence, volatility, winRate, payoff], in percent;
                       \* 0 for a volatility, win rate or payoff that is not passed
  BaseRisk,            \* risk_per_trade_pct, in millionths
  CapPercent,          \* max_position_pct
  KellyCapPercent,     \* kelly_fraction_cap
  TargetVolatility,    \* in percent
  CostThreshold,       \* cost_threshold_bps
  Costs,               \* total_cost_bps of TCA reports
  Lookback,            \* length of a symbol's cost history
  GlobalLookback,      \* length of the global one: 50 in the code
  LeastRisk            \* bound: reports are recorded while the risk is above this

ASSUME SizingAssumption ==
  /\ PortfolioValues \subseteq Int /\ Costs \subseteq Int
  /\ Requests \subseteq [entry : Int, stop : Int, confidence : Int, volatility : Nat,
                         winRate : Nat, payoff : Nat]
  /\ BaseRisk \in Nat /\ CapPercent \in Nat /\ KellyCapPercent \in Nat
  /\ TargetVolatility \in Nat /\ CostThreshold \in Int

Millionths == 1000000
Smaller(x, y) == IF x < y THEN x ELSE y
Larger(x, y) == IF x > y THEN x ELSE y
Distance(request) ==
  IF request.entry > request.stop THEN request.entry - request.stop
  ELSE request.stop - request.entry

VARIABLES
  sizer,          \* position_sizer: [value, risk, strategy]
  costHistory,    \* symbol_stats: per symbol its last costs
  globalCosts,    \* global_stats
  sized           \* the last answer: [request, quantity, risk], or none

sizingVars == <<sizer, costHistory, globalCosts, sized>>

Strategies == {"fixed_fractional", "kelly", "volatility_adjusted", "equal_risk",
               "confidence_weighted", "composite"}
NotSized == [quantity |-> 0, entry |-> 0, stop |-> 0, value |-> 0]

SizingInit ==
  /\ sizer \in [value : PortfolioValues, risk : {BaseRisk}, strategy : Strategies]
  /\ costHistory = [s \in SizedSymbols |-> <<>>]
  /\ globalCosts = <<>>
  /\ sized = NotSized
-----------------------------------------------------------------------------
\* _kelly_fraction, in millionths: half of it, at most the cap, and never below 0.
KellyFraction(request) ==
  LET wins == IF request.winRate > 0 /\ request.winRate < 100 THEN request.winRate ELSE 50
      payoff == IF request.payoff > 0 THEN request.payoff ELSE 150
      full == (10000 * (wins * payoff - 100 * (100 - wins))) \div payoff
  IN Smaller(KellyCapPercent * 10000, Larger(0, full)) \div 2

\* The shares whose loss at the stop is the given part of the portfolio.
SharesFor(part, request) == (sizer.value * part) \div (Millionths * Distance(request))

\* _calculate_volatility_adjusted: scaled by at least a half and at most two.
\* Slip: without the upper limit.
VolatilityUncapped(request) ==
  IF request.volatility = 0 THEN SharesFor(sizer.risk, request)
  ELSE (SharesFor(sizer.risk, request) * Larger(50, (100 * TargetVolatility) \div request.volatility))
       \div 100
VolatilityAdjusted(request) ==
  LET percent == Smaller(200, Larger(50, (100 * TargetVolatility) \div request.volatility)) IN
  IF request.volatility = 0 THEN SharesFor(sizer.risk, request)
  ELSE (SharesFor(sizer.risk, request) * percent) \div 100

\* _calculate_confidence_weighted
ConfidenceWeighted(request) ==
  SharesFor((sizer.risk * Larger(0, Smaller(100, request.confidence))) \div 100, request)

\* _calculate_composite, with its default weights 0.4, 0.3 and 0.3; the weights a request
\* may bring along (strategy_weights) are left out.
Composite(request) ==
  (4 * SharesFor(KellyFraction(request), request) + 3 * VolatilityAdjusted(request)
   + 3 * SharesFor(sizer.risk, request)) \div 10

ByStrategy(strategy, request) ==
  CASE strategy = "kelly" -> SharesFor(KellyFraction(request), request)
    [] strategy = "volatility_adjusted" -> VolatilityAdjusted(request)
    [] strategy = "confidence_weighted" -> ConfidenceWeighted(request)
    [] strategy = "composite" -> Composite(request)
    [] OTHER -> SharesFor(sizer.risk, request)

\* A stop at the entry is refused, and so is an entry that is no price.
Refused(request) == Distance(request) = 0 \/ request.entry <= 0

\* calculate_position_size: the cap, where there is a portfolio to take it from, and one
\* share at the least, whatever the cap.
PositionSize(request) ==
  LET wanted == ByStrategy(sizer.strategy, request)
      cap == (sizer.value * CapPercent) \div (100 * request.entry)
  IN IF Refused(request) THEN 0
     ELSE Larger(1, IF sizer.value > 0 THEN Smaller(wanted, cap) ELSE wanted)

\* The core sizer's calculate_position_size: whole shares here, and no least share.
FixedRiskSize(request) ==
  LET cap == (sizer.value * CapPercent) \div (100 * request.entry)
  IN IF Refused(request) THEN 0 ELSE Smaller(SharesFor(sizer.risk, request), cap)
-----------------------------------------------------------------------------
\* TCAStats.update: the newest costs, as many as the deque holds.
Remember(costs, cost, length) ==
  LET all == Append(costs, cost) IN
  IF Len(all) > length THEN Tail(all) ELSE all

\* get_risk_scaling, in percent: the threshold's share of the average cost, once that is
\* above it, and at least a half; no cut without a threshold.
Scaling(costs) ==
  LET sum == SumFunction(costs) IN
  IF costs = <<>> \/ CostThreshold <= 0 \/ sum <= CostThreshold * Len(costs) THEN 100
  ELSE Larger(50, (100 * CostThreshold * Len(costs)) \div sum)

\* record_tca_report: each report of a symbol that is expensive cuts the risk of all of
\* them once more, and nothing restores it.
RecordTcaReport(symbol, cost) ==
  LET costs == Remember(costHistory[symbol], cost, Lookback) IN
  /\ sizer.risk > LeastRisk
  /\ costHistory' = [costHistory EXCEPT ![symbol] = costs]
  /\ globalCosts' = Remember(globalCosts, cost, GlobalLookback)
  /\ sizer' = [sizer EXCEPT !.risk = (@ * Scaling(costs)) \div 100]
  /\ sized' = NotSized

Answer(quantity, request) ==
  sized' = [quantity |-> quantity, entry |-> request.entry, stop |-> request.stop,
            value |-> sizer.value]

\* RiskManager.calculate_position_size: the symbol's costs, or all of them when it has
\* none, cut the size again; one share is left even of none.
SizeWithCosts(symbol, request) ==
  LET base == PositionSize(request)
      scale == Scaling(IF costHistory[symbol] = <<>> THEN globalCosts ELSE costHistory[symbol])
  IN /\ Answer(IF scale < 100 THEN Larger(1, (base * scale) \div 100) ELSE base, request)
     /\ UNCHANGED <<sizer, costHistory, globalCosts>>

\* PositionSizer.get_sizing_decision and the core sizer: the same without the costs.
SizeDirectly(request) ==
  /\ \E q \in {PositionSize(request), FixedRiskSize(request)} : Answer(q, request)
  /\ UNCHANGED <<sizer, costHistory, globalCosts>>

SetStrategy(strategy) ==
  /\ sizer' = [sizer EXCEPT !.strategy = strategy]
  /\ UNCHANGED <<costHistory, globalCosts, sized>>

\* RiskManager.reset: the histories go, the risk they have cut stays.
ResetCosts ==
  /\ costHistory' = [s \in SizedSymbols |-> <<>>]
  /\ globalCosts' = <<>>
  /\ UNCHANGED <<sizer, sized>>

SizingNext ==
  \/ \E s \in SizedSymbols :
       \/ \E c \in Costs : RecordTcaReport(s, c)
       \/ \E r \in Requests : SizeWithCosts(s, r)
  \/ \E r \in Requests : SizeDirectly(r)
  \/ \E s \in Strategies : SetStrategy(s)
  \/ ResetCosts

SizingSpec == SizingInit /\ [][SizingNext]_sizingVars
-----------------------------------------------------------------------------
\* A size of more than the one share always granted costs at most the cap, and loses at
\* its stop at most twice the risk the sizer was made with, or half the Kelly cap: however
\* strategies change and whatever reports have been recorded
\* (domain/risk/position_sizer.py, calculate_position_size; domain/risk/risk_manager.py).
SizesWithinBudget ==
  sized.quantity > 1 =>
    /\ 100 * sized.quantity * sized.entry <= sized.value * CapPercent
    /\ sized.quantity * Distance(sized) * Millionths
         <= sized.value * Larger(2 * BaseRisk, KellyCapPercent * 5000)
=============================================================================
