------------------------------- MODULE MCDesk --------------------------------
(***************************************************************************)
(* The trading desk for TLC: risk, sizing, strategies, decisions and       *)
(* exchanges keep state of their own, so a behaviour exercises one of them *)
(* and the others stand still, in one of their initial states.             *)
(***************************************************************************)
EXTENDS PortfolioRisk, AccountLimits, PositionSizing, Ensemble, Decision, Exchanges,
        Performance

VARIABLE part   \* which of them this behaviour exercises

deskVars == <<part, riskVars, limitVars, sizingVars, ensembleVars, answers, decisionVars,
              exchangeVars, performanceVars>>

MCSector == [s \in Assets |-> IF s = "a" THEN "tech" ELSE "energy"]
MCBooks ==
  {[s \in Assets |-> IF s = "a" THEN b[1] ELSE b[2]] : b \in {<<0, 0>>, <<40, 0>>, <<-60, 40>>, <<40, 60>>}}
MCCash == {-60, 100}
MCHistory == [s \in Assets |-> IF s = "a" THEN <<-10, 2, 3>> ELSE <<1, -20, 4>>]
MCScenarios == [crash |-> [tech |-> -20, b |-> 10]]
MCLimitSets ==
  {[position |-> 60, sector |-> 80, gross |-> 150, net |-> 100, var95 |-> v] : v \in {0, 5}}

MCRequests == {[entry |-> 10, stop |-> r[1], confidence |-> 75, volatility |-> r[2],
                winRate |-> r[3], payoff |-> 0] :
                 r \in {<<9, 5, 80>>, <<10, 0, 0>>, <<20, 5, 30>>, <<20, 60, 80>>, <<20, 0, 0>>}}
              \cup {[entry |-> 0, stop |-> 9, confidence |-> 75, volatility |-> 0, winRate |-> 0, payoff |-> 0]}

MCBars == {[high |-> 104, low |-> 96, close |-> 100, volume |-> 10],
           [high |-> 130, low |-> 100, close |-> 128, volume |-> 30],
           [high |-> 100, low |-> 64, close |-> 70, volume |-> 20],
           [high |-> 200, low |-> 60, close |-> 72, volume |-> 60],
           [high |-> 140, low |-> 20, close |-> 120, volume |-> 70]}

MCPeriods == [n \in Assignable |-> IF n = "vwap" THEN 4 ELSE 3]

MCExchanges == <<"x1", "x2">>
MCRanking == <<"x2", "x1">>
MCListings == [x \in {"x1", "x2"} |->
                 [symbols |-> IF x = "x1" THEN {"p", "q"} ELSE {"p"},
                  least |-> IF x = "x2" THEN 5 ELSE 1, most |-> IF x = "x1" THEN 4 ELSE 9]]
MCCost(x, y) == IF x = "x2" \/ y = "x2" THEN 2 ELSE 5

MCAccounts == {[cash |-> 40, quantity |-> 1, entry |-> 50, price |-> 60],
               [cash |-> 40, quantity |-> 1, entry |-> 50, price |-> 20],
               [cash |-> 75, quantity |-> 0, entry |-> 0, price |-> 60]}
MCPnls == {-10, 0, 10}

Riskless == /\ DOMAIN redis = {} /\ account.values = [s \in Assets |-> 0]
            /\ account.cash = 100 /\ riskLimits.var95 = 0

DeskInit ==
  /\ part \in {"portfolio", "limits", "sizing", "signals", "votes", "decision",
              "routing", "arbitrage", "book", "tracking", "curve"}
  /\ RiskInit /\ LimitsInit /\ SizingInit /\ StrategiesInit /\ EnsembleInit
  /\ DecisionInit /\ ExchangesInit /\ PerformanceInit
  /\ part # "portfolio" => Riskless
  /\ part # "sizing" => sizer.value = 0 /\ sizer.strategy = "fixed_fractional"
  /\ part # "decision" => ollama /\ advisor

DeskNext ==
  /\ UNCHANGED part
  /\ \/ /\ part = "portfolio" /\ RiskNext
        /\ UNCHANGED <<limitVars, sizingVars, ensembleVars, answers,
                       decisionVars, exchangeVars, performanceVars>>
     \/ /\ part = "limits" /\ LimitsNext
        /\ UNCHANGED <<riskVars, sizingVars, ensembleVars, answers,
                       decisionVars, exchangeVars, performanceVars>>
     \/ /\ part = "sizing" /\ SizingNext
        /\ UNCHANGED <<riskVars, limitVars, ensembleVars, answers,
                       decisionVars, exchangeVars, performanceVars>>
     \/ /\ part = "signals" /\ StrategiesNext
        /\ UNCHANGED <<riskVars, limitVars, sizingVars, assigned, signalCounts, pending,
                       runnerCash, runnerHolds, decisionVars, exchangeVars, performanceVars>>
     \/ /\ part = "votes" /\ EnsembleNext
        /\ UNCHANGED <<riskVars, limitVars, sizingVars, answers,
                       decisionVars, exchangeVars, performanceVars>>
     \/ /\ part = "decision" /\ DecisionNext
        /\ UNCHANGED <<riskVars, limitVars, sizingVars, ensembleVars, answers,
                       exchangeVars, performanceVars>>
     \/ /\ \/ part = "routing" /\ RoutingNext
           \/ part = "arbitrage" /\ ArbitrageNext
           \/ part = "book" /\ PortfolioNext
        /\ UNCHANGED <<riskVars, limitVars, sizingVars, ensembleVars, answers,
                       decisionVars, performanceVars>>
     \/ /\ \/ part = "tracking" /\ TrackingNext
           \/ part = "curve" /\ CurveNext
        /\ UNCHANGED <<riskVars, limitVars, sizingVars, ensembleVars, answers,
                       decisionVars, exchangeVars>>

DeskSpec == DeskInit /\ [][DeskNext]_deskVars
=============================================================================
