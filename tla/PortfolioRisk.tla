---------------------------- MODULE PortfolioRisk ----------------------------
(***************************************************************************)
(* The portfolio risk engine (domain/risk: portfolio_risk, exposure, var,  *)
(* stress, limits): it reads the broker's book, fetches price histories    *)
(* through a Redis cache, computes exposures, value at risk and stress     *)
(* losses, and checks them against limits.                                 *)
(*                                                                         *)
(* Money is whole, limits and returns are percentages.  A ratio x / value  *)
(* is kept as x and compared after multiplication.  MinReturns stands for  *)
(* the 20 returns the code asks for.  Correlation, beta and drawdown only  *)
(* fill fields of the report that no limit reads, and are left out; so is  *)
(* the message bus, whose module the repository does not have.             *)
(***************************************************************************)
EXTENDS Integers, Sequences, FiniteSets, FiniteSetsExt, SequencesExt, TLC

CONSTANTS
  Assets,          \* symbols
  Sector,          \* [Assets -> sectors]
  Books,           \* what the broker may hold: [Assets -> market value, 0 for none]
  CashAmounts,     \* its cash: below 0 when short of margin
  History,         \* [Assets -> sequence of daily returns in percent]
  MinReturns,
  Scenarios,       \* name -> a function from some symbols and sectors to a shock
  LimitSets,       \* risk limits: [position, sector, gross, net, var95 (0: None)]
  CacheLife        \* cache_ttl, in ticks

\* Limits are shares, a sector's of less than the whole.
ASSUME RiskAssumption ==
  /\ IsFiniteSet(Assets) /\ Books \subseteq [Assets -> Int] /\ CashAmounts \subseteq Int
  /\ LimitSets \subseteq [position : Nat, sector : 0 .. 99, gross : Nat, net : Nat, var95 : Nat]
  /\ CacheLife \in Nat \ {0}

VARIABLES
  account,      \* external, the broker: [values, cash, fails]
  sources,      \* external: the symbols a fetch returns data for
  redis,        \* external: per cache key, a set of symbols, [entries, left]; no Redis, no keys
  riskLimits,   \* risk_limits
  report,       \* _last_risk_report
  lastFetch     \* history: per set of symbols, how the last fetch of each for it ended

riskVars == <<account, sources, redis, riskLimits, report, lastFetch>>

Keys == (SUBSET Assets) \ {{}}
Expired == [entries |-> <<>>, left |-> 0]
NoReport == [held |-> {}, value |-> 0, gross |-> 0, net |-> 0, sectors |-> [c \in {} |-> 0],
             top |-> 0, used |-> {}, var95 |-> 0, stress |-> [c \in {} |-> 0],
             breaches |-> {}, errors |-> FALSE, limits |-> {}]

RiskInit ==
  /\ account \in [values : Books, cash : CashAmounts, fails : {FALSE}]
  /\ sources = Assets
  /\ redis \in {[k \in Keys |-> Expired], [k \in {} |-> Expired]}
  /\ riskLimits \in LimitSets
  /\ report = NoReport
  /\ lastFetch = [k \in Keys |-> [s \in Assets |-> "never"]]
-----------------------------------------------------------------------------
SizeOf(x) == IF x < 0 THEN -x ELSE x
HeldIn(values) == {s \in Assets : values[s] # 0}

\* calculate_exposure
LongValue(values) == SumFunction([s \in {s \in Assets : values[s] > 0} |-> values[s]])
ShortValue(values) == SumFunction([s \in {s \in Assets : values[s] < 0} |-> -values[s]])
GrossExposure(values) == LongValue(values) + ShortValue(values)
NetExposure(values) == LongValue(values) - ShortValue(values)

\* calculate_sector_exposure
SectorExposure(values) ==
  [c \in {Sector[s] : s \in HeldIn(values)} |->
     SumFunction([s \in {s \in HeldIn(values) : Sector[s] = c} |-> SizeOf(values[s])])]

\* calculate_concentration: the five largest positions.
TopFive(values) ==
  LET largest == {s \in HeldIn(values) :
                    Cardinality({r \in HeldIn(values) : SizeOf(values[r]) > SizeOf(values[s])}) < 5}
  IN SumFunction([s \in largest |-> SizeOf(values[s])])

\* apply_scenario: a shock of the symbol goes before one of its sector.
Shock(scenario, s) ==
  CASE s \in DOMAIN scenario -> scenario[s]
    [] s \notin DOMAIN scenario /\ Sector[s] \in DOMAIN scenario -> scenario[Sector[s]]
    [] OTHER -> 0
StressPnl(values, scenario) ==
  SumFunction([s \in HeldIn(values) |-> values[s] * Shock(scenario, s)])
-----------------------------------------------------------------------------
\* Slip: every symbol the cache knows counts as had from it.
FromCacheWhole(cache, S) == IF cache[S].left = 0 THEN <<>> ELSE cache[S].entries

\* _get_cached_prices.  A cached history is a table the wrong way round, which does not
\* parse, so that reading stops there: what is had from the cache are the symbols
\* noted before it as having no data.
FromCache(cache, S) ==
  LET entries == cache[S].entries
      good == {k \in DOMAIN entries : entries[k].data}
      upto == IF good = {} THEN Len(entries) ELSE Min(good) - 1
  IN IF cache[S].left = 0 THEN <<>> ELSE SubSeq(entries, 1, upto)

\* _fetch_historical_prices for the symbols S: those the cache does not know are fetched,
\* and the fetches end in the given order.  A result without data is cached as such, and
\* cached again with the next results.
Known(cache, S) == IF S \notin DOMAIN cache THEN <<>> ELSE FromCache(cache, S)
Wanted(cache, S) == S \ {Known(cache, S)[k].symbol : k \in DOMAIN Known(cache, S)}
Fetched(cache, S, order) ==
  LET fresh == [k \in DOMAIN order |-> [symbol |-> order[k], data |-> order[k] \in sources]] IN
  IF S \notin DOMAIN cache \/ Wanted(cache, S) = {} THEN cache
  ELSE [cache EXCEPT ![S] = [entries |-> Known(cache, S) \o fresh, left |-> CacheLife]]

\* _fetch_portfolio_returns: the last days all the histories have, weighted with the
\* positions' shares; without weights, when the book is not worth more than 0.
PortfolioReturns(values, data) ==
  LET days == IF data = {} THEN 0 ELSE Min({Len(History[s]) : s \in data})
      weight(s) == IF NetExposure(values) > 0 THEN values[s] ELSE 0
  IN [d \in 1 .. days |->
        SumFunction([s \in data |-> weight(s) * History[s][Len(History[s]) - days + d]])]

\* np.percentile at 5, interpolated between the two lowest returns it lies between.
FifthPercentile(returns) ==
  LET sorted == SortSeq(returns, <)
      rank == (Len(returns) - 1) * 5
      low == rank \div 100
      past == rank % 100
      next == IF low + 2 <= Len(returns) THEN sorted[low + 2] ELSE 0
  IN (sorted[low + 1] * (100 - past) + next * past) \div 100

\* calculate_historical_var and _calculate_var: 0 when there are too few returns.
Var95(values, value, data) ==
  LET returns == PortfolioReturns(values, data) IN
  IF Len(returns) < MinReturns \/ NetExposure(values) <= 0 THEN 0
  ELSE (SizeOf(FifthPercentile(returns)) * value) \div (100 * NetExposure(values))
-----------------------------------------------------------------------------
\* check_all_limits: ratios to a value that is not positive are 0, or for a sector the
\* amount itself.
OverShare(x, percent, value) == value > 0 /\ 100 * x > percent * value

\* Slip: the sectors only through the same ratio as everything else.
BreachesOfValue(values, value, var95, limits) ==
  {<<"sector", c>> : c \in {d \in DOMAIN SectorExposure(values) :
          OverShare(SectorExposure(values)[d], limits.sector, value)}}
  \cup {b \in {<<"gross", "-">>} : OverShare(GrossExposure(values), limits.gross, value)}
  \cup {b \in {<<"net", "-">>} : OverShare(SizeOf(NetExposure(values)), limits.net, value)}

Breaches(values, value, var95, limits) ==
  {<<"position", s>> : s \in {r \in HeldIn(values) :
                                OverShare(SizeOf(values[r]), limits.position, value)}}
  \cup {<<"sector", c>> : c \in {d \in DOMAIN SectorExposure(values) :
          100 * SectorExposure(values)[d] > limits.sector * (IF value > 0 THEN value ELSE 1)}}
  \cup {b \in {<<"gross", "-">>} : OverShare(GrossExposure(values), limits.gross, value)}
  \cup {b \in {<<"net", "-">>} : OverShare(SizeOf(NetExposure(values)), limits.net, value)}
  \cup {b \in {<<"var", "-">>} : limits.var95 # 0 /\ var95 > limits.var95}

\* _get_portfolio_state: when the broker raises, an empty book, and an error.
PortfolioState ==
  IF account.fails THEN [values |-> [s \in Assets |-> 0], cash |-> 0]
  ELSE [values |-> account.values, cash |-> account.cash]

\* The report for a book, with the histories there are of it.
ReportOn(state, data) ==
  LET value == state.cash + NetExposure(state.values)
      var95 == Var95(state.values, value, data)
  IN [held |-> HeldIn(state.values), value |-> value,
      gross |-> GrossExposure(state.values), net |-> NetExposure(state.values),
      sectors |-> SectorExposure(state.values), top |-> TopFive(state.values),
      used |-> data, var95 |-> var95,
      stress |-> [c \in DOMAIN Scenarios |-> StressPnl(state.values, Scenarios[c])],
      breaches |-> Breaches(state.values, value, var95, riskLimits),
      errors |-> account.fails, limits |-> {riskLimits}]

\* calculate_risk_metrics: histories are fetched twice, for the returns and for the
\* correlations, and both fetches go through the cache.
CalculateRiskMetrics ==
  LET state == PortfolioState
      held == HeldIn(state.values)
      wanted == Wanted(redis, held)
  IN /\ report' = ReportOn(state, wanted \cap sources)
     /\ \E first \in SetToSeqs(wanted) :
          LET cached == Fetched(redis, held, first) IN
          IF held = {} THEN UNCHANGED <<redis, lastFetch>>
          ELSE /\ \E second \in SetToSeqs(Wanted(cached, held)) :
                    redis' = Fetched(cached, held, second)
               /\ lastFetch' = [lastFetch EXCEPT ![held] = [s \in Assets |->
                    CASE s \notin wanted \cup Wanted(cached, held) -> @[s]
                      [] s \in (wanted \cup Wanted(cached, held)) \cap sources -> "data"
                      [] OTHER -> "failed"]]
     /\ UNCHANGED <<account, sources, riskLimits>>

\* update_limits
UpdateLimits(limits) ==
  /\ riskLimits' = limits
  /\ UNCHANGED <<account, sources, redis, report, lastFetch>>

\* External: the book, the broker, the data sources, and Redis forgetting.
BookChanges ==
  /\ account' \in [values : Books, cash : CashAmounts, fails : BOOLEAN]
  /\ UNCHANGED <<sources, redis, riskLimits, report, lastFetch>>
SourcesChange ==
  /\ sources' \in SUBSET Assets
  /\ UNCHANGED <<account, redis, riskLimits, report, lastFetch>>
CacheAges ==
  /\ DOMAIN redis # {}
  /\ redis' = [k \in DOMAIN redis |-> IF redis[k].left <= 1 THEN Expired
                              ELSE [redis[k] EXCEPT !.left = @ - 1]]
  /\ UNCHANGED <<account, sources, riskLimits, report, lastFetch>>

RiskNext ==
  \/ CalculateRiskMetrics
  \/ \E l \in LimitSets : UpdateLimits(l)
  \/ BookChanges \/ SourcesChange \/ CacheAges

RiskSpec == RiskInit /\ [][RiskNext]_riskVars
-----------------------------------------------------------------------------
\* A report with neither a breach nor an error describes a book without positions, or
\* one within each of its limits: also when cash below zero makes the account worth
\* nothing, where every ratio to its value is 0, and when the broker does not answer
\* (portfolio_risk.py, calculate_risk_metrics; limits.py, check_all_limits).
CleanReportIsEarned ==
  report.breaches = {} /\ ~report.errors =>
    \A l \in report.limits :
      \/ report.held = {}
      \/ /\ 100 * report.gross <= l.gross * report.value
         /\ \A c \in DOMAIN report.sectors : 100 * report.sectors[c] <= l.sector * report.value
         /\ 100 * SizeOf(report.net) <= l.net * report.value

\* A position whose history the value at risk leaves out is one whose last fetch for the
\* same positions failed: what the cache holds for them never hides data that was there
\* when they were last asked for.  It does hide what was had for other positions since,
\* because each set of symbols is cached on its own
\* (portfolio_risk.py, _fetch_historical_prices, _get_cached_prices).
UsesWhatItFetched ==
  \A s \in report.held \ report.used : lastFetch[report.held][s] = "failed"
=============================================================================
