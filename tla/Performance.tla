----------------------------- MODULE Performance ------------------------------
(***************************************************************************)
(* What the account's past says of it: PortfolioTracker, its snapshots in  *)
(* the database, PerformanceAnalyzer (core/portfolio_management), and      *)
(* BacktestMetrics (backtesting/metrics), which does the same for a        *)
(* backtest.                                                               *)
(*                                                                         *)
(* One symbol, values whole, percentages in basis points and rounded down. *)
(* An update reads the account and the positions in separate steps.        *)
(***************************************************************************)
EXTENDS Integers, Sequences, FiniteSets, FiniteSetsExt

CONSTANTS
  InitialCapital,
  Accounts,        \* what the account may be: [cash, quantity, entry, price]
  Pnls,            \* results of trades
  SnapshotLimit,   \* how many snapshots a report asks for: 10000
  MaxSnapshots,    \* bound on the snapshots saved, and on a backtest's bars
  MaxLogged        \* bound on the trades

\* No account is worth less than nothing.
ASSUME PerformanceAssumption ==
  /\ InitialCapital \in Nat /\ SnapshotLimit \in Nat
  /\ \A a \in Accounts : a.cash + a.quantity * a.price \in Nat

VARIABLES
  brokerage,     \* external: [connected, account]
  reading,       \* the account an update has read and not used yet: a set of at most one
  lastSnapshot,  \* _last_snapshot: a set of at most one
  snapshots,     \* the table: portfolio values, the oldest first
  logged,        \* the trades' pnl: the table's, or the backtest's
  performance,   \* the newest full_report: [current, drawdown, winners, losers, winRate, allRate]
  equityCurve    \* of the backtest

performanceVars ==
  <<brokerage, reading, lastSnapshot, snapshots, logged, performance, equityCurve>>

NoPerformance ==
  [current |-> InitialCapital, drawdown |-> 0, winners |-> 0, losers |-> 0, winRate |-> 0, allRate |-> 0]

PerformanceInit ==
  /\ brokerage = [connected |-> FALSE,
                  account |-> [cash |-> InitialCapital, quantity |-> 0, entry |-> 0, price |-> 1]]
  /\ reading = {} /\ lastSnapshot = {}
  /\ snapshots = <<>> /\ logged = <<>>
  /\ performance = NoPerformance
  /\ equityCurve = <<InitialCapital>>
-----------------------------------------------------------------------------
ValueOf(a) == a.cash + a.quantity * a.price

\* PortfolioTracker.update reads the account, and without a broker nothing.
UpdateReads ==
  /\ reading = {} /\ brokerage.connected
  /\ reading' = {brokerage.account}
  /\ UNCHANGED <<brokerage, lastSnapshot, snapshots, logged, performance, equityCurve>>

\* save_snapshot: a row more, or an error that the tracker logs.
SaveSnapshot(value, saved) ==
  snapshots' = IF saved THEN Append(snapshots, value) ELSE snapshots

\* Then the positions, and puts the two together: the cash and the value of the one, the
\* gain of the other.  The snapshot is kept whether or not it can be saved.
UpdateKeeps(saved) ==
  /\ Len(snapshots) < MaxSnapshots
  /\ \E a \in reading :
       LET held == brokerage.account IN
       /\ lastSnapshot' = {[cash |-> a.cash, value |-> ValueOf(a), quantity |-> held.quantity,
                            gain |-> held.quantity * (held.price - held.entry)]}
       /\ SaveSnapshot(ValueOf(a), saved)
  /\ reading' = {}
  /\ UNCHANGED <<brokerage, logged, performance, equityCurve>>
-----------------------------------------------------------------------------
\* get_snapshots, reversed: the newest, in the order they were saved.
Newest(values) ==
  SubSeq(values, IF Len(values) > SnapshotLimit THEN Len(values) - SnapshotLimit + 1 ELSE 1, Len(values))

\* The peak before each value.  Slip: the value before it.
PeaksSinceLast(values) ==
  [i \in DOMAIN values |-> Max({values[i]} \cup {values[j] : j \in {i - 1} \cap DOMAIN values})]
Peaks(values) ==
  LET peak[i \in DOMAIN values] == IF i > 1 /\ peak[i - 1] >= values[i] THEN peak[i - 1] ELSE values[i]
  IN peak

\* PerformanceAnalyzer._max_drawdown
Share(part, whole) == IF whole > 0 THEN (10000 * part) \div whole ELSE 0
MaxDrawdown(values) ==
  Max({0} \cup {Share(Peaks(values)[i] - values[i], Peaks(values)[i]) : i \in DOMAIN values})

\* BacktestMetrics.calculate_max_drawdown: the largest fall in money, in relation to the
\* peak it started from.
FallAt(values, i) == Peaks(values)[i] - values[i]
CalculateMaxDrawdown(values) ==
  LET trough == Min({i \in DOMAIN values : \A j \in DOMAIN values : FallAt(values, i) >= FallAt(values, j)})
  IN IF Len(values) < 2 THEN [absolute |-> 0, percent |-> 0]
     ELSE [absolute |-> FallAt(values, trough),
           percent |-> Share(FallAt(values, trough), Peaks(values)[trough])]

CountOf(Is(_)) == Cardinality({i \in DOMAIN logged : Is(logged[i])})
Winners == CountOf(LAMBDA pnl : pnl > 0)
Losers == CountOf(LAMBDA pnl : pnl < 0)
\* get_stats' win rate: a trade without a result is no trade to the report, but is one here.
StatsWinRate == Share(Winners, Len(logged))

\* full_report
FullReport ==
  LET values == Newest(snapshots) IN
  /\ performance' = [current |-> IF values = <<>> THEN InitialCapital ELSE values[Len(values)],
                     drawdown |-> MaxDrawdown(values),
                     winners |-> Winners, losers |-> Losers,
                     winRate |-> Share(Winners, Winners + Losers),
                     allRate |-> StatsWinRate]
  /\ UNCHANGED <<brokerage, reading, lastSnapshot, snapshots, logged, equityCurve>>

\* log_trade of the database; add_trade of a backtest.
LogTrade(pnl) ==
  /\ Len(logged) < MaxLogged
  /\ logged' = Append(logged, pnl)
  /\ UNCHANGED <<brokerage, reading, lastSnapshot, snapshots, performance, equityCurve>>

\* BacktestMetrics.update_equity
UpdateEquity(balance) ==
  /\ Len(equityCurve) <= MaxSnapshots
  /\ equityCurve' = Append(equityCurve, balance)
  /\ UNCHANGED <<brokerage, reading, lastSnapshot, snapshots, logged, performance>>

\* External: the account and the connection change.
BrokerageChanges ==
  /\ \E a \in Accounts, up \in BOOLEAN : brokerage' = [connected |-> up, account |-> a]
  /\ UNCHANGED <<reading, lastSnapshot, snapshots, logged, performance, equityCurve>>

TrackingNext ==
  \/ BrokerageChanges \/ UpdateReads
  \/ \E saved \in BOOLEAN : UpdateKeeps(saved)
  \/ FullReport \/ \E pnl \in Pnls : LogTrade(pnl)
CurveNext == \E a \in Accounts : UpdateEquity(ValueOf(a))

PerformanceSpec == PerformanceInit /\ [][TrackingNext \/ CurveNext]_performanceVars
-----------------------------------------------------------------------------
\* The drawdown, found in one pass with a running peak, is the largest fall from any value
\* to any later one: in percent over the snapshots a report looks at, in money over a
\* backtest's equity curve, whose own percentage is no larger than the largest
\* (performance.py, _max_drawdown; backtesting/metrics.py, calculate_max_drawdown).
Falls(values) == {f \in (DOMAIN values) \X (DOMAIN values) : f[1] <= f[2]}
LargestShare(values) ==
  Max({0} \cup {Share(values[f[1]] - values[f[2]], values[f[1]]) : f \in Falls(values)})
DrawdownIsLargest ==
  /\ MaxDrawdown(Newest(snapshots)) = LargestShare(Newest(snapshots))
  /\ LET found == CalculateMaxDrawdown(equityCurve) IN
     /\ found.absolute = Max({equityCurve[f[1]] - equityCurve[f[2]] : f \in Falls(equityCurve)})
     /\ found.percent <= LargestShare(equityCurve)
=============================================================================
