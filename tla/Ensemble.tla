------------------------------ MODULE Ensemble -------------------------------
(***************************************************************************)
(* MultiStrategyRunner (core/multi_strategy): strategies assigned to a     *)
(* symbol vote on its newest bar, and the outcome is executed at a broker. *)
(*                                                                         *)
(* One symbol: process_all takes them one after the other, and they share  *)
(* nothing but the broker's cash.  A filled order fills at its price.      *)
(***************************************************************************)
EXTENDS Strategies, SequencesExt

CONSTANTS
  Assignable,        \* the registered strategies that may be assigned
  Periods,           \* get_required_periods of each of them
  MaxAssigned,       \* bound on the assignments
  MaxSeries,         \* bound on the bars of the symbol
  MaxTracked,        \* bound on the signals counted of a strategy
  RunnerCash,        \* the broker's cash at first
  PositionPercent    \* MAX_POSITION_SIZE_PCT

VARIABLES
  assigned,      \* _assignments of the symbol: a sequence, repetitions and all
  signalCounts,  \* _strategy_signals
  pending,       \* the action process_all has returned: [type, price, support, asked]
  runnerCash,    \* external, the broker
  runnerHolds    \* external: the position

ensembleVars == <<bars, assigned, signalCounts, pending, runnerCash, runnerHolds>>

NoAction == [type |-> "HOLD", price |-> 0, support |-> 0, asked |-> 0]

EnsembleInit ==
  /\ bars = <<>>
  /\ assigned = <<>>
  /\ signalCounts = [n \in Names |-> [BUY |-> 0, SELL |-> 0, HOLD |-> 0]]
  /\ pending = NoAction
  /\ runnerCash = RunnerCash
  /\ runnerHolds = 0
-----------------------------------------------------------------------------
\* add_assignment, and add_ensemble and load_from_config, which call it.  The template is
\* not in the registry: get_strategy raises.
AddAssignment(name) ==
  /\ Len(assigned) < MaxAssigned
  /\ assigned' = Append(assigned, name)
  /\ UNCHANGED <<bars, signalCounts, pending, runnerCash, runnerHolds>>

\* External: the next bar.
NextBar(bar) ==
  /\ Len(bars) < MaxSeries
  /\ bars' = Append(bars, bar)
  /\ UNCHANGED <<assigned, signalCounts, pending, runnerCash, runnerHolds>>

\* What each strategy that is asked signals at the newest bar; one is skipped as long as
\* there are not the bars it requires.
AskedStrategies == {k \in DOMAIN assigned : Len(bars) >= Periods[assigned[k]]}
SignalsNow == [k \in AskedStrategies |-> SignalOf(assigned[k], bars, Len(bars))]

\* What a signal should weigh: its confidence, or a half.
WeightOf(signals, S) ==
  MapThenSumSet(LAMBDA k : IF signals[k].confidence > 0 THEN signals[k].confidence ELSE 50, S)

\* Comparing a missing confidence with 0 raises, and the handler drops the vote.
Voters(signals) == {k \in DOMAIN signals : signals[k].confidence # NoConfidence}
SignalsFor(signals, type) == {k \in DOMAIN signals : signals[k].type = type}
Outvotes(signals, type) ==
  2 * WeightOf(signals, Voters(signals) \cap SignalsFor(signals, type)) > WeightOf(signals, Voters(signals))

\* _process_single, and _process_ensemble: more than half of the weight that voted.
Outcome(signals) ==
  CASE Len(assigned) = 1 -> IF signals = <<>> THEN "HOLD" ELSE signals[1].type
    [] Len(assigned) > 1 /\ Outvotes(signals, "BUY") -> "BUY"
    [] Len(assigned) > 1 /\ ~Outvotes(signals, "BUY") /\ Outvotes(signals, "SELL") -> "SELL"
    [] OTHER -> "HOLD"

\* _track_signal
Counted(counts, type) ==
  CASE type = "BUY" -> [counts EXCEPT !.BUY = @ + 1]
    [] type = "SELL" -> [counts EXCEPT !.SELL = @ + 1]
    [] OTHER -> [counts EXCEPT !.HOLD = @ + 1]
TrackSignals(signals) ==
  signalCounts' = FoldSet(LAMBDA k, counts :
                            [counts EXCEPT ![assigned[k]] = Counted(@, signals[k].type)],
                          signalCounts, DOMAIN signals)

\* process_all; the data may be missing, and the symbol is skipped.
ProcessAll(fetched) ==
  /\ Len(bars) > 0 /\ Len(assigned) > 0
  /\ \A n \in Names : signalCounts[n].BUY + signalCounts[n].SELL + signalCounts[n].HOLD < MaxTracked
  /\ \E signals \in {SignalsNow} : \E type \in {Outcome(signals)} :
       /\ IF fetched THEN TrackSignals(signals) ELSE UNCHANGED signalCounts
       /\ pending' = IF ~fetched \/ type = "HOLD" THEN NoAction
                     ELSE [type |-> type, price |-> Last(bars).close,
                           support |-> WeightOf(signals, SignalsFor(signals, type)),
                           asked |-> WeightOf(signals, DOMAIN signals)]
  /\ UNCHANGED <<bars, assigned, runnerCash, runnerHolds>>

\* execute_actions: a buy only without a position, a sale of all of it; the broker may be
\* away or reject, and the risk manager refuse.
ExecuteActions(connected, approved, filled) ==
  LET quantity == (runnerCash * PositionPercent) \div (100 * pending.price) IN
  /\ pending # NoAction
  /\ pending' = NoAction
  /\ \/ /\ connected /\ filled /\ approved
        /\ pending.type = "BUY" /\ runnerHolds = 0 /\ quantity > 0
        /\ runnerHolds' = quantity
        /\ runnerCash' = runnerCash - quantity * pending.price
     \/ /\ connected /\ filled
        /\ pending.type = "SELL" /\ runnerHolds > 0
        /\ runnerHolds' = 0
        /\ runnerCash' = runnerCash + runnerHolds * pending.price
     \/ /\ \/ ~connected \/ ~filled
           \/ pending.type = "BUY" /\ (runnerHolds > 0 \/ quantity = 0 \/ ~approved)
           \/ pending.type = "SELL" /\ runnerHolds = 0
        /\ UNCHANGED <<runnerCash, runnerHolds>>
  /\ UNCHANGED <<bars, assigned, signalCounts>>

EnsembleNext ==
  \/ \E bar \in Bars : NextBar(bar)
  \/ \E n \in Assignable : AddAssignment(n)
  \/ \E fetched \in BOOLEAN : ProcessAll(fetched)
  \/ \E connected, approved, filled \in BOOLEAN : ExecuteActions(connected, approved, filled)
-----------------------------------------------------------------------------
\* "Need > 50% agreement to act" (multi_strategy.py, _process_ensemble): the strategies
\* behind an action have more than half of the weight of all that were asked, those that
\* hold or give no confidence counting a half each.
MajorityActs ==
  pending # NoAction => 2 * pending.support > pending.asked
=============================================================================
