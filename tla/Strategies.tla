----------------------------- MODULE Strategies ------------------------------
(***************************************************************************)
(* The ten trading strategies and the plugin template                      *)
(* (core/trading_strategies): what each signals at a bar of a price        *)
(* series, from its own indicators.                                        *)
(*                                                                         *)
(* A bar is [high, low, close, volume].  Averages and ratios are compared  *)
(* after multiplication; exponential averages are rounded down, and prices *)
(* are given in a unit fine enough for that.  Confidence is a percentage.  *)
(* Bars count from 1 here, so that the code's current_index is i - 1.      *)
(***************************************************************************)
EXTENDS Integers, Sequences, FiniteSets, FiniteSetsExt, Functions

CONSTANTS
  Bars,            \* the bars a market may show
  MaxBars,         \* bound on the length of a series
  Fast, Slow,      \* periods of the averages: 12 and 26, or 3 and 8 for scalping
  SignalPeriod,    \* of the MACD's signal line: 9
  Window,          \* period of every other indicator: 14 to 20
  Required,        \* get_required_periods, where a strategy looks at it
  BandWidth,       \* std_dev and z_entry, in standard deviations: 2
  TrendLine        \* adx_threshold: 25

\* The fast average is the shorter one (its strategy's constructor refuses another), and
\* get_required_periods covers the windows.
ASSUME StrategiesAssumption ==
  /\ Fast \in Nat \ {0} /\ Slow \in Nat \ {0} /\ SignalPeriod \in Nat \ {0} /\ Fast < Slow
  /\ Window \in Nat \ {0} /\ Required \in Nat /\ Window <= Required
  /\ BandWidth \in Nat /\ TrendLine \in Nat

VARIABLES
  bars,      \* the series so far
  answers    \* history: per strategy, its signal when each bar was the newest

strategyVars == <<bars, answers>>

Names == {"ema", "sma", "rsi", "macd", "bollinger", "vwap", "breakout", "reversion",
          "momentum", "scalping", "template"}

StrategiesInit == bars = <<>> /\ answers = [n \in Names |-> <<>>]
-----------------------------------------------------------------------------
\* Signal: a confidence is optional.
NoConfidence == -1
Signal(type, confidence) == [type |-> type, confidence |-> confidence]
Hold == Signal("HOLD", NoConfidence)
Clamp(x, low, high) == IF x < low THEN low ELSE IF x > high THEN high ELSE x

\* The last n bars at bar i, and whether there are so many.
LastBars(n, i) == (i - n + 1) .. i
HasLast(n, i) == i >= n
SumLast(f(_), n, i) == SumFunction([t \in LastBars(n, i) |-> f(t)])

\* Which way a line crosses another between two bars.
Crossing(before, beforeOther, now, nowOther) ==
  CASE before <= beforeOther /\ now > nowOther -> "BUY"
    [] before >= beforeOther /\ now < nowOther -> "SELL"
    [] OTHER -> "HOLD"
WithConfidence(type, confidence) == IF type = "HOLD" THEN Hold ELSE Signal(type, confidence)

\* ewm(span = n, adjust = False).mean() of a sequence.
Ewm(x, n) ==
  LET average[t \in DOMAIN x] ==
        IF t = 1 THEN x[1] ELSE (2 * x[t] + (n - 1) * average[t - 1]) \div (n + 1)
  IN average
Closes(b) == [t \in DOMAIN b |-> b[t].close]

\* Gains and losses of the last closes; the first bar has neither.
Gain(b, i) ==
  SumLast(LAMBDA t : IF t > 1 /\ b[t].close > b[t - 1].close THEN b[t].close - b[t - 1].close ELSE 0,
          Window, i)
Loss(b, i) ==
  SumLast(LAMBDA t : IF t > 1 /\ b[t].close < b[t - 1].close THEN b[t - 1].close - b[t].close ELSE 0,
          Window, i)
HasRsi(b, i) == HasLast(Window, i) /\ Gain(b, i) + Loss(b, i) > 0

\* How far the close is below its mean, and the variance, both times constants of the
\* window: the close is k deviations below when (Window - 1) * Below^2 >= k^2 * Window * Spread.
Below(b, i) == SumLast(LAMBDA t : b[t].close, Window, i) - Window * b[i].close
SpreadOf(b, i) ==
  Window * SumLast(LAMBDA t : b[t].close * b[t].close, Window, i)
  - SumLast(LAMBDA t : b[t].close, Window, i) * SumLast(LAMBDA t : b[t].close, Window, i)
Deviates(b, i, k) == (Window - 1) * Below(b, i) * Below(b, i) >= k * k * Window * SpreadOf(b, i)

\* A volume of at least the given percentage of its average; without one, not.
VolumeAtLeast(b, i, percent) ==
  /\ HasLast(Window, i)
  /\ 100 * Window * b[i].volume >= percent * SumLast(LAMBDA t : b[t].volume, Window, i)
  /\ SumLast(LAMBDA t : b[t].volume, Window, i) > 0
-----------------------------------------------------------------------------
\* EMA crossover; its confidence is full at a separation of one percent.
EmaCrossover(b, i) ==
  LET fast == Ewm(Closes(b), Fast)
      slow == Ewm(Closes(b), Slow)
      apart == IF fast[i] > slow[i] THEN fast[i] - slow[i] ELSE slow[i] - fast[i]
  IN IF i < 2 THEN Hold
     ELSE WithConfidence(Crossing(fast[i - 1], slow[i - 1], fast[i], slow[i]),
                         Clamp((10000 * apart) \div slow[i], 50, 100))

SmaCrossover(b, i) ==
  LET short(t) == Slow * SumLast(LAMBDA u : b[u].close, Fast, t)
      long(t) == Fast * SumLast(LAMBDA u : b[u].close, Slow, t)
  IN IF ~HasLast(Slow, i - 1) THEN Hold
     ELSE WithConfidence(Crossing(short(i - 1), long(i - 1), short(i), long(i)), NoConfidence)

Rsi(b, i) ==
  CASE ~HasRsi(b, i) -> Hold
    [] HasRsi(b, i) /\ 100 * Gain(b, i) < 30 * (Gain(b, i) + Loss(b, i)) -> Signal("BUY", NoConfidence)
    [] HasRsi(b, i) /\ 100 * Gain(b, i) > 70 * (Gain(b, i) + Loss(b, i)) -> Signal("SELL", NoConfidence)
    [] OTHER -> Hold

Macd(b, i) ==
  LET fast == Ewm(Closes(b), Fast)
      slow == Ewm(Closes(b), Slow)
      line == [t \in DOMAIN b |-> fast[t] - slow[t]]
      signal == Ewm(line, SignalPeriod)
  IN IF i < 2 THEN Hold
     ELSE WithConfidence(Crossing(line[i - 1], signal[i - 1], line[i], signal[i]), NoConfidence)

\* Bollinger: a close on both bands, when nothing has moved, buys.
Bollinger(b, i) ==
  CASE ~HasLast(Window, i) -> Hold
    [] HasLast(Window, i) /\ Below(b, i) >= 0 /\ Deviates(b, i, BandWidth) -> Signal("BUY", NoConfidence)
    [] HasLast(Window, i) /\ Below(b, i) < 0 /\ Deviates(b, i, BandWidth) -> Signal("SELL", NoConfidence)
    [] OTHER -> Hold

\* VWAP: since the beginning of the series.  Slip: of the whole series.
VwapOfAll(b, i) ==
  LET amount(t) == SumFunction([u \in DOMAIN b |-> (b[u].high + b[u].low + b[u].close) * b[u].volume])
      volume(t) == 3 * SumFunction([u \in DOMAIN b |-> b[u].volume])
  IN IF i < 3 \/ volume(i - 1) = 0 THEN Hold
     ELSE WithConfidence(Crossing(b[i - 1].close * volume(i - 1), amount(i - 1),
                                  b[i].close * volume(i), amount(i)),
                         IF VolumeAtLeast(b, i, 120) THEN 80 ELSE 50)
Vwap(b, i) ==
  LET amount(t) == SumFunction([u \in 1 .. t |-> (b[u].high + b[u].low + b[u].close) * b[u].volume])
      volume(t) == 3 * SumFunction([u \in 1 .. t |-> b[u].volume])
  IN IF i < 3 \/ volume(i - 1) = 0 THEN Hold
     ELSE WithConfidence(Crossing(b[i - 1].close * volume(i - 1), amount(i - 1),
                                  b[i].close * volume(i), amount(i)),
                         IF VolumeAtLeast(b, i, 120) THEN 80 ELSE 50)

\* Breakout: resistance and support are the extremes of a window that ends with the bar
\* itself, and half the average true range is the margin.
TrueRange(b, t) ==
  Max({b[t].high - b[t].low}
      \cup {IF x < 0 THEN -x ELSE x : x \in {y \in {b[t].high - b[IF t > 1 THEN t - 1 ELSE t].close,
                                                  b[t].low - b[IF t > 1 THEN t - 1 ELSE t].close} : t > 1}})
Margin(b, i) == SumLast(LAMBDA t : TrueRange(b, t), Window, i)
BreaksAbove(b, i) ==
  /\ \A t \in LastBars(Window, i) : 2 * Window * (b[i].close - b[t].high) > Margin(b, i)
  /\ \E t \in LastBars(Window, i) : b[i - 1].close <= b[t].high
BreaksBelow(b, i) ==
  /\ \A t \in LastBars(Window, i) : 2 * Window * (b[t].low - b[i].close) > Margin(b, i)
  /\ \E t \in LastBars(Window, i) : b[i - 1].close >= b[t].low
Breakout(b, i) ==
  LET confidence == IF VolumeAtLeast(b, i, 150) THEN 80 ELSE 60 IN
  CASE i <= Required -> Hold
    [] i > Required /\ BreaksAbove(b, i) -> Signal("BUY", confidence)
    [] i > Required /\ ~BreaksAbove(b, i) /\ BreaksBelow(b, i) -> Signal("SELL", confidence)
    [] OTHER -> Hold

\* Mean reversion: the confidence counts whole standard deviations.
MeanReversion(b, i) ==
  LET far == Max({k \in 0 .. Window : Deviates(b, i, k)})
      confidence == Clamp(50 + 15 * far, 50, 100)
      known == i > Required /\ HasRsi(b, i) /\ SpreadOf(b, i) > 0
  IN CASE known /\ Below(b, i) > 0 /\ far >= BandWidth
            /\ 100 * Gain(b, i) <= 30 * (Gain(b, i) + Loss(b, i)) -> Signal("BUY", confidence)
       [] known /\ Below(b, i) < 0 /\ far >= BandWidth
            /\ 100 * Gain(b, i) >= 70 * (Gain(b, i) + Loss(b, i)) -> Signal("SELL", confidence)
       [] OTHER -> Hold

\* Momentum: the sign of 0.5 * ROC(Fast) + 0.3 * ROC(Slow) + 0.2 * ROC(Window), where a fall
\* and a rise of the low count alike as a downward move (low.diff().abs()).
MomentumScore(b, t) ==
  LET now == b[t].close  f == b[t - Fast].close  m == b[t - Slow].close  s == b[t - Window].close
  IN 5 * (now - f) * m * s + 3 * (now - m) * f * s + 2 * (now - s) * f * m
Moves(b, t) ==
  LET up == b[t].high - b[t - 1].high
      down == IF b[t].low > b[t - 1].low THEN b[t].low - b[t - 1].low ELSE b[t - 1].low - b[t].low
      plus == IF up > down /\ up > 0 THEN up ELSE 0
  IN IF t = 1 THEN [up |-> 0, down |-> 0]
     ELSE [up |-> plus, down |-> IF down > plus THEN down ELSE 0]
DirectionAt(b, t) ==
  LET up == SumLast(LAMBDA u : Moves(b, u).up, Window, t)
      down == SumLast(LAMBDA u : Moves(b, u).down, Window, t)
  IN IF up + down = 0 THEN -1
     ELSE (100 * (IF up > down THEN up - down ELSE down - up)) \div (up + down)
Momentum(b, i) ==
  LET adx == SumLast(LAMBDA t : DirectionAt(b, t), Window, i) \div Window
      trending == /\ HasLast(2 * Window - 1, i)
                  /\ \A t \in LastBars(Window, i) : DirectionAt(b, t) >= 0
                  /\ adx >= TrendLine
      longest == Max({Fast, Slow, Window})
  IN IF i <= Required \/ ~HasLast(longest + 2, i) \/ ~trending THEN Hold
     ELSE WithConfidence(Crossing(MomentumScore(b, i - 1), 0, MomentumScore(b, i), 0),
                         Clamp(50 + adx - TrendLine, 50, 100))

\* Scalping: a crossing of the averages against a stochastic at the other extreme.
Scalping(b, i) ==
  LET low == Min({b[t].low : t \in LastBars(Window, i)})
      high == Max({b[t].high : t \in LastBars(Window, i)})
      stochastic == (100 * (b[i].close - low)) \div (high - low)
      fast == Ewm(Closes(b), Fast)
      slow == Ewm(Closes(b), Slow)
      type == Crossing(fast[i - 1], slow[i - 1], fast[i], slow[i])
  IN CASE i <= Required -> Hold
       [] i > Required /\ (high = low \/ ~VolumeAtLeast(b, i, 150)) -> Hold
       [] i > Required /\ high > low /\ VolumeAtLeast(b, i, 150) /\ type = "BUY" /\ stochastic <= 20 ->
            Signal("BUY", Clamp(80 - stochastic, 50, 100))
       [] i > Required /\ high > low /\ VolumeAtLeast(b, i, 150) /\ type = "SELL" /\ stochastic >= 80 ->
            Signal("SELL", Clamp(stochastic - 20, 50, 100))
       [] OTHER -> Hold

\* The plugins' template: the price against its moving average.
Template(b, i) ==
  LET average(t) == SumLast(LAMBDA u : b[u].close, Window, t) IN
  IF ~HasLast(Window, i - 1) THEN Hold
  ELSE WithConfidence(Crossing(Window * b[i - 1].close, average(i - 1),
                               Window * b[i].close, average(i)), 70)

SignalOf(name, b, i) ==
  CASE name = "ema" -> EmaCrossover(b, i)
    [] name = "sma" -> SmaCrossover(b, i)
    [] name = "rsi" -> Rsi(b, i)
    [] name = "macd" -> Macd(b, i)
    [] name = "bollinger" -> Bollinger(b, i)
    [] name = "vwap" -> Vwap(b, i)
    [] name = "breakout" -> Breakout(b, i)
    [] name = "reversion" -> MeanReversion(b, i)
    [] name = "momentum" -> Momentum(b, i)
    [] name = "scalping" -> Scalping(b, i)
    [] name = "template" -> Template(b, i)
-----------------------------------------------------------------------------
\* External: a bar closes, and every strategy is asked at it.
BarCloses(bar) ==
  /\ Len(bars) < MaxBars
  /\ bars' = Append(bars, bar)
  /\ answers' = [n \in Names |-> Append(answers[n], SignalOf(n, bars', Len(bars')))]

StrategiesNext == \E bar \in Bars : BarCloses(bar)
StrategiesSpec == StrategiesInit /\ [][StrategiesNext]_strategyVars
-----------------------------------------------------------------------------
\* Asked again about an earlier bar with all the later ones at hand, a strategy gives the
\* signal it gave then, on the same series from its first bar on: a backtest uses nothing
\* that came later (base.py, generate_signal: "CRITICAL: No Look-Ahead Bias").  Live
\* trading asks over a window of days that slides, of which this says nothing.
NoLookAhead ==
  \A n \in Names : \A i \in DOMAIN answers[n] : SignalOf(n, bars, i) = answers[n][i]
=============================================================================
