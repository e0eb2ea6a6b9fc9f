----------------------------- MODULE Schedules -----------------------------
(***************************************************************************)
(* The execution algorithms of adapters/execution/algorithms: how each one *)
(* splits an order into child orders (generate_schedule).                  *)
(*                                                                         *)
(* A schedule is counted in units of 1/unit of a share, so that the        *)
(* fractions of the VWAP profile and of the POV estimate stay integers.    *)
(* VWAP's sizes are doubles, rounded up or down: the schedule carries the  *)
(* tolerance its code allows them.  The others are exact.  "raises" stands *)
(* for the exception that building a child of no quantity, or dividing by  *)
(* a display quantity of 0, ends in.                                       *)
(***************************************************************************)
EXTENDS Integers, Sequences, Functions, SequencesExt

\* What adds up in a schedule.
Total(sizes) == SumFunction(sizes)

LeastOf(a, b) == IF a < b THEN a ELSE b
GreatestOf(a, b) == IF a < b THEN b ELSE a
Clamp(x, low, high) == GreatestOf(low, LeastOf(high, x))

NoSchedule == [raises |-> TRUE, unit |-> 1, tolerance |-> 0, sizes |-> <<>>]
Schedule(unit, sizes) == [raises |-> FALSE, unit |-> unit, tolerance |-> 0, sizes |-> sizes]

\* ChildOrder.__post_init__ refuses a size that is not positive.
Built(unit, sizes) ==
  IF \A i \in DOMAIN sizes : sizes[i] > 0 THEN Schedule(unit, sizes) ELSE NoSchedule

\* Slip: the last slice is like the others, the remainder is lost.
TwapDropped(quantity, slices) ==
  Schedule(1, SelectSeq([i \in 1..slices |-> quantity \div slices], LAMBDA q : q > 0))

\* TWAP: equal slices rounded down, the remainder in the last one; slices of
\* nothing are left out, so that an order of fewer shares than slices has one child.
Twap(quantity, slices) ==
  LET slice == quantity \div slices
      last == quantity - slice * (slices - 1)
      sizes == [i \in 1..slices |-> IF i = slices THEN last ELSE slice]
  IN Schedule(1, IF slice = 0 THEN <<last>> ELSE sizes)

\* TWAP's number of slices: given, or from the interval, or one per five minutes.
TwapSlices(slices, duration, interval) ==
  CASE slices # 0 -> GreatestOf(1, slices)
    [] slices = 0 /\ interval # 0 -> GreatestOf(1, duration \div interval)
    [] OTHER -> GreatestOf(1, duration \div 5)

AbsOf(x) == IF x < 0 THEN -x ELSE x

\* VWAP: by the weights of a profile, of which `whole` stands for 1; a share is
\* 1000 * whole units.  off[i] is what the double of the i-th product is off.  What the
\* sizes are off the order goes to the last child if it is more than 0.001 of a share,
\* rounded again by off[0] and not looked at again: a profile handed over with the
\* order is not normalised.
Vwap(quantity, profile, whole, off) ==
  LET unit == 1000 * whole
      sizes == [i \in DOMAIN profile |-> 1000 * quantity * profile[i] + off[i]]
      drift == quantity * unit - Total(sizes)
      mended == IF AbsOf(drift) > whole
                THEN [sizes EXCEPT ![Len(sizes)] = @ + drift + off[0]] ELSE sizes
  IN IF Built(unit, sizes).raises THEN NoSchedule
     ELSE [Schedule(unit, mended) EXCEPT !.tolerance = whole]

\* POV: a share of the order per check, between the slice limits, whatever that
\* adds up to.  `rate` is in per cent.
Pov(quantity, rate, least, most, checks) ==
  LET unit == 100 * checks IN
  Built(unit, [i \in 1..checks |-> Clamp(quantity * rate, least * unit, most * unit)])

\* The visible size: as configured or a fiftieth of the order with a floor, and
\* no more than the order.
DisplayQuantity(quantity, configured, floor) ==
  LeastOf(quantity, IF configured # 0 THEN configured ELSE GreatestOf(floor, quantity \div 50))

\* Slip: the rest is rounded up to a slice.
IcebergRounded(quantity, display) ==
  IF display = 0 THEN NoSchedule
  ELSE Schedule(1, [i \in 1..((quantity + display - 1) \div display) |-> display])

\* Iceberg: slices of the display quantity and the rest.
Iceberg(quantity, display) ==
  LET full == quantity \div display
      rest == quantity % display
  IN IF display = 0 THEN NoSchedule
     ELSE Schedule(1, [i \in 1..full |-> display] \o IF rest > 0 THEN <<rest>> ELSE <<>>)

\* Implementation shortfall: the k-th fraction sinh(a(T-k+1)) / sinh(aT), taken in
\* its limit for a small a; sums to the order because the last child is made to,
\* unless that child comes to nothing.
Shortfall(quantity, periods, side) ==
  LET Size(k) == (quantity * (IF side = "SELL" THEN k - 1 ELSE periods - k + 1)) \div periods
      first == [k \in 1..(periods - 1) |-> Size(k)]
      last == GreatestOf(0, quantity - Total(first))
  IN Built(1, Append(first, last))
-----------------------------------------------------------------------------
\* Every schedule an order may get: `named` is the algorithm, the parameters are
\* small ones and those that meet a boundary.  Quarters are doubles, thirds are not.
Off(profile, by) == [i \in 0 .. Len(profile) |-> by]
SchedulesOf(named, quantity, side) ==
  CASE named = "twap" -> {Twap(quantity, TwapSlices(n, 10, i)) : n \in 0..3, i \in {0, 4}}
    [] named = "vwap" -> {Vwap(quantity, p, 4, Off(p, 0)) : p \in {<<2, 1, 1>>, <<4, 0>>, <<8, 8>>}}
                           \cup {Vwap(quantity, p, 3, Off(p, by)) :
                                    p \in {<<1, 1, 1>>, <<2, 2>>}, by \in {-1, 1}}
    [] named = "pov" -> {Pov(quantity, r, least, 3, 2) : r \in {10, 100}, least \in {0, 2}}
    [] named = "iceberg" -> {Iceberg(quantity, d) : d \in {0, 2}}
                              \cup {Iceberg(quantity, DisplayQuantity(quantity, d, 3)) : d \in {0, 1}}
    [] named = "implementation_shortfall" -> {Shortfall(quantity, n, side) : n \in 1..4}

Algorithms == {"twap", "vwap", "pov", "iceberg", "implementation_shortfall"}
=============================================================================
