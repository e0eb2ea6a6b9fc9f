--------------------------- MODULE BrokerRouting ---------------------------
(***************************************************************************)
(* BrokerSelector and FallbackBrokerSelector (adapters/execution): which   *)
(* brokers an order goes to, and how much of it to each, from the scores   *)
(* of those connected.  Brokers come and go between two orders.            *)
(***************************************************************************)
EXTENDS Integers, Sequences, FiniteSets, Functions, SequencesExt

CONSTANTS
  Venues,    \* a sequence: the keys of the brokers dictionary, in its order
  Scores,    \* get_score() of each
  Demands,   \* order quantities
  Slices,    \* values of min_slice and max_slice
  Widths,    \* values of max_exchanges
  Grain      \* a share is counted in 1/Grain, and rounded down to it

VARIABLES
  connected,     \* the venues whose is_connected() answers True
  asked,         \* the split last asked for: [quantity, slice, most, cross, up]
  routed         \* what it gives, in 1/Grain: [venue, quantity] by place in the ranking

routingVars == <<connected, asked, routed>>

VenueSet == Range(Venues)

\* A score is a weighted sum of parts that are not negative.  With Grain no less than
\* the number of venues, an equal share of a share of stock is not rounded to nothing.
ASSUME RoutingAssumption ==
  /\ Venues \in Seq(STRING) /\ Venues # <<>> /\ "None" \notin VenueSet
  /\ \A v \in VenueSet : Scores[v] \in Nat
  /\ Demands \subseteq Nat \ {0} /\ Slices \subseteq Nat /\ Widths \subseteq Nat
  /\ Grain \in Nat /\ Grain >= Len(Venues)

ScoreTotal(ranking) == SumFunction([i \in DOMAIN ranking |-> Scores[ranking[i]]])
To(venue, quantity) == <<[venue |-> venue, quantity |-> quantity * Grain]>>
NoSplit == [quantity |-> 0, slice |-> 0, most |-> 0, cross |-> FALSE, up |-> {}]

RoutingInit ==
  /\ connected \in SUBSET VenueSet
  /\ asked = NoSplit
  /\ routed = <<>>

\* _score_brokers: the connected venues, best score first, equals in the
\* dictionary's order.
Before(i, j) ==
  \/ Scores[Venues[i]] > Scores[Venues[j]]
  \/ Scores[Venues[i]] = Scores[Venues[j]] /\ i < j
Ranked(up) ==
  LET places == {i \in DOMAIN Venues : Venues[i] \in up}
      order == CHOOSE o \in [1 .. Cardinality(places) -> places] :
                 \A j, k \in DOMAIN o : j < k => Before(o[j], o[k])
  IN [k \in DOMAIN order |-> Venues[order[k]]]

\* select_broker: the best one, or the default, which need not be connected.
SelectBroker(up) ==
  LET ranking == Ranked(up) IN IF ranking = <<>> THEN Venues[1] ELSE ranking[1]

\* select_broker_with_fallback: a chain of its own before the default.
SelectWithFallback(up, chain) ==
  LET usable == SelectSeq(chain, LAMBDA v : v \in up) IN
  IF Ranked(up) = <<>> /\ usable # <<>> THEN usable[1] ELSE SelectBroker(up)

\* split_across_brokers: a venue takes part with four fifths of all scores, so one
\* at most does; otherwise, or with less than a slice, the best takes it all.
SplitAcross(up, quantity, minSlice) ==
  LET ranking == Ranked(up)
      total == ScoreTotal(ranking)
      Takes(v) == /\ total > 0 /\ 5 * Scores[v] >= 4 * total
                  /\ quantity * Scores[v] >= minSlice * total
      taking == SelectSeq(ranking, Takes)
  IN CASE ranking = <<>> -> To(Venues[1], quantity)
       [] ranking # <<>> /\ taking = <<>> -> To(ranking[1], quantity)
       [] OTHER -> To(taking[1], quantity)

Least(a, b) == IF a < b THEN a ELSE b

\* The loop of select_broker_cross_exchange: what is placed after the k best venues,
\* each given its share of what was still to be placed, up to the slice.
Allocated(ranking, quantity, maxSlice) ==
  LET total == IF ScoreTotal(ranking) = 0 THEN 1 ELSE ScoreTotal(ranking)
      allocated[k \in 0 .. Len(ranking)] ==
        IF k = 0 THEN 0
        ELSE allocated[k - 1]
               + Least(((quantity * Grain - allocated[k - 1]) * Scores[ranking[k]]) \div total,
                       maxSlice * Grain)
  IN allocated

\* Its allocations: the venues given anything, the first of which takes the rest.
Allocations(ranking, allocated, rest) ==
  LET Given(k) == allocated[k] - allocated[k - 1]
      taking == {k \in DOMAIN ranking : Given(k) > 0}
  IN [k \in taking |-> [venue |-> ranking[k],
                        quantity |-> Given(k) + IF k = Min(taking) THEN rest ELSE 0]]

Best(up, most) == SubSeq(Ranked(up), 1, Least(most, Len(Ranked(up))))

\* Slip: what the slices leave over is not given to anyone.
CrossWithoutRest(up, quantity, maxSlice, most) ==
  IF Ranked(up) = <<>> THEN To(Venues[1], quantity)
  ELSE Allocations(Best(up, most), Allocated(Best(up, most), quantity, maxSlice), 0)

\* select_broker_cross_exchange: the default takes it all when none is connected.
CrossExchange(up, quantity, maxSlice, most) ==
  LET ranking == Best(up, most)
      allocated == Allocated(ranking, quantity, maxSlice)
  IN IF Ranked(up) = <<>> THEN To(Venues[1], quantity)
     ELSE Allocations(ranking, allocated, quantity * Grain - allocated[Len(ranking)])
-----------------------------------------------------------------------------
RouteSplit(quantity, slice) ==
  /\ asked' = [quantity |-> quantity, slice |-> slice, most |-> 0, cross |-> FALSE, up |-> connected]
  /\ routed' = SplitAcross(connected, quantity, slice)
  /\ UNCHANGED connected

RouteCross(quantity, slice, most) ==
  /\ asked' = [quantity |-> quantity, slice |-> slice, most |-> most, cross |-> TRUE, up |-> connected]
  /\ routed' = CrossExchange(connected, quantity, slice, most)
  /\ UNCHANGED connected

\* External: a connection is lost or comes back.
Reconnect(v) ==
  /\ connected' = IF v \in connected THEN connected \ {v} ELSE connected \cup {v}
  /\ UNCHANGED <<asked, routed>>

RoutingNext ==
  \/ \E q \in Demands, s \in Slices :
       RouteSplit(q, s) \/ \E most \in Widths : RouteCross(q, s, most)
  \/ \E v \in VenueSet : Reconnect(v)

RoutingSpec == RoutingInit /\ [][RoutingNext]_routingVars
-----------------------------------------------------------------------------
Placed(shares) == SumFunction([k \in DOMAIN shares |-> shares[k].quantity])

\* The cross-exchange split has venues to choose from and gives none of them anything:
\* it may use none, a slice is nothing, or not even the best of them scores.
NothingToGive(split) ==
  /\ split.cross /\ Ranked(split.up) # <<>>
  /\ split.slice = 0 \/ split.most = 0 \/ Scores[Ranked(split.up)[1]] = 0

\* A split places all of the order and nothing more, whatever the scores, the slice and
\* the venues connected: rounding, slices and the threshold are made up for at one
\* venue.  The one exception is a cross-exchange split that has nothing to give, and
\* that one places nothing (broker_selector.py, split_across_brokers,
\* select_broker_cross_exchange).
SplitPlacesTheOrder ==
  IF NothingToGive(asked) THEN DOMAIN routed = {}
  ELSE /\ Placed(routed) = asked.quantity * Grain
       /\ \A k \in DOMAIN routed : routed[k].quantity > 0
=============================================================================
