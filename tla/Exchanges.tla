------------------------------ MODULE Exchanges ------------------------------
(***************************************************************************)
(* Several exchanges at once: ExchangeConnectivityManager (health, ranking *)
(* and routing), ArbitrageDetector, and CrossExchangePortfolio.            *)
(*                                                                         *)
(* The exchanges' brokers have the interface of the repository's tests     *)
(* (is_connected() and get_account_balance() are calls there).  Prices and *)
(* quantities are whole; 0 is the price nobody has given.  A score of an   *)
(* exchange is fixed by its metadata: its place in Exchanges.              *)
(***************************************************************************)
EXTENDS Integers, Sequences, FiniteSets, FiniteSetsExt, SequencesExt

CONSTANTS
  Exchanges,       \* sequence of exchanges, in the order of the dictionaries
  Ranking,         \* the same in the order of their scores, the best first
  Pairs,           \* symbols
  Listings,        \* exchange -> [symbols, least, most]: its metadata, once registered
  OrderSizes,      \* quantities to be routed
  Prices,          \* prices that may be reported
  Holdings,        \* quantities an exchange may hold of a symbol
  CashThere,       \* cash on each exchange
  MinSpread, MinProfit,     \* min_spread_bps and min_profit_bps
  CostBetween(_, _),        \* _estimate_transaction_costs_bps
  MaxSyncs         \* bound on the synchronisations

Venues == Range(Exchanges)
Nowhere == "nowhere"

\* Every exchange has its place in the ranking.
ASSUME ExchangesAssumption ==
  /\ Ranking \in Seq(Venues) /\ Venues \subseteq Range(Ranking)
  /\ Nowhere \notin Venues

VARIABLES
  venue,       \* external: per exchange [up, answers, holds]
  listed,      \* _metadata: the exchanges registered
  health,      \* _health_status
  routed,      \* the last answer of route_order, with what it was asked
  quotes,      \* _prices: [exchange -> [symbol -> price]]
  found,       \* the opportunities of the last detection
  book,        \* CrossExchangePortfolio: [quantity, cash, realized, syncs]
  plan         \* the last plan to reach a quantity: [delta, trades]

exchangeVars == <<venue, listed, health, routed, quotes, found, book, plan>>

NoRoute == [to |-> Nowhere, size |-> 0, fits |-> {}, eligible |-> {}]

ExchangesInit ==
  /\ venue = [x \in Venues |-> [up |-> TRUE, answers |-> TRUE, holds |-> [p \in Pairs |-> 0]]]
  /\ listed = {}
  /\ health = [x \in Venues |-> "unknown"]
  /\ routed = NoRoute
  /\ quotes = [x \in Venues |-> [p \in Pairs |-> 0]]
  /\ found = {}
  /\ book = [quantity |-> [p \in Pairs |-> [x \in {} |-> 0]], cash |-> 0, realized |-> 0, syncs |-> 0]
  /\ plan = [delta |-> 0, trades |-> {}]
-----------------------------------------------------------------------------
RegisterExchange(x) ==
  /\ listed' = listed \cup {x}
  /\ UNCHANGED <<venue, health, routed, quotes, found, book, plan>>

\* check_health of one exchange or all: connected, degraded when the balance fails, or
\* disconnected.
StatusOf(x) ==
  CASE venue[x].up /\ venue[x].answers -> "connected"
    [] venue[x].up /\ ~venue[x].answers -> "degraded"
    [] OTHER -> "disconnected"
CheckHealth(S) ==
  /\ health' = [x \in Venues |-> IF x \in S THEN StatusOf(x) ELSE health[x]]
  /\ UNCHANGED <<venue, listed, routed, quotes, found, book, plan>>

\* rank_exchanges_for_symbol, and route_order: the best that takes the size, or else the
\* best.  Slip: the best.
BestOf(S) == IF S = {} THEN Nowhere ELSE Ranking[Min({k \in DOMAIN Ranking : Ranking[k] \in S})]
Ranked(p) == {x \in Venues : health[x] = "connected" /\ x \in listed /\ p \in Listings[x].symbols}
Takes(x, size) == Listings[x].least <= size /\ size <= Listings[x].most
RouteUnsized(p, size) == BestOf(Ranked(p))
Route(p, size) ==
  LET taking == {x \in Ranked(p) : Takes(x, size)} IN
  IF taking # {} THEN BestOf(taking) ELSE BestOf(Ranked(p))
RouteOrder(p, size) ==
  /\ routed' = [to |-> Route(p, size), size |-> size,
                eligible |-> {x \in listed : health[x] = "connected" /\ p \in Listings[x].symbols},
                fits |-> {x \in listed : health[x] = "connected" /\ p \in Listings[x].symbols
                                         /\ Takes(x, size)}]
  /\ UNCHANGED <<venue, listed, health, quotes, found, book, plan>>
-----------------------------------------------------------------------------
\* update_price, of the detector and of the portfolio.
UpdatePrice(x, p, price) ==
  /\ quotes' = [quotes EXCEPT ![x][p] = price]
  /\ UNCHANGED <<venue, listed, health, routed, found, book, plan>>

\* _calculate_spread_bps, of two prices above 0.
SpreadBps(buy, sell) == (20000 * (sell - buy)) \div (buy + sell)

\* detect_cross_exchange_arbitrage: of two exchanges the earlier one is where to buy.  The
\* other way round is looked at only when it loses, and never found.
WorthIt(x, y, p) ==
  LET spread == SpreadBps(quotes[x][p], quotes[y][p]) IN
  spread >= MinSpread /\ spread - CostBetween(x, y) >= MinProfit
Opportunities(p) ==
  {<<Exchanges[q[1]], Exchanges[q[2]], p>> : q \in
     {q \in (DOMAIN Exchanges) \X (DOMAIN Exchanges) :
        /\ q[1] < q[2]
        /\ 0 < quotes[Exchanges[q[1]]][p]
        /\ quotes[Exchanges[q[1]]][p] < quotes[Exchanges[q[2]]][p]
        /\ WorthIt(Exchanges[q[1]], Exchanges[q[2]], p)}}

\* scan_all_symbols
Detect(S) ==
  /\ found' = UNION {Opportunities(p) : p \in S}
  /\ UNCHANGED <<venue, listed, health, routed, quotes, book, plan>>
-----------------------------------------------------------------------------
\* sync_positions: each time the cash is added to what was there, a position that is gone
\* stays, and an exchange that breaks off after its balance has had its cash counted.
SyncPositions(broken) ==
  LET reached == {x \in Venues : venue[x].up /\ venue[x].answers}
      holders(p) == {x \in reached \ broken : venue[x].holds[p] # 0}
  IN /\ book.syncs < MaxSyncs
     /\ book' = [book EXCEPT
          !.syncs = @ + 1,
          !.cash = @ + CashThere * Cardinality(reached),
          !.quantity = [p \in Pairs |->
             [x \in (DOMAIN @[p]) \cup holders(p) |->
                IF x \in holders(p) THEN venue[x].holds[p] ELSE @[p][x]]]]
     /\ UNCHANGED <<venue, listed, health, routed, quotes, found, plan>>

\* get_unified_positions
UnifiedQuantity(p) == MapThenSumSet(LAMBDA x : book.quantity[p][x], DOMAIN book.quantity[p])

\* synchronize_cross_exchange_position: the best exchange takes all of it, unless it
\* scores less than a half.
PlanPosition(p, target, scores) ==
  LET delta == target - UnifiedQuantity(p)
      able == {x \in Venues : venue[x].up}
  IN /\ plan' = [delta |-> delta,
                 trades |-> IF delta = 0 \/ able = {} \/ ~scores THEN {} ELSE {<<BestOf(able), delta>>}]
     /\ UNCHANGED <<venue, listed, health, routed, quotes, found, book>>

\* record_fill: a purchase is booked as a gain.
RecordFill(quantity, price, isBuy) ==
  /\ book.realized = 0
  /\ book' = [book EXCEPT !.realized = @ + quantity * price * (IF isBuy THEN 1 ELSE -1)]
  /\ UNCHANGED <<venue, listed, health, routed, quotes, found, plan>>

\* External: an exchange goes or comes back, or what it holds changes.
VenueChanges(x) ==
  /\ \E up, well \in BOOLEAN : venue' = [venue EXCEPT ![x].up = up, ![x].answers = well]
  /\ UNCHANGED <<listed, health, routed, quotes, found, book, plan>>
VenueTrades(x, p) ==
  /\ \E q \in Holdings : venue' = [venue EXCEPT ![x].holds[p] = q]
  /\ UNCHANGED <<listed, health, routed, quotes, found, book, plan>>

RoutingNext ==
  \/ \E x \in Venues : RegisterExchange(x) \/ CheckHealth({x}) \/ VenueChanges(x)
  \/ CheckHealth(Venues)
  \/ \E p \in Pairs, size \in OrderSizes : RouteOrder(p, size)
ArbitrageNext ==
  \/ \E x \in Venues, p \in Pairs, price \in Prices : UpdatePrice(x, p, price)
  \/ Detect(Pairs) \/ \E p \in Pairs : Detect({p})
PortfolioNext ==
  \/ \E x \in Venues : VenueChanges(x) \/ \E p \in Listings[x].symbols : VenueTrades(x, p)
  \/ \E broken \in SUBSET Venues : SyncPositions(broken)
  \/ \E p \in Pairs, target \in Holdings, scores \in BOOLEAN : PlanPosition(p, target, scores)
  \/ \E isBuy \in BOOLEAN : RecordFill(1, Min(Prices), isBuy)

ExchangesNext == RoutingNext \/ ArbitrageNext \/ PortfolioNext
ExchangesSpec == ExchangesInit /\ [][ExchangesNext]_exchangeVars
-----------------------------------------------------------------------------
\* An order is routed to an exchange that is registered, lists the symbol and was connected
\* when last looked at; and whenever one of those takes its size, to one that does
\* (exchange/manager.py, rank_exchanges_for_symbol, route_order).
RoutedWhereItFits ==
  /\ routed.to = Nowhere <=> routed.eligible = {}
  /\ routed.to # Nowhere => routed.to \in routed.eligible
  /\ routed.fits # {} => routed.to \in routed.fits
=============================================================================
