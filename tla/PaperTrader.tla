----------------------------- MODULE PaperTrader -----------------------------
(***************************************************************************)
(* PaperTrader with its OrderFiller and StopLossManager (adapters/         *)
(* execution/paper_trader, fill, order; core/risk_management/stop_loss):   *)
(* orders are submitted, executed once or again, positions are averaged    *)
(* up and down, sold in parts and stopped out.                             *)
(*                                                                         *)
(* A position's entry price is an average; it is kept as the cost basis,   *)
(* quantity times entry price, so that what is sold of it takes its share  *)
(* of the basis with it.                                                   *)
(***************************************************************************)
EXTENDS Integers, Sequences, FiniteSets, Functions, SequencesExt

CONSTANTS
  Traded,          \* symbols
  TradeSizes,      \* order quantities
  BarsSeen,        \* [price, high, low]: 0 for a high or low that is not passed
  LimitPrices,     \* limit prices: 0 for None
  InitialBalance,
  FeePercent,      \* commission
  StopPercent,     \* default_stop_pct
  MaxOrders,       \* bound on the orders submitted
  MaxTrades        \* bound on the trades completed

ASSUME TraderAssumption ==
  /\ IsFiniteSet(Traded)
  /\ TradeSizes \subseteq Nat \ {0}
  /\ BarsSeen \subseteq [price : Nat, high : Nat, low : Nat]
  /\ LimitPrices \subseteq Nat
  /\ InitialBalance \in Int
  /\ FeePercent \in Nat
  /\ StopPercent \in 0..100

VARIABLES
  cashBalance,
  holdings,     \* positions: per symbol quantity (0: none), basis, stop (0: none), price
  orders,       \* orders
  trades,       \* trades: how many, and what their pnl adds up to
  openingFees,  \* history: commissions of purchases that opened a position
  checked       \* the prices check_stop_losses has just seen, or <<>>

traderVars == <<cashBalance, holdings, orders, trades, openingFees, checked>>

NoHolding == [quantity |-> 0, basis |-> 0, stop |-> 0, price |-> 0]

TraderInit ==
  /\ cashBalance = InitialBalance
  /\ holdings = [s \in Traded |-> NoHolding]
  /\ orders = <<>>
  /\ trades = [count |-> 0, pnl |-> 0]
  /\ openingFees = 0
  /\ checked = <<>>

OrderOf(symbol, side, type, quantity, limit) ==
  [symbol |-> symbol, side |-> side, type |-> type, quantity |-> quantity, limit |-> limit,
   status |-> "PENDING", price |-> 0, fee |-> 0]

\* submit_order
SubmitOrder(symbol, side, type, quantity, limit) ==
  /\ Len(orders) < MaxOrders
  /\ orders' = Append(orders, OrderOf(symbol, side, type, quantity, limit))
  /\ checked' = <<>>
  /\ UNCHANGED <<cashBalance, holdings, trades, openingFees>>
-----------------------------------------------------------------------------
FilledAt(order, price) ==
  [order EXCEPT !.status = "FILLED", !.price = price,
                !.fee = (order.quantity * price * FeePercent) \div 100]

\* fill_market_order: a purchase at the high, a sale at the low, where given.
\* PaperTrader leaves slippage_pct at 0.
FillMarket(order, bar) ==
  FilledAt(order, CASE order.side = "BUY" /\ bar.high # 0 -> bar.high
                    [] order.side = "SELL" /\ bar.low # 0 -> bar.low
                    [] OTHER -> bar.price)

\* fill_limit_order: at the limit, if the bar reached it.
FillLimit(order, bar) ==
  LET low == IF bar.low # 0 THEN bar.low ELSE bar.price
      high == IF bar.high # 0 THEN bar.high ELSE bar.price
      reached == IF order.side = "BUY" THEN low <= order.limit ELSE high >= order.limit
  IN CASE order.limit = 0 -> [order EXCEPT !.status = "REJECTED"]
       [] order.limit # 0 /\ reached -> FilledAt(order, order.limit)
       [] OTHER -> order

\* fill_order: only a pending order, and a stop order never.
FillOrder(order, bar) ==
  CASE order.status = "PENDING" /\ order.type = "MARKET" -> FillMarket(order, bar)
    [] order.status = "PENDING" /\ order.type = "LIMIT" -> FillLimit(order, bar)
    [] OTHER -> order

\* The account execute_order leaves, as a record of the variables it writes.
Account == [cash |-> cashBalance, held |-> holdings, trades |-> trades, fees |-> openingFees,
            status |-> "FILLED"]
Rejected(account) == [account EXCEPT !.status = "REJECTED"]

\* Slip: the average leaves the commission out.
BookBuyAveraged(account, order) ==
  LET value == order.quantity * order.price IN
  IF account.cash < value + order.fee THEN Rejected(account)
  ELSE [account EXCEPT !.cash = @ - value - order.fee,
          !.fees = @ + IF account.held[order.symbol] = NoHolding THEN order.fee ELSE 0,
          !.held[order.symbol] = [@ EXCEPT !.quantity = @ + order.quantity, !.basis = @ + value,
                                           !.price = IF @ = 0 THEN order.price ELSE @]]

\* The BUY branch: a purchase pays its commission, which an average includes and an
\* opening price does not; the stop of the position stays.
BookBuy(account, order) ==
  LET value == order.quantity * order.price
      cost == value + order.fee
  IN CASE account.cash < cost -> Rejected(account)
       [] account.cash >= cost /\ account.held[order.symbol] = NoHolding ->
            [account EXCEPT !.cash = @ - cost, !.fees = @ + order.fee,
               !.held[order.symbol] = [quantity |-> order.quantity, basis |-> value,
                                       stop |-> 0, price |-> order.price]]
       [] OTHER ->
            [account EXCEPT !.cash = @ - cost,
               !.held[order.symbol].quantity = @ + order.quantity,
               !.held[order.symbol].basis = @ + cost]

\* The SELL branch: no more than is held, at the commission of the whole order.
BookSell(account, order) ==
  LET pos == account.held[order.symbol]
      sold == IF order.quantity > pos.quantity THEN pos.quantity ELSE order.quantity
      share == (pos.basis * sold) \div pos.quantity
  IN IF pos = NoHolding THEN Rejected(account)
     ELSE [account EXCEPT
             !.cash = @ + sold * order.price - order.fee,
             !.trades.count = @ + 1,
             !.trades.pnl = @ + sold * order.price - (share + order.fee),
             !.held[order.symbol] = IF sold = pos.quantity THEN NoHolding
                                    ELSE [pos EXCEPT !.quantity = @ - sold, !.basis = @ - share]]

Book(account, order) ==
  IF order.side = "BUY" THEN BookBuy(account, order) ELSE BookSell(account, order)

TakeAccount(account) ==
  /\ cashBalance' = account.cash
  /\ holdings' = account.held
  /\ trades' = account.trades
  /\ openingFees' = account.fees

\* execute_order: a pending limit order may be tried again; an order filled before is
\* booked once more, since only its status is asked for.
TraderExecute(i, bar) ==
  LET order == FillOrder(orders[i], bar)
      account == Book(Account, order)
  IN /\ IF order.status # "FILLED"
        THEN /\ orders' = [orders EXCEPT ![i] = order]
             /\ UNCHANGED <<cashBalance, holdings, trades, openingFees>>
        ELSE /\ orders' = [orders EXCEPT ![i] = [order EXCEPT !.status = account.status]]
             /\ TakeAccount(account)
     /\ trades.count < MaxTrades
     /\ checked' = <<>>
-----------------------------------------------------------------------------
\* External: the caller sets a position's stop from calculate_stop_loss.
SetStop(symbol) ==
  /\ holdings[symbol] # NoHolding
  /\ LET entry == holdings[symbol].basis \div holdings[symbol].quantity IN
     holdings' = [holdings EXCEPT ![symbol].stop = (entry * (100 - StopPercent)) \div 100]
  /\ checked' = <<>>
  /\ UNCHANGED <<cashBalance, orders, trades, openingFees>>

\* update_position_price
UpdatePrice(symbol, price) ==
  /\ holdings[symbol] # NoHolding
  /\ holdings' = [holdings EXCEPT ![symbol].price = price]
  /\ checked' = <<>>
  /\ UNCHANGED <<cashBalance, orders, trades, openingFees>>

\* Slip: a price at the stop is not yet a hit.
HitBelow(prices) ==
  {s \in Traded : holdings[s] # NoHolding /\ holdings[s].stop # 0 /\ prices[s] < holdings[s].stop}

\* The symbols whose stop a price has reached.
Hit(prices) ==
  {s \in Traded : holdings[s] # NoHolding /\ holdings[s].stop # 0 /\ prices[s] <= holdings[s].stop}

StopOrder(symbol, price) ==
  FilledAt(OrderOf(symbol, "SELL", "MARKET", holdings[symbol].quantity, 0), price)

Proceeds(order) == order.quantity * order.price - order.fee

\* check_stop_losses: each of them is sold whole at its price, one after the other.
\* Positions whose price the caller has not got are passed over (not tried here:
\* prices has every symbol).
CheckStopLosses(prices) ==
  LET hit == Hit(prices)
      sale == [s \in hit |-> StopOrder(s, prices[s])]
  IN /\ Len(orders) + Cardinality(hit) <= MaxOrders
     /\ cashBalance' = cashBalance + SumFunction([s \in hit |-> Proceeds(sale[s])])
     /\ holdings' = [s \in Traded |-> IF s \in hit THEN NoHolding ELSE holdings[s]]
     /\ trades' = [count |-> trades.count + Cardinality(hit),
                   pnl |-> trades.pnl + SumFunction([s \in hit |-> Proceeds(sale[s]) - holdings[s].basis])]
     /\ \E sequence \in SetToSeqs(hit) :
          orders' = orders \o [k \in DOMAIN sequence |-> sale[sequence[k]]]
     /\ checked' = prices
     /\ UNCHANGED openingFees

TraderNext ==
  \/ \E s \in Traded, side \in {"BUY", "SELL"}, q \in TradeSizes :
       \/ SubmitOrder(s, side, "MARKET", q, 0)
       \/ \E l \in LimitPrices : SubmitOrder(s, side, "LIMIT", q, l)
  \/ \E i \in DOMAIN orders, b \in BarsSeen : TraderExecute(i, b)
  \/ \E s \in Traded : SetStop(s) \/ \E b \in BarsSeen : UpdatePrice(s, b.price)
  \/ \E p \in [Traded -> {b.price : b \in BarsSeen}] : CheckStopLosses(p)

TraderSpec == TraderInit /\ [][TraderNext]_traderVars
-----------------------------------------------------------------------------
\* get_total_equity, and get_summary's unrealized and realized P&L.
OverPositions(op(_)) == SumFunction([s \in Traded |-> op(holdings[s])])
TotalEquity == cashBalance + OverPositions(LAMBDA p : p.quantity * p.price)
UnrealizedPnl == OverPositions(LAMBDA p : p.quantity * p.price - p.basis)
RealizedPnl == trades.pnl

\* The summary's total P&L is the realized and the unrealized one together, less the
\* commissions of opening purchases, which no position and no trade accounts for:
\* through averages, partial sales, stops and orders executed twice
\* (paper_trader.py, execute_order, get_summary).
SummaryAddsUp ==
  TotalEquity - InitialBalance = RealizedPnl + UnrealizedPnl - openingFees

\* When check_stop_losses returns, no position is left whose price is at its stop,
\* also where averaging down has left an old stop above the entry price
\* (paper_trader.py, check_stop_losses).
StopsHonoured ==
  checked # <<>> => \A s \in Traded :
    holdings[s].quantity > 0 /\ holdings[s].stop # 0 => checked[s] > holdings[s].stop
=============================================================================
