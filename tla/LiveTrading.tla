---------------------------- MODULE LiveTrading ----------------------------
(***************************************************************************)
(* A paper session at work: the tick thread of live/trading_engine.py in   *)
(* its direct mode (_execute_signal_direct), the /buy and /sell commands   *)
(* of interfaces/telegram/controller.py on the bot's thread, and what both *)
(* share: the broker (PaperBroker), the RiskManager and the trade table.   *)
(*                                                                         *)
(* A tick goes through the symbols one by one and a HOLD changes nothing,  *)
(* so a loop is a thread that takes up a BUY or SELL signal, at any price, *)
(* whenever it is done with the one before.  The bot's commands run one    *)
(* after the other on its event loop.                                      *)
(***************************************************************************)
EXTENDS Integers, Sequences, FiniteSets, Functions

CONSTANTS
  Loops,            \* engine threads: one, or more after a second /startbot
  Bots,             \* the Telegram thread, if the session has one
  Symbols,
  Quantities,       \* every order size the session can come to
  Prices,
  SignalPrices,     \* the prices a strategy's signal may carry, all positive
  BotQuantities,    \* the sizes users ask the bot for
  InitialCapital,   \* the broker's
  RiskCapital,      \* the RiskManager's initial_capital, which the engine does not set
  MaxPositionPct,   \* MAX_POSITION_SIZE_PCT, in per cent
  MaxDailyLossPct,  \* MAX_DAILY_LOSS_PCT, in per cent
  MaxOrders,        \* bound on the broker's orders
  MaxDay,           \* bound on the days
  MaxFaults         \* bound on failed inserts

ASSUME LiveAssumption ==
  /\ IsFiniteSet(Loops) /\ IsFiniteSet(Bots) /\ Loops \cap Bots = {}
  /\ Symbols # {}
  /\ SignalPrices \subseteq Prices \ {0}
  /\ BotQuantities \subseteq Quantities
  /\ InitialCapital \in Nat
  /\ RiskCapital \in Nat \ {0}
  /\ MaxPositionPct \in 0..100
  /\ MaxDailyLossPct \in 0..100
  /\ MaxOrders \in Nat /\ MaxDay \in Nat /\ MaxFaults \in Nat

VARIABLES
  cash, book, heap, tradeLog, failed, calls,   \* the broker
  day,           \* date.today()
  riskDay,       \* RiskManager._current_date
  dailyPnl,      \* RiskManager._daily_pnl
  rows,          \* the trades table
  alerts,        \* exceptions reported to the user
  faults,        \* inserts that have failed
  work           \* what each thread is in the middle of

brokerVars == <<cash, book, heap, tradeLog, failed, calls>>
riskVars == <<riskDay, dailyPnl>>
vars == <<brokerVars, day, riskVars, rows, alerts, faults, work>>

Threads == Loops \cup Bots

Broker == INSTANCE PaperBroker

\* The locals of a handler: the signal or the command, the Position object it
\* holds, the floats it has copied.
NoWork == [at |-> "idle", symbol |-> CHOOSE s \in Symbols : TRUE, side |-> "BUY",
           price |-> 0, quantity |-> 0, position |-> 0, entry |-> 0,
           held |-> {}, portfolio |-> 0, pnl |-> 0]

Done(t) == work' = [work EXCEPT ![t] = NoWork]

Init ==
  /\ Broker!Init
  /\ day = 0
  /\ riskDay = 0
  /\ dailyPnl = 0
  /\ rows = <<>>
  /\ alerts = 0
  /\ faults = 0
  /\ work = [t \in Threads |-> NoWork]
-----------------------------------------------------------------------------
\* RiskManager

\* _reset_daily_if_needed
PnlToday == IF riskDay = day THEN dailyPnl ELSE 0

AbsolutePnl == IF PnlToday < 0 THEN -PnlToday ELSE PnlToday

\* check_trade as the engine calls it: without current_positions and cash, so
\* the limits on open positions and on the cash reserve are not tested.  A
\* portfolio of no value passes for the initial one.
TradeAllowed(quantity, price, value) ==
  LET portfolio == IF value = 0 THEN RiskCapital ELSE value IN
  /\ quantity * price * 100 <= portfolio * MaxPositionPct
  /\ AbsolutePnl * 100 < portfolio * MaxDailyLossPct

\* Slip: the size is rounded up.
PositionSizeUp(price, available) ==
  (available * MaxPositionPct + 100 * price - 1) \div (100 * price)

\* Slip: the size is that of the initial capital.
PositionSizeOfCapital(price, available) == (InitialCapital * MaxPositionPct) \div (100 * price)

\* _calculate_position_size
PositionSize(price, available) == (available * MaxPositionPct) \div (100 * price)
-----------------------------------------------------------------------------
\* The engine: _process_symbol, _execute_signal_direct

\* A signal is generated; get_position hands out the live Position object.  A BUY
\* is acted on without a position, a SELL with one, any other changes nothing; a
\* SELL has no use for the account.
TakeSignal(t, s, side, p) ==
  /\ work[t].at = "idle"
  /\ (side = "BUY") <=> (book[s] = 0)
  /\ work' = [work EXCEPT ![t] = [NoWork EXCEPT
       !.at = IF side = "BUY" THEN "account" ELSE "decide",
       !.symbol = s, !.side = side, !.price = p, !.position = book[s]]]
  /\ UNCHANGED <<brokerVars, day, riskVars, rows, alerts, faults>>

\* get_account lists the positions, then reads the cash, then adds up what the
\* listed positions are worth by now.
ListPositions(t) ==
  /\ work[t].at = "account"
  /\ work' = [work EXCEPT ![t].at = "cash", ![t].held = {book[s] : s \in Symbols} \ {0}]
  /\ UNCHANGED <<brokerVars, day, riskVars, rows, alerts, faults>>

ReadCash(t) ==
  /\ work[t].at = "cash"
  /\ work' = [work EXCEPT ![t].at = "sum", ![t].portfolio = cash]
  /\ UNCHANGED <<brokerVars, day, riskVars, rows, alerts, faults>>

SumPositions(t) ==
  /\ work[t].at = "sum"
  /\ work' = [work EXCEPT ![t].at = "decide", ![t].held = {},
                          ![t].portfolio = @ + SumFunction([obj \in work[t].held |->
                                                             Broker!MarketValue(heap[obj])])]
  /\ UNCHANGED <<brokerVars, day, riskVars, rows, alerts, faults>>

\* BUY: account.cash is read, the order sized, checked and sent.
EngineBuy(t) ==
  LET w == work[t]
      quantity == PositionSize(w.price, cash) IN
  /\ w.at = "decide" /\ w.side = "BUY"
  /\ \/ /\ quantity = 0
        /\ Done(t)
        /\ UNCHANGED <<brokerVars, riskVars>>
     \/ /\ quantity > 0
        /\ riskDay' = day /\ dailyPnl' = PnlToday
        /\ \/ /\ ~TradeAllowed(quantity, w.price, w.portfolio)
              /\ Done(t)
              /\ UNCHANGED brokerVars
           \/ /\ TradeAllowed(quantity, w.price, w.portfolio)
              /\ Broker!PlaceOrder(t, [symbol |-> w.symbol, side |-> "BUY",
                                       quantity |-> quantity, price |-> w.price])
              /\ work' = [work EXCEPT ![t].at = "placed", ![t].quantity = quantity]
  /\ UNCHANGED <<day, rows, alerts, faults>>

\* SELL: the whole position, as large as it is now.
EngineSell(t) ==
  LET w == work[t]
      quantity == heap[w.position].quantity IN
  /\ w.at = "decide" /\ w.side = "SELL"
  /\ Broker!PlaceOrder(t, [symbol |-> w.symbol, side |-> "SELL",
                           quantity |-> quantity, price |-> w.price])
  /\ work' = [work EXCEPT ![t].at = "placed", ![t].quantity = quantity]
  /\ UNCHANGED <<day, riskVars, rows, alerts, faults>>

\* Slip: every trade is stored as a BUY.
InsertAsBuy(t, quantity, pnl) ==
  rows' = Append(rows, [symbol |-> work[t].symbol, side |-> "BUY", by |-> t, day |-> day,
                        quantity |-> quantity, price |-> work[t].price, pnl |-> pnl])

\* Slip: the trade's value is stored as its price.
InsertValue(t, quantity, pnl) ==
  rows' = Append(rows, [symbol |-> work[t].symbol, side |-> work[t].side, by |-> t, day |-> day,
                        quantity |-> quantity, price |-> work[t].price * quantity, pnl |-> pnl])

\* The insert: trade_repo.record_buy, record_sell.
Insert(t, quantity, pnl) ==
  rows' = Append(rows, [symbol |-> work[t].symbol, side |-> work[t].side, by |-> t, day |-> day,
                        quantity |-> quantity, price |-> work[t].price, pnl |-> pnl])

Returned(t, result) ==
  /\ work[t].at = "placed"
  /\ ~Broker!Busy(t)
  /\ calls[t].result = result

\* Slip: the position's size is recorded instead of the order's.
EngineRecordBuyPosition(t) ==
  /\ t \in Loops /\ Returned(t, "FILLED") /\ work[t].side = "BUY"
  /\ Insert(t, IF book[work[t].symbol] = 0 THEN 0 ELSE heap[book[work[t].symbol]].quantity, 0)
  /\ Done(t)
  /\ UNCHANGED <<brokerVars, day, riskVars, alerts, faults>>

\* BUY filled: it is recorded.
EngineRecordBuy(t) ==
  /\ t \in Loops /\ Returned(t, "FILLED") /\ work[t].side = "BUY"
  /\ Insert(t, work[t].quantity, 0)
  /\ Done(t)
  /\ UNCHANGED <<brokerVars, day, riskVars, alerts, faults>>

\* SELL filled: quantity and P&L are read from the Position object as it is now.
EngineRecordSell(t) ==
  LET w == work[t]
      pos == heap[w.position]
      pnl == (w.price - pos.avg) * pos.quantity IN
  /\ t \in Loops /\ Returned(t, "FILLED") /\ w.side = "SELL"
  /\ Insert(t, pos.quantity, pnl)
  /\ work' = [work EXCEPT ![t].at = "risk", ![t].pnl = pnl]
  /\ UNCHANGED <<brokerVars, day, riskVars, alerts, faults>>

\* Slip: only losses are added up.
RecordLoss(t) ==
  /\ work[t].at = "risk"
  /\ riskDay' = day
  /\ dailyPnl' = PnlToday + (IF work[t].pnl < 0 THEN work[t].pnl ELSE 0)
  /\ Done(t)
  /\ UNCHANGED <<brokerVars, day, rows, alerts, faults>>

\* risk_manager.record_pnl
RecordPnl(t) ==
  /\ work[t].at = "risk"
  /\ riskDay' = day
  /\ dailyPnl' = PnlToday + work[t].pnl
  /\ Done(t)
  /\ UNCHANGED <<brokerVars, day, rows, alerts, faults>>
-----------------------------------------------------------------------------
\* The bot: _cmd_buy, _cmd_sell.  The price is the broker's latest one, 0 if it
\* has no position; the awaited reply lets the engine run before place_order.

LatestPrice(s) == IF book[s] = 0 THEN 0 ELSE heap[book[s]].price

BotCommand(t, s, side, q) ==
  /\ work[t].at = "idle"
  /\ work' = [work EXCEPT ![t] =
       [NoWork EXCEPT !.at = "reply", !.symbol = s, !.side = side, !.quantity = q,
                      !.price = LatestPrice(s),
                      !.entry = IF side = "BUY" \/ book[s] = 0 THEN 0 ELSE heap[book[s]].avg]]
  /\ UNCHANGED <<brokerVars, day, riskVars, rows, alerts, faults>>

BotPlace(t) ==
  LET w == work[t] IN
  /\ w.at = "reply"
  /\ Broker!PlaceOrder(t, [symbol |-> w.symbol, side |-> w.side,
                           quantity |-> w.quantity, price |-> w.price])
  /\ work' = [work EXCEPT ![t].at = "placed"]
  /\ UNCHANGED <<day, riskVars, rows, alerts, faults>>

\* Filled: recorded with the P&L of the copied entry price; the RiskManager is
\* not told.
BotRecord(t) ==
  LET w == work[t] IN
  /\ t \in Bots /\ Returned(t, "FILLED")
  /\ Insert(t, w.quantity, IF w.side = "SELL" /\ w.entry # 0
                           THEN (w.price - w.entry) * w.quantity ELSE 0)
  /\ Done(t)
  /\ UNCHANGED <<brokerVars, day, riskVars, alerts, faults>>
-----------------------------------------------------------------------------
\* Rejected: the engine drops the signal, the bot says so.
Rejected(t) ==
  /\ Returned(t, "REJECTED")
  /\ Done(t)
  /\ UNCHANGED <<brokerVars, day, riskVars, rows, alerts, faults>>

\* place_order raised: _trading_tick, or the command, reports the exception.
Raised(t) ==
  /\ Returned(t, "ERROR")
  /\ alerts' = alerts + 1
  /\ Done(t)
  /\ UNCHANGED <<brokerVars, day, riskVars, rows, faults>>

\* Slip: the failed insert is swallowed.
InsertFailsSilently(t) ==
  /\ Returned(t, "FILLED")
  /\ faults < MaxFaults
  /\ faults' = faults + 1
  /\ Done(t)
  /\ UNCHANGED <<brokerVars, day, riskVars, rows, alerts>>

\* The insert fails (the database is locked, the disk is full): what follows it
\* in the handler is skipped and the exception reported.
InsertFails(t) ==
  /\ Returned(t, "FILLED")
  /\ faults < MaxFaults
  /\ faults' = faults + 1
  /\ alerts' = alerts + 1
  /\ Done(t)
  /\ UNCHANGED <<brokerVars, day, riskVars, rows>>

BrokerStep(t) ==
  /\ Broker!Step(t)
  /\ UNCHANGED <<day, riskVars, rows, alerts, faults, work>>

Midnight ==
  /\ day < MaxDay
  /\ day' = day + 1
  /\ UNCHANGED <<brokerVars, riskVars, rows, alerts, faults, work>>

Next ==
  \/ \E t \in Loops :
       \/ \E s \in Symbols, side \in {"BUY", "SELL"}, p \in SignalPrices :
            TakeSignal(t, s, side, p)
       \/ ListPositions(t) \/ ReadCash(t) \/ SumPositions(t)
       \/ EngineBuy(t) \/ EngineSell(t)
       \/ EngineRecordBuy(t) \/ EngineRecordSell(t) \/ RecordPnl(t)
  \/ \E t \in Bots :
       \/ \E s \in Symbols, side \in {"BUY", "SELL"}, q \in BotQuantities :
            BotCommand(t, s, side, q)
       \/ BotPlace(t) \/ BotRecord(t)
  \/ \E t \in Threads :
       BrokerStep(t) \/ Rejected(t) \/ Raised(t) \/ InsertFails(t)
  \/ Midnight

Spec == Init /\ [][Next]_vars
-----------------------------------------------------------------------------
Stages == {"idle", "account", "cash", "sum", "decide", "reply", "placed", "risk"}
Sides == {"BUY", "SELL"}

\* The type invariant.
TypeOK ==
  /\ Broker!TypeOK
  /\ day \in 0..MaxDay
  /\ riskDay \in 0..day
  /\ dailyPnl \in Int
  /\ rows \in Seq([symbol : Symbols, side : Sides, by : Threads, day : 0..MaxDay,
                   quantity : Nat, price : Prices, pnl : Int])
  /\ alerts \in Nat
  /\ faults \in 0..MaxFaults
  /\ work \in [Threads -> [at : Stages, symbol : Symbols, side : Sides, price : Nat,
                          quantity : Nat, position : 0..Len(heap), entry : Nat,
                          held : SUBSET (1..Len(heap)), portfolio : Int, pnl : Int]]

\* A position the engine opens costs at most MAX_POSITION_SIZE_PCT of the cash it
\* is paid from: the size is computed from the cash of get_account, several calls
\* before place_order debits it (_calculate_position_size, place_order).
NewPositionWithinLimit ==
  [][\A s \in Symbols :
       book[s] = 0 /\ book'[s] # 0 =>
         LET cost == heap'[book'[s]].quantity * heap'[book'[s]].avg
         IN cost * 100 <= (cash + cost) * MaxPositionPct]_vars

\* What the engine orders when it trades alone is filled: it can pay for what it
\* buys and holds what it sells (_execute_signal_direct).
EngineOrdersFill ==
  \A t \in Loops : calls[t].result \notin {"REJECTED", "ERROR"}
=============================================================================
