---------------------------- MODULE PaperBroker ----------------------------
(***************************************************************************)
(* quantumtrade/adapters/brokers/paper_broker.py: the broker every paper   *)
(* session trades against.  Its cash, its dictionary of positions and its  *)
(* trade log are shared, without a lock, by the engine's tick thread and   *)
(* the thread of the Telegram bot, so a call of place_order is modelled as *)
(* the steps between which CPython may switch threads.  The interpreter    *)
(* the project builds on (Dockerfile: python 3.11) switches at calls and   *)
(* backward jumps only: the test of the funds and the debit are one step,  *)
(* the look-up of the position (a call of dict.get) ends it, the update of *)
(* the position is the next step, the log entry the last.                  *)
(*                                                                         *)
(* A Position is a mutable object that the dictionary, a caller that asked *)
(* for it and an order under way may all refer to.  The objects are kept   *)
(* in the sequence heap, an object is its index there, and 0 is None.      *)
(*                                                                         *)
(* Money and shares are integers.  The average entry price, a float in the *)
(* code, is rounded down to an integer.                                    *)
(***************************************************************************)
EXTENDS Integers, Sequences, FiniteSets

CONSTANTS
  Threads,         \* the threads that call place_order
  Symbols,
  Quantities,      \* order sizes in use
  Prices,          \* limit prices in use; 0 stands for a missing or zero price
  InitialCapital,
  MaxOrders        \* bound: orders logged, failed or under way

\* What a setting may be.
BrokerSetting ==
  /\ IsFiniteSet(Threads)
  /\ Symbols # {}
  /\ Quantities \subseteq Nat \ {0} /\ Quantities # {}
  /\ Prices \subseteq Nat /\ Prices # {}
  /\ InitialCapital \in Nat
  /\ MaxOrders \in Nat

ASSUME BrokerAssumption == BrokerSetting

VARIABLES
  cash,        \* _cash
  book,        \* _positions: the object of each symbol, 0 if it has none
  heap,        \* the Position objects created so far
  tradeLog,    \* _trade_log
  failed,      \* history: the orders whose call raised after their cash had moved
  calls        \* the call of place_order each thread is in

vars == <<cash, book, heap, tradeLog, failed, calls>>

\* A caller may sell nothing (a position that another thread has just sold out),
\* it never buys nothing.
Orders == [symbol : Symbols, side : {"BUY"}, quantity : Quantities, price : Prices]
     \cup [symbol : Symbols, side : {"SELL"}, quantity : Quantities \cup {0}, price : Prices]

\* The fill price is the limit price; without one it is 0.0.
Cost(o) == o.quantity * o.price

Positions == [symbol : Symbols, quantity : Nat, avg : Nat, price : Nat]

MarketValue(p) == p.quantity * p.price

\* What thread t's order is, and how far its call has come: "check" the funds
\* or the position, "book" the position, "record" the result.
Busy(t) == calls[t].at # "idle"

NoCall == [at |-> "idle", order |-> CHOOSE o \in Orders : TRUE,
           position |-> 0, result |-> "none"]

Return(t, r) == calls' = [calls EXCEPT ![t] = [NoCall EXCEPT !.result = r]]

Advance(t, stage, obj) ==
  calls' = [calls EXCEPT ![t].at = stage, ![t].position = obj]

Init ==
  /\ cash = InitialCapital
  /\ book = [s \in Symbols |-> 0]
  /\ heap = <<>>
  /\ tradeLog = <<>>
  /\ failed = <<>>
  /\ calls = [t \in Threads |-> NoCall]
-----------------------------------------------------------------------------
PlaceOrder(t, o) ==
  /\ ~Busy(t)
  /\ Len(tradeLog) + Len(failed) + Cardinality({u \in Threads : Busy(u)}) < MaxOrders
  /\ calls' = [calls EXCEPT ![t] = [at |-> "check", order |-> o,
                                    position |-> 0, result |-> "none"]]
  /\ UNCHANGED <<cash, book, heap, tradeLog, failed>>

\* Slip: the test of the funds is left out.
DebitUnchecked(t) ==
  /\ calls[t].at = "check"
  /\ calls[t].order.side = "BUY"
  /\ cash' = cash - Cost(calls[t].order)
  /\ Advance(t, "book", book[calls[t].order.symbol])
  /\ UNCHANGED <<book, heap, tradeLog, failed>>

\* BUY: the funds cover the order, so it is paid, and its position looked up.
Debit(t) ==
  LET o == calls[t].order IN
  /\ calls[t].at = "check"
  /\ o.side = "BUY"
  /\ Cost(o) <= cash
  /\ cash' = cash - Cost(o)
  /\ Advance(t, "book", book[o.symbol])
  /\ UNCHANGED <<book, heap, tradeLog, failed>>

RejectBuy(t) ==
  /\ calls[t].at = "check"
  /\ calls[t].order.side = "BUY"
  /\ Cost(calls[t].order) > cash
  /\ Return(t, "REJECTED")
  /\ UNCHANGED <<cash, book, heap, tradeLog, failed>>

\* Slip: a purchase overwrites the quantity.
AveragedForgets(p, o) ==
  [p EXCEPT !.quantity = o.quantity, !.avg = o.price, !.price = o.price]

\* The position object a purchase leaves behind, from the one it found.
Averaged(p, o) ==
  LET total == p.quantity + o.quantity IN
  [p EXCEPT !.quantity = total,
            !.avg = (p.avg * p.quantity + Cost(o)) \div total,
            !.price = o.price]

\* BUY: the position found before the switch is averaged up or down, even if it
\* has left the dictionary meanwhile; if none was found, a new one is stored,
\* even over one that another thread stored meanwhile.
BookBuy(t) ==
  LET o == calls[t].order
      obj == calls[t].position IN
  /\ calls[t].at = "book"
  /\ o.side = "BUY"
  /\ \/ /\ obj # 0
        /\ heap' = [heap EXCEPT ![obj] = Averaged(@, o)]
        /\ book' = book
     \/ /\ obj = 0
        /\ heap' = Append(heap, [symbol |-> o.symbol, quantity |-> o.quantity,
                                 avg |-> o.price, price |-> o.price])
        /\ book' = [book EXCEPT ![o.symbol] = Len(heap) + 1]
  /\ Advance(t, "record", obj)
  /\ UNCHANGED <<cash, tradeLog, failed>>

\* SELL: the position is looked up.
LookUp(t) ==
  /\ calls[t].at = "check"
  /\ calls[t].order.side = "SELL"
  /\ Advance(t, "book", book[calls[t].order.symbol])
  /\ UNCHANGED <<cash, book, heap, tradeLog, failed>>

\* Slip: any position covers any sale.
CoversAny(obj, o) == obj # 0

Covers(obj, o) == obj # 0 /\ heap[obj].quantity >= o.quantity

\* Slip: the proceeds are credited before the position is tested.
RejectSellCredited(t) ==
  /\ calls[t].at = "book"
  /\ calls[t].order.side = "SELL"
  /\ ~Covers(calls[t].position, calls[t].order)
  /\ cash' = cash + Cost(calls[t].order)
  /\ Return(t, "REJECTED")
  /\ UNCHANGED <<book, heap, tradeLog, failed>>

RejectSell(t) ==
  /\ calls[t].at = "book"
  /\ calls[t].order.side = "SELL"
  /\ ~Covers(calls[t].position, calls[t].order)
  /\ Return(t, "REJECTED")
  /\ UNCHANGED <<cash, book, heap, tradeLog, failed>>

\* Slip: a position sold out stays in the dictionary.
BookSellKeeps(t) ==
  LET o == calls[t].order
      obj == calls[t].position IN
  /\ calls[t].at = "book"
  /\ o.side = "SELL"
  /\ Covers(obj, o)
  /\ cash' = cash + Cost(o)
  /\ heap' = [heap EXCEPT ![obj].quantity = @ - o.quantity, ![obj].price = o.price]
  /\ Advance(t, "record", obj)
  /\ UNCHANGED <<book, failed, tradeLog>>

\* SELL: cash and position move together; a position sold out is deleted from
\* the dictionary by its symbol, whichever object is there, and the call raises
\* KeyError if none is.
BookSell(t) ==
  LET o == calls[t].order
      obj == calls[t].position
      left == heap[obj].quantity - o.quantity IN
  /\ calls[t].at = "book"
  /\ o.side = "SELL"
  /\ Covers(obj, o)
  /\ cash' = cash + Cost(o)
  /\ heap' = [heap EXCEPT ![obj].quantity = left, ![obj].price = o.price]
  /\ \/ /\ left > 0
        /\ book' = book
        /\ Advance(t, "record", obj)
        /\ failed' = failed
     \/ /\ left <= 0
        /\ book[o.symbol] # 0
        /\ book' = [book EXCEPT ![o.symbol] = 0]
        /\ Advance(t, "record", obj)
        /\ failed' = failed
     \/ /\ left <= 0
        /\ book[o.symbol] = 0
        /\ book' = book
        /\ Return(t, "ERROR")
        /\ failed' = Append(failed, o)
  /\ UNCHANGED tradeLog

\* The result is stored and the trade logged with the cash of that moment.
Record(t) ==
  LET o == calls[t].order IN
  /\ calls[t].at = "record"
  /\ tradeLog' = Append(tradeLog, [symbol |-> o.symbol, side |-> o.side,
                                   quantity |-> o.quantity, price |-> o.price,
                                   cashAfter |-> cash])
  /\ Return(t, "FILLED")
  /\ UNCHANGED <<cash, book, heap, failed>>

\* set_prices: a symbol without a position is skipped.
SetPrice(s, p) ==
  /\ book[s] # 0
  /\ heap' = [heap EXCEPT ![book[s]].price = p]
  /\ UNCHANGED <<cash, book, tradeLog, failed, calls>>

\* The rest of place_order, once it has begun.
Step(t) == \/ Debit(t) \/ RejectBuy(t) \/ BookBuy(t)
           \/ LookUp(t) \/ RejectSell(t) \/ BookSell(t)
           \/ Record(t)

Next ==
  \/ \E t \in Threads : Step(t)
  \/ \E t \in Threads, o \in Orders : PlaceOrder(t, o)
  \/ \E s \in Symbols, p \in Prices : SetPrice(s, p)

Spec == Init /\ [][Next]_vars
-----------------------------------------------------------------------------
Stages == {"idle", "check", "book", "record"}
Results == {"none", "FILLED", "REJECTED", "ERROR"}

\* The type invariant: references point into the heap, money stays an integer.
TypeOK ==
  /\ cash \in Int
  /\ heap \in Seq(Positions)
  /\ book \in [Symbols -> 0..Len(heap)]
  /\ tradeLog \in Seq([symbol : Symbols, side : {"BUY", "SELL"},
                       quantity : Quantities \cup {0}, price : Prices, cashAfter : Int])
  /\ failed \in Seq(Orders)
  /\ calls \in [Threads -> [at : Stages, order : Orders,
                            position : 0..Len(heap), result : Results]]

\* No interleaving overdraws the account: the test of the funds and the debit are
\* not separated by a thread switch (place_order, the BUY branch).
NonNegativeCash == cash >= 0

\* What get_positions lists is really held: a position in the dictionary is the
\* symbol's own and has shares, whatever the threads that sold it out, averaged
\* it up or replaced it did in between; and the position an order under way has
\* looked up, though it may be sold out by now, is still of the order's symbol.
PositionsAreHeld ==
  /\ \A s \in Symbols :
       book[s] # 0 => heap[book[s]].symbol = s /\ heap[book[s]].quantity > 0
  /\ \A t \in Threads :
       calls[t].at = "book" /\ calls[t].position # 0
         => heap[calls[t].position].symbol = calls[t].order.symbol

\* The shares a caller of get_position sees, and those a purchase has paid for
\* and not booked yet.
Booked(s) == IF book[s] = 0 THEN 0 ELSE heap[book[s]].quantity

PaidFor(s) ==
  {t \in Threads : /\ calls[t].at = "book"
                   /\ calls[t].order.side = "BUY"
                   /\ calls[t].order.symbol = s}

\* With one caller the account behaves as Ledger says: an order is applied as a
\* whole when its cash moves.
Account == INSTANCE Ledger WITH holdings <-
  [s \in Symbols |->
     Booked(s) + (IF PaidFor(s) = {} THEN 0
                  ELSE calls[CHOOSE t \in PaidFor(s) : TRUE].order.quantity)]

ImplementsLedger == Account!Spec
=============================================================================
