------------------------- MODULE PaperLedger_proofs -------------------------
(***************************************************************************)
(* With one caller, PaperBroker implements Ledger: each order moves its    *)
(* cash and the shares of its position together, when its cash moves, or   *)
(* moves nothing.  With any number of callers it still implements Ledger,  *)
(* of the shares wherever they are: not of those the dictionary lists.     *)
(***************************************************************************)
EXTENDS PaperBroker_proofs

\* With one caller, the position an order has looked up is still the one in the
\* dictionary when the order is booked.
LookedUpIsCurrent ==
  \A t \in Threads :
    calls[t].at = "book" => calls[t].position = book[calls[t].order.symbol]

\* The shares t has paid for and not booked yet.
Pending(t, s) ==
  IF calls[t].at = "book" /\ calls[t].order.side = "BUY" /\ calls[t].order.symbol = s
  THEN calls[t].order.quantity ELSE 0

\* The refinement mapping of Account.
Held == [s \in Symbols |->
           Booked(s) + (IF PaidFor(s) = {} THEN 0
                        ELSE calls[CHOOSE t \in PaidFor(s) : TRUE].order.quantity)]

\* With one caller the mapping is the booked shares and the caller's pending ones,
\* before a step and after it.
LEMMA SoleMapping ==
  ASSUME NEW t, Threads = {t}
  PROVE  /\ Held = [s \in Symbols |-> Booked(s) + Pending(t, s)]
         /\ Held' = [s \in Symbols |-> Booked(s)' + Pending(t, s)']
  <1>1. ASSUME NEW s \in Symbols
        PROVE  (IF PaidFor(s) = {} THEN 0
                ELSE calls[CHOOSE u \in PaidFor(s) : TRUE].order.quantity) = Pending(t, s)
    <2>1. CASE t \in PaidFor(s)
      <3>1. PaidFor(s) = {t}
        BY <2>1 DEF PaidFor
      <3> QED BY <2>1, <3>1 DEF PaidFor, Pending
    <2>2. CASE t \notin PaidFor(s)
      <3>1. PaidFor(s) = {}
        BY <2>2 DEF PaidFor
      <3> QED BY <2>2, <3>1 DEF PaidFor, Pending
    <2> QED BY <2>1, <2>2
  <1>2. ASSUME NEW s \in Symbols
        PROVE  (IF PaidFor(s)' = {} THEN 0
                ELSE calls'[CHOOSE u \in PaidFor(s)' : TRUE].order.quantity) = Pending(t, s)'
    <2>1. CASE t \in PaidFor(s)'
      <3>1. PaidFor(s)' = {t}
        BY <2>1 DEF PaidFor
      <3> QED BY <2>1, <3>1 DEF PaidFor, Pending
    <2>2. CASE t \notin PaidFor(s)'
      <3>1. PaidFor(s)' = {}
        BY <2>2 DEF PaidFor
      <3> QED BY <2>2, <3>1 DEF PaidFor, Pending
    <2> QED BY <2>1, <2>2
  <1> QED BY <1>1, <1>2 DEF Held
-----------------------------------------------------------------------------
\* Three kinds of step, and what they are for the ledger.  A step that moves neither
\* cash nor shares leaves the ledger alone.
LEMMA StutterStep ==
  ASSUME NEW t, Threads = {t}, cash' = cash,
         \A s \in Symbols : Booked(s)' + Pending(t, s)' = Booked(s) + Pending(t, s)
  PROVE  UNCHANGED Account!vars
  <1>1. Held' = Held
    BY SoleMapping
  <1> QED BY <1>1 DEF Account!vars, Held

\* A step that pays for shares, booked or pending, is a purchase of the ledger.
LEMMA BuyStep ==
  ASSUME NEW t, Threads = {t},
         NEW sym \in Symbols, NEW q \in Quantities, NEW p \in Prices,
         q * p <= cash, cash' = cash - q * p,
         Booked(sym)' + Pending(t, sym)' = Booked(sym) + Pending(t, sym) + q,
         \A s \in Symbols : s # sym =>
           Booked(s)' + Pending(t, s)' = Booked(s) + Pending(t, s)
  PROVE  Account!Next
  <1>1. Held' = [Held EXCEPT ![sym] = @ + q]
    BY SoleMapping
  <1>2. Account!Buy(sym, q, p)
    BY <1>1 DEF Account!Buy, Held
  <1> QED BY <1>2 DEF Account!Next

\* A step that delivers shares and credits their price is a sale of the ledger.
LEMMA SellStep ==
  ASSUME NEW t, Threads = {t},
         NEW sym \in Symbols, NEW q \in Quantities, NEW p \in Prices,
         q <= Booked(sym) + Pending(t, sym), cash' = cash + q * p,
         Booked(sym)' + Pending(t, sym)' = (Booked(sym) + Pending(t, sym)) - q,
         \A s \in Symbols : s # sym =>
           Booked(s)' + Pending(t, s)' = Booked(s) + Pending(t, s)
  PROVE  Account!Next
  <1>1. Held' = [Held EXCEPT ![sym] = @ - q] /\ q <= Held[sym]
    BY SoleMapping
  <1>2. Account!Sell(sym, q, p)
    BY <1>1 DEF Account!Sell, Held
  <1> QED BY <1>2 DEF Account!Next

\* What a step of place_order relies on.
SoleInv == TypeOK /\ PositionsAreHeld /\ LookedUpIsCurrent

\* What the invariant says of the caller's order, its position and the holdings.
LEMMA SoleFacts ==
  ASSUME NEW t, Threads = {t}, SoleInv
  PROVE  /\ heap \in Seq(Positions) /\ Len(heap) \in Nat
         /\ book \in [Symbols -> 0..Len(heap)]
         /\ calls \in [Threads -> CallRecords(Len(heap))]
         /\ calls[t].order \in Orders /\ calls[t].order.symbol \in Symbols
         /\ calls[t].order.quantity \in Nat
         /\ cash \in Int
         /\ \A s \in Symbols : Booked(s) \in Nat /\ Pending(t, s) \in Nat
         /\ \A s \in Symbols : book[s] # 0 =>
              /\ book[s] \in 1..Len(heap)
              /\ heap[book[s]] \in Positions
              /\ heap[book[s]].symbol = s
  <1>1. /\ heap \in Seq(Positions) /\ Len(heap) \in Nat
        /\ book \in [Symbols -> 0..Len(heap)]
        /\ calls \in [Threads -> CallRecords(Len(heap))]
        /\ cash \in Int
    BY DEF SoleInv, TypeOK, CallRecords
  <1>2. /\ calls[t].order \in Orders /\ calls[t].order.symbol \in Symbols
        /\ calls[t].order.quantity \in Nat
    BY <1>1, OrderFields DEF CallRecords
  <1>3. \A s \in Symbols : book[s] # 0 =>
          /\ book[s] \in 1..Len(heap)
          /\ heap[book[s]] \in Positions
          /\ heap[book[s]].symbol = s
    BY <1>1 DEF SoleInv, PositionsAreHeld
  <1>4. \A s \in Symbols : Booked(s) \in Nat
    BY <1>3 DEF Booked, Positions
  <1>5. \A s \in Symbols : Pending(t, s) \in Nat
    BY <1>2 DEF Pending
  <1> QED BY <1>1, <1>2, <1>3, <1>4, <1>5

\* A step that does not touch the books, outside the booking of a purchase.
LEMMA AsideStep ==
  ASSUME NEW t, Threads = {t}, SoleInv, UNCHANGED <<cash, book, heap>>,
         NEW c, calls' = [calls EXCEPT ![t] = c],
         c.at = "book" => c.order.side = "SELL" /\ c.position = book[c.order.symbol],
         calls[t].at = "book" => calls[t].order.side = "SELL"
  PROVE  LookedUpIsCurrent' /\ UNCHANGED Account!vars
  <1>1. calls'[t] = c
    BY SoleFacts
  <1>2. LookedUpIsCurrent'
    BY <1>1 DEF LookedUpIsCurrent
  <1>3. \A s \in Symbols : Pending(t, s)' = 0 /\ Pending(t, s) = 0
    BY <1>1 DEF Pending
  <1>4. \A s \in Symbols : Booked(s)' = Booked(s)
    BY DEF Booked
  <1> QED BY <1>2, <1>3, <1>4, StutterStep
-----------------------------------------------------------------------------
\* Every step of the broker is a step of the ledger or leaves it alone.
LEMMA SoleStep ==
  ASSUME NEW t, Threads = {t}, SoleInv, [Next]_vars
  PROVE  LookedUpIsCurrent' /\ [Account!Next]_(Account!vars)
  <1> DEFINE o == calls[t].order
             obj == calls[t].position
             Goal == LookedUpIsCurrent' /\ [Account!Next]_(Account!vars)
  <1>1. ASSUME NEW order \in Orders, PlaceOrder(t, order)
        PROVE  Goal
    <2> DEFINE c == [at |-> "check", order |-> order, position |-> 0, result |-> "none"]
    <2>1. UNCHANGED <<cash, book, heap>> /\ calls' = [calls EXCEPT ![t] = c]
      BY <1>1 DEF PlaceOrder
    <2>2. c.at # "book" /\ calls[t].at # "book"
      BY <1>1 DEF PlaceOrder, Busy
    <2> HIDE DEF c
    <2> QED BY <2>1, <2>2, AsideStep
  <1>2. CASE Debit(t)
    <2>0. PICK sym \in Symbols, q \in Nat, p \in Prices :
            sym = o.symbol /\ q = o.quantity /\ p = o.price
      BY SoleFacts, OrderFields
    <2>1. /\ o \in Orders /\ o.side = "BUY" /\ calls[t].at = "check"
          /\ o.symbol \in Symbols /\ o.quantity \in Quantities /\ o.price \in Prices
          /\ Cost(o) <= cash /\ cash' = cash - Cost(o)
          /\ UNCHANGED <<book, heap>> /\ Advance(t, "book", book[o.symbol])
      <3>1. o \in Orders /\ o.side = "BUY"
        BY <1>2, SoleFacts DEF Debit
      <3>2. o.quantity \in Quantities
        BY <3>1 DEF Orders
      <3> QED BY <1>2, <3>1, <3>2, OrderFields DEF Debit
    <2>2. /\ calls'[t].at = "book" /\ calls'[t].order = o
          /\ calls'[t].position = book[o.symbol]
      BY <2>1, SoleFacts DEF Advance, CallRecords
    <2>3. LookedUpIsCurrent'
      BY <2>1, <2>2 DEF LookedUpIsCurrent
    <2>4. \A s \in Symbols : Booked(s)' = Booked(s)
      BY <2>1 DEF Booked
    <2>5. /\ \A s \in Symbols : Pending(t, s) = 0
          /\ \A s \in Symbols : s # sym => Pending(t, s)' = 0
          /\ Pending(t, sym)' = q
      BY <2>0, <2>1, <2>2 DEF Pending
    <2>6. Booked(sym) \in Nat
      BY SoleFacts
    <2>7. Booked(sym)' + Pending(t, sym)' = Booked(sym) + Pending(t, sym) + q
      BY <2>4, <2>5, <2>6
    <2>8. q * p <= cash /\ cash' = cash - q * p /\ q \in Quantities
      BY <2>0, <2>1 DEF Cost
    <2>9. \A s \in Symbols : s # sym =>
            Booked(s)' + Pending(t, s)' = Booked(s) + Pending(t, s)
      BY <2>4, <2>5
    <2>10. Account!Next
      BY <2>7, <2>8, <2>9, BuyStep
    <2> QED BY <2>3, <2>10
  <1>3. CASE RejectBuy(t) \/ RejectSell(t) \/ Record(t)
    <2>1. PICK r \in Results : Return(t, r)
      BY <1>3 DEF RejectBuy, RejectSell, Record, Results
    <2> DEFINE c == [NoCall EXCEPT !.result = r]
    <2>2. c.at # "book"
      BY <2>1, NoCallType DEF NoCall
    <2>3. /\ UNCHANGED <<cash, book, heap>> /\ calls' = [calls EXCEPT ![t] = c]
          /\ calls[t].at = "book" => o.side = "SELL"
      BY <1>3, <2>1 DEF RejectBuy, RejectSell, Record, Return
    <2> HIDE DEF c
    <2> QED BY <2>2, <2>3, AsideStep
  <1>4. CASE LookUp(t)
    <2>1. /\ UNCHANGED <<cash, book, heap>> /\ Advance(t, "book", book[o.symbol])
          /\ o.side = "SELL" /\ calls[t].at # "book"
      BY <1>4 DEF LookUp
    <2>2. /\ calls'[t].order = o /\ calls'[t].position = book[o.symbol]
          /\ calls' = [calls EXCEPT ![t] = calls'[t]]
      BY <2>1, SoleFacts DEF Advance, CallRecords
    <2> QED BY <2>1, <2>2, AsideStep
  <1>5. CASE BookBuy(t)
    <2>0. PICK sym \in Symbols, q \in Nat, p \in Prices :
            sym = o.symbol /\ q = o.quantity /\ p = o.price
      BY SoleFacts, OrderFields
    <2> DEFINE fresh == [symbol |-> o.symbol, quantity |-> o.quantity,
                         avg |-> o.price, price |-> o.price]
    <2>1. /\ calls[t].at = "book" /\ o \in Orders /\ o.side = "BUY" /\ o.symbol \in Symbols
          /\ o.quantity \in Nat /\ cash' = cash /\ Advance(t, "record", obj)
      BY <1>5, SoleFacts DEF BookBuy
    <2>2. obj = book[o.symbol]
      BY <2>1 DEF SoleInv, LookedUpIsCurrent
    <2>3. calls'[t].at = "record"
      BY <2>1, SoleFacts DEF Advance, CallRecords
    <2>4. LookedUpIsCurrent'
      BY <2>3 DEF LookedUpIsCurrent
    <2>5. /\ \A s \in Symbols : Pending(t, s)' = 0
          /\ \A s \in Symbols : s # sym => Pending(t, s) = 0
          /\ Pending(t, sym) = q
      BY <2>0, <2>1, <2>3 DEF Pending
    <2>6. /\ Booked(sym)' = Booked(sym) + q
          /\ \A s \in Symbols : s # sym => Booked(s)' = Booked(s)
      <3>1. CASE obj # 0 /\ heap' = [heap EXCEPT ![obj] = Averaged(@, o)] /\ book' = book
        <4>1. obj \in 1..Len(heap) /\ heap[obj].symbol = sym
          BY <2>0, <2>1, <2>2, <3>1, SoleFacts
        <4>2. /\ heap'[obj] = Averaged(heap[obj], o)
              /\ \A i \in 1..Len(heap) : i # obj => heap'[i] = heap[i]
          BY <3>1, <4>1, SoleFacts
        <4>3. Averaged(heap[obj], o).quantity = heap[obj].quantity + o.quantity
          BY <2>1, <2>2, <3>1, SoleFacts DEF Averaged, Positions
        <4>4. \A s \in Symbols : s # sym => book[s] # obj
          BY <3>1, <4>1, SoleFacts
        <4>5. book[sym] = obj /\ book'[sym] = obj
          BY <2>0, <2>2, <3>1
        <4>6. Booked(sym)' = Booked(sym) + q
          BY <2>0, <3>1, <4>2, <4>3, <4>5 DEF Booked
        <4>7. \A s \in Symbols : s # sym => Booked(s)' = Booked(s)
          BY <3>1, <4>2, <4>4, SoleFacts DEF Booked
        <4> QED BY <4>6, <4>7
      <3>2. CASE obj = 0 /\ heap' = Append(heap, fresh)
                 /\ book' = [book EXCEPT ![o.symbol] = Len(heap) + 1]
        <4>1. /\ heap'[Len(heap) + 1] = fresh
              /\ \A i \in 1..Len(heap) : heap'[i] = heap[i]
          BY <3>2, SoleFacts
        <4>2. /\ book'[sym] = Len(heap) + 1 /\ Len(heap) + 1 # 0
              /\ \A s \in Symbols : s # sym => book'[s] = book[s]
          BY <2>0, <3>2, SoleFacts
        <4>3. Booked(sym) = 0
          BY <2>0, <2>2, <3>2 DEF Booked
        <4>4. Booked(sym)' = q
          BY <2>0, <4>1, <4>2 DEF Booked
        <4>5. \A s \in Symbols : s # sym => Booked(s)' = Booked(s)
          BY <4>1, <4>2, SoleFacts DEF Booked
        <4> QED BY <4>3, <4>4, <4>5
      <3> QED BY <1>5, <3>1, <3>2 DEF BookBuy
    <2>7. \A s \in Symbols : Booked(s)' + Pending(t, s)' = Booked(s) + Pending(t, s)
      <3>1. \A s \in Symbols : Booked(s) \in Nat
        BY SoleFacts
      <3> QED BY <2>5, <2>6, <3>1
    <2> QED BY <2>1, <2>4, <2>7, StutterStep
  <1>6. CASE BookSell(t)
    <2>0. PICK sym \in Symbols, q \in Nat, p \in Prices :
            sym = o.symbol /\ q = o.quantity /\ p = o.price
      BY SoleFacts, OrderFields
    <2> DEFINE left == heap[obj].quantity - o.quantity
    <2>1. /\ calls[t].at = "book" /\ o \in Orders /\ o.side = "SELL" /\ o.symbol \in Symbols
          /\ o.quantity \in Nat /\ o.price \in Prices
          /\ Cost(o) \in Nat /\ cash' = cash + Cost(o)
          /\ obj # 0 /\ heap[obj].quantity >= o.quantity
          /\ heap' = [heap EXCEPT ![obj].quantity = left, ![obj].price = o.price]
      BY <1>6, SoleFacts, OrderFields DEF BookSell, Covers
    <2>2. obj = book[o.symbol]
      BY <2>1 DEF SoleInv, LookedUpIsCurrent
    <2>3. obj \in 1..Len(heap) /\ heap[obj].symbol = o.symbol /\ heap[obj] \in Positions
          /\ heap[obj].quantity \in Nat
      BY <2>1, <2>2, SoleFacts DEF Positions
    <2>4. left \in Nat
      BY <2>1, <2>3
    <2>5. /\ heap'[obj].quantity = left
          /\ \A i \in 1..Len(heap) : i # obj => heap'[i] = heap[i]
      <3> DEFINE sold == [[heap[obj] EXCEPT !.quantity = left] EXCEPT !.price = o.price]
      <3>1. sold.quantity = left
        BY <2>3 DEF Positions
      <3>2. heap' = [heap EXCEPT ![obj] = sold]
        BY <2>1, <2>3, SoleFacts
      <3> HIDE DEF sold
      <3>3. heap'[obj] = sold /\ \A i \in 1..Len(heap) : i # obj => heap'[i] = heap[i]
        BY <2>3, <3>2, SoleFacts
      <3> QED BY <3>1, <3>3
    <2>6. Advance(t, "record", obj)
      BY <1>6, <2>1, <2>2 DEF BookSell
    <2>7. calls'[t].at = "record"
      BY <2>6, SoleFacts DEF Advance, CallRecords
    <2>8. LookedUpIsCurrent'
      BY <2>7 DEF LookedUpIsCurrent
    <2>9. \A s \in Symbols : Pending(t, s)' = 0 /\ Pending(t, s) = 0
      BY <2>1, <2>7 DEF Pending
    <2>10. /\ Booked(sym) = heap[obj].quantity
           /\ Booked(sym)' = left
           /\ \A s \in Symbols : s # sym => Booked(s)' = Booked(s)
      <3>1. book[sym] = obj /\ \A s \in Symbols : s # sym => book[s] # obj
        BY <2>0, <2>1, <2>2, <2>3, SoleFacts
      <3>2. CASE left > 0 /\ book' = book
        <4>1. Booked(sym) = heap[obj].quantity /\ Booked(sym)' = left
          BY <2>1, <2>5, <3>1, <3>2 DEF Booked
        <4>2. \A s \in Symbols : s # sym => Booked(s)' = Booked(s)
          BY <2>5, <3>1, <3>2, SoleFacts DEF Booked
        <4> QED BY <4>1, <4>2
      <3>3. CASE left <= 0 /\ book' = [book EXCEPT ![o.symbol] = 0]
        <4>1. left = 0
          BY <2>4, <3>3
        <4>2. book'[sym] = 0 /\ \A s \in Symbols : s # sym => book'[s] = book[s]
          BY <2>0, <3>3, SoleFacts
        <4>3. Booked(sym) = heap[obj].quantity /\ Booked(sym)' = left
          BY <2>1, <3>1, <4>1, <4>2 DEF Booked
        <4>4. \A s \in Symbols : s # sym => Booked(s)' = Booked(s)
          BY <2>5, <3>1, <4>2, SoleFacts DEF Booked
        <4> QED BY <4>3, <4>4
      <3>4. \/ left > 0 /\ book' = book
            \/ left <= 0 /\ book' = [book EXCEPT ![o.symbol] = 0]
        BY <1>6, <2>1, <2>2 DEF BookSell
      <3> QED BY <3>2, <3>3, <3>4
    <2>11. /\ Booked(sym)' + Pending(t, sym)' = (Booked(sym) + Pending(t, sym)) - q
           /\ q <= Booked(sym) + Pending(t, sym)
           /\ \A s \in Symbols : s # sym =>
                Booked(s)' + Pending(t, s)' = Booked(s) + Pending(t, s)
      BY <2>0, <2>1, <2>3, <2>9, <2>10
    <2>12. cash' = cash + q * p
      BY <2>0, <2>1 DEF Cost
    <2>13. CASE q = 0
      <3>1. cash' = cash
        BY <2>12, <2>13, BrokerAssumption, SoleFacts DEF BrokerSetting
      <3>2. \A s \in Symbols : Booked(s)' + Pending(t, s)' = Booked(s) + Pending(t, s)
        BY <2>11, <2>13, SoleFacts
      <3> QED BY <2>8, <3>1, <3>2, StutterStep
    <2>14. CASE q # 0
      <3>1. q \in Quantities
        BY <2>0, <2>1, <2>14, OrderFields
      <3>2. Account!Next
        BY <2>11, <2>12, <3>1, SellStep
      <3> QED BY <2>8, <3>2
    <2> QED BY <2>13, <2>14
  <1>7. ASSUME NEW s \in Symbols, NEW p \in Prices, SetPrice(s, p)
        PROVE  Goal
    <2>1. /\ book[s] \in 1..Len(heap) /\ heap[book[s]] \in Positions
          /\ heap' = [heap EXCEPT ![book[s]] = [@ EXCEPT !.price = p]]
          /\ UNCHANGED <<cash, book, calls>>
      BY <1>7, SoleFacts DEF SetPrice
    <2>2. \A i \in 1..Len(heap) : heap'[i].quantity = heap[i].quantity
      <3> DEFINE priced == [heap[book[s]] EXCEPT !.price = p]
      <3>1. priced.quantity = heap[book[s]].quantity
        BY <2>1 DEF Positions
      <3>2. heap' = [heap EXCEPT ![book[s]] = priced]
        BY <2>1
      <3> HIDE DEF priced
      <3>3. heap'[book[s]] = priced /\ \A i \in 1..Len(heap) : i # book[s] => heap'[i] = heap[i]
        BY <2>1, <3>2, SoleFacts
      <3> QED BY <3>1, <3>3
    <2>3. \A x \in Symbols : Booked(x)' = Booked(x) /\ Pending(t, x)' = Pending(t, x)
      BY <2>1, <2>2, SoleFacts DEF Booked, Pending
    <2>4. LookedUpIsCurrent'
      BY <2>1 DEF SoleInv, LookedUpIsCurrent
    <2> QED BY <2>1, <2>3, <2>4, StutterStep
  <1>8. CASE UNCHANGED vars
    <2>1. LookedUpIsCurrent'
      BY <1>8 DEF vars, SoleInv, LookedUpIsCurrent
    <2>2. \A s \in Symbols : Booked(s)' = Booked(s) /\ Pending(t, s)' = Pending(t, s)
      BY <1>8 DEF vars, Booked, Pending
    <2> QED BY <1>8, <2>1, <2>2, StutterStep DEF vars
  <1> QED
    BY <1>1, <1>2, <1>3, <1>4, <1>5, <1>6, <1>7, <1>8 DEF Next, Step

\* With one caller, PaperBroker implements Ledger.
THEOREM SingleCallerRefinesLedger ==
  ASSUME NEW t, Threads = {t}
  PROVE  Spec => ImplementsLedger
  <1>1. Init => LookedUpIsCurrent /\ Account!Init
    <2>1. ASSUME Init PROVE Held = [s \in Symbols |-> 0]
      <3>1. \A s \in Symbols : Booked(s) = 0 /\ PaidFor(s) = {}
        BY <2>1 DEF Init, Booked, PaidFor, NoCall
      <3> QED BY <3>1 DEF Held
    <2>2. ASSUME Init PROVE LookedUpIsCurrent
      BY <2>2 DEF Init, LookedUpIsCurrent, NoCall
    <2> QED BY <2>1, <2>2 DEF Init, Account!Init, Held
  <1>2. SoleInv /\ [Next]_vars => LookedUpIsCurrent' /\ [Account!Next]_(Account!vars)
    BY SoleStep
  <1> QED
    BY <1>1, <1>2, TypeCorrect, PositionsHeld, PTL DEF Spec, SoleInv, ImplementsLedger, Account!Spec
-----------------------------------------------------------------------------
\* With one caller, place_order never raises, every share is in a listed position,
\* and the cash is that of the last entry moved by the order under way.
LastCash == IF tradeLog = <<>> THEN InitialCapital ELSE tradeLog[Len(tradeLog)].cashAfter

NothingUnlisted ==
  \A i \in 1..Len(heap) : heap[i].quantity > 0 => book[heap[i].symbol] = i

SoleBooks ==
  /\ failed = <<>>
  /\ NothingUnlisted
  /\ LogIsChained
  /\ \A t \in Threads : cash = LastCash + Paid(t)

LEMMA NothingUnlistedKept ==
  ASSUME NEW t, Threads = {t}, SoleInv, NothingUnlisted, [Next]_vars
  PROVE  NothingUnlisted'
  <1> DEFINE o == calls[t].order
             obj == calls[t].position
  <1>1. CASE UNCHANGED <<heap, book>>
    BY <1>1 DEF NothingUnlisted
  <1>2. CASE BookBuy(t)
    <2> DEFINE fresh == [symbol |-> o.symbol, quantity |-> o.quantity,
                         avg |-> o.price, price |-> o.price]
    <2>1. obj = book[o.symbol] /\ o.symbol \in Symbols
      BY <1>2, SoleFacts DEF SoleInv, LookedUpIsCurrent, BookBuy
    <2>2. CASE obj # 0 /\ heap' = [heap EXCEPT ![obj] = Averaged(@, o)] /\ book' = book
      <3>1. obj \in 1..Len(heap) /\ heap[obj].symbol = o.symbol /\ heap[obj] \in Positions
        BY <2>1, <2>2, SoleFacts
      <3>2. Averaged(heap[obj], o).symbol = o.symbol
        BY <3>1 DEF Averaged, Positions
      <3>3. /\ heap'[obj] = Averaged(heap[obj], o) /\ Len(heap') = Len(heap)
            /\ \A i \in 1..Len(heap) : i # obj => heap'[i] = heap[i]
        BY <2>2, <3>1, SoleFacts
      <3>4. heap'[obj].symbol = o.symbol /\ book'[o.symbol] = obj
        BY <2>1, <2>2, <3>2, <3>3
      <3>5. \A i \in 1..Len(heap) : heap'[i].quantity > 0 => book'[heap'[i].symbol] = i
        <4> TAKE i \in 1..Len(heap)
        <4>1. CASE i = obj
          BY <3>4, <4>1
        <4>2. CASE i # obj
          BY <2>2, <3>3, <4>2 DEF NothingUnlisted
        <4> QED BY <4>1, <4>2
      <3> QED BY <3>3, <3>5 DEF NothingUnlisted
    <2>3. CASE obj = 0 /\ heap' = Append(heap, fresh)
               /\ book' = [book EXCEPT ![o.symbol] = Len(heap) + 1]
      <3>1. /\ Len(heap') = Len(heap) + 1 /\ heap'[Len(heap) + 1].symbol = o.symbol
            /\ \A i \in 1..Len(heap) : heap'[i] = heap[i]
            /\ book'[o.symbol] = Len(heap) + 1
            /\ \A s \in Symbols : s # o.symbol => book'[s] = book[s]
        BY <2>1, <2>3, SoleFacts
      <3>2. \A i \in 1..Len(heap) : heap[i].symbol \in Symbols
        <4>1. heap \in Seq(Positions)
          BY SoleFacts
        <4>2. \A i \in 1..Len(heap) : heap[i] \in Positions
          BY <4>1
        <4> QED BY <4>2 DEF Positions
      <3>3. ASSUME NEW i \in 1..Len(heap), heap[i].quantity > 0
            PROVE  heap[i].symbol # o.symbol
        <4>1. book[heap[i].symbol] = i /\ i # 0
          BY <3>3, SoleFacts DEF NothingUnlisted
        <4>2. book[o.symbol] = 0
          BY <2>1, <2>3
        <4> QED BY <4>1, <4>2
      <3>4. ASSUME NEW i \in 1..(Len(heap) + 1), heap'[i].quantity > 0
            PROVE  book'[heap'[i].symbol] = i
        <4>1. CASE i = Len(heap) + 1
          BY <3>1, <4>1
        <4>2. CASE i \in 1..Len(heap)
          <5>1. /\ heap'[i] = heap[i] /\ heap[i].symbol \in Symbols /\ heap[i].symbol # o.symbol
                /\ book[heap[i].symbol] = i
            BY <3>1, <3>2, <3>3, <3>4, <4>2 DEF NothingUnlisted
          <5> QED BY <3>1, <5>1
        <4> QED BY <4>1, <4>2, SoleFacts
      <3> QED BY <3>1, <3>4 DEF NothingUnlisted
    <2> QED BY <1>2, <2>2, <2>3 DEF BookBuy
  <1>3. CASE BookSell(t)
    <2> DEFINE left == heap[obj].quantity - o.quantity
               sold == [[heap[obj] EXCEPT !.quantity = left] EXCEPT !.price = o.price]
    <2>1. /\ obj = book[o.symbol] /\ o.symbol \in Symbols /\ obj # 0 /\ o.quantity \in Nat
          /\ heap[obj].quantity >= o.quantity
          /\ heap' = [heap EXCEPT ![obj].quantity = left, ![obj].price = o.price]
      BY <1>3, SoleFacts DEF SoleInv, LookedUpIsCurrent, BookSell, Covers
    <2>2. obj \in 1..Len(heap) /\ heap[obj].symbol = o.symbol /\ heap[obj] \in Positions
      BY <2>1, SoleFacts
    <2>3. sold.symbol = o.symbol /\ sold.quantity = left
      BY <2>2 DEF Positions
    <2>4. /\ heap'[obj] = sold /\ Len(heap') = Len(heap)
          /\ \A i \in 1..Len(heap) : i # obj => heap'[i] = heap[i]
      <3>1. heap' = [heap EXCEPT ![obj] = sold]
        BY <2>1, <2>2, SoleFacts
      <3> HIDE DEF sold
      <3> QED BY <2>2, <3>1, SoleFacts
    <2>5. \/ left > 0 /\ book' = book
          \/ left <= 0 /\ book' = [book EXCEPT ![o.symbol] = 0]
      BY <1>3, <2>1 DEF BookSell
    <2> HIDE DEF sold
    <2>6. ASSUME NEW i \in 1..Len(heap), heap'[i].quantity > 0
          PROVE  book'[heap'[i].symbol] = i
      <3>1. CASE i = obj
        <4>1. left > 0
          BY <2>3, <2>4, <2>6, <3>1
        <4>2. heap[obj].quantity \in Nat /\ left \in Int
          <5>1. heap[obj].quantity \in Nat
            BY <2>2 DEF Positions
          <5>2. o.quantity \in Nat
            BY <2>1
          <5> QED BY <5>1, <5>2
        <4>3. book' = book
          BY <2>5, <4>1, <4>2
        <4> QED BY <2>1, <2>3, <2>4, <3>1, <4>3
      <3>2. CASE i # obj
        <4>1. heap'[i] = heap[i] /\ book[heap[i].symbol] = i
          BY <2>4, <2>6, <3>2 DEF NothingUnlisted
        <4>2. heap[i].symbol # o.symbol
          BY <2>1, <3>2, <4>1
        <4>3. book'[heap[i].symbol] = book[heap[i].symbol]
          <5>1. heap[i].symbol \in Symbols
            <6>1. heap \in Seq(Positions)
              BY SoleFacts
            <6>2. heap[i] \in Positions
              BY <6>1
            <6> QED BY <6>2 DEF Positions
          <5> QED BY <2>5, <4>2, <5>1, SoleFacts
        <4> QED BY <4>1, <4>3
      <3> QED BY <3>1, <3>2
    <2> QED BY <2>4, <2>6 DEF NothingUnlisted
  <1>4. ASSUME NEW s \in Symbols, NEW p \in Prices, SetPrice(s, p)
        PROVE  NothingUnlisted'
    <2> DEFINE priced == [heap[book[s]] EXCEPT !.price = p]
    <2>1. /\ book[s] \in 1..Len(heap) /\ heap[book[s]] \in Positions
          /\ heap' = [heap EXCEPT ![book[s]] = priced]
          /\ book' = book
      BY <1>4, SoleFacts DEF SetPrice
    <2>2. priced.symbol = heap[book[s]].symbol /\ priced.quantity = heap[book[s]].quantity
      BY <2>1 DEF Positions
    <2> HIDE DEF priced
    <2>3. /\ heap'[book[s]] = priced /\ Len(heap') = Len(heap)
          /\ \A i \in 1..Len(heap) : i # book[s] => heap'[i] = heap[i]
      BY <2>1, SoleFacts
    <2> QED BY <2>1, <2>2, <2>3 DEF NothingUnlisted
  <1> QED
    BY <1>1, <1>2, <1>3, <1>4
    DEF Next, Step, vars, PlaceOrder, Debit, RejectBuy, LookUp, RejectSell, Record

LEMMA SoleBooksKept ==
  ASSUME NEW t, Threads = {t}, TypeOK', SoleInv, SoleBooks, [Next]_vars
  PROVE  SoleBooks'
  <1> DEFINE o == calls[t].order
  <1>1. TypeOK /\ PositionsAreHeld /\ t \in Threads /\ cash \in Int /\ cash' \in Int
    BY DEF SoleInv, TypeOK
  <1>2. failed' = <<>>
    <2>1. CASE BookSell(t)
      <3>1. calls[t].position = book[o.symbol] /\ calls[t].position # 0
        BY <2>1 DEF SoleInv, LookedUpIsCurrent, BookSell, Covers
      <3> QED BY <2>1, <3>1 DEF BookSell, SoleBooks
    <2> QED
      BY <2>1
      DEF SoleBooks, Next, Step, vars, PlaceOrder, Debit, RejectBuy, BookBuy, LookUp, RejectSell,
          Record, SetPrice
  <1>3. NothingUnlisted'
    BY NothingUnlistedKept DEF SoleBooks
  <1>4. CASE Record(t)
    <2> DEFINE e == [symbol |-> o.symbol, side |-> o.side, quantity |-> o.quantity,
                     price |-> o.price, cashAfter |-> cash]
               n == Len(tradeLog)
    <2>1. /\ tradeLog \in Seq(LogEntries) /\ tradeLog' = Append(tradeLog, e) /\ e \in LogEntries
          /\ cash' = cash /\ Return(t, "FILLED") /\ calls[t].at = "record"
      BY <1>1, <1>4, CallFacts, OrderFields DEF Record, TypeOK, LogEntries
    <2>2. Paid(t)' = 0
      BY <1>1, <2>1, Returned
    <2>3. Paid(t) = Flow(o) /\ Flow(e) = Flow(o) /\ e.cashAfter = cash
      BY <2>1 DEF Paid, Flow, Cost
    <2> HIDE DEF e
    <2>4. /\ n \in Nat /\ Len(tradeLog') = n + 1 /\ tradeLog'[n + 1] = e
          /\ \A i \in 1..n : tradeLog'[i] = tradeLog[i]
          /\ tradeLog' # <<>> /\ DOMAIN tradeLog = 1..n /\ DOMAIN tradeLog' = 1..(n + 1)
          /\ tradeLog = <<>> <=> n = 0
      BY <2>1
    <2>5. LastCash' = cash
      BY <2>3, <2>4 DEF LastCash
    <2>6. cash = LastCash + Flow(e)
      BY <1>1, <2>3 DEF SoleBooks
    <2>7. LastCash = IF n + 1 = 1 THEN InitialCapital ELSE tradeLog'[n].cashAfter
      BY <2>4 DEF LastCash
    <2>8. LogIsChained'
      <3> SUFFICES ASSUME NEW i \in 1..(n + 1)
                   PROVE  tradeLog'[i].cashAfter
                            = (IF i = 1 THEN InitialCapital ELSE tradeLog'[i - 1].cashAfter)
                              + Flow(tradeLog'[i])
        BY <2>4 DEF LogIsChained
      <3>1. CASE i = n + 1
        <4>1. (n + 1) - 1 = n
          BY <2>4
        <4> QED BY <2>3, <2>4, <2>6, <2>7, <3>1, <4>1
      <3>2. CASE i \in 1..n
        <4>1. i # 1 => i - 1 \in 1..n
          BY <3>2, <2>4
        <4> QED BY <2>4, <3>2, <4>1 DEF SoleBooks, LogIsChained
      <3> QED BY <2>4, <3>1, <3>2
    <2>9. \A u \in Threads : cash' = LastCash' + Paid(u)'
      BY <1>1, <2>1, <2>2, <2>5
    <2> QED BY <1>2, <1>3, <2>8, <2>9 DEF SoleBooks
  <1>5. CASE ~Record(t)
    <2>1. tradeLog' = tradeLog
      BY <1>5
      DEF Next, Step, vars, PlaceOrder, Debit, RejectBuy, BookBuy, LookUp, RejectSell, BookSell, SetPrice
    <2>2. LoggedCash' = LoggedCash /\ LoggedCash \in Int
      BY <1>1, <1>2, <2>1, SidesTyped DEF LoggedCash, SoleBooks, SideTypes
    <2>3. /\ cash' + LoggedCash + Paid(t) = cash + LoggedCash' + Paid(t)'
          /\ Paid(t) \in Int /\ Paid(t)' \in Int
      <3>1. CASE Step(t) \/ \E order \in Orders : PlaceOrder(t, order)
        <4>1. Balanced(t)
          BY <1>1, <3>1, DebitBalanced, RejectBalanced, BookBuyBalanced, LookUpBalanced,
             BookSellBalanced, RecordBalanced, PlaceOrderBalanced DEF Step
        <4> QED BY <1>1, <4>1, FlightStep DEF Balanced
      <3>2. CASE UNCHANGED <<cash, calls>>
        <4>1. Paid(t)' = Paid(t) /\ Paid(t) \in Int
          BY <1>1, <3>2, CallFacts DEF Paid
        <4> QED BY <2>2, <3>2, <4>1
      <3> QED BY <3>1, <3>2 DEF Next, vars, SetPrice
    <2>4. cash' = LastCash' + Paid(t)'
      <3>1. LastCash' = LastCash /\ cash = LastCash + Paid(t)
        BY <1>1, <2>1 DEF LastCash, SoleBooks
      <3>2. LastCash \in Int
        <4>1. tradeLog \in Seq(LogEntries)
          BY <1>1 DEF TypeOK, LogEntries
        <4>2. tradeLog # <<>> => tradeLog[Len(tradeLog)] \in LogEntries
          BY <4>1
        <4> QED BY <4>2, BrokerAssumption DEF BrokerSetting, LastCash, LogEntries
      <3> QED BY <1>1, <2>2, <2>3, <3>1, <3>2
    <2>5. LogIsChained'
      BY <2>1 DEF LogIsChained, SoleBooks
    <2> QED BY <1>2, <1>3, <2>4, <2>5 DEF SoleBooks
  <1> QED BY <1>4, <1>5

\* With one caller each log entry's cash_after follows from the entry before it.
THEOREM LogChains ==
  ASSUME NEW t, Threads = {t}
  PROVE  Spec => [](LogIsChained /\ SoleBooks)
  <1>1. Init => LookedUpIsCurrent /\ SoleBooks
    <2> SUFFICES ASSUME Init PROVE LookedUpIsCurrent /\ SoleBooks
      OBVIOUS
    <2>1. Paid(t) = 0
      BY DEF Init, NoCall, Paid
    <2>2. cash = LastCash + Paid(t)
      BY <2>1, BrokerAssumption DEF BrokerSetting, Init, LastCash
    <2>3. failed = <<>> /\ NothingUnlisted /\ LogIsChained
      BY DEF Init, NothingUnlisted, LogIsChained
    <2>4. LookedUpIsCurrent
      BY DEF Init, LookedUpIsCurrent, NoCall
    <2> QED BY <2>2, <2>3, <2>4 DEF SoleBooks
  <1>2. SoleInv /\ TypeOK' /\ SoleBooks /\ [Next]_vars => LookedUpIsCurrent' /\ SoleBooks'
    BY SoleStep, SoleBooksKept
  <1>3. SoleBooks => LogIsChained
    BY DEF SoleBooks
  <1> QED BY <1>1, <1>2, <1>3, TypeCorrect, PositionsHeld, PTL DEF Spec, SoleInv

\* With one caller the trade log is the full trade history: between orders, the
\* positions are what its entries add up to.  With two it need not be.
THEOREM SoleHistoryIsFull ==
  ASSUME NEW t, Threads = {t}
  PROVE  Spec => []FullTradeHistory
  <1>1. TypeOK /\ PositionsAreHeld /\ SharesConserved /\ SoleBooks => FullTradeHistory
    <2> SUFFICES ASSUME TypeOK, PositionsAreHeld, SharesConserved, SoleBooks, ~Busy(t),
                        NEW s \in Symbols
                 PROVE  Booked(s) = Net(s, tradeLog)
      BY DEF FullTradeHistory
    <2>1. /\ heap \in Seq(Positions) /\ Len(heap) \in Nat /\ book[s] \in 0..Len(heap)
          /\ tradeLog \in Seq(LogEntries) /\ failed = <<>> /\ failed \in Seq(Orders)
      BY DEF TypeOK, LogEntries, SoleBooks
    <2>2. InHeap(s, heap) = Booked(s)
      <3> DEFINE f == [i \in DOMAIN heap |-> IF heap[i].symbol = s THEN heap[i].quantity ELSE 0]
                 b == book[s]
      <3>1. InHeap(s, heap) = SumFunctionOnSet(f, DOMAIN f)
        BY Zenon DEF InHeap, Total, SumFunction
      <3>2. DOMAIN f = 1..Len(heap) /\ IsFiniteSet(1..Len(heap))
        BY <2>1, FS_Interval
      <3>3. ASSUME NEW i \in 1..Len(heap)
            PROVE  f[i] \in Int /\ (i # b => f[i] = 0)
        <4>1. heap[i] \in Positions
          BY <2>1
        <4>2. heap[i].quantity \in Nat
          BY <4>1 DEF Positions
        <4>3. f[i] = IF heap[i].symbol = s THEN heap[i].quantity ELSE 0
          BY <2>1
        <4>4. heap[i].quantity > 0 => book[heap[i].symbol] = i
          BY DEF SoleBooks, NothingUnlisted
        <4> HIDE DEF f
        <4> QED BY <4>2, <4>3, <4>4
      <3>4. CASE b = 0
        <4>1. Booked(s) = 0
          BY <3>4 DEF Booked
        <4>2. \A i \in 1..Len(heap) : f[i] = 0
          BY <2>1, <3>3, <3>4
        <4> HIDE DEF f
        <4> QED BY <3>1, <3>2, <4>1, <4>2, SumZero
      <3>5. CASE b # 0
        <4>1. b \in 1..Len(heap) /\ Booked(s) = heap[b].quantity /\ heap[b].symbol = s
          BY <2>1, <3>5 DEF Booked, PositionsAreHeld
        <4>2. f[b] = Booked(s)
          BY <2>1, <4>1
        <4> DEFINE R == 1..Len(heap)
        <4> HIDE DEF f, b
        <4>3. SumFunctionOnSet(f, R) = f[b] + SumFunctionOnSet(f, R \ {b})
          BY <3>2, <3>3, <4>1, SumRemove
        <4>4. SumFunctionOnSet(f, R \ {b}) = 0
          <5>1. IsFiniteSet(R \ {b})
            BY <3>2, FS_Subset
          <5>2. \A i \in R \ {b} : f[i] = 0
            BY <3>3
          <5> HIDE DEF R
          <5> QED BY <5>1, <5>2, SumZero
        <4>5. f[b] \in Int
          BY <3>3, <4>1
        <4> QED BY <3>1, <3>2, <4>2, <4>3, <4>4, <4>5
      <3> QED BY <3>4, <3>5
    <2>3. Landing(s) = 0
      <3> DEFINE f == [u \in Threads |-> Received(s, u)]
      <3>1. DOMAIN f = Threads /\ \A u \in Threads : f[u] = 0
        BY DEF Received, Busy
      <3>2. Landing(s) = SumFunction(f)
        BY DEF Landing
      <3> HIDE DEF f
      <3> QED BY <3>1, <3>2, SumIsZero, BrokerAssumption DEF BrokerSetting
    <2>4. Net(s, failed) = 0
      <3> DEFINE f == [i \in DOMAIN failed |-> IF failed[i].symbol = s THEN Shares(failed[i]) ELSE 0]
      <3>1. DOMAIN f = {}
        BY <2>1
      <3>2. Net(s, failed) = SumFunction(f)
        BY Zenon DEF Net, Total
      <3> HIDE DEF f
      <3> QED BY <3>1, <3>2, SumIsZero, FS_EmptySet
    <2>5. HeapShares(s) = LoggedShares(s) + Landing(s)
      BY BooksAre DEF Books
    <2>6. Net(s, tradeLog) \in Int
      BY <2>1, SumTypes
    <2> QED BY <2>2, <2>3, <2>4, <2>5, <2>6 DEF HeapShares, LoggedShares
  <1> QED BY <1>1, TypeCorrect, PositionsHeld, BooksBalance, LogChains, PTL
-----------------------------------------------------------------------------
\* Any number of callers: the shares of the account are those of the position objects,
\* in the dictionary or not, and those paid for and not booked yet.
Waiting(s) == SumFunction([t \in Threads |-> Pending(t, s)])

OwnedSplits == \A s \in Symbols : Owned(s) = HeapShares(s) + Waiting(s)

LEMMA OwnedIs == OwnedSplits
  <1> SUFFICES ASSUME NEW s \in Symbols PROVE Owned(s) = HeapShares(s) + Waiting(s)
    BY DEF OwnedSplits
  <1>1. ASSUME NEW t \in Threads
        PROVE  (IF calls[t].at \in (IF calls[t].order.side = "BUY" THEN {"book"} ELSE {})
                THEN IF calls[t].order.symbol = s THEN calls[t].order.quantity ELSE 0
                ELSE 0) = Pending(t, s)
    BY DEF Pending
  <1> DEFINE f == [t \in Threads |->
                     IF calls[t].at \in (IF calls[t].order.side = "BUY" THEN {"book"} ELSE {})
                     THEN IF calls[t].order.symbol = s THEN calls[t].order.quantity ELSE 0
                     ELSE 0]
             g == [t \in Threads |-> Pending(t, s)]
  <1>2. f = g
    BY <1>1
  <1>3. Owned(s) = HeapShares(s) + SumFunction(f)
    BY Zenon DEF Owned, HeapShares, InHeap, InFlight
  <1> HIDE DEF f
  <1> QED BY <1>2, <1>3 DEF Waiting

LEMMA OwnedWillBe == OwnedSplits'
  BY OwnedIs, PTL

\* What waits to be booked is never less than nothing, and changes with the call of the
\* thread that steps.
LEMMA WaitingStep ==
  ASSUME TypeOK, TypeOK', NEW t \in Threads, \A u \in Threads \ {t} : calls'[u] = calls[u]
  PROVE  \A s : /\ Waiting(s)' = Waiting(s) - Pending(t, s) + Pending(t, s)'
                /\ Waiting(s) \in Nat /\ Waiting(s)' \in Nat
                /\ Pending(t, s) \in Nat /\ Pending(t, s)' \in Nat
  <1>1. IsFiniteSet(Threads)
    BY BrokerAssumption DEF BrokerSetting
  <1> SUFFICES ASSUME NEW s
               PROVE  /\ Waiting(s)' = Waiting(s) - Pending(t, s) + Pending(t, s)'
                      /\ Waiting(s) \in Nat /\ Waiting(s)' \in Nat
                      /\ Pending(t, s) \in Nat /\ Pending(t, s)' \in Nat
    OBVIOUS
  <1>2. ASSUME NEW u \in Threads
        PROVE  Pending(u, s) \in Nat /\ Pending(u, s)' \in Nat
    <2>1. calls[u].order \in Orders /\ calls'[u].order \in Orders
      BY DEF TypeOK
    <2> QED BY <2>1, OrderFields DEF Pending
  <1>3. \A u \in Threads \ {t} : Pending(u, s)' = Pending(u, s)
    BY DEF Pending
  <1> DEFINE f == [u \in Threads |-> Pending(u, s)]
             g == [u \in Threads |-> Pending(u, s)']
             z == [u \in Threads |-> 0]
  <1>4. /\ DOMAIN f = Threads /\ DOMAIN g = Threads /\ DOMAIN z = Threads
        /\ f[t] = Pending(t, s) /\ g[t] = Pending(t, s)'
    OBVIOUS
  <1>5. \A u \in Threads : f[u] \in Nat /\ g[u] \in Nat /\ z[u] = 0 /\ (u # t => f[u] = g[u])
    BY <1>2, <1>3
  <1>6. Waiting(s) = SumFunction(f) /\ Waiting(s)' = SumFunction(g)
    BY DEF Waiting
  <1> HIDE DEF f, g, z
  <1>7. SumFunction(g) = SumFunction(f) - f[t] + g[t]
    BY <1>1, <1>4, <1>5, SumExcept
  <1>8. SumFunction(f) \in Nat /\ SumFunction(g) \in Nat
    BY <1>1, <1>4, <1>5, SumIsNat
  <1> QED BY <1>2, <1>4, <1>6, <1>7, <1>8

\* The position objects hold no less than nothing.
LEMMA HeapSharesNat ==
  ASSUME NEW s, NEW h \in Seq(Positions)
  PROVE  InHeap(s, h) \in Nat
  <1> DEFINE f == [i \in DOMAIN h |-> IF h[i].symbol = s THEN h[i].quantity ELSE 0]
  <1>1. DOMAIN f = 1..Len(h) /\ IsFiniteSet(1..Len(h))
    BY FS_Interval
  <1>2. ASSUME NEW i \in 1..Len(h) PROVE f[i] \in Nat
    <2>1. h[i] \in Positions
      OBVIOUS
    <2>2. h[i].quantity \in Nat
      BY <2>1 DEF Positions
    <2> QED BY <2>2
  <1>3. InHeap(s, h) = SumFunction(f)
    BY Zenon DEF InHeap, Total
  <1> HIDE DEF f
  <1> QED BY <1>1, <1>2, <1>3, SumIsNat

\* The kinds of step again, of the account as a whole.
LEMMA EstateStutter ==
  ASSUME cash' = cash, \A s \in Symbols : Owned(s)' = Owned(s)
  PROVE  UNCHANGED Estate!vars
  BY DEF Estate!vars

LEMMA EstateBuy ==
  ASSUME NEW sym \in Symbols, NEW q \in Quantities, NEW p \in Prices,
         q * p <= cash, cash' = cash - q * p,
         Owned(sym)' = Owned(sym) + q,
         \A s \in Symbols : s # sym => Owned(s)' = Owned(s)
  PROVE  Estate!Next
  <1>1. Estate!Buy(sym, q, p)
    BY DEF Estate!Buy
  <1> QED BY <1>1 DEF Estate!Next

LEMMA EstateSell ==
  ASSUME NEW sym \in Symbols, NEW q \in Quantities, NEW p \in Prices,
         q <= Owned(sym), cash' = cash + q * p,
         Owned(sym)' = Owned(sym) - q,
         \A s \in Symbols : s # sym => Owned(s)' = Owned(s)
  PROVE  Estate!Next
  <1>1. Estate!Sell(sym, q, p)
    BY DEF Estate!Sell
  <1> QED BY <1>1 DEF Estate!Next

\* What a step of thread t does to the shares: those of the position objects, and
\* those that wait.
LEMMA OwnedMoves ==
  ASSUME TypeOK, TypeOK', NEW t \in Threads, \A u \in Threads \ {t} : calls'[u] = calls[u],
         NEW s \in Symbols
  PROVE  /\ Owned(s)' - Owned(s)
              = (HeapShares(s)' - HeapShares(s)) + (Pending(t, s)' - Pending(t, s))
         /\ Owned(s) \in Int /\ Owned(s)' \in Int
         /\ HeapShares(s) \in Nat /\ HeapShares(s)' \in Nat
         /\ HeapShares(s) <= Owned(s)
         /\ Pending(t, s) \in Nat /\ Pending(t, s)' \in Nat
  <1>1. HeapShares(s) \in Nat
    BY HeapSharesNat DEF HeapShares, TypeOK
  <1>2. HeapShares(s)' \in Nat
    <2>1. heap' \in Seq(Positions)
      BY DEF TypeOK
    <2>2. InHeap(s, heap') \in Nat
      BY <2>1, HeapSharesNat
    <2>3. HeapShares(s)' = InHeap(s, heap')
      BY Zenon DEF HeapShares, InHeap, Total
    <2> QED BY <2>2, <2>3
  <1>3. Owned(s) = HeapShares(s) + Waiting(s) /\ Owned(s)' = HeapShares(s)' + Waiting(s)'
    BY OwnedIs, OwnedWillBe DEF OwnedSplits
  <1>4. /\ Waiting(s)' = Waiting(s) - Pending(t, s) + Pending(t, s)'
        /\ Waiting(s) \in Nat /\ Waiting(s)' \in Nat
        /\ Pending(t, s) \in Nat /\ Pending(t, s)' \in Nat
    BY WaitingStep
  <1> QED BY <1>1, <1>2, <1>3, <1>4

\* A step that leaves the heap and what waits alone.
LEMMA EstateAside ==
  ASSUME TypeOK, TypeOK', NEW t \in Threads, \A u \in Threads \ {t} : calls'[u] = calls[u],
         UNCHANGED <<cash, heap>>,
         \A s \in Symbols : Pending(t, s)' = Pending(t, s)
  PROVE  UNCHANGED Estate!vars
  <1>1. ASSUME NEW s \in Symbols PROVE Owned(s)' = Owned(s)
    <2>1. HeapShares(s)' = HeapShares(s)
      BY Zenon DEF HeapShares, InHeap, Total
    <2>2. /\ Owned(s)' - Owned(s)
               = (HeapShares(s)' - HeapShares(s)) + (Pending(t, s)' - Pending(t, s))
          /\ Owned(s) \in Int /\ Owned(s)' \in Int
          /\ HeapShares(s) \in Nat /\ Pending(t, s) \in Nat
      BY OwnedMoves
    <2>3. /\ HeapShares(s)' - HeapShares(s) = 0
          /\ Pending(t, s)' - Pending(t, s) = 0
      BY <2>1, <2>2
    <2>4. Owned(s)' - Owned(s) = 0 /\ Owned(s) \in Int /\ Owned(s)' \in Int
      BY <2>2, <2>3
    <2> DEFINE was == Owned(s)
               is == Owned(s)'
    <2>5. is - was = 0 /\ is \in Int /\ was \in Int
      BY <2>4
    <2> HIDE DEF was, is
    <2>6. is = was
      BY <2>5
    <2> QED BY <2>6 DEF was, is
  <1> QED BY <1>1, EstateStutter

\* Every step of the broker, whoever takes it and whatever the others are about, is a
\* step of the account or leaves it alone.
LEMMA EstateStep ==
  ASSUME TypeOK, TypeOK', PositionsAreHeld, [Next]_vars
  PROVE  [Estate!Next]_(Estate!vars)
  <1>1. ASSUME NEW t \in Threads, NEW order \in Orders, PlaceOrder(t, order)
        PROVE  UNCHANGED Estate!vars
    <2>1. /\ UNCHANGED <<cash, heap>> /\ calls[t].at = "idle"
          /\ \A u \in Threads \ {t} : calls'[u] = calls[u]
          /\ calls'[t].at = "check"
      BY <1>1, CallFacts DEF PlaceOrder, Busy
    <2>2. \A s \in Symbols : Pending(t, s)' = Pending(t, s)
      BY <2>1 DEF Pending
    <2> QED BY <2>1, <2>2, EstateAside
  <1>2. ASSUME NEW t \in Threads, RejectBuy(t) \/ RejectSell(t) \/ Record(t)
        PROVE  UNCHANGED Estate!vars
    <2>1. /\ UNCHANGED <<cash, heap>>
          /\ calls[t].at = "book" => calls[t].order.side = "SELL"
      BY <1>2 DEF RejectBuy, RejectSell, Record
    <2>2. PICK r : Return(t, r)
      BY <1>2 DEF RejectBuy, RejectSell, Record
    <2>3. calls'[t] = [NoCall EXCEPT !.result = r] /\ \A u \in Threads \ {t} : calls'[u] = calls[u]
      BY <2>2, CallFacts DEF Return
    <2>4. calls'[t].at = "idle"
      BY <2>3, NoCallType DEF NoCall
    <2>5. \A s \in Symbols : Pending(t, s)' = Pending(t, s)
      BY <2>1, <2>4 DEF Pending
    <2> QED BY <2>1, <2>3, <2>5, EstateAside
  <1>3. ASSUME NEW t \in Threads, LookUp(t)
        PROVE  UNCHANGED Estate!vars
    <2>1. /\ UNCHANGED <<cash, heap>> /\ calls[t].at = "check" /\ calls[t].order.side = "SELL"
          /\ Advance(t, "book", book[calls[t].order.symbol])
      BY <1>3 DEF LookUp
    <2>2. /\ \A u \in Threads \ {t} : calls'[u] = calls[u]
          /\ calls'[t].order = calls[t].order
      BY <2>1, Advanced
    <2>3. \A s \in Symbols : Pending(t, s)' = Pending(t, s)
      BY <2>1, <2>2 DEF Pending
    <2> QED BY <2>1, <2>2, <2>3, EstateAside
  <1>4. ASSUME NEW t \in Threads, Debit(t)
        PROVE  Estate!Next
    <2> DEFINE o == calls[t].order
    <2>1. /\ o \in Orders /\ o.side = "BUY" /\ calls[t].at = "check"
          /\ o.symbol \in Symbols /\ o.quantity \in Quantities /\ o.price \in Prices
          /\ o.quantity \in Nat
          /\ Cost(o) <= cash /\ cash' = cash - Cost(o) /\ heap' = heap
          /\ Advance(t, "book", book[o.symbol])
      <3>1. o \in Orders /\ o.side = "BUY"
        BY <1>4, CallFacts DEF Debit
      <3>2. o.quantity \in Quantities
        BY <3>1 DEF Orders
      <3> QED BY <1>4, <3>1, <3>2, OrderFields DEF Debit
    <2>2. /\ \A u \in Threads \ {t} : calls'[u] = calls[u]
          /\ calls'[t].at = "book" /\ calls'[t].order = o
      BY <2>1, Advanced
    <2>3. ASSUME NEW s \in Symbols
          PROVE  Owned(s)' = Owned(s) + (IF o.symbol = s THEN o.quantity ELSE 0)
      <3>1. Pending(t, s) = 0 /\ Pending(t, s)' = IF o.symbol = s THEN o.quantity ELSE 0
        BY <2>1, <2>2 DEF Pending
      <3>2. HeapShares(s)' = HeapShares(s)
        BY <2>1, Zenon DEF HeapShares, InHeap, Total
      <3>3. /\ Owned(s)' - Owned(s)
                 = (HeapShares(s)' - HeapShares(s)) + (Pending(t, s)' - Pending(t, s))
            /\ Owned(s) \in Int /\ Owned(s)' \in Int /\ HeapShares(s) \in Nat
        BY <2>2, OwnedMoves
      <3> QED BY <2>1, <3>1, <3>2, <3>3
    <2>4. PICK sym \in Symbols, q \in Quantities, p \in Prices :
            sym = o.symbol /\ q = o.quantity /\ p = o.price
      BY <2>1
    <2>5. q * p <= cash /\ cash' = cash - q * p
      BY <2>1, <2>4 DEF Cost
    <2>6. /\ Owned(sym)' = Owned(sym) + q
          /\ \A s \in Symbols : s # sym => Owned(s)' = Owned(s)
      <3>1. ASSUME NEW s \in Symbols, s # sym PROVE Owned(s)' = Owned(s)
        <4>1. Owned(s) \in Int
          BY <2>2, OwnedMoves
        <4> QED BY <2>3, <2>4, <3>1, <4>1
      <3> QED BY <2>3, <2>4, <3>1
    <2> QED BY <2>5, <2>6, EstateBuy
  <1>5. ASSUME NEW t \in Threads, BookBuy(t)
        PROVE  UNCHANGED Estate!vars
    <2> DEFINE o == calls[t].order
    <2>1. /\ calls[t].at = "book" /\ o.side = "BUY" /\ cash' = cash
          /\ Advance(t, "record", calls[t].position) /\ o.quantity \in Nat
      BY <1>5, CallFacts, OrderFields DEF BookBuy
    <2>2. /\ \A u \in Threads \ {t} : calls'[u] = calls[u]
          /\ calls'[t].at = "record"
      BY <2>1, Advanced
    <2>3. ASSUME NEW s \in Symbols PROVE Owned(s)' = Owned(s)
      <3>1. Pending(t, s) = (IF o.symbol = s THEN o.quantity ELSE 0) /\ Pending(t, s)' = 0
        BY <2>1, <2>2 DEF Pending
      <3>2. HeapShares(s)' = HeapShares(s) + (IF o.symbol = s THEN o.quantity ELSE 0)
        BY <1>5, PurchaseEnters
      <3>3. /\ Owned(s)' - Owned(s)
                 = (HeapShares(s)' - HeapShares(s)) + (Pending(t, s)' - Pending(t, s))
            /\ Owned(s) \in Int /\ Owned(s)' \in Int /\ HeapShares(s) \in Nat
        BY <2>2, OwnedMoves
      <3> QED BY <2>1, <3>1, <3>2, <3>3
    <2> QED BY <2>1, <2>3, EstateStutter
  <1>6. ASSUME NEW t \in Threads, BookSell(t)
        PROVE  Estate!Next \/ UNCHANGED Estate!vars
    <2> DEFINE o == calls[t].order
    <2>1. /\ o \in Orders /\ calls[t].at = "book" /\ o.side = "SELL" /\ o.symbol \in Symbols
          /\ o.quantity \in Nat /\ o.quantity \in Quantities \cup {0} /\ o.price \in Prices
          /\ o.price \in Nat /\ cash' = cash + Cost(o) /\ cash \in Int
      BY <1>6, CallFacts, OrderFields DEF BookSell, TypeOK
    <2>2. /\ \A u \in Threads \ {t} : calls'[u] = calls[u]
          /\ calls'[t].at # "book"
      <3>1. CASE Advance(t, "record", calls[t].position)
        BY <3>1, Advanced
      <3>2. CASE Return(t, "ERROR")
        <4>1. /\ calls'[t] = [NoCall EXCEPT !.result = "ERROR"]
              /\ \A u \in Threads \ {t} : calls'[u] = calls[u]
          BY <3>2, CallFacts DEF Return
        <4>2. calls'[t].at = "idle"
          BY <4>1, NoCallType DEF NoCall
        <4> QED BY <4>1, <4>2
      <3> QED BY <1>6, <3>1, <3>2 DEF BookSell
    <2>3. ASSUME NEW s \in Symbols
          PROVE  /\ Owned(s)' = Owned(s) - (IF o.symbol = s THEN o.quantity ELSE 0)
                 /\ Owned(s) \in Int
                 /\ o.symbol = s => o.quantity <= Owned(s)
      <3>1. Pending(t, s) = 0 /\ Pending(t, s)' = 0
        BY <2>1, <2>2 DEF Pending
      <3>2. HeapShares(s)' = HeapShares(s) - (IF o.symbol = s THEN o.quantity ELSE 0)
        BY <1>6, SaleLeaves
      <3>3. /\ Owned(s)' - Owned(s)
                 = (HeapShares(s)' - HeapShares(s)) + (Pending(t, s)' - Pending(t, s))
            /\ Owned(s) \in Int /\ Owned(s)' \in Int /\ HeapShares(s) \in Nat
            /\ HeapShares(s)' \in Nat /\ HeapShares(s) <= Owned(s)
        BY <2>2, OwnedMoves
      <3>4. Owned(s)' = Owned(s) - (IF o.symbol = s THEN o.quantity ELSE 0)
        <4>1. Pending(t, s)' - Pending(t, s) = 0
          BY <3>1
        <4>2. HeapShares(s)' - HeapShares(s) = -(IF o.symbol = s THEN o.quantity ELSE 0)
          BY <2>1, <3>2, <3>3
        <4> DEFINE was == Owned(s)
                   is == Owned(s)'
                   k == IF o.symbol = s THEN o.quantity ELSE 0
        <4>3. is - was = -k /\ is \in Int /\ was \in Int /\ k \in Nat
          BY <2>1, <3>3, <4>1, <4>2
        <4> HIDE DEF was, is, k
        <4>4. is = was - k
          BY <4>3
        <4> QED BY <4>4 DEF was, is, k
      <3>5. o.symbol = s => o.quantity <= Owned(s)
        BY <2>1, <3>2, <3>3
      <3> QED BY <3>3, <3>4, <3>5
    <2>4. CASE o.quantity = 0
      <3>1. cash' = cash
        BY <2>1, <2>4 DEF Cost
      <3>2. \A s \in Symbols : Owned(s)' = Owned(s)
        BY <2>3, <2>4
      <3> QED BY <3>1, <3>2, EstateStutter
    <2>5. CASE o.quantity # 0
      <3>1. PICK sym \in Symbols, q \in Quantities, p \in Prices :
              sym = o.symbol /\ q = o.quantity /\ p = o.price
        BY <2>1, <2>5
      <3>2. cash' = cash + q * p
        BY <2>1, <3>1 DEF Cost
      <3>3. /\ Owned(sym)' = Owned(sym) - q /\ q <= Owned(sym)
            /\ \A s \in Symbols : s # sym => Owned(s)' = Owned(s)
        BY <2>3, <3>1
      <3> QED BY <3>2, <3>3, EstateSell
    <2> QED BY <2>4, <2>5
  <1>7. ASSUME NEW x \in Symbols, NEW p \in Prices, SetPrice(x, p)
        PROVE  UNCHANGED Estate!vars
    <2>1. UNCHANGED <<cash, calls>>
      BY <1>7 DEF SetPrice
    <2>2. \A s \in Symbols : Waiting(s)' = Waiting(s)
      BY <2>1, Zenon DEF Waiting, Pending
    <2>3. \A s \in Symbols : HeapShares(s)' = HeapShares(s)
      BY <1>7, PricesKeepShares
    <2>4. \A s \in Symbols : Owned(s)' = Owned(s)
      BY <2>2, <2>3, OwnedIs, OwnedWillBe DEF OwnedSplits
    <2> QED BY <2>1, <2>4, EstateStutter
  <1>8. ASSUME UNCHANGED vars
        PROVE  UNCHANGED Estate!vars
    <2>1. UNCHANGED <<cash, calls, heap>>
      BY <1>8 DEF vars
    <2>2. \A s \in Symbols : Waiting(s)' = Waiting(s) /\ HeapShares(s)' = HeapShares(s)
      BY <2>1, Zenon DEF Waiting, Pending, HeapShares, InHeap, Total
    <2>3. \A s \in Symbols : Owned(s)' = Owned(s)
      BY <2>2, OwnedIs, OwnedWillBe DEF OwnedSplits
    <2> QED BY <2>1, <2>3, EstateStutter
  <1> QED BY <1>1, <1>2, <1>3, <1>4, <1>5, <1>6, <1>7, <1>8 DEF Next, Step

LEMMA EstateBegins == Init => Estate!Init
  <1> SUFFICES ASSUME Init PROVE Estate!Init
    OBVIOUS
  <1>1. ASSUME NEW s \in Symbols PROVE Owned(s) = 0
    <2> DEFINE f == [t \in Threads |-> Pending(t, s)]
               h == [i \in DOMAIN <<>> |-> IF <<>>[i].symbol = s THEN <<>>[i].quantity ELSE 0]
    <2>1. DOMAIN f = Threads /\ \A t \in Threads : f[t] = 0
      BY DEF Init, NoCall, Pending
    <2>2. DOMAIN h = {}
      OBVIOUS
    <2>3. Waiting(s) = SumFunction(f)
      BY DEF Waiting
    <2>4. heap = <<>> /\ InHeap(s, <<>>) = SumFunction(h)
      BY Zenon DEF Init, InHeap, Total
    <2> HIDE DEF f, h
    <2>5. Waiting(s) = 0 /\ HeapShares(s) = 0
      BY <2>1, <2>2, <2>3, <2>4, SumIsZero, FS_EmptySet, BrokerAssumption
      DEF BrokerSetting, HeapShares
    <2> QED BY <2>5, OwnedIs DEF OwnedSplits
  <1> QED BY <1>1 DEF Init, Estate!Init

\* With any number of callers, each order moves its cash and its shares at once, within the
\* funds and the shares there are, or moves nothing: what interleaved calls of place_order
\* lose is the sight of a position, not its shares.
THEOREM OrdersMoveAtOnce == Spec => OrdersAreAtomic
  <1>1. TypeOK /\ TypeOK' /\ PositionsAreHeld /\ [Next]_vars => [Estate!Next]_(Estate!vars)
    BY EstateStep
  <1> QED
    BY <1>1, EstateBegins, TypeCorrect, PositionsHeld, PTL DEF Spec, OrdersAreAtomic, Estate!Spec
=============================================================================
