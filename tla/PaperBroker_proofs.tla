------------------------- MODULE PaperBroker_proofs -------------------------
(***************************************************************************)
(* Theorems about PaperBroker, for any set of threads, symbols, sizes and  *)
(* prices: the account is never overdrawn and the dictionary of positions  *)
(* lists held positions only, however the calls of place_order interleave. *)
(***************************************************************************)
EXTENDS PaperAudit, Sums_proofs

\* The average entry price of a purchase is well defined.
LEMMA DivIsNat ==
  ASSUME NEW a \in Nat, NEW b \in Nat, b > 0
  PROVE  a \div b \in Nat
  BY SMT

\* So is the cost of an order.
LEMMA ProductIsNat ==
  ASSUME NEW a \in Nat, NEW b \in Nat
  PROVE  a * b \in Nat
  BY SMT

\* What an order is, field by field.
LEMMA OrderFields ==
  ASSUME NEW o \in Orders
  PROVE  /\ o.symbol \in Symbols
         /\ o.side \in {"BUY", "SELL"}
         /\ o.quantity \in Nat
         /\ o.quantity \in Quantities \cup {0}
         /\ o.side = "BUY" => o.quantity > 0
         /\ o.price \in Prices
         /\ o.price \in Nat
         /\ Cost(o) \in Nat
  <1>1. /\ o.symbol \in Symbols
        /\ o.side \in {"BUY", "SELL"}
        /\ o.quantity \in Quantities \cup {0}
        /\ o.side = "BUY" => o.quantity \in Quantities
        /\ o.price \in Prices
    BY DEF Orders
  <1>2. /\ o.quantity \in Nat
        /\ o.side = "BUY" => o.quantity > 0
        /\ o.price \in Nat
    <2>1. Quantities \subseteq Nat \ {0} /\ Prices \subseteq Nat
      BY BrokerAssumption DEF BrokerSetting
    <2>2. /\ \A q \in Quantities : q > 0
          /\ \A q \in Quantities \cup {0} : q \in Nat
          /\ \A p \in Prices : p \in Nat
      BY <2>1
    <2> QED BY <1>1, <2>2
  <1>3. Cost(o) \in Nat
    BY <1>2, ProductIsNat DEF Cost
  <1> QED BY <1>1, <1>2, <1>3

\* An idle thread's call record is well typed.
LEMMA NoCallType ==
  NoCall \in [at : Stages, order : Orders, position : {0}, result : Results]
  <1>1. PICK s \in Symbols, q \in Quantities, p \in Prices : TRUE
    BY BrokerAssumption DEF BrokerSetting
  <1>2. [symbol |-> s, side |-> "BUY", quantity |-> q, price |-> p] \in Orders
    BY DEF Orders
  <1>3. (CHOOSE o \in Orders : TRUE) \in Orders
    BY <1>2
  <1> QED BY <1>3 DEF NoCall, Stages, Results

\* A purchase turns a position into a position with shares, of the same symbol.
LEMMA AveragedType ==
  ASSUME NEW p \in Positions, NEW o \in Orders, o.side = "BUY"
  PROVE  /\ Averaged(p, o) \in Positions
         /\ Averaged(p, o).symbol = p.symbol
         /\ Averaged(p, o).quantity > 0
  <1> DEFINE total == p.quantity + o.quantity
             paid == p.avg * p.quantity + Cost(o)
  <1>1. /\ p.symbol \in Symbols /\ p.quantity \in Nat /\ p.avg \in Nat /\ p.price \in Nat
    BY DEF Positions
  <1>2. /\ o.quantity \in Nat /\ o.quantity > 0 /\ o.price \in Nat /\ Cost(o) \in Nat
    BY OrderFields
  <1>3. total \in Nat /\ total > 0
    BY <1>1, <1>2
  <1>4. paid \in Nat
    <2>1. p.avg * p.quantity \in Nat
      BY <1>1, ProductIsNat
    <2> QED BY <2>1, <1>2
  <1>5. paid \div total \in Nat
    <2> HIDE DEF total, paid
    <2> QED BY <1>3, <1>4, DivIsNat
  <1>6. Averaged(p, o) = [p EXCEPT !.quantity = total, !.avg = paid \div total, !.price = o.price]
    BY DEF Averaged
  <1> HIDE DEF total, paid
  <1> QED BY <1>1, <1>2, <1>3, <1>5, <1>6 DEF Positions
-----------------------------------------------------------------------------
\* Type correctness.

CallRecords(n) == [at : Stages, order : Orders, position : 0..n, result : Results]

\* The ways a step changes calls[t] keep the calls well typed.
LEMMA ReturnType ==
  ASSUME NEW n \in Nat, calls \in [Threads -> CallRecords(n)],
         NEW t \in Threads, NEW r \in Results, Return(t, r)
  PROVE  calls' \in [Threads -> CallRecords(n)]
  <1>1. [NoCall EXCEPT !.result = r] \in CallRecords(n)
    BY NoCallType DEF CallRecords
  <1> QED BY <1>1 DEF Return

\* place_order goes on to its next stage with a position just looked up ...
LEMMA AdvanceType ==
  ASSUME NEW n \in Nat, calls \in [Threads -> CallRecords(n)],
         NEW t \in Threads, NEW stage \in Stages,
         NEW m \in Nat, n <= m, NEW obj \in 0..m, Advance(t, stage, obj)
  PROVE  calls' \in [Threads -> CallRecords(m)]
  <1>1. calls \in [Threads -> CallRecords(m)]
    BY DEF CallRecords
  <1>2. [[calls[t] EXCEPT !.at = stage] EXCEPT !.position = obj] \in CallRecords(m)
    BY <1>1 DEF CallRecords
  <1>3. calls' = [calls EXCEPT ![t] = [[@ EXCEPT !.at = stage] EXCEPT !.position = obj]]
    BY <1>1 DEF Advance
  <1> QED BY <1>1, <1>2, <1>3

\* ... or with the one it has.
LEMMA AdvanceTypeSame ==
  ASSUME NEW n \in Nat, calls \in [Threads -> CallRecords(n)],
         NEW t \in Threads, NEW stage \in Stages, NEW obj \in 0..n, Advance(t, stage, obj)
  PROVE  calls' \in [Threads -> CallRecords(n)]
  <1>1. n <= n
    OBVIOUS
  <1> QED BY <1>1, AdvanceType

\* place_order and set_prices keep every part of the state in its type.
LEMMA NextTypes == TypeOK /\ [Next]_vars => TypeOK'
  <1> DEFINE LogEntries == [symbol : Symbols, side : {"BUY", "SELL"},
                            quantity : Quantities \cup {0}, price : Prices, cashAfter : Int]
  <1> SUFFICES ASSUME TypeOK, [Next]_vars
               PROVE  TypeOK'
    OBVIOUS
  <1>1. /\ cash \in Int
        /\ heap \in Seq(Positions)
        /\ book \in [Symbols -> 0..Len(heap)]
        /\ tradeLog \in Seq(LogEntries)
        /\ failed \in Seq(Orders)
        /\ calls \in [Threads -> CallRecords(Len(heap))]
        /\ Len(heap) \in Nat
    BY DEF TypeOK, CallRecords
  <1>2. ASSUME NEW t \in Threads
        PROVE  /\ calls[t].order \in Orders
               /\ calls[t].position \in 0..Len(heap)
    BY <1>1 DEF CallRecords
  <1>3. ASSUME NEW t \in Threads, NEW o \in Orders, PlaceOrder(t, o)
        PROVE  TypeOK'
    <2>1. [at |-> "check", order |-> o, position |-> 0, result |-> "none"]
            \in CallRecords(Len(heap))
      BY <1>1 DEF CallRecords, Stages, Results
    <2>2. calls' \in [Threads -> CallRecords(Len(heap))]
      BY <1>1, <1>3, <2>1 DEF PlaceOrder
    <2> QED BY <1>1, <1>3, <2>2 DEF PlaceOrder, TypeOK, CallRecords
  <1>4. ASSUME NEW t \in Threads, Debit(t)
        PROVE  TypeOK'
    <2>1. cash' \in Int
      BY <1>1, <1>2, <1>4, OrderFields DEF Debit
    <2>2. book[calls[t].order.symbol] \in 0..Len(heap)
      BY <1>1, <1>2, OrderFields
    <2>3. calls' \in [Threads -> CallRecords(Len(heap))]
      BY <1>1, <1>4, <2>2, AdvanceType DEF Debit, Stages
    <2> QED BY <1>1, <1>4, <2>1, <2>3 DEF Debit, TypeOK, CallRecords
  <1>5. ASSUME NEW t \in Threads, RejectBuy(t) \/ RejectSell(t)
        PROVE  TypeOK'
    <2>1. calls' \in [Threads -> CallRecords(Len(heap))]
      BY <1>1, <1>5, ReturnType DEF RejectBuy, RejectSell, Results
    <2> QED BY <1>1, <1>5, <2>1 DEF RejectBuy, RejectSell, TypeOK, CallRecords
  <1>6. ASSUME NEW t \in Threads, LookUp(t)
        PROVE  TypeOK'
    <2>1. book[calls[t].order.symbol] \in 0..Len(heap)
      BY <1>1, <1>2, OrderFields
    <2>2. Advance(t, "book", book[calls[t].order.symbol])
      BY <1>6 DEF LookUp
    <2>3. calls' \in [Threads -> CallRecords(Len(heap))]
      BY <1>1, <2>1, <2>2, AdvanceTypeSame DEF Stages
    <2> QED BY <1>1, <1>6, <2>3 DEF LookUp, TypeOK, CallRecords
  <1>7. ASSUME NEW t \in Threads, BookBuy(t)
        PROVE  TypeOK'
    <2> DEFINE o == calls[t].order
               obj == calls[t].position
               fresh == [symbol |-> o.symbol, quantity |-> o.quantity,
                         avg |-> o.price, price |-> o.price]
    <2>1. o \in Orders /\ obj \in 0..Len(heap) /\ o.side = "BUY"
      BY <1>2, <1>7 DEF BookBuy
    <2>2. UNCHANGED <<cash, tradeLog, failed>> /\ Advance(t, "record", obj)
      BY <1>7 DEF BookBuy
    <2>3. CASE obj # 0 /\ heap' = [heap EXCEPT ![obj] = Averaged(@, o)] /\ book' = book
      <3>1. obj \in 1..Len(heap) /\ heap[obj] \in Positions
        BY <1>1, <2>1, <2>3
      <3>2. Averaged(heap[obj], o) \in Positions
        BY <2>1, <3>1, AveragedType
      <3>3. heap' \in Seq(Positions) /\ Len(heap') = Len(heap)
        BY <1>1, <2>3, <3>1, <3>2
      <3>4. calls' \in [Threads -> CallRecords(Len(heap))]
        BY <1>1, <2>1, <2>2, AdvanceTypeSame DEF Stages
      <3> QED BY <1>1, <2>2, <2>3, <3>3, <3>4 DEF TypeOK, CallRecords
    <2>4. CASE obj = 0 /\ heap' = Append(heap, fresh)
               /\ book' = [book EXCEPT ![o.symbol] = Len(heap) + 1]
      <3>1. fresh \in Positions
        BY <2>1, OrderFields DEF Positions
      <3>2. heap' \in Seq(Positions) /\ Len(heap') = Len(heap) + 1
        BY <1>1, <2>4, <3>1
      <3>3. calls' \in [Threads -> CallRecords(Len(heap) + 1)]
        <4>1. obj \in 0..(Len(heap) + 1) /\ Len(heap) + 1 \in Nat /\ Len(heap) <= Len(heap) + 1
          BY <1>1, <2>1
        <4> QED BY <1>1, <2>2, <4>1, AdvanceType DEF Stages
      <3>4. book' \in [Symbols -> 0..(Len(heap) + 1)]
        <4>1. book \in [Symbols -> 0..(Len(heap) + 1)]
          BY <1>1
        <4>2. Len(heap) + 1 \in 0..(Len(heap) + 1)
          BY <1>1
        <4> QED BY <2>4, <4>1, <4>2
      <3> QED BY <1>1, <2>2, <3>2, <3>3, <3>4 DEF TypeOK, CallRecords
    <2> QED BY <1>7, <2>3, <2>4 DEF BookBuy
  <1>8. ASSUME NEW t \in Threads, BookSell(t)
        PROVE  TypeOK'
    <2> DEFINE o == calls[t].order
               obj == calls[t].position
               left == heap[obj].quantity - o.quantity
    <2>1. o \in Orders /\ obj \in 0..Len(heap)
      BY <1>2
    <2>2. obj \in 1..Len(heap) /\ heap[obj] \in Positions /\ heap[obj].quantity >= o.quantity
      BY <1>1, <1>8, <2>1 DEF BookSell, Covers
    <2>3. /\ heap[obj].quantity \in Nat /\ o.quantity \in Nat
          /\ o.price \in Nat /\ Cost(o) \in Nat /\ o.symbol \in Symbols
      BY <2>1, <2>2, OrderFields DEF Positions
    <2>4. left \in Nat /\ cash + Cost(o) \in Int
      BY <1>1, <2>2, <2>3
    <2>5. heap' = [heap EXCEPT ![obj] = [[@ EXCEPT !.quantity = left] EXCEPT !.price = o.price]]
      BY <1>1, <1>8, <2>2 DEF BookSell
    <2>6. [[heap[obj] EXCEPT !.quantity = left] EXCEPT !.price = o.price] \in Positions
      BY <2>2, <2>3, <2>4 DEF Positions
    <2>7. heap' \in Seq(Positions) /\ Len(heap') = Len(heap)
      BY <1>1, <2>2, <2>5, <2>6
    <2>8. cash' \in Int /\ tradeLog' = tradeLog
      BY <1>8, <2>4 DEF BookSell
    <2>9. failed' \in Seq(Orders)
      <3>1. failed' = failed \/ failed' = Append(failed, o)
        BY <1>8 DEF BookSell
      <3>2. \A x \in Orders : Append(failed, x) \in Seq(Orders)
        BY <1>1
      <3> QED BY <1>1, <2>1, <3>1, <3>2
    <2>10. book' \in [Symbols -> 0..Len(heap)]
      <3>1. book' = book \/ book' = [book EXCEPT ![o.symbol] = 0]
        BY <1>8 DEF BookSell
      <3>2. 0 \in 0..Len(heap)
        BY <1>1
      <3> QED BY <1>1, <2>3, <3>1, <3>2
    <2>11. calls' \in [Threads -> CallRecords(Len(heap))]
      <3>1. Advance(t, "record", obj) \/ Return(t, "ERROR")
        BY <1>8 DEF BookSell
      <3>2. CASE Advance(t, "record", obj)
        BY <1>1, <2>1, <3>2, AdvanceTypeSame DEF Stages
      <3>3. CASE Return(t, "ERROR")
        BY <1>1, <3>3, ReturnType DEF Results
      <3> QED BY <3>1, <3>2, <3>3
    <2> QED BY <1>1, <2>7, <2>8, <2>9, <2>10, <2>11 DEF TypeOK, CallRecords
  <1>9. ASSUME NEW t \in Threads, Record(t)
        PROVE  TypeOK'
    <2> DEFINE o == calls[t].order
               entry == [symbol |-> o.symbol, side |-> o.side, quantity |-> o.quantity,
                         price |-> o.price, cashAfter |-> cash]
    <2>1. entry \in LogEntries
      BY <1>1, <1>2, OrderFields
    <2>2. tradeLog' \in Seq(LogEntries)
      BY <1>1, <1>9, <2>1 DEF Record
    <2>3. calls' \in [Threads -> CallRecords(Len(heap))]
      BY <1>1, <1>9, ReturnType DEF Record, Results
    <2> QED BY <1>1, <1>9, <2>2, <2>3 DEF Record, TypeOK, CallRecords
  <1>10. ASSUME NEW s \in Symbols, NEW p \in Prices, SetPrice(s, p)
         PROVE  TypeOK'
    <2>1. book[s] \in 1..Len(heap) /\ heap[book[s]] \in Positions /\ p \in Nat
      BY <1>1, <1>10, BrokerAssumption DEF BrokerSetting, SetPrice
    <2>2. heap' = [heap EXCEPT ![book[s]] = [@ EXCEPT !.price = p]]
      BY <1>10 DEF SetPrice
    <2>3. [heap[book[s]] EXCEPT !.price = p] \in Positions
      BY <2>1 DEF Positions
    <2>4. heap' \in Seq(Positions) /\ Len(heap') = Len(heap)
      BY <1>1, <2>1, <2>2, <2>3
    <2> QED BY <1>1, <1>10, <2>4 DEF SetPrice, TypeOK, CallRecords
  <1>11. CASE UNCHANGED vars
    BY <1>11 DEF vars, TypeOK
  <1> QED
    BY <1>3, <1>4, <1>5, <1>6, <1>7, <1>8, <1>9, <1>10, <1>11 DEF Next, Step

LEMMA InitTypes == Init => TypeOK
  BY NoCallType, BrokerAssumption DEF BrokerSetting, Init, TypeOK

\* So each has it in every state.
THEOREM TypeCorrect == Spec => []TypeOK
  BY InitTypes, NextTypes, PTL DEF Spec
-----------------------------------------------------------------------------
\* No interleaving overdraws the account.  With its types the bound is inductive:
\* only Debit takes cash, in the step that tests it.
THEOREM NeverOverdrawn == Spec => []NonNegativeCash
  <1>1. Init => NonNegativeCash
    BY BrokerAssumption DEF BrokerSetting, Init, NonNegativeCash
  <1>2. TypeOK /\ NonNegativeCash /\ [Next]_vars => NonNegativeCash'
    <2> SUFFICES ASSUME TypeOK, NonNegativeCash, [Next]_vars
                 PROVE  NonNegativeCash'
      OBVIOUS
    <2>1. cash \in Int /\ cash >= 0
      BY DEF TypeOK, NonNegativeCash
    <2>2. ASSUME NEW t \in Threads
          PROVE  Cost(calls[t].order) \in Nat
      BY OrderFields DEF TypeOK
    <2>3. ASSUME NEW t \in Threads, Debit(t)
          PROVE  NonNegativeCash'
      BY <2>1, <2>2, <2>3 DEF Debit, NonNegativeCash
    <2>4. ASSUME NEW t \in Threads, BookSell(t)
          PROVE  NonNegativeCash'
      <3>1. cash' = cash + Cost(calls[t].order)
        BY <2>4 DEF BookSell
      <3> QED BY <2>1, <2>2, <3>1 DEF NonNegativeCash
    <2>5. CASE cash' = cash
      BY <2>1, <2>5 DEF NonNegativeCash
    <2>6. \/ \E t \in Threads : Debit(t) \/ BookSell(t)
          \/ cash' = cash
      BY DEF Next, Step, vars, PlaceOrder, RejectBuy, BookBuy, LookUp, RejectSell, Record, SetPrice
    <2> QED BY <2>3, <2>4, <2>5, <2>6
  <1> QED BY <1>1, <1>2, TypeCorrect, PTL DEF Spec

\* The dictionary lists positions that are held.
THEOREM PositionsHeld == Spec => []PositionsAreHeld
  <1>1. Init => PositionsAreHeld
    BY DEF Init, PositionsAreHeld, NoCall
  <1>2. TypeOK /\ PositionsAreHeld /\ [Next]_vars => PositionsAreHeld'
    <2> SUFFICES ASSUME TypeOK, PositionsAreHeld, [Next]_vars
                 PROVE  PositionsAreHeld'
      OBVIOUS
    <2>1. /\ heap \in Seq(Positions)
          /\ book \in [Symbols -> 0..Len(heap)]
          /\ calls \in [Threads -> CallRecords(Len(heap))]
          /\ Len(heap) \in Nat
      BY DEF TypeOK, CallRecords
    <2>2. ASSUME NEW t \in Threads
          PROVE  /\ calls[t].order \in Orders
                 /\ calls[t].order.symbol \in Symbols
                 /\ calls[t].position \in 0..Len(heap)
      BY <2>1, OrderFields DEF CallRecords
    <2>3. ASSUME NEW s \in Symbols, book[s] # 0
          PROVE  /\ book[s] \in 1..Len(heap)
                 /\ heap[book[s]].symbol = s
                 /\ heap[book[s]].quantity > 0
      BY <2>1, <2>3 DEF PositionsAreHeld
    <2>4. ASSUME NEW t \in Threads, calls[t].at = "book", calls[t].position # 0
          PROVE  /\ calls[t].position \in 1..Len(heap)
                 /\ heap[calls[t].position].symbol = calls[t].order.symbol
      BY <2>2, <2>4 DEF PositionsAreHeld
    \* A step that leaves the heap and the dictionary alone and looks nothing up.
    <2>5. ASSUME NEW t \in Threads, UNCHANGED <<book, heap>>,
                 NEW c, calls' = [calls EXCEPT ![t] = c], c.at # "book"
          PROVE  PositionsAreHeld'
      <3>1. \A u \in Threads : u # t => calls'[u] = calls[u]
        BY <2>1, <2>5
      <3>2. calls'[t].at # "book"
        BY <2>1, <2>5
      <3> QED BY <2>5, <3>1, <3>2 DEF PositionsAreHeld
    \* A look-up finds the position of the order's symbol.
    <2>6. ASSUME NEW t \in Threads, UNCHANGED <<book, heap>>,
                 Advance(t, "book", book[calls[t].order.symbol])
          PROVE  PositionsAreHeld'
      <3>1. \A u \in Threads : u # t => calls'[u] = calls[u]
        BY <2>1, <2>6 DEF Advance
      <3>2. /\ calls'[t].position = book[calls[t].order.symbol]
            /\ calls'[t].order = calls[t].order
        BY <2>1, <2>6 DEF Advance, CallRecords
      <3> QED BY <2>2, <2>3, <2>6, <3>1, <3>2 DEF PositionsAreHeld
    <2>7. ASSUME NEW t \in Threads, NEW o \in Orders, PlaceOrder(t, o)
          PROVE  PositionsAreHeld'
      <3> DEFINE c == [at |-> "check", order |-> o, position |-> 0, result |-> "none"]
      <3>1. UNCHANGED <<book, heap>> /\ calls' = [calls EXCEPT ![t] = c]
        BY <2>7 DEF PlaceOrder
      <3>2. c.at # "book"
        OBVIOUS
      <3> HIDE DEF c
      <3> QED BY <2>5, <3>1, <3>2
    <2>8. ASSUME NEW t \in Threads, Debit(t) \/ LookUp(t)
          PROVE  PositionsAreHeld'
      BY <2>6, <2>8 DEF Debit, LookUp
    <2>9. ASSUME NEW t \in Threads, RejectBuy(t) \/ RejectSell(t) \/ Record(t)
          PROVE  PositionsAreHeld'
      <3>1. \A r \in Results : [NoCall EXCEPT !.result = r].at # "book"
        BY NoCallType DEF NoCall
      <3>2. PICK r \in Results : Return(t, r)
        BY <2>9 DEF RejectBuy, RejectSell, Record, Results
      <3>3. UNCHANGED <<book, heap>>
        BY <2>9 DEF RejectBuy, RejectSell, Record
      <3> QED BY <2>5, <3>1, <3>2, <3>3 DEF Return
    <2>10. ASSUME NEW t \in Threads, BookBuy(t)
           PROVE  PositionsAreHeld'
      <3> DEFINE o == calls[t].order
                 obj == calls[t].position
                 fresh == [symbol |-> o.symbol, quantity |-> o.quantity,
                           avg |-> o.price, price |-> o.price]
      <3>1. /\ o \in Orders /\ o.side = "BUY" /\ o.symbol \in Symbols /\ o.quantity > 0
            /\ obj \in 0..Len(heap)
        BY <2>2, <2>10, OrderFields DEF BookBuy
      <3>2. /\ \A u \in Threads : u # t => calls'[u] = calls[u]
            /\ calls'[t].at # "book"
        BY <2>1, <2>10 DEF BookBuy, Advance, CallRecords
      <3>3. CASE obj # 0 /\ heap' = [heap EXCEPT ![obj] = Averaged(@, o)] /\ book' = book
        <4>1. obj \in 1..Len(heap) /\ heap[obj] \in Positions
          BY <2>1, <3>1, <3>3
        <4>2. /\ heap'[obj].symbol = heap[obj].symbol
              /\ heap'[obj].quantity > 0
          BY <2>1, <3>1, <3>3, <4>1, AveragedType
        <4>3. \A i \in 1..Len(heap) : i # obj => heap'[i] = heap[i]
          BY <2>1, <3>3
        <4> QED BY <2>3, <2>4, <3>2, <3>3, <4>2, <4>3 DEF PositionsAreHeld
      <3>4. CASE heap' = Append(heap, fresh) /\ book' = [book EXCEPT ![o.symbol] = Len(heap) + 1]
        <4>1. \A i \in 1..Len(heap) : heap'[i] = heap[i]
          BY <2>1, <3>4
        <4>2. heap'[Len(heap) + 1] = fresh
          BY <2>1, <3>4
        <4>3. book'[o.symbol] = Len(heap) + 1 /\ \A s \in Symbols : s # o.symbol => book'[s] = book[s]
          BY <2>1, <3>1, <3>4
        <4> QED BY <2>3, <2>4, <3>1, <3>2, <4>1, <4>2, <4>3 DEF PositionsAreHeld
      <3> QED BY <2>10, <3>3, <3>4 DEF BookBuy
    <2>11. ASSUME NEW t \in Threads, BookSell(t)
           PROVE  PositionsAreHeld'
      <3> DEFINE o == calls[t].order
                 obj == calls[t].position
                 left == heap[obj].quantity - o.quantity
      <3>1. /\ calls[t].at = "book" /\ obj # 0
            /\ heap' = [heap EXCEPT ![obj].quantity = left, ![obj].price = o.price]
        BY <2>11 DEF BookSell, Covers
      <3>2. obj \in 1..Len(heap) /\ heap[obj].symbol = o.symbol /\ heap[obj] \in Positions
        BY <2>1, <2>4, <3>1
      <3>3. heap' = [heap EXCEPT ![obj] = [[@ EXCEPT !.quantity = left] EXCEPT !.price = o.price]]
        BY <2>1, <3>1, <3>2
      <3>4. /\ heap'[obj] = [[heap[obj] EXCEPT !.quantity = left] EXCEPT !.price = o.price]
            /\ \A i \in 1..Len(heap) : i # obj => heap'[i] = heap[i]
        <4> DEFINE sold == [[heap[obj] EXCEPT !.quantity = left] EXCEPT !.price = o.price]
        <4>1. heap' = [heap EXCEPT ![obj] = sold]
          BY <3>3
        <4> HIDE DEF sold
        <4>2. heap'[obj] = sold /\ \A i \in 1..Len(heap) : i # obj => heap'[i] = heap[i]
          BY <2>1, <3>2, <4>1
        <4> QED BY <4>2 DEF sold
      <3>5. heap'[obj].symbol = o.symbol /\ heap'[obj].quantity = left
        BY <3>2, <3>4 DEF Positions
      <3>6. /\ \A u \in Threads : u # t => calls'[u] = calls[u]
            /\ calls'[t].at # "book"
        <4>1. Advance(t, "record", obj) \/ Return(t, "ERROR")
          BY <2>11 DEF BookSell
        <4> QED BY <2>1, <4>1, ZenonT(60) DEF Advance, Return, NoCall, CallRecords
      <3>7. \/ left > 0 /\ book' = book
            \/ /\ book'[o.symbol] = 0
               /\ \A s \in Symbols : s # o.symbol => book'[s] = book[s]
        <4>1. \/ left > 0 /\ book' = book
              \/ book' = [book EXCEPT ![o.symbol] = 0]
              \/ book[o.symbol] = 0 /\ book' = book
          BY <2>11 DEF BookSell
        <4> QED BY <2>1, <2>2, <4>1
      <3>8. ASSUME NEW s \in Symbols, book'[s] # 0
            PROVE  heap'[book'[s]].symbol = s /\ heap'[book'[s]].quantity > 0
        <4>1. book'[s] = book[s] /\ (s = o.symbol => left > 0)
          BY <2>2, <3>7, <3>8
        <4>2. /\ book[s] \in 1..Len(heap)
              /\ heap[book[s]].symbol = s
              /\ heap[book[s]].quantity > 0
          BY <2>3, <3>8, <4>1
        <4>3. CASE book[s] = obj
          BY <3>2, <3>5, <4>1, <4>2, <4>3
        <4>4. CASE book[s] # obj
          BY <3>4, <4>1, <4>2, <4>4
        <4> QED BY <4>3, <4>4
      <3>9. ASSUME NEW u \in Threads, calls'[u].at = "book", calls'[u].position # 0
            PROVE  heap'[calls'[u].position].symbol = calls'[u].order.symbol
        <4>1. u # t /\ calls'[u] = calls[u]
          BY <3>6, <3>9
        <4>2. /\ calls[u].position \in 1..Len(heap)
              /\ heap[calls[u].position].symbol = calls[u].order.symbol
          BY <2>4, <3>9, <4>1
        <4> QED BY <3>2, <3>4, <3>5, <4>1, <4>2
      <3> QED BY <3>8, <3>9 DEF PositionsAreHeld
    <2>12. ASSUME NEW s \in Symbols, NEW p \in Prices, SetPrice(s, p)
           PROVE  PositionsAreHeld'
      <3>1. /\ book[s] \in 1..Len(heap) /\ heap[book[s]] \in Positions
            /\ heap' = [heap EXCEPT ![book[s]] = [@ EXCEPT !.price = p]]
            /\ UNCHANGED <<book, calls>>
        BY <2>1, <2>12 DEF SetPrice
      <3>2. \A i \in 1..Len(heap) : /\ heap'[i].symbol = heap[i].symbol
                                    /\ heap'[i].quantity = heap[i].quantity
        <4> DEFINE priced == [heap[book[s]] EXCEPT !.price = p]
        <4>1. priced.symbol = heap[book[s]].symbol /\ priced.quantity = heap[book[s]].quantity
          BY <3>1 DEF Positions
        <4>2. heap' = [heap EXCEPT ![book[s]] = priced]
          BY <3>1
        <4> HIDE DEF priced
        <4>3. heap'[book[s]] = priced /\ \A i \in 1..Len(heap) : i # book[s] => heap'[i] = heap[i]
          BY <2>1, <3>1, <4>2
        <4> QED BY <4>1, <4>3
      <3> QED BY <2>3, <2>4, <3>1, <3>2 DEF PositionsAreHeld
    <2>13. CASE UNCHANGED vars
      BY <2>13 DEF vars, PositionsAreHeld
    <2> QED
      BY <2>7, <2>8, <2>9, <2>10, <2>11, <2>12, <2>13 DEF Next, Step
  <1> QED BY <1>1, <1>2, TypeCorrect, PTL DEF Spec
-----------------------------------------------------------------------------
\* The books.

\* What t's order under way adds to the sums of CashMatchesLog and SharesConserved.
Paid(t) ==
  IF calls[t].at \in (IF calls[t].order.side = "BUY" THEN {"book", "record"} ELSE {"record"})
  THEN Flow(calls[t].order) ELSE 0

Received(s, t) ==
  IF calls[t].at \in {"record"}
  THEN (IF calls[t].order.symbol = s THEN Shares(calls[t].order) ELSE 0) ELSE 0

Flying == SumFunction([t \in Threads |-> Paid(t)])
Landing(s) == SumFunction([t \in Threads |-> Received(s, t)])

\* An entry of the log moves what its order does.
Moves(e) == e.side \in {"BUY", "SELL"} /\ e.quantity \in Nat /\ e.price \in Nat

\* The shares of the positions in h.
InHeap(s, h) == Total(LAMBDA p : IF p.symbol = s THEN p.quantity ELSE 0, h)

\* The two sides of CashMatchesLog and of SharesConserved.
LoggedCash == InitialCapital + Total(Flow, tradeLog) + Total(Flow, failed)
LoggedShares(s) == Net(s, tradeLog) + Net(s, failed)
HeapShares(s) == InHeap(s, heap)

Books == /\ CashMatchesLog <=> cash = LoggedCash + Flying
         /\ SharesConserved
              <=> \A s \in Symbols : HeapShares(s) = LoggedShares(s) + Landing(s)

LEMMA BooksAre == Books
  <1>1. CashMatchesLog <=> cash = LoggedCash + Flying
    BY Zenon DEF CashMatchesLog, InFlight, Flying, Paid, LoggedCash
  <1>2. SharesConserved
          <=> \A s \in Symbols : HeapShares(s) = LoggedShares(s) + Landing(s)
    BY Zenon DEF SharesConserved, InFlight, InHeap, Landing, Received, HeapShares, LoggedShares
  <1> QED BY <1>1, <1>2 DEF Books

LEMMA BooksWillBe == Books'
  BY BooksAre, PTL

LEMMA FlowIsInt ==
  ASSUME NEW e, Moves(e)
  PROVE  Flow(e) \in Int /\ Shares(e) \in Int
  <1>1. Cost(e) \in Nat
    BY ProductIsNat DEF Cost, Moves
  <1> QED BY <1>1 DEF Flow, Shares, Moves

\* One more entry.
LEMMA TotalFlow ==
  ASSUME NEW S, NEW seq \in Seq(S), \A x \in S : Moves(x), NEW e \in S
  PROVE  /\ Total(Flow, Append(seq, e)) = Total(Flow, seq) + Flow(e)
         /\ Total(Flow, seq) \in Int
  <1> DEFINE n == Len(seq)
             f == [i \in DOMAIN seq |-> Flow(seq[i])]
             g == [i \in DOMAIN Append(seq, e) |-> Flow(Append(seq, e)[i])]
  <1>1. n \in Nat /\ DOMAIN f = 1..n /\ DOMAIN g = 1..(n + 1)
    OBVIOUS
  <1>2. ASSUME NEW i \in 1..n PROVE f[i] \in Int /\ g[i] = f[i]
    BY FlowIsInt
  <1>3. g[n + 1] = Flow(e) /\ Flow(e) \in Int
    BY FlowIsInt
  <1>4. Total(Flow, Append(seq, e)) = SumFunction(g) /\ Total(Flow, seq) = SumFunction(f)
    BY DEF Total
  <1> HIDE DEF f, g, n
  <1>5. SumFunction(g) = SumFunction(f) + g[n + 1]
    BY <1>1, <1>2, <1>3, SumAppend
  <1>6. SumFunction(f) \in Int
    BY <1>1, <1>2, SumIsInt, FS_Interval
  <1> QED BY <1>3, <1>4, <1>5, <1>6

LEMMA NetAppend ==
  ASSUME NEW s, NEW S, NEW seq \in Seq(S), \A x \in S : Moves(x), NEW e \in S
  PROVE  /\ Net(s, Append(seq, e)) = Net(s, seq) + (IF e.symbol = s THEN Shares(e) ELSE 0)
         /\ Net(s, seq) \in Int
  <1> DEFINE F(x) == IF x.symbol = s THEN Shares(x) ELSE 0
             n == Len(seq)
             f == [i \in DOMAIN seq |-> F(seq[i])]
             g == [i \in DOMAIN Append(seq, e) |-> F(Append(seq, e)[i])]
  <1>0. ASSUME NEW x \in S PROVE F(x) \in Int
    BY FlowIsInt
  <1>1. n \in Nat /\ DOMAIN f = 1..n /\ DOMAIN g = 1..(n + 1)
    OBVIOUS
  <1>2. ASSUME NEW i \in 1..n PROVE f[i] \in Int /\ g[i] = f[i]
    <2>1. seq[i] \in S /\ Append(seq, e)[i] = seq[i] /\ f[i] = F(seq[i]) /\ g[i] = F(Append(seq, e)[i])
      OBVIOUS
    <2> HIDE DEF F, f, g
    <2> QED BY <1>0, <2>1
  <1>3. g[n + 1] = F(e) /\ F(e) \in Int
    <2>1. n + 1 \in DOMAIN Append(seq, e) /\ Append(seq, e)[n + 1] = e
      OBVIOUS
    <2>2. g[n + 1] = F(Append(seq, e)[n + 1])
      BY <2>1, Zenon
    <2> HIDE DEF F, g
    <2> QED BY <1>0, <2>1, <2>2
  <1>4. Net(s, Append(seq, e)) = SumFunction(g) /\ Net(s, seq) = SumFunction(f)
    BY Zenon DEF Net, Total
  <1> HIDE DEF f, g, n
  <1>5. SumFunction(g) = SumFunction(f) + g[n + 1]
    BY <1>1, <1>2, <1>3, SumAppend
  <1>6. SumFunction(f) \in Int
    BY <1>1, <1>2, SumIsInt, FS_Interval
  <1> QED BY <1>3, <1>4, <1>5, <1>6

\* One position more, or one position changed.
LEMMA HeapAppend ==
  ASSUME NEW s, NEW h \in Seq(Positions), NEW e \in Positions
  PROVE  /\ InHeap(s, Append(h, e)) = InHeap(s, h) + (IF e.symbol = s THEN e.quantity ELSE 0)
         /\ InHeap(s, h) \in Int
  <1> DEFINE F(p) == IF p.symbol = s THEN p.quantity ELSE 0
             n == Len(h)
             f == [i \in DOMAIN h |-> F(h[i])]
             g == [i \in DOMAIN Append(h, e) |-> F(Append(h, e)[i])]
  <1>0. ASSUME NEW x \in Positions PROVE F(x) \in Int
    BY DEF Positions
  <1>1. n \in Nat /\ DOMAIN f = 1..n /\ DOMAIN g = 1..(n + 1)
    OBVIOUS
  <1>2. ASSUME NEW i \in 1..n PROVE f[i] \in Int /\ g[i] = f[i]
    <2>1. h[i] \in Positions /\ Append(h, e)[i] = h[i] /\ f[i] = F(h[i]) /\ g[i] = F(Append(h, e)[i])
      OBVIOUS
    <2> HIDE DEF F, f, g
    <2> QED BY <1>0, <2>1
  <1>3. g[n + 1] = F(e) /\ F(e) \in Int
    <2>1. n + 1 \in DOMAIN Append(h, e) /\ Append(h, e)[n + 1] = e
      OBVIOUS
    <2>2. g[n + 1] = F(Append(h, e)[n + 1])
      BY <2>1, Zenon
    <2> HIDE DEF F, g
    <2> QED BY <1>0, <2>1, <2>2
  <1>4. InHeap(s, Append(h, e)) = SumFunction(g) /\ InHeap(s, h) = SumFunction(f)
    BY Zenon DEF InHeap, Total
  <1> HIDE DEF f, g, n
  <1>5. SumFunction(g) = SumFunction(f) + g[n + 1]
    BY <1>1, <1>2, <1>3, SumAppend
  <1>6. SumFunction(f) \in Int
    BY <1>1, <1>2, SumIsInt, FS_Interval
  <1> QED BY <1>3, <1>4, <1>5, <1>6

LEMMA HeapChange ==
  ASSUME NEW s, NEW h \in Seq(Positions), NEW i \in 1..Len(h), NEW p \in Positions,
         p.symbol = h[i].symbol
  PROVE  /\ InHeap(s, [h EXCEPT ![i] = p])
              = InHeap(s, h) + (IF p.symbol = s THEN p.quantity - h[i].quantity ELSE 0)
         /\ InHeap(s, h) \in Int
  <1> DEFINE F(q) == IF q.symbol = s THEN q.quantity ELSE 0
             k == [h EXCEPT ![i] = p]
             f == [j \in DOMAIN h |-> F(h[j])]
             g == [j \in DOMAIN k |-> F(k[j])]
  <1>0. ASSUME NEW x \in Positions PROVE F(x) \in Int
    BY DEF Positions
  <1>1. Len(h) \in Nat /\ DOMAIN f = 1..Len(h) /\ DOMAIN g = 1..Len(h)
    OBVIOUS
  <1>2. ASSUME NEW j \in 1..Len(h) PROVE f[j] \in Int /\ g[j] \in Int /\ (j # i => f[j] = g[j])
    <2>1. /\ h[j] \in Positions /\ k[j] \in Positions /\ f[j] = F(h[j]) /\ g[j] = F(k[j])
          /\ j # i => k[j] = h[j]
      OBVIOUS
    <2> HIDE DEF F, f, g, k
    <2> QED BY <1>0, <2>1
  <1>3. f[i] = F(h[i]) /\ g[i] = F(p) /\ h[i] \in Positions
    OBVIOUS
  <1>4. InHeap(s, k) = SumFunction(g) /\ InHeap(s, h) = SumFunction(f)
    BY Zenon DEF InHeap, Total
  <1>5. /\ F(p) - F(h[i]) = IF p.symbol = s THEN p.quantity - h[i].quantity ELSE 0
        /\ F(p) \in Int /\ F(h[i]) \in Int
    BY <1>3 DEF Positions
  <1>6. IsFiniteSet(DOMAIN f) /\ i \in DOMAIN f
    BY <1>1, FS_Interval
  <1> HIDE DEF f, g, F, k
  <1>7. SumFunction(g) = SumFunction(f) - f[i] + g[i] /\ SumFunction(f) \in Int
    BY <1>1, <1>2, <1>6, SumExcept, SumIsInt
  <1> DEFINE sum == SumFunction(f)
  <1>8. SumFunction(g) = sum - F(h[i]) + F(p) /\ sum \in Int
    BY <1>3, <1>7
  <1> HIDE DEF sum
  <1>9. sum - F(h[i]) + F(p) = sum + (F(p) - F(h[i]))
    BY <1>5, <1>8
  <1> QED BY <1>4, <1>5, <1>8, <1>9 DEF k, sum
-----------------------------------------------------------------------------
\* A call's own order.
LEMMA CallFacts ==
  ASSUME TypeOK, NEW t \in Threads
  PROVE  /\ calls \in [Threads -> CallRecords(Len(heap))] /\ Len(heap) \in Nat
         /\ calls[t].order \in Orders /\ Moves(calls[t].order)
         /\ Flow(calls[t].order) \in Int /\ Shares(calls[t].order) \in Int
         /\ Paid(t) \in Int /\ \A s : Received(s, t) \in Int
  <1>1. calls \in [Threads -> CallRecords(Len(heap))] /\ Len(heap) \in Nat
    BY DEF TypeOK, CallRecords
  <1>2. calls[t].order \in Orders
    BY <1>1 DEF CallRecords
  <1>3. Moves(calls[t].order)
    BY <1>2, OrderFields DEF Moves
  <1>4. Flow(calls[t].order) \in Int /\ Shares(calls[t].order) \in Int
    BY <1>3, FlowIsInt
  <1> QED BY <1>1, <1>2, <1>3, <1>4 DEF Paid, Received

\* A step of one call changes its own part of the sums over the calls.
LEMMA FlightStep ==
  ASSUME TypeOK, TypeOK', NEW t \in Threads, \A u \in Threads \ {t} : calls'[u] = calls[u]
  PROVE  /\ Flying' = Flying - Paid(t) + Paid(t)' /\ Flying \in Int /\ Flying' \in Int
         /\ \A s : /\ Landing(s)' = Landing(s) - Received(s, t) + Received(s, t)'
                   /\ Landing(s) \in Int /\ Landing(s)' \in Int
         /\ Paid(t) \in Int /\ Paid(t)' \in Int
         /\ \A s : Received(s, t) \in Int /\ Received(s, t)' \in Int
  <1>1. IsFiniteSet(Threads)
    BY BrokerAssumption DEF BrokerSetting
  <1>2. \A u \in Threads : /\ Paid(u) \in Int /\ Paid(u)' \in Int
                           /\ \A s : Received(s, u) \in Int /\ Received(s, u)' \in Int
    <2>1. ASSUME NEW u \in Threads PROVE Paid(u)' \in Int /\ \A s : Received(s, u)' \in Int
      <3>1. calls'[u].order \in Orders
        BY DEF TypeOK
      <3>2. Flow(calls'[u].order) \in Int /\ Shares(calls'[u].order) \in Int
        BY <3>1, OrderFields, FlowIsInt DEF Moves
      <3> QED BY <3>2 DEF Paid, Received
    <2> QED BY <2>1, CallFacts
  <1>3. \A u \in Threads \ {t} : Paid(u)' = Paid(u) /\ \A s : Received(s, u)' = Received(s, u)
    BY DEF Paid, Received
  <1>4. Flying' = Flying - Paid(t) + Paid(t)' /\ Flying \in Int /\ Flying' \in Int
    <2> DEFINE f == [u \in Threads |-> Paid(u)]
               g == [u \in Threads |-> Paid(u)']
    <2>1. DOMAIN f = Threads /\ DOMAIN g = Threads /\ f[t] = Paid(t) /\ g[t] = Paid(t)'
      OBVIOUS
    <2>2. \A u \in Threads : f[u] \in Int /\ g[u] \in Int /\ (u # t => f[u] = g[u])
      BY <1>2, <1>3
    <2>3. Flying = SumFunction(f) /\ Flying' = SumFunction(g)
      BY DEF Flying
    <2> HIDE DEF f, g
    <2> QED BY <1>1, <2>1, <2>2, <2>3, SumExcept, SumIsInt
  <1>5. ASSUME NEW s
        PROVE  /\ Landing(s)' = Landing(s) - Received(s, t) + Received(s, t)'
               /\ Landing(s) \in Int /\ Landing(s)' \in Int
    <2> DEFINE f == [u \in Threads |-> Received(s, u)]
               g == [u \in Threads |-> Received(s, u)']
    <2>1. DOMAIN f = Threads /\ DOMAIN g = Threads /\ f[t] = Received(s, t) /\ g[t] = Received(s, t)'
      OBVIOUS
    <2>2. \A u \in Threads : f[u] \in Int /\ g[u] \in Int /\ (u # t => f[u] = g[u])
      BY <1>2, <1>3
    <2>3. Landing(s) = SumFunction(f) /\ Landing(s)' = SumFunction(g)
      BY DEF Landing
    <2> HIDE DEF f, g
    <2> QED BY <1>1, <2>1, <2>2, <2>3, SumExcept, SumIsInt
  <1> QED BY <1>2, <1>4, <1>5
-----------------------------------------------------------------------------
LogEntries == [symbol : Symbols, side : {"BUY", "SELL"},
               quantity : Quantities \cup {0}, price : Prices, cashAfter : Int]

LEMMA EntriesMove == (\A e \in LogEntries : Moves(e)) /\ (\A o \in Orders : Moves(o))
  <1>1. Prices \subseteq Nat /\ Quantities \cup {0} \subseteq Nat
    BY BrokerAssumption DEF BrokerSetting
  <1> QED BY <1>1, OrderFields DEF LogEntries, Moves

LEMMA SumTypes ==
  ASSUME NEW log \in Seq(LogEntries), NEW lost \in Seq(Orders), NEW h \in Seq(Positions)
  PROVE  /\ Total(Flow, log) \in Int /\ Total(Flow, lost) \in Int
         /\ \A s : Net(s, log) \in Int /\ Net(s, lost) \in Int /\ InHeap(s, h) \in Int
  <1>1. PICK s \in Symbols, q \in Quantities, p \in Prices : q \in Nat /\ p \in Nat
    BY BrokerAssumption DEF BrokerSetting
  <1>2. [symbol |-> s, side |-> "BUY", quantity |-> q, price |-> p] \in Orders
    BY DEF Orders
  <1>3. [symbol |-> s, side |-> "BUY", quantity |-> q, price |-> p, cashAfter |-> 0] \in LogEntries
    BY DEF LogEntries
  <1>4. [symbol |-> s, quantity |-> q, avg |-> p, price |-> p] \in Positions
    BY <1>1 DEF Positions
  <1>5. Total(Flow, log) \in Int /\ \A x : Net(x, log) \in Int
    BY <1>3, EntriesMove, TotalFlow, NetAppend
  <1>6. Total(Flow, lost) \in Int /\ \A x : Net(x, lost) \in Int
    BY <1>2, EntriesMove, TotalFlow, NetAppend
  <1>7. \A x : InHeap(x, h) \in Int
    BY <1>4, HeapAppend
  <1> QED BY <1>5, <1>6, <1>7

\* What a step of a call owes the books: the cash moves by what enters the logs or
\* the calls under way, and so do the shares.
Balanced(t) ==
  /\ \A u \in Threads \ {t} : calls'[u] = calls[u]
  /\ cash' + LoggedCash + Paid(t) = cash + LoggedCash' + Paid(t)'
  /\ \A s \in Symbols :
       HeapShares(s)' + LoggedShares(s) + Received(s, t)
         = HeapShares(s) + LoggedShares(s)' + Received(s, t)'

SideTypes ==
  LoggedCash \in Int /\ \A s \in Symbols : LoggedShares(s) \in Int /\ HeapShares(s) \in Int

LEMMA SidesTyped == TypeOK => SideTypes
  <1> SUFFICES ASSUME TypeOK PROVE SideTypes
    OBVIOUS
  <1>1. /\ tradeLog \in Seq(LogEntries) /\ failed \in Seq(Orders) /\ heap \in Seq(Positions)
        /\ InitialCapital \in Int
    BY BrokerAssumption DEF BrokerSetting, TypeOK, LogEntries
  <1>2. /\ Total(Flow, tradeLog) \in Int /\ Total(Flow, failed) \in Int
        /\ \A s : Net(s, tradeLog) \in Int /\ Net(s, failed) \in Int /\ InHeap(s, heap) \in Int
    BY <1>1, SumTypes
  <1> DEFINE a == Total(Flow, tradeLog)
             b == Total(Flow, failed)
  <1>3. LoggedCash = InitialCapital + a + b /\ a \in Int /\ b \in Int
    BY <1>2 DEF LoggedCash
  <1> HIDE DEF a, b
  <1> QED BY <1>1, <1>2, <1>3 DEF LoggedShares, HeapShares, SideTypes

LEMMA SidesStayTyped == TypeOK' => SideTypes'
  BY SidesTyped, PTL

LEMMA BalancedKeepsBooks ==
  ASSUME TypeOK, TypeOK', CashMatchesLog, SharesConserved, NEW t \in Threads, Balanced(t)
  PROVE  CashMatchesLog' /\ SharesConserved'
  <1>1. /\ cash \in Int /\ cash' \in Int /\ LoggedCash \in Int /\ LoggedCash' \in Int
        /\ \A s \in Symbols : /\ LoggedShares(s) \in Int /\ HeapShares(s) \in Int
                              /\ LoggedShares(s)' \in Int /\ HeapShares(s)' \in Int
    BY SidesTyped, SidesStayTyped DEF TypeOK, SideTypes
  <1>2. /\ Flying' = Flying - Paid(t) + Paid(t)' /\ Flying \in Int
        /\ \A s : Landing(s)' = Landing(s) - Received(s, t) + Received(s, t)' /\ Landing(s) \in Int
        /\ Paid(t) \in Int /\ Paid(t)' \in Int
        /\ \A s : Received(s, t) \in Int /\ Received(s, t)' \in Int
    BY FlightStep DEF Balanced
  <1>3. cash' = LoggedCash' + Flying'
    BY <1>1, <1>2, BooksAre DEF Balanced, Books
  <1>4. ASSUME NEW s \in Symbols
        PROVE  HeapShares(s)' = LoggedShares(s)' + Landing(s)'
    <2>1. HeapShares(s) = LoggedShares(s) + Landing(s)
      BY BooksAre DEF Books
    <2>2. HeapShares(s)' + LoggedShares(s) + Received(s, t)
            = HeapShares(s) + LoggedShares(s)' + Received(s, t)'
      BY DEF Balanced
    <2>3. /\ Landing(s)' = Landing(s) - Received(s, t) + Received(s, t)' /\ Landing(s) \in Int
          /\ Received(s, t) \in Int /\ Received(s, t)' \in Int
          /\ LoggedShares(s) \in Int /\ HeapShares(s) \in Int
          /\ LoggedShares(s)' \in Int /\ HeapShares(s)' \in Int
      BY <1>1, <1>2
    <2> QED BY <2>1, <2>2, <2>3
  <1> QED BY <1>3, <1>4, BooksWillBe DEF Books

LEMMA Advanced ==
  ASSUME TypeOK, NEW t \in Threads, NEW stage, NEW obj, Advance(t, stage, obj)
  PROVE  /\ \A u \in Threads \ {t} : calls'[u] = calls[u]
         /\ calls'[t].at = stage /\ calls'[t].order = calls[t].order
  BY CallFacts DEF Advance, CallRecords

LEMMA Returned ==
  ASSUME TypeOK, NEW t \in Threads, NEW r, Return(t, r)
  PROVE  /\ \A u \in Threads \ {t} : calls'[u] = calls[u]
         /\ Paid(t)' = 0 /\ \A s : Received(s, t)' = 0
  <1>1. [NoCall EXCEPT !.result = r].at = "idle"
    BY NoCallType DEF NoCall
  <1>2. /\ \A u \in Threads \ {t} : calls'[u] = calls[u]
        /\ calls'[t].at = "idle"
    BY <1>1, CallFacts DEF Return
  <1> QED BY <1>2 DEF Paid, Received

\* A step that moves no money and no shares, and logs nothing.
LEMMA NothingMoves ==
  ASSUME TypeOK, TypeOK', NEW t \in Threads, \A u \in Threads \ {t} : calls'[u] = calls[u],
         UNCHANGED <<cash, heap, tradeLog, failed>>,
         Paid(t)' = Paid(t), \A s \in Symbols : Received(s, t)' = Received(s, t)
  PROVE  Balanced(t)
  <1>1. LoggedCash' = LoggedCash /\ \A s \in Symbols : /\ LoggedShares(s)' = LoggedShares(s)
                                                       /\ HeapShares(s)' = HeapShares(s)
    BY Zenon DEF LoggedCash, LoggedShares, HeapShares, Net, Total, InHeap
  <1> QED BY <1>1 DEF Balanced

LEMMA PlaceOrderBalanced ==
  ASSUME TypeOK, TypeOK', NEW t \in Threads, NEW o \in Orders, PlaceOrder(t, o)
  PROVE  Balanced(t)
  <1>1. /\ \A u \in Threads \ {t} : calls'[u] = calls[u]
        /\ calls'[t].at = "check" /\ calls[t].at = "idle"
        /\ UNCHANGED <<cash, heap, tradeLog, failed>>
    BY CallFacts DEF PlaceOrder, Busy
  <1>2. Paid(t) = 0 /\ Paid(t)' = 0 /\ \A s : Received(s, t)' = 0 /\ Received(s, t) = 0
    BY <1>1 DEF Paid, Received
  <1> QED BY <1>1, <1>2, NothingMoves

LEMMA RejectBalanced ==
  ASSUME TypeOK, TypeOK', NEW t \in Threads, RejectBuy(t) \/ RejectSell(t)
  PROVE  Balanced(t)
  <1>1. /\ Return(t, "REJECTED") /\ UNCHANGED <<cash, heap, tradeLog, failed>>
        /\ \/ calls[t].at = "check"
           \/ calls[t].at = "book" /\ calls[t].order.side = "SELL"
    BY DEF RejectBuy, RejectSell
  <1>2. Paid(t) = 0 /\ \A s : Received(s, t) = 0
    BY <1>1 DEF Paid, Received
  <1> QED BY <1>1, <1>2, Returned, NothingMoves

LEMMA LookUpBalanced ==
  ASSUME TypeOK, TypeOK', NEW t \in Threads, LookUp(t)
  PROVE  Balanced(t)
  <1>1. /\ UNCHANGED <<cash, heap, tradeLog, failed>>
        /\ calls[t].at = "check" /\ calls[t].order.side = "SELL"
        /\ Advance(t, "book", book[calls[t].order.symbol])
    BY DEF LookUp
  <1>2. /\ \A u \in Threads \ {t} : calls'[u] = calls[u]
        /\ calls'[t].at = "book" /\ calls'[t].order = calls[t].order
    BY <1>1, Advanced
  <1>3. Paid(t) = 0 /\ Paid(t)' = 0 /\ \A s : Received(s, t)' = 0 /\ Received(s, t) = 0
    BY <1>1, <1>2 DEF Paid, Received
  <1> QED BY <1>1, <1>2, <1>3, NothingMoves

LEMMA DebitBalanced ==
  ASSUME TypeOK, TypeOK', NEW t \in Threads, Debit(t)
  PROVE  Balanced(t)
  <1> DEFINE o == calls[t].order
  <1>1. /\ UNCHANGED <<heap, tradeLog, failed>> /\ cash' = cash - Cost(o)
        /\ calls[t].at = "check" /\ o.side = "BUY"
        /\ Advance(t, "book", book[o.symbol])
    BY DEF Debit
  <1>2. /\ \A u \in Threads \ {t} : calls'[u] = calls[u]
        /\ calls'[t].at = "book" /\ calls'[t].order = o
    BY <1>1, Advanced
  <1>3. /\ Paid(t) = 0 /\ Paid(t)' = -Cost(o)
        /\ \A s : Received(s, t)' = 0 /\ Received(s, t) = 0
    BY <1>1, <1>2 DEF Paid, Received, Flow
  <1>4. LoggedCash' = LoggedCash /\ \A s \in Symbols : /\ LoggedShares(s)' = LoggedShares(s)
                                                       /\ HeapShares(s)' = HeapShares(s)
    BY <1>1, Zenon DEF LoggedCash, LoggedShares, HeapShares, Net, Total, InHeap
  <1>5. Cost(o) \in Int /\ LoggedCash \in Int /\ cash \in Int
    BY CallFacts, OrderFields, SidesTyped DEF TypeOK, SideTypes
  <1>6. cash' + LoggedCash + Paid(t) = cash + LoggedCash' + Paid(t)'
    BY <1>1, <1>3, <1>4, <1>5
  <1> QED BY <1>2, <1>3, <1>4, <1>6 DEF Balanced

\* A purchase booked: its shares enter the heap.
LEMMA PurchaseEnters ==
  ASSUME TypeOK, PositionsAreHeld, NEW t \in Threads, BookBuy(t), NEW s \in Symbols
  PROVE  HeapShares(s)' = HeapShares(s)
           + (IF calls[t].order.symbol = s THEN calls[t].order.quantity ELSE 0)
  <1> DEFINE o == calls[t].order
             obj == calls[t].position
             fresh == [symbol |-> o.symbol, quantity |-> o.quantity,
                       avg |-> o.price, price |-> o.price]
  <1>1. /\ o \in Orders /\ o.quantity \in Nat /\ o.side = "BUY"
        /\ calls[t].at = "book"
    BY CallFacts, OrderFields DEF BookBuy
  <1>2. heap \in Seq(Positions)
    BY DEF TypeOK
  <1>3. ASSUME obj # 0, heap' = [heap EXCEPT ![obj] = Averaged(@, o)]
        PROVE  InHeap(s, heap') = InHeap(s, heap) + (IF o.symbol = s THEN o.quantity ELSE 0)
    <2>1. obj \in 1..Len(heap) /\ heap[obj] \in Positions /\ heap[obj].symbol = o.symbol
      BY <1>1, <1>2, <1>3, CallFacts DEF CallRecords, PositionsAreHeld
    <2>2. /\ Averaged(heap[obj], o) \in Positions
          /\ Averaged(heap[obj], o).symbol = heap[obj].symbol
          /\ Averaged(heap[obj], o).quantity = heap[obj].quantity + o.quantity
          /\ heap[obj].quantity \in Nat
      <3>1. Averaged(heap[obj], o).quantity = heap[obj].quantity + o.quantity
        BY <2>1 DEF Averaged, Positions
      <3> QED BY <1>1, <2>1, <3>1, AveragedType DEF Positions
    <2> DEFINE p == Averaged(heap[obj], o)
    <2>3. heap' = [heap EXCEPT ![obj] = p]
      BY <1>3
    <2>4. p.symbol = o.symbol /\ p.quantity - heap[obj].quantity = o.quantity
      BY <1>1, <2>1, <2>2
    <2>5. p \in Positions /\ p.symbol = heap[obj].symbol
      BY <2>2
    <2> HIDE DEF p
    <2>6. InHeap(s, [heap EXCEPT ![obj] = p])
            = InHeap(s, heap) + (IF p.symbol = s THEN p.quantity - heap[obj].quantity ELSE 0)
      BY <1>2, <2>1, <2>5, HeapChange
    <2> QED BY <2>3, <2>4, <2>6
  <1>4. ASSUME heap' = Append(heap, fresh)
        PROVE  InHeap(s, heap') = InHeap(s, heap) + (IF o.symbol = s THEN o.quantity ELSE 0)
    <2>1. fresh \in Positions
      BY <1>1, OrderFields DEF Positions
    <2>2. fresh.symbol = o.symbol /\ fresh.quantity = o.quantity
      OBVIOUS
    <2> HIDE DEF fresh
    <2> QED BY <1>2, <1>4, <2>1, <2>2, HeapAppend
  <1>5. InHeap(s, heap') = InHeap(s, heap) + (IF o.symbol = s THEN o.quantity ELSE 0)
    BY <1>3, <1>4 DEF BookBuy
  <1> QED BY <1>5, Zenon DEF HeapShares, InHeap, Total

LEMMA BookBuyBalanced ==
  ASSUME TypeOK, TypeOK', PositionsAreHeld, NEW t \in Threads, BookBuy(t)
  PROVE  Balanced(t)
  <1> DEFINE o == calls[t].order
             obj == calls[t].position
  <1>1. /\ UNCHANGED <<cash, tradeLog, failed>> /\ o \in Orders /\ o.quantity \in Nat
        /\ calls[t].at = "book" /\ o.side = "BUY"
        /\ Advance(t, "record", obj)
    BY CallFacts, OrderFields DEF BookBuy
  <1>2. /\ \A u \in Threads \ {t} : calls'[u] = calls[u]
        /\ calls'[t].at = "record" /\ calls'[t].order = o
    BY <1>1, Advanced
  <1>3. /\ Paid(t)' = Paid(t)
        /\ \A s : /\ Received(s, t)' = (IF o.symbol = s THEN o.quantity ELSE 0)
                  /\ Received(s, t) = 0
    BY <1>1, <1>2 DEF Paid, Received, Shares
  <1>4. LoggedCash' = LoggedCash /\ \A s \in Symbols : LoggedShares(s)' = LoggedShares(s)
    BY <1>1, Zenon DEF LoggedCash, LoggedShares, Net, Total
  <1>6. /\ cash' + LoggedCash + Paid(t) = cash + LoggedCash' + Paid(t)'
    BY <1>1, <1>3, <1>4
  <1>7. ASSUME NEW s \in Symbols
        PROVE  HeapShares(s)' + LoggedShares(s) + Received(s, t)
                 = HeapShares(s) + LoggedShares(s)' + Received(s, t)'
    <2>1. HeapShares(s)' = HeapShares(s) + (IF o.symbol = s THEN o.quantity ELSE 0)
      BY <1>1, PurchaseEnters
    <2>2. HeapShares(s) \in Int /\ LoggedShares(s) \in Int /\ o.quantity \in Int
      BY <1>1, SidesTyped DEF SideTypes
    <2> QED BY <1>3, <1>4, <2>1, <2>2
  <1> QED BY <1>2, <1>6, <1>7 DEF Balanced

\* A sale booked: its shares leave the heap, where they were.
LEMMA SaleLeaves ==
  ASSUME TypeOK, PositionsAreHeld, NEW t \in Threads, BookSell(t), NEW s \in Symbols
  PROVE  HeapShares(s)' = HeapShares(s)
           - (IF calls[t].order.symbol = s THEN calls[t].order.quantity ELSE 0)
  <1> DEFINE o == calls[t].order
             obj == calls[t].position
             left == heap[obj].quantity - o.quantity
             sold == [[heap[obj] EXCEPT !.quantity = left] EXCEPT !.price = o.price]
  <1>1. /\ o \in Orders /\ o.quantity \in Nat /\ o.price \in Nat /\ obj # 0
        /\ calls[t].at = "book" /\ heap[obj].quantity >= o.quantity
        /\ heap' = [heap EXCEPT ![obj].quantity = left, ![obj].price = o.price]
    BY CallFacts, OrderFields DEF BookSell, Covers
  <1>2. /\ heap \in Seq(Positions) /\ obj \in 1..Len(heap) /\ heap[obj] \in Positions
        /\ heap[obj].symbol = o.symbol
    BY <1>1, CallFacts DEF TypeOK, CallRecords, PositionsAreHeld
  <1>3. /\ sold \in Positions /\ sold.symbol = heap[obj].symbol /\ sold.quantity = left
        /\ heap' = [heap EXCEPT ![obj] = sold]
    <2>1. heap[obj].quantity \in Nat /\ left \in Nat
      <3>1. heap[obj].quantity \in Nat
        BY <1>2 DEF Positions
      <3>2. o.quantity \in Nat /\ heap[obj].quantity >= o.quantity
        BY <1>1
      <3> QED BY <3>1, <3>2
    <2>2. sold \in Positions /\ sold.symbol = heap[obj].symbol /\ sold.quantity = left
      BY <1>1, <1>2, <2>1 DEF Positions
    <2>3. heap' = [heap EXCEPT ![obj] = sold]
      BY <1>1, <1>2
    <2> QED BY <2>2, <2>3
  <1> HIDE DEF sold
  <1>4. /\ InHeap(s, [heap EXCEPT ![obj] = sold])
             = InHeap(s, heap) + (IF sold.symbol = s THEN sold.quantity - heap[obj].quantity ELSE 0)
        /\ InHeap(s, heap) \in Int
    BY <1>2, <1>3, HeapChange
  <1>5. heap[obj].quantity \in Int /\ sold.symbol = o.symbol
        /\ sold.quantity - heap[obj].quantity = -o.quantity
    <2>1. heap[obj].quantity \in Nat /\ o.quantity \in Nat
      BY <1>1, <1>2 DEF Positions
    <2>2. sold.quantity = heap[obj].quantity - o.quantity
      BY <1>3
    <2> QED BY <1>2, <1>3, <2>1, <2>2
  <1> DEFINE before == InHeap(s, heap)
             after == InHeap(s, heap')
  <1>6. /\ after = before + (IF o.symbol = s THEN -o.quantity ELSE 0)
        /\ before \in Int
    BY <1>3, <1>4, <1>5
  <1>7. HeapShares(s)' = after /\ HeapShares(s) = before
    BY DEF HeapShares, InHeap, Total
  <1> HIDE DEF before, after
  <1> QED BY <1>1, <1>6, <1>7

\* Its proceeds are cash.  The call goes on to log it, or has raised and is listed as
\* failed.
LEMMA BookSellBalanced ==
  ASSUME TypeOK, TypeOK', PositionsAreHeld, NEW t \in Threads, BookSell(t)
  PROVE  Balanced(t)
  <1> DEFINE o == calls[t].order
             obj == calls[t].position
             recorded == Advance(t, "record", obj) /\ failed' = failed
             raised == Return(t, "ERROR") /\ failed' = Append(failed, o)
  <1>1. /\ o \in Orders /\ o.quantity \in Nat /\ o.price \in Nat /\ Cost(o) \in Nat
        /\ Moves(o) /\ o.side = "SELL" /\ calls[t].at = "book"
        /\ cash' = cash + Cost(o) /\ tradeLog' = tradeLog
        /\ recorded \/ raised
    BY CallFacts, OrderFields DEF BookSell
  <1>2. heap \in Seq(Positions)
    BY DEF TypeOK
  <1>4. ASSUME NEW s \in Symbols
        PROVE  HeapShares(s)' = HeapShares(s) - (IF o.symbol = s THEN o.quantity ELSE 0)
    BY SaleLeaves
  <1>5. Flow(o) = Cost(o) /\ Shares(o) = -o.quantity
    BY <1>1 DEF Flow, Shares
  <1>6. Paid(t) = 0 /\ \A s : Received(s, t) = 0
    BY <1>1 DEF Paid, Received
  <1>7. /\ LoggedCash \in Int /\ cash \in Int
        /\ \A s \in Symbols : LoggedShares(s) \in Int /\ HeapShares(s) \in Int
    BY SidesTyped DEF SideTypes, TypeOK
  <1>8. CASE recorded
    <2>1. /\ \A u \in Threads \ {t} : calls'[u] = calls[u]
          /\ calls'[t].at = "record" /\ calls'[t].order = o
      BY <1>8, Advanced
    <2>2. Paid(t)' = Cost(o) /\ \A s : Received(s, t)' = (IF o.symbol = s THEN -o.quantity ELSE 0)
      BY <1>1, <1>5, <2>1 DEF Paid, Received
    <2>3. LoggedCash' = LoggedCash /\ \A s \in Symbols : LoggedShares(s)' = LoggedShares(s)
      BY <1>1, <1>8, Zenon DEF LoggedCash, LoggedShares, Net, Total
    <2>4. cash' + LoggedCash + Paid(t) = cash + LoggedCash' + Paid(t)'
      BY <1>1, <1>6, <1>7, <2>2, <2>3
    <2>5. ASSUME NEW s \in Symbols
          PROVE  HeapShares(s)' + LoggedShares(s) + Received(s, t)
                   = HeapShares(s) + LoggedShares(s)' + Received(s, t)'
      <3> HIDE DEF o
      <3> QED BY <1>1, <1>4, <1>6, <1>7, <2>2, <2>3
    <2> QED BY <2>1, <2>4, <2>5 DEF Balanced
  <1>9. CASE raised
    <2>1. /\ \A u \in Threads \ {t} : calls'[u] = calls[u]
          /\ Paid(t)' = 0 /\ \A s : Received(s, t)' = 0
      BY <1>9, Returned
    <2>2. LoggedCash' = LoggedCash + Cost(o)
      <3> DEFINE a == Total(Flow, tradeLog)
                 b == Total(Flow, failed)
                 c == Total(Flow, failed')
      <3>1. failed \in Seq(Orders) /\ tradeLog \in Seq(LogEntries)
        BY DEF TypeOK, LogEntries
      <3>2. c = b + Cost(o)
        <4>1. Total(Flow, Append(failed, o)) = Total(Flow, failed) + Flow(o)
          BY <1>1, <3>1, EntriesMove, TotalFlow
        <4> QED BY <1>5, <1>9, <4>1
      <3>3. a \in Int /\ b \in Int
        BY <1>2, <3>1, SumTypes
      <3>4. LoggedCash = InitialCapital + a + b /\ LoggedCash' = InitialCapital + a + c
        BY <1>1, Zenon DEF LoggedCash, Total
      <3> HIDE DEF a, b, c, o
      <3> QED BY <1>1, <3>2, <3>3, <3>4, BrokerAssumption DEF BrokerSetting
    <2>3. ASSUME NEW s \in Symbols
          PROVE  LoggedShares(s)' = LoggedShares(s) - (IF o.symbol = s THEN o.quantity ELSE 0)
      <3> DEFINE a == Net(s, tradeLog)
                 b == Net(s, failed)
                 c == Net(s, failed')
      <3>1. failed \in Seq(Orders) /\ tradeLog \in Seq(LogEntries)
        BY DEF TypeOK, LogEntries
      <3>2. c = b + (IF o.symbol = s THEN Shares(o) ELSE 0)
        <4>1. Net(s, Append(failed, o)) = Net(s, failed) + (IF o.symbol = s THEN Shares(o) ELSE 0)
          BY <1>1, <3>1, EntriesMove, NetAppend
        <4> QED BY <1>9, <4>1
      <3>3. a \in Int /\ b \in Int
        BY <1>2, <3>1, SumTypes
      <3>4. LoggedShares(s) = a + b /\ LoggedShares(s)' = a + c
        BY <1>1, Zenon DEF LoggedShares, Net, Total
      <3> HIDE DEF a, b, c, o
      <3> QED BY <1>1, <1>5, <3>2, <3>3, <3>4
    <2>4. cash' + LoggedCash + Paid(t) = cash + LoggedCash' + Paid(t)'
      BY <1>1, <1>6, <1>7, <2>1, <2>2
    <2>5. ASSUME NEW s \in Symbols
          PROVE  HeapShares(s)' + LoggedShares(s) + Received(s, t)
                   = HeapShares(s) + LoggedShares(s)' + Received(s, t)'
      <3> HIDE DEF o
      <3> QED BY <1>1, <1>4, <1>6, <1>7, <2>1, <2>3
    <2> QED BY <2>1, <2>4, <2>5 DEF Balanced
  <1> QED BY <1>1, <1>8, <1>9

\* An order logged: what was under way is in the log.
LEMMA RecordBalanced ==
  ASSUME TypeOK, TypeOK', NEW t \in Threads, Record(t)
  PROVE  Balanced(t)
  <1> DEFINE o == calls[t].order
             e == [symbol |-> o.symbol, side |-> o.side, quantity |-> o.quantity,
                   price |-> o.price, cashAfter |-> cash]
  <1>1. /\ o \in Orders /\ Flow(o) \in Int /\ Shares(o) \in Int /\ calls[t].at = "record"
        /\ tradeLog' = Append(tradeLog, e) /\ UNCHANGED <<cash, heap, failed>>
        /\ Return(t, "FILLED")
    BY CallFacts DEF Record
  <1>2. /\ e \in LogEntries /\ cash \in Int
        /\ tradeLog \in Seq(LogEntries) /\ failed \in Seq(Orders) /\ heap \in Seq(Positions)
    BY <1>1, OrderFields DEF TypeOK, LogEntries
  <1>3. Flow(e) = Flow(o) /\ Shares(e) = Shares(o) /\ e.symbol = o.symbol
    BY DEF Flow, Shares, Cost
  <1>4. /\ \A u \in Threads \ {t} : calls'[u] = calls[u]
        /\ Paid(t)' = 0 /\ \A s : Received(s, t)' = 0
    BY <1>1, Returned
  <1>5. /\ Paid(t) = Flow(o)
        /\ \A s : Received(s, t) = (IF o.symbol = s THEN Shares(o) ELSE 0)
    BY <1>1 DEF Paid, Received
  <1> HIDE DEF e
  <1>6. LoggedCash' = LoggedCash + Flow(o)
    <2> DEFINE a == Total(Flow, tradeLog)
               b == Total(Flow, failed)
               c == Total(Flow, tradeLog')
    <2>1. c = a + Flow(o)
      <3>1. Total(Flow, Append(tradeLog, e)) = Total(Flow, tradeLog) + Flow(e)
        BY <1>2, EntriesMove, TotalFlow
      <3> QED BY <1>1, <1>3, <3>1
    <2>2. a \in Int /\ b \in Int
      BY <1>2, SumTypes
    <2>3. LoggedCash = InitialCapital + a + b /\ LoggedCash' = InitialCapital + c + b
      BY <1>1, Zenon DEF LoggedCash, Total
    <2> HIDE DEF a, b, c, o
    <2> QED BY <1>1, <2>1, <2>2, <2>3, BrokerAssumption DEF BrokerSetting
  <1>7. ASSUME NEW s \in Symbols
        PROVE  LoggedShares(s)' = LoggedShares(s) + (IF o.symbol = s THEN Shares(o) ELSE 0)
    <2> DEFINE a == Net(s, tradeLog)
               b == Net(s, failed)
               c == Net(s, tradeLog')
    <2>1. c = a + (IF o.symbol = s THEN Shares(o) ELSE 0)
      <3>1. Net(s, Append(tradeLog, e)) = Net(s, tradeLog) + (IF e.symbol = s THEN Shares(e) ELSE 0)
        BY <1>2, EntriesMove, NetAppend
      <3> QED BY <1>1, <1>3, <3>1
    <2>2. a \in Int /\ b \in Int
      BY <1>2, SumTypes
    <2>3. LoggedShares(s) = a + b /\ LoggedShares(s)' = c + b
      BY <1>1, Zenon DEF LoggedShares, Net, Total
    <2> HIDE DEF a, b, c, o
    <2> QED BY <1>1, <2>1, <2>2, <2>3
  <1>8. /\ LoggedCash \in Int
        /\ \A s \in Symbols : LoggedShares(s) \in Int /\ HeapShares(s) \in Int
        /\ \A s \in Symbols : HeapShares(s)' = HeapShares(s)
    <2>1. \A s \in Symbols : HeapShares(s)' = HeapShares(s)
      BY <1>1, Zenon DEF HeapShares, InHeap, Total
    <2> QED BY <2>1, SidesTyped DEF SideTypes
  <1>9. cash' + LoggedCash + Paid(t) = cash + LoggedCash' + Paid(t)'
    BY <1>1, <1>2, <1>4, <1>5, <1>6, <1>8
  <1>10. ASSUME NEW s \in Symbols
         PROVE  HeapShares(s)' + LoggedShares(s) + Received(s, t)
                  = HeapShares(s) + LoggedShares(s)' + Received(s, t)'
    <2> HIDE DEF o
    <2> QED BY <1>1, <1>4, <1>5, <1>7, <1>8
  <1> QED BY <1>4, <1>9, <1>10 DEF Balanced

\* set_prices changes no quantity.
LEMMA PricesKeepShares ==
  ASSUME TypeOK, NEW s \in Symbols, NEW p \in Prices, SetPrice(s, p)
  PROVE  \A x \in Symbols : HeapShares(x)' = HeapShares(x)
  <1> DEFINE obj == book[s]
             priced == [heap[obj] EXCEPT !.price = p]
  <1>1. /\ heap \in Seq(Positions) /\ obj \in 1..Len(heap) /\ heap[obj] \in Positions
        /\ heap' = [heap EXCEPT ![obj] = priced]
    BY DEF TypeOK, SetPrice
  <1>2. priced \in Positions /\ priced.symbol = heap[obj].symbol /\ priced.quantity = heap[obj].quantity
    BY <1>1, BrokerAssumption DEF BrokerSetting, Positions
  <1>3. priced.quantity - heap[obj].quantity = 0
    BY <1>1, <1>2 DEF Positions
  <1> HIDE DEF priced, obj
  <1>4. ASSUME NEW x \in Symbols PROVE HeapShares(x)' = HeapShares(x)
    <2>1. /\ InHeap(x, [heap EXCEPT ![obj] = priced])
               = InHeap(x, heap) + (IF priced.symbol = x THEN priced.quantity - heap[obj].quantity ELSE 0)
          /\ InHeap(x, heap) \in Int
      BY <1>1, <1>2, HeapChange
    <2> DEFINE before == InHeap(x, heap)
               after == InHeap(x, heap')
    <2>2. after = before /\ before \in Int
      BY <1>1, <1>3, <2>1
    <2>3. HeapShares(x)' = after /\ HeapShares(x) = before
      BY DEF HeapShares, InHeap, Total
    <2> QED BY <2>2, <2>3
  <1> QED BY <1>4

LEMMA SetPriceKeepsBooks ==
  ASSUME TypeOK, NEW s \in Symbols, NEW p \in Prices, SetPrice(s, p), CashMatchesLog, SharesConserved
  PROVE  CashMatchesLog' /\ SharesConserved'
  <1>1. UNCHANGED <<cash, tradeLog, failed, calls>>
    BY DEF SetPrice
  <1>2. /\ LoggedCash' = LoggedCash /\ Flying' = Flying
        /\ \A x \in Symbols : LoggedShares(x)' = LoggedShares(x) /\ Landing(x)' = Landing(x)
    BY <1>1, Zenon DEF LoggedCash, LoggedShares, Net, Total, Flying, Landing, Paid, Received
  <1> QED BY <1>1, <1>2, PricesKeepShares, BooksAre, BooksWillBe DEF Books

\* The cash and the shares of the account are those of its books, however the
\* calls of place_order interleave: nothing is paid twice or logged unpaid, and no
\* share is created or destroyed.
THEOREM BooksBalance == Spec => [](CashMatchesLog /\ SharesConserved)
  <1>1. Init => CashMatchesLog /\ SharesConserved
    <2> SUFFICES ASSUME Init PROVE CashMatchesLog /\ SharesConserved
      OBVIOUS
    <2>1. \A t \in Threads : Paid(t) = 0 /\ \A s : Received(s, t) = 0
      BY DEF Init, NoCall, Paid, Received
    <2>2. Flying = 0 /\ \A s : Landing(s) = 0
      <3>1. ASSUME NEW s PROVE Flying = 0 /\ Landing(s) = 0
        <4> DEFINE f == [t \in Threads |-> Paid(t)]
                   g == [t \in Threads |-> Received(s, t)]
        <4>1. DOMAIN f = Threads /\ DOMAIN g = Threads /\ \A t \in Threads : f[t] = 0 /\ g[t] = 0
          BY <2>1
        <4>2. Flying = SumFunction(f) /\ Landing(s) = SumFunction(g)
          BY DEF Flying, Landing
        <4> HIDE DEF f, g
        <4> QED BY <4>1, <4>2, SumIsZero, BrokerAssumption DEF BrokerSetting
      <3> QED BY <3>1
    <2>3. Total(Flow, <<>>) = 0 /\ \A s : Net(s, <<>>) = 0 /\ InHeap(s, <<>>) = 0
      <3>1. ASSUME NEW s PROVE Total(Flow, <<>>) = 0 /\ Net(s, <<>>) = 0 /\ InHeap(s, <<>>) = 0
        <4> DEFINE f == [i \in DOMAIN <<>> |-> Flow(<<>>[i])]
                   g == [i \in DOMAIN <<>> |-> IF <<>>[i].symbol = s THEN Shares(<<>>[i]) ELSE 0]
                   h == [i \in DOMAIN <<>> |-> IF <<>>[i].symbol = s THEN <<>>[i].quantity ELSE 0]
        <4>1. DOMAIN f = {} /\ DOMAIN g = {} /\ DOMAIN h = {}
          OBVIOUS
        <4>2. /\ Total(Flow, <<>>) = SumFunction(f) /\ Net(s, <<>>) = SumFunction(g)
              /\ InHeap(s, <<>>) = SumFunction(h)
          BY Zenon DEF Total, Net, InHeap
        <4> HIDE DEF f, g, h
        <4> QED BY <4>1, <4>2, SumIsZero, FS_EmptySet
      <3> QED BY <3>1
    <2>4. LoggedCash = InitialCapital /\ \A s : LoggedShares(s) = 0 /\ HeapShares(s) = 0
      BY <2>3, BrokerAssumption DEF BrokerSetting, Init, LoggedCash, LoggedShares, HeapShares
    <2> QED BY <2>2, <2>4, BooksAre, BrokerAssumption DEF BrokerSetting, Init, Books
  <1>2. /\ TypeOK /\ TypeOK' /\ PositionsAreHeld /\ CashMatchesLog /\ SharesConserved
        /\ [Next]_vars
        => CashMatchesLog' /\ SharesConserved'
    <2> SUFFICES ASSUME TypeOK, TypeOK', PositionsAreHeld, CashMatchesLog, SharesConserved,
                        [Next]_vars
                 PROVE  CashMatchesLog' /\ SharesConserved'
      OBVIOUS
    <2>1. ASSUME NEW t \in Threads, Step(t) PROVE Balanced(t)
      BY <2>1, DebitBalanced, RejectBalanced, BookBuyBalanced, LookUpBalanced, BookSellBalanced,
         RecordBalanced DEF Step
    <2>2. ASSUME NEW t \in Threads, NEW o \in Orders, PlaceOrder(t, o) PROVE Balanced(t)
      BY <2>2, PlaceOrderBalanced
    <2>3. CASE UNCHANGED vars
      <3>1. /\ LoggedCash' = LoggedCash /\ Flying' = Flying /\ cash' = cash
            /\ \A s \in Symbols : /\ LoggedShares(s)' = LoggedShares(s) /\ Landing(s)' = Landing(s)
                                  /\ HeapShares(s)' = HeapShares(s)
        BY <2>3, Zenon
        DEF vars, LoggedCash, LoggedShares, HeapShares, InHeap, Net, Total, Flying, Landing, Paid, Received
      <3> QED BY <3>1, BooksAre, BooksWillBe DEF Books
    <2> QED BY <2>1, <2>2, <2>3, BalancedKeepsBooks, SetPriceKeepsBooks DEF Next
  <1> QED BY <1>1, <1>2, TypeCorrect, PositionsHeld, PTL DEF Spec

\* However calls interleave no share is created or lost: what the positions hold is what was
\* bought less what was sold (place_order).
THEOREM NoShareLost == Spec => []SharesConserved
  BY BooksBalance, PTL
=============================================================================
