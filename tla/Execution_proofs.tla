------------------------ MODULE Execution_proofs -------------------------
(***************************************************************************)
(* Theorems about the execution layer: the remote brokers' answers, the    *)
(* paper trader's books and its stops, and what the order router, the      *)
(* slicing algorithms and the fill simulation promise about quantities,    *)
(* for any number of orders, of any size.                                  *)
(***************************************************************************)
EXTENDS ChildOrders, SmartRouter, FillSimulation, PaperTrader, RemoteBrokers, Sums_proofs,
        SequenceTheorems

Words == Open \cup Ended \cup {"filled"}
RemoteOrder == [at : Adapters, status : Words, filled : Nat]
Answers == [order : Nat, status : {"SUBMITTED", "FILLED", "PARTIALLY_FILLED", "CANCELLED",
                                   "REJECTED", "EXPIRED", "PENDING"}, filled : Nat]

\* Types; a caller knows orders that are there only.
RemoteTypes ==
  /\ remoteOrders \in Seq(RemoteOrder)
  /\ told \subseteq Answers
  /\ \A answer \in told : answer.order \in {NoId} \cup DOMAIN remoteOrders

\* An order the server calls filled is filled whole.
FilledWhole(order) == order.status = "filled" => order.filled = RemoteQuantity

\* FinalAnswersStayTrue for one answer and one order, with the server's word for the
\* fill: an order filled whole could else be filled further.
TrueOf(answer, order) ==
  /\ answer.filled <= order.filled
  /\ answer.status = "FILLED" => order.status = "filled"
  /\ answer.status \in {"CANCELLED", "REJECTED", "EXPIRED"} => order.status \in Ended

RemoteInv ==
  /\ RemoteTypes
  /\ \A o \in DOMAIN remoteOrders : FilledWhole(remoteOrders[o])
  /\ \A answer \in told : answer.order # NoId => TrueOf(answer, remoteOrders[answer.order])

\* What may become of an order: it is filled further or ended, and what has ended stays so.
Later(old, new) ==
  /\ new \in RemoteOrder /\ FilledWhole(new)
  /\ old.filled <= new.filled
  /\ old.status \notin Open => new = old

LEMMA OrderFields ==
  ASSUME NEW order \in RemoteOrder
  PROVE  order.at \in Adapters /\ order.status \in Words /\ order.filled \in Nat
  BY DEF RemoteOrder

LEMMA AnswerFields ==
  ASSUME NEW answer \in Answers
  PROVE  answer.order \in Nat /\ answer.filled \in Nat
  BY DEF Answers

\* An answer that is true of an order stays true of what becomes of it.
LEMMA LaterKeeps ==
  ASSUME NEW answer \in Answers, NEW old \in RemoteOrder, NEW new, Later(old, new),
         TrueOf(answer, old)
  PROVE  TrueOf(answer, new)
  <1>1. new.filled \in Nat /\ old.filled \in Nat /\ answer.filled \in Nat
    BY OrderFields, AnswerFields DEF Later
  <1>2. answer.status \in {"FILLED", "CANCELLED", "REJECTED", "EXPIRED"} => new = old
    BY DEF Later, TrueOf, Open, Ended
  <1> QED BY <1>1, <1>2 DEF Later, TrueOf

\* A step that changes one order, as it may, and tells nothing.
LEMMA OneOrderChanges ==
  ASSUME RemoteInv, NEW o \in DOMAIN remoteOrders, NEW new, Later(remoteOrders[o], new),
         remoteOrders' = [remoteOrders EXCEPT ![o] = new], told' = told
  PROVE  RemoteInv'
  <1>1. /\ remoteOrders' \in Seq(RemoteOrder) /\ DOMAIN remoteOrders' = DOMAIN remoteOrders
        /\ remoteOrders'[o] = new
        /\ \A p \in DOMAIN remoteOrders : p # o => remoteOrders'[p] = remoteOrders[p]
    BY DEF RemoteInv, RemoteTypes, Later
  <1>2. \A p \in DOMAIN remoteOrders : FilledWhole(remoteOrders'[p])
    BY <1>1 DEF RemoteInv, Later
  <1>3. ASSUME NEW answer \in told, answer.order # NoId
        PROVE  TrueOf(answer, remoteOrders'[answer.order])
    <2>1. /\ answer \in Answers /\ answer.order \in DOMAIN remoteOrders
          /\ TrueOf(answer, remoteOrders[answer.order])
      BY <1>3 DEF RemoteInv, RemoteTypes
    <2>2. CASE answer.order = o
      BY <1>1, <2>1, <2>2, LaterKeeps DEF RemoteInv, RemoteTypes
    <2>3. CASE answer.order # o
      BY <1>1, <2>1, <2>3
    <2> QED BY <2>2, <2>3
  <1> QED BY <1>1, <1>2, <1>3 DEF RemoteInv, RemoteTypes

\* A step that tells more, and changes no order.
LEMMA TellsTruth ==
  ASSUME RemoteInv, NEW new, told' = told \cup new, remoteOrders' = remoteOrders,
         \A answer \in new : /\ answer \in Answers
                             /\ answer.order \in {NoId} \cup DOMAIN remoteOrders
                             /\ answer.order # NoId => TrueOf(answer, remoteOrders[answer.order])
  PROVE  RemoteInv'
  BY DEF RemoteInv, RemoteTypes

LEMMA RejectionIsAnswer == Rejection \in Answers /\ Rejection.order = NoId
  BY DEF Rejection, Answers, NoId

\* What place_order makes of the server's first word.
LEMMA FirstAnswer ==
  ASSUME NEW b \in Adapters, NEW word \in Words, NEW n \in Nat,
         NEW order, order = [at |-> b, status |-> word, filled |-> FilledAs(word)],
         NEW answer, answer = [order |-> n, status |-> StatusOfWord(word), filled |-> FilledAs(word)]
  PROVE  order \in RemoteOrder /\ FilledWhole(order) /\ answer \in Answers /\ TrueOf(answer, order)
  <1>1. FilledAs(word) \in Nat /\ (word = "filled" => FilledAs(word) = RemoteQuantity)
    BY RemoteAssumption, Zenon DEF FilledAs, Words, Open, Ended
  <1> QED
    BY <1>1 DEF RemoteOrder, FilledWhole, Answers, TrueOf, StatusOfWord, Words, Open, Ended

LEMMA PlacedIsTrue ==
  ASSUME RemoteInv, NEW b \in Adapters, PlaceRemote(b)
  PROVE  RemoteInv'
  <1>1. CASE Tell({Rejection}) /\ UNCHANGED remoteOrders
    <2> DEFINE new == {Rejection}
    <2>1. \A a \in new : /\ a \in Answers /\ a.order \in {NoId} \cup DOMAIN remoteOrders
                         /\ a.order # NoId => TrueOf(a, remoteOrders[a.order])
      BY RejectionIsAnswer
    <2>2. told' = told \cup new /\ remoteOrders' = remoteOrders
      BY <1>1 DEF Tell
    <2> HIDE DEF new
    <2> QED BY <2>1, <2>2, TellsTruth
  <1>2. ASSUME NEW word \in Words, NEW lost \in BOOLEAN,
               remoteOrders' = Append(remoteOrders, [at |-> b, status |-> word, filled |-> FilledAs(word)]),
               Tell({IF lost THEN Rejection
                     ELSE [order |-> Len(remoteOrders'), status |-> StatusOfWord(word),
                           filled |-> FilledAs(word)]})
        PROVE  RemoteInv'
    <2> DEFINE order == [at |-> b, status |-> word, filled |-> FilledAs(word)]
               answer == [order |-> Len(remoteOrders) + 1, status |-> StatusOfWord(word),
                          filled |-> FilledAs(word)]
    <2>1. /\ order \in RemoteOrder /\ FilledWhole(order)
          /\ answer \in Answers /\ TrueOf(answer, order) /\ answer.order = Len(remoteOrders) + 1
      BY FirstAnswer DEF RemoteInv, RemoteTypes
    <2> HIDE DEF order
    <2>2. /\ remoteOrders' \in Seq(RemoteOrder)
          /\ DOMAIN remoteOrders' = DOMAIN remoteOrders \cup {Len(remoteOrders) + 1}
          /\ remoteOrders'[Len(remoteOrders) + 1] = order
          /\ \A p \in DOMAIN remoteOrders : remoteOrders'[p] = remoteOrders[p]
          /\ Len(remoteOrders') = Len(remoteOrders) + 1
          /\ Len(remoteOrders) + 1 \notin DOMAIN remoteOrders
      BY <1>2, <2>1 DEF order, RemoteInv, RemoteTypes
    <2>3. told' \subseteq told \cup {Rejection, answer}
      BY <1>2, <2>2 DEF Tell
    <2> HIDE DEF answer
    <2>4. \A p \in DOMAIN remoteOrders' : FilledWhole(remoteOrders'[p])
      BY <2>1, <2>2 DEF RemoteInv
    <2>5. ASSUME NEW a \in told' PROVE
            /\ a \in Answers /\ a.order \in {NoId} \cup DOMAIN remoteOrders'
            /\ a.order # NoId => TrueOf(a, remoteOrders'[a.order])
      <3>1. CASE a \in told
        BY <2>2, <3>1 DEF RemoteInv, RemoteTypes
      <3>2. CASE a = Rejection
        BY <3>2, RejectionIsAnswer
      <3>3. CASE a = answer
        BY <2>1, <2>2, <3>3
      <3> QED BY <2>3, <3>1, <3>2, <3>3
    <2> QED BY <2>2, <2>4, <2>5 DEF RemoteInv, RemoteTypes
  <1>3. CASE ~(Tell({Rejection}) /\ UNCHANGED remoteOrders)
    <2>1. PICK word \in Words, lost \in BOOLEAN :
            /\ remoteOrders' = Append(remoteOrders,
                                      [at |-> b, status |-> word, filled |-> FilledAs(word)])
            /\ Tell({IF lost THEN Rejection
                     ELSE [order |-> Len(remoteOrders'), status |-> StatusOfWord(word),
                           filled |-> FilledAs(word)]})
      BY <1>3, Zenon DEF PlaceRemote, Words
    <2> QED BY <2>1, <1>2
  <1> QED BY <1>1, <1>3

LEMMA NextRemoteInv == RemoteInv /\ [RemoteNext]_remoteVars => RemoteInv'
  <1> SUFFICES ASSUME RemoteInv, [RemoteNext]_remoteVars PROVE RemoteInv'
    OBVIOUS
  <1>1. ASSUME UNCHANGED <<remoteOrders, told>> PROVE RemoteInv'
    BY <1>1 DEF RemoteInv, RemoteTypes
  <1>2. ASSUME NEW b \in Adapters, Connect(b) \/ Disconnect(b) PROVE RemoteInv'
    BY <1>1, <1>2 DEF Connect, Disconnect
  <1>3. ASSUME NEW b \in Adapters, NEW answered \in BOOLEAN, GetAccount(b, answered) PROVE RemoteInv'
    BY <1>1, <1>3 DEF GetAccount
  <1>4. ASSUME NEW b \in Adapters, PlaceRemote(b) PROVE RemoteInv'
    BY <1>4, PlacedIsTrue
  <1>5. ASSUME NEW o \in DOMAIN remoteOrders
        PROVE  /\ remoteOrders[o] \in RemoteOrder /\ FilledWhole(remoteOrders[o])
               /\ o \in Nat /\ remoteOrders[o].filled \in Nat /\ remoteOrders[o].status \in Words
    BY OrderFields DEF RemoteInv, RemoteTypes
  <1>6. CASE GetOpenOrders
    <2> DEFINE answerOf(o) == [order |-> o, status |-> "PENDING", filled |-> remoteOrders[o].filled]
               new == {answerOf(o) : o \in {n \in DOMAIN remoteOrders :
                         remoteOrders[n].at = "alpaca" /\ remoteOrders[n].status \in Open}}
    <2>1. told' = told \cup new /\ remoteOrders' = remoteOrders
      BY <1>6 DEF GetOpenOrders, Tell
    <2>2. \A o \in DOMAIN remoteOrders :
            answerOf(o) \in Answers /\ answerOf(o).order = o /\ TrueOf(answerOf(o), remoteOrders[o])
      BY <1>5 DEF Answers, TrueOf
    <2> HIDE DEF answerOf
    <2>3. \A a \in new : /\ a \in Answers /\ a.order \in {NoId} \cup DOMAIN remoteOrders
                         /\ a.order # NoId => TrueOf(a, remoteOrders[a.order])
      BY <2>2
    <2> HIDE DEF new
    <2> QED BY <2>1, <2>3, TellsTruth
  <1>7. ASSUME NEW o \in DOMAIN remoteOrders, GetOrder(o) PROVE RemoteInv'
    <2> DEFINE answer == [order |-> o, filled |-> remoteOrders[o].filled,
                          status |-> IF remoteOrders[o].status = "filled" THEN "FILLED" ELSE "PENDING"]
    <2>1. told' = told \cup {answer} /\ remoteOrders' = remoteOrders
      BY <1>7 DEF GetOrder, Tell
    <2>2. answer \in Answers /\ answer.order = o /\ TrueOf(answer, remoteOrders[o])
      BY <1>5 DEF Answers, TrueOf
    <2> HIDE DEF answer
    <2> DEFINE new == {answer}
    <2>3. \A a \in new : /\ a \in Answers /\ a.order \in {NoId} \cup DOMAIN remoteOrders
                         /\ a.order # NoId => TrueOf(a, remoteOrders[a.order])
      BY <2>2
    <2>4. told' = told \cup new /\ remoteOrders' = remoteOrders
      BY <2>1
    <2> HIDE DEF new
    <2> QED BY <2>3, <2>4, TellsTruth
  <1>8. ASSUME NEW o \in DOMAIN remoteOrders, NEW word \in Ended, remoteOrders[o].status \in Open,
               remoteOrders' = [remoteOrders EXCEPT ![o].status = word], told' = told
        PROVE  RemoteInv'
    <2> DEFINE new == [remoteOrders[o] EXCEPT !.status = word]
    <2>1. Later(remoteOrders[o], new)
      BY <1>5, <1>8 DEF Later, RemoteOrder, FilledWhole, Words, Ended
    <2>2. remoteOrders' = [remoteOrders EXCEPT ![o] = new]
      BY <1>8
    <2> QED BY <1>8, <2>1, <2>2, OneOrderChanges
  <1>9. ASSUME NEW o \in DOMAIN remoteOrders, CancelRemote(o) \/ ServerEnds(o) PROVE RemoteInv'
    BY <1>8, <1>9 DEF CancelRemote, ServerEnds, Ended
  <1>10. ASSUME NEW o \in DOMAIN remoteOrders, ServerFills(o) PROVE RemoteInv'
    <2> DEFINE filled == remoteOrders[o].filled + 1
               new == [remoteOrders[o] EXCEPT
                         !.filled = filled,
                         !.status = IF filled = RemoteQuantity THEN "filled" ELSE "partially_filled"]
    <2>0. /\ filled \in Nat /\ remoteOrders[o].filled <= filled
          /\ remoteOrders[o].status \in Open
      BY <1>5, <1>10 DEF ServerFills
    <2>1. Later(remoteOrders[o], new)
      <3>1. new.filled = filled /\ new \in RemoteOrder
        BY <1>5, <2>0 DEF RemoteOrder, Words, Open
      <3>2. new.status = "filled" => filled = RemoteQuantity
        BY <1>5 DEF RemoteOrder
      <3> QED BY <2>0, <3>1, <3>2 DEF Later, FilledWhole
    <2>2. remoteOrders' = [remoteOrders EXCEPT ![o] = new] /\ told' = told
      BY <1>10 DEF ServerFills
    <2> QED BY <2>1, <2>2, OneOrderChanges
  <1> QED
    BY <1>1, <1>2, <1>3, <1>4, <1>6, <1>7, <1>9, <1>10 DEF RemoteNext, remoteVars
-----------------------------------------------------------------------------
\* Whatever an adapter told its caller of an order, when it was placed or asked for, stays
\* true of it: no fill is taken back, and a final status is final (alpaca_broker.py and
\* binance_broker.py, place_order; alpaca_broker.py, get_order, get_open_orders).
THEOREM AnswersStayTrue == RemoteSpec => []FinalAnswersStayTrue
  <1>1. RemoteInit => RemoteInv
    BY DEF RemoteInit, RemoteInv, RemoteTypes
  <1>2. RemoteInv /\ [RemoteNext]_remoteVars => RemoteInv'
    BY NextRemoteInv
  <1>3. RemoteInv => FinalAnswersStayTrue
    BY DEF RemoteInv, RemoteTypes, FinalAnswersStayTrue, TrueOf, FilledWhole
  <1> QED BY <1>1, <1>2, <1>3, PTL DEF RemoteSpec
-----------------------------------------------------------------------------
\* The paper trader.  Types; and its account: cash and what the positions have cost are what
\* was there at first, what the trades have brought and the opening commissions.
Holding == [quantity : Nat, basis : Int, stop : Int, price : Nat]
TraderOrder == [symbol : Traded, side : {"BUY", "SELL"}, type : {"MARKET", "LIMIT"},
                quantity : Nat \ {0}, limit : Nat, status : {"PENDING", "FILLED", "REJECTED"},
                price : Nat, fee : Nat]

TraderTypes ==
  /\ cashBalance \in Int /\ openingFees \in Int
  /\ trades \in [count : Nat, pnl : Int]
  /\ holdings \in [Traded -> Holding]
  /\ \A s \in Traded : holdings[s].quantity = 0 => holdings[s] = NoHolding
  /\ orders \in Seq(TraderOrder)

CostOf(held) == SumFunction([s \in Traded |-> held[s].basis])
Balanced(cash, held, pnl, fees) == cash + CostOf(held) = InitialBalance + pnl - fees

TraderInv ==
  TraderTypes /\ Balanced(cashBalance, holdings, trades.pnl, openingFees) /\ StopsHonoured

\* What BookBuy and BookSell take and leave.
Booked(account) ==
  /\ account.cash \in Int /\ account.fees \in Int
  /\ account.trades \in [count : Nat, pnl : Int]
  /\ account.held \in [Traded -> Holding]
  /\ \A s \in Traded : account.held[s].quantity = 0 => account.held[s] = NoHolding
  /\ Balanced(account.cash, account.held, account.trades.pnl, account.fees)
  /\ account.status \in {"FILLED", "REJECTED"}

LEMMA NoHoldingIs ==
  /\ NoHolding \in Holding /\ NoHolding.quantity = 0 /\ NoHolding.basis = 0
  /\ NoHolding.stop = 0 /\ NoHolding.price = 0
  BY DEF NoHolding, Holding

LEMMA HoldingFields ==
  ASSUME NEW h \in Holding
  PROVE  h.quantity \in Nat /\ h.basis \in Int /\ h.stop \in Int /\ h.price \in Nat
  BY DEF Holding

LEMMA CostType ==
  ASSUME NEW held \in [Traded -> Holding]
  PROVE  CostOf(held) \in Int
  <1> DEFINE f == [s \in Traded |-> held[s].basis]
  <1>1. IsFiniteSet(DOMAIN f)
    BY TraderAssumption
  <1>2. \A s \in DOMAIN f : f[s] \in Int
    BY HoldingFields
  <1> HIDE DEF f
  <1>3. SumFunction(f) \in Int
    BY <1>1, <1>2, SumIsInt
  <1> QED BY <1>3 DEF CostOf, f

\* One position changes.
LEMMA CostChanges ==
  ASSUME NEW held \in [Traded -> Holding], NEW s \in Traded, NEW h \in Holding
  PROVE  /\ [held EXCEPT ![s] = h] \in [Traded -> Holding]
         /\ [held EXCEPT ![s] = h][s] = h
         /\ CostOf([held EXCEPT ![s] = h]) = CostOf(held) - held[s].basis + h.basis
  <1> DEFINE new == [held EXCEPT ![s] = h]
             f == [x \in Traded |-> held[x].basis]
             g == [x \in Traded |-> new[x].basis]
  <1>1. new \in [Traded -> Holding] /\ new[s] = h /\ \A x \in Traded : x # s => new[x] = held[x]
    OBVIOUS
  <1>2. IsFiniteSet(DOMAIN f) /\ DOMAIN g = DOMAIN f /\ s \in DOMAIN f
    BY TraderAssumption
  <1>3. /\ \A x \in DOMAIN f : f[x] \in Int /\ g[x] \in Int
        /\ \A x \in DOMAIN f : x # s => f[x] = g[x]
    BY <1>1, HoldingFields
  <1>4. f[s] = held[s].basis /\ g[s] = h.basis
    BY <1>1
  <1> HIDE DEF f, g, new
  <1>5. SumFunction(g) = SumFunction(f) - f[s] + g[s]
    BY <1>2, <1>3, SumExcept
  <1>6. CostOf(new) = SumFunction(g) /\ CostOf(held) = SumFunction(f)
    BY Zenon DEF CostOf, f, g
  <1> QED BY <1>1, <1>4, <1>5, <1>6 DEF new

\* A booking: cash, trades and fees change by as much as what is held costs.
LEMMA BookedMoves ==
  ASSUME NEW a, Booked(a), NEW s \in Traded, NEW h \in Holding,
         h.quantity = 0 => h = NoHolding,
         NEW cash \in Int, NEW fees \in Int, NEW t \in [count : Nat, pnl : Int],
         cash + h.basis - t.pnl + fees = a.cash + a.held[s].basis - a.trades.pnl + a.fees,
         NEW b, b.cash = cash, b.fees = fees, b.trades = t, b.status = a.status,
         b.held = [a.held EXCEPT ![s] = h]
  PROVE  Booked(b)
  <1>1. a.held \in [Traded -> Holding]
    BY DEF Booked
  <1>2. /\ b.held \in [Traded -> Holding] /\ b.held[s] = h
        /\ CostOf(b.held) = CostOf(a.held) - a.held[s].basis + h.basis
    BY <1>1, CostChanges
  <1>3. CostOf(a.held) \in Int /\ a.held[s].basis \in Int /\ h.basis \in Int
    BY <1>1, CostType, HoldingFields
  <1>4. a.cash \in Int /\ a.fees \in Int /\ a.trades.pnl \in Int /\ t.pnl \in Int
    BY DEF Booked
  <1>5. a.cash + CostOf(a.held) = InitialBalance + a.trades.pnl - a.fees
    BY DEF Booked, Balanced
  <1>6. cash + CostOf(b.held) = InitialBalance + t.pnl - fees
    <2> DEFINE x == CostOf(a.held)
               y == CostOf(b.held)
               u == a.held[s].basis
               v == h.basis
               p == a.trades.pnl
               q == t.pnl
               c == a.cash
               e == a.fees
    <2>1. /\ x \in Int /\ u \in Int /\ v \in Int /\ p \in Int /\ q \in Int /\ c \in Int /\ e \in Int
          /\ y = x - u + v /\ c + x = InitialBalance + p - e /\ InitialBalance \in Int
          /\ cash + v - q + fees = c + u - p + e
      BY <1>2, <1>3, <1>4, <1>5, TraderAssumption
    <2> HIDE DEF x, y, u, v, p, q, c, e
    <2>2. cash + y = InitialBalance + q - fees
      BY <2>1
    <2> QED BY <2>2 DEF y, q
  <1>7. \A x \in Traded : b.held[x].quantity = 0 => b.held[x] = NoHolding
    BY <1>1, <1>2 DEF Booked
  <1> QED BY <1>2, <1>6, <1>7 DEF Booked, Balanced
LEMMA OrderTypes ==
  ASSUME NEW o \in TraderOrder
  PROVE  /\ o.symbol \in Traded /\ o.side \in {"BUY", "SELL"} /\ o.type \in {"MARKET", "LIMIT"}
         /\ o.quantity \in Nat /\ o.quantity > 0 /\ o.limit \in Nat /\ o.price \in Nat /\ o.fee \in Nat
         /\ o.status \in {"PENDING", "FILLED", "REJECTED"}
  BY DEF TraderOrder

LEMMA RejectedBooked == ASSUME NEW a, Booked(a), a.status = "FILLED", NEW b,
                               b.cash = a.cash, b.fees = a.fees, b.held = a.held,
                               b.trades = a.trades, b.status = "REJECTED"
                        PROVE  Booked(b)
  BY DEF Booked, Balanced

AccountRecord == [cash : Int, held : [Traded -> Holding], trades : [count : Nat, pnl : Int],
                  fees : Int, status : {"FILLED", "REJECTED"}]

LEMMA RejectedIs ==
  ASSUME NEW a \in AccountRecord
  PROVE  /\ Rejected(a).cash = a.cash /\ Rejected(a).fees = a.fees /\ Rejected(a).held = a.held
         /\ Rejected(a).trades = a.trades /\ Rejected(a).status = "REJECTED"
         /\ Rejected(a) \in AccountRecord
  BY DEF Rejected, AccountRecord

LEMMA BuyBooks ==
  ASSUME NEW a \in AccountRecord, Booked(a), a.status = "FILLED", NEW o \in TraderOrder
  PROVE  Booked(BookBuy(a, o))
  <1> DEFINE pos == a.held[o.symbol]
             value == o.quantity * o.price
             cost == value + o.fee
             opened == [quantity |-> o.quantity, basis |-> value, stop |-> 0, price |-> o.price]
             raised == [pos EXCEPT !.quantity = @ + o.quantity, !.basis = @ + cost]
  <1>1. /\ o.symbol \in Traded /\ o.quantity \in Nat /\ o.quantity > 0 /\ o.price \in Nat
        /\ o.fee \in Nat
    BY OrderTypes
  <1>2. value \in Nat
    BY <1>1
  <1>3. cost \in Nat
    BY <1>1, <1>2
  <1>4. /\ a.cash \in Int /\ a.fees \in Int /\ a.trades \in [count : Nat, pnl : Int]
        /\ a.trades.pnl \in Int /\ a.held \in [Traded -> Holding]
    BY DEF AccountRecord
  <1>5. pos \in Holding
    BY <1>1, <1>4
  <1>6. pos.basis \in Int /\ pos.quantity \in Nat
    BY <1>5, HoldingFields
  <1> HIDE DEF value, pos
  <1>7. CASE a.cash < cost
    <2>1. BookBuy(a, o) = Rejected(a)
      <3>1. ~(a.cash >= cost)
        BY <1>3, <1>4, <1>7
      <3> QED BY <1>7, <3>1, Zenon DEF BookBuy, value
    <2> QED BY <2>1, RejectedBooked, RejectedIs
  <1>8. CASE ~(a.cash < cost) /\ pos = NoHolding
    <2> DEFINE b == [a EXCEPT !.cash = @ - cost, !.fees = @ + o.fee, !.held[o.symbol] = opened]
    <2>1. BookBuy(a, o) = b
      <3>1. a.cash >= cost
        BY <1>3, <1>4, <1>8
      <3> QED BY <1>8, <3>1, Zenon DEF BookBuy, value, pos
    <2>2. /\ opened \in Holding /\ opened.basis = value /\ opened.quantity # 0
          /\ pos.basis = 0
      BY <1>1, <1>2, <1>8, NoHoldingIs DEF Holding
    <2> HIDE DEF opened
    <2>3. /\ b.cash = a.cash - cost /\ b.fees = a.fees + o.fee /\ b.trades = a.trades
          /\ b.status = a.status /\ b.held = [a.held EXCEPT ![o.symbol] = opened]
      BY DEF AccountRecord
    <2> HIDE DEF b
    <2>4. b.cash + opened.basis - a.trades.pnl + b.fees = a.cash + pos.basis - a.trades.pnl + a.fees
      BY <1>1, <1>2, <1>4, <2>2, <2>3
    <2>5. b.cash \in Int /\ b.fees \in Int
      BY <1>1, <1>3, <1>4, <2>3
    <2>6. Booked(b)
      BY <1>1, <1>4, <2>2, <2>3, <2>4, <2>5, BookedMoves DEF pos
    <2> QED BY <2>1, <2>6
  <1>9. CASE ~(a.cash < cost) /\ pos # NoHolding
    <2> DEFINE b == [a EXCEPT !.cash = @ - cost, !.held[o.symbol].quantity = @ + o.quantity,
                              !.held[o.symbol].basis = @ + cost]
    <2>1. BookBuy(a, o) = b
      BY <1>9, Zenon DEF BookBuy, value, pos
    <2>2. /\ raised \in Holding /\ raised.basis = pos.basis + cost
          /\ raised.quantity = pos.quantity + o.quantity
      <3> DEFINE x == pos.quantity + o.quantity
                 y == pos.basis + cost
      <3>1. x \in Nat /\ y \in Int
        BY <1>1, <1>3, <1>6
      <3>2. raised = [pos EXCEPT !.quantity = x, !.basis = y]
        OBVIOUS
      <3> HIDE DEF raised, x, y
      <3>3. raised \in Holding /\ raised.basis = y /\ raised.quantity = x
        BY <1>5, <3>1, <3>2 DEF Holding
      <3> QED BY <3>3 DEF x, y
    <2>3. raised.quantity # 0
      BY <1>1, <1>6, <2>2
    <2>4. /\ b.cash = a.cash - cost /\ b.fees = a.fees /\ b.trades = a.trades
          /\ b.status = a.status /\ b.held = [a.held EXCEPT ![o.symbol] = raised]
      BY <1>1 DEF AccountRecord, Holding, pos
    <2> HIDE DEF b, raised
    <2>5. b.cash + raised.basis - a.trades.pnl + b.fees = a.cash + pos.basis - a.trades.pnl + a.fees
      BY <1>3, <1>4, <1>6, <2>2, <2>4
    <2>6. b.cash \in Int /\ b.fees \in Int
      BY <1>3, <1>4, <2>4
    <2>7. Booked(b)
      BY <1>1, <1>4, <2>2, <2>3, <2>4, <2>5, <2>6, BookedMoves DEF pos
    <2> QED BY <2>1, <2>7
  <1> QED BY <1>7, <1>8, <1>9

LEMMA SellBooks ==
  ASSUME NEW a \in AccountRecord, Booked(a), a.status = "FILLED", NEW o \in TraderOrder
  PROVE  Booked(BookSell(a, o))
  <1> DEFINE pos == a.held[o.symbol]
             sold == IF o.quantity > pos.quantity THEN pos.quantity ELSE o.quantity
             share == (pos.basis * sold) \div pos.quantity
             left == IF sold = pos.quantity THEN NoHolding
                     ELSE [pos EXCEPT !.quantity = @ - sold, !.basis = @ - share]
             proceeds == sold * o.price
             b == [a EXCEPT !.cash = @ + proceeds - o.fee, !.trades.count = @ + 1,
                            !.trades.pnl = @ + proceeds - (share + o.fee),
                            !.held[o.symbol] = left]
  <1>1. /\ o.symbol \in Traded /\ o.quantity \in Nat /\ o.quantity > 0 /\ o.price \in Nat
        /\ o.fee \in Nat
    BY OrderTypes
  <1>2. /\ a.cash \in Int /\ a.fees \in Int /\ a.trades \in [count : Nat, pnl : Int]
        /\ a.trades.pnl \in Int /\ a.trades.count \in Nat /\ a.held \in [Traded -> Holding]
    BY DEF AccountRecord
  <1>3. pos \in Holding
    BY <1>1, <1>2
  <1>4. pos.basis \in Int /\ pos.quantity \in Nat
    BY <1>3, HoldingFields
  <1>5. CASE pos = NoHolding
    <2>1. BookSell(a, o) = Rejected(a)
      BY <1>5, Zenon DEF BookSell
    <2> QED BY <2>1, RejectedBooked, RejectedIs
  <1>6. CASE pos # NoHolding
    <2>1. pos.quantity # 0
      BY <1>1, <1>6 DEF Booked
    <2>2. BookSell(a, o) = b
      BY <1>6, Zenon DEF BookSell
    <2>3. sold \in Nat /\ sold <= pos.quantity
      BY <1>1, <1>4
    <2>4. sold = pos.quantity => share = pos.basis
      <3> DEFINE x == pos.basis
                 n == pos.quantity
      <3>1. x \in Int /\ n \in Nat /\ n # 0
        BY <1>4, <2>1
      <3> HIDE DEF x, n
      <3>2. (x * n) \div n = x
        BY <3>1
      <3> QED BY <3>2 DEF x, n
    <2>5. share \in Int
      <3> DEFINE x == pos.basis * sold
                 n == pos.quantity
      <3> HIDE DEF sold
      <3>1. x \in Int /\ n \in Nat /\ n > 0
        BY <1>4, <2>1, <2>3
      <3> HIDE DEF x, n
      <3>2. x \div n \in Int
        BY <3>1
      <3> QED BY <3>2 DEF x, n
    <2>6. proceeds \in Int
      BY <1>1, <2>3
    <2> HIDE DEF sold, share, proceeds, pos
    <2>7. /\ left \in Holding /\ left.basis = pos.basis - share
          /\ left.quantity = 0 => left = NoHolding
      <3>1. CASE sold = pos.quantity
        <4>1. left = NoHolding
          BY <3>1
        <4>2. pos.basis - share = 0
          BY <1>4, <2>4, <3>1
        <4> QED BY <4>1, <4>2, NoHoldingIs
      <3>2. CASE sold # pos.quantity
        <4>1. pos.quantity - sold \in Nat /\ pos.quantity - sold # 0 /\ pos.basis - share \in Int
          BY <1>4, <2>3, <2>5, <3>2
        <4>2. left = [pos EXCEPT !.quantity = pos.quantity - sold, !.basis = pos.basis - share]
          BY <3>2
        <4> HIDE DEF left
        <4> DEFINE x == pos.quantity - sold
                   y == pos.basis - share
        <4>3. x \in Nat /\ x # 0 /\ y \in Int /\ left = [pos EXCEPT !.quantity = x, !.basis = y]
          BY <4>1, <4>2
        <4> HIDE DEF x, y
        <4>4. left \in Holding /\ left.basis = y /\ left.quantity = x
          BY <1>3, <4>3 DEF Holding
        <4> QED BY <4>3, <4>4 DEF x, y
      <3> QED BY <3>1, <3>2
    <2> HIDE DEF left
    <2> DEFINE t == [count |-> a.trades.count + 1, pnl |-> a.trades.pnl + proceeds - (share + o.fee)]
    <2>8. /\ b.cash = a.cash + proceeds - o.fee /\ b.fees = a.fees /\ b.trades = t
          /\ b.status = a.status /\ b.held = [a.held EXCEPT ![o.symbol] = left]
      BY DEF AccountRecord
    <2>9. /\ t.pnl = a.trades.pnl + proceeds - (share + o.fee) /\ t \in [count : Nat, pnl : Int]
      BY <1>1, <1>2, <2>5, <2>6
    <2> HIDE DEF b, t
    <2>10. b.cash \in Int /\ b.fees \in Int
      BY <1>1, <1>2, <2>6, <2>8
    <2>11. b.cash + left.basis - t.pnl + b.fees = a.cash + pos.basis - a.trades.pnl + a.fees
      BY <1>1, <1>2, <1>4, <2>5, <2>6, <2>7, <2>8, <2>9
    <2>12. Booked(b)
      BY <1>1, <2>7, <2>8, <2>9, <2>10, <2>11, BookedMoves DEF pos
    <2> QED BY <2>2, <2>12
  <1> QED BY <1>5, <1>6
\* Filling keeps an order an order.
LEMMA FillTypes ==
  ASSUME NEW o \in TraderOrder, NEW bar \in BarsSeen
  PROVE  FillOrder(o, bar) \in TraderOrder
  <1>1. /\ o.quantity \in Nat /\ o.price \in Nat /\ o.limit \in Nat
        /\ bar.price \in Nat /\ bar.high \in Nat /\ bar.low \in Nat
    BY OrderTypes, TraderAssumption
  <1>2. ASSUME NEW price \in Nat PROVE FilledAt(o, price) \in TraderOrder
    <2> DEFINE x == o.quantity * price * FeePercent
               fee == x \div 100
    <2>1. x \in Nat
      BY <1>1, TraderAssumption
    <2> HIDE DEF x
    <2>2. fee \in Nat
      BY <2>1
    <2>3. FilledAt(o, price) = [o EXCEPT !.status = "FILLED", !.price = price, !.fee = fee]
      BY DEF FilledAt, x
    <2> HIDE DEF fee
    <2> QED BY <2>2, <2>3 DEF TraderOrder
  <1>3. FillMarket(o, bar) \in TraderOrder
    <2> DEFINE p == CASE o.side = "BUY" /\ bar.high # 0 -> bar.high
                      [] o.side = "SELL" /\ bar.low # 0 -> bar.low
                      [] OTHER -> bar.price
    <2>1. p = bar.high \/ p = bar.low \/ p = bar.price
      BY Zenon
    <2>2. FillMarket(o, bar) = FilledAt(o, p)
      BY DEF FillMarket
    <2> HIDE DEF p
    <2> QED BY <1>1, <1>2, <2>1, <2>2
  <1>4. FillLimit(o, bar) \in TraderOrder
    <2>1. [o EXCEPT !.status = "REJECTED"] \in TraderOrder
      BY DEF TraderOrder
    <2>2. FilledAt(o, o.limit) \in TraderOrder
      BY <1>1, <1>2
    <2> DEFINE low == IF bar.low # 0 THEN bar.low ELSE bar.price
               high == IF bar.high # 0 THEN bar.high ELSE bar.price
               reached == IF o.side = "BUY" THEN low <= o.limit ELSE high >= o.limit
    <2>3. FillLimit(o, bar) = CASE o.limit = 0 -> [o EXCEPT !.status = "REJECTED"]
                                [] o.limit # 0 /\ reached -> FilledAt(o, o.limit)
                                [] OTHER -> o
      BY DEF FillLimit
    <2> HIDE DEF reached
    <2>4. \/ FillLimit(o, bar) = [o EXCEPT !.status = "REJECTED"]
          \/ FillLimit(o, bar) = FilledAt(o, o.limit) \/ FillLimit(o, bar) = o
      BY <2>3, Zenon
    <2> QED BY <2>1, <2>2, <2>4
  <1>5. FillOrder(o, bar) = FillMarket(o, bar) \/ FillOrder(o, bar) = FillLimit(o, bar)
          \/ FillOrder(o, bar) = o
    BY Zenon DEF FillOrder
  <1> QED BY <1>3, <1>4, <1>5

LEMMA OrderKept ==
  ASSUME NEW o \in TraderOrder, NEW status \in {"FILLED", "REJECTED"}
  PROVE  [o EXCEPT !.status = status] \in TraderOrder
  BY DEF TraderOrder

LEMMA NotChecked == ASSUME checked' = <<>> PROVE StopsHonoured'
  BY DEF StopsHonoured

LEMMA AccountIs ==
  ASSUME TraderTypes, Balanced(cashBalance, holdings, trades.pnl, openingFees)
  PROVE  /\ Account \in AccountRecord /\ Booked(Account) /\ Account.status = "FILLED"
         /\ Account.cash = cashBalance /\ Account.held = holdings /\ Account.trades = trades
         /\ Account.fees = openingFees
  BY DEF TraderTypes, Account, AccountRecord, Booked

LEMMA ExecuteKeeps ==
  ASSUME TraderInv, NEW i \in DOMAIN orders, NEW bar \in BarsSeen, TraderExecute(i, bar)
  PROVE  TraderInv'
  <1> DEFINE order == FillOrder(orders[i], bar)
             account == Book(Account, order)
  <1>1. orders \in Seq(TraderOrder) /\ orders[i] \in TraderOrder
    BY DEF TraderInv, TraderTypes
  <1>2. order \in TraderOrder
    BY <1>1, FillTypes
  <1>3. Booked(account)
    BY <1>2, AccountIs, BuyBooks, SellBooks DEF TraderInv, Book
  <1>4. StopsHonoured'
    BY NotChecked DEF TraderExecute
  <1> HIDE DEF order, account
  <1>5. CASE order.status # "FILLED"
    <2>1. /\ orders' = [orders EXCEPT ![i] = order]
          /\ UNCHANGED <<cashBalance, holdings, trades, openingFees>>
      BY <1>5 DEF TraderExecute, order
    <2>2. orders' \in Seq(TraderOrder)
      BY <1>1, <1>2, <2>1
    <2> QED BY <1>4, <2>1, <2>2 DEF TraderInv, TraderTypes, Balanced, CostOf
  <1>6. CASE order.status = "FILLED"
    <2>1. /\ orders' = [orders EXCEPT ![i] = [order EXCEPT !.status = account.status]]
          /\ TakeAccount(account)
      BY <1>6 DEF TraderExecute, order, account
    <2>2. [order EXCEPT !.status = account.status] \in TraderOrder
      BY <1>2, <1>3, OrderKept DEF Booked
    <2>3. orders' \in Seq(TraderOrder)
      BY <1>1, <2>1, <2>2
    <2> QED BY <1>3, <1>4, <2>1, <2>3 DEF TakeAccount, Booked, TraderInv, TraderTypes, Balanced, CostOf
  <1> QED BY <1>5, <1>6

LEMMA SubmitKeeps ==
  ASSUME TraderInv, NEW s \in Traded, NEW side \in {"BUY", "SELL"}, NEW type \in {"MARKET", "LIMIT"},
         NEW q \in TradeSizes, NEW limit \in Nat, SubmitOrder(s, side, type, q, limit)
  PROVE  TraderInv'
  <1>1. OrderOf(s, side, type, q, limit) \in TraderOrder
    BY TraderAssumption DEF OrderOf, TraderOrder
  <1>2. orders' \in Seq(TraderOrder)
    BY <1>1 DEF SubmitOrder, TraderInv, TraderTypes
  <1>3. StopsHonoured' /\ UNCHANGED <<cashBalance, holdings, trades, openingFees>>
    BY NotChecked DEF SubmitOrder
  <1> QED BY <1>2, <1>3 DEF TraderInv, TraderTypes, Balanced, CostOf

\* A position's stop or price changes, what it has cost does not.
LEMMA MarkKeeps ==
  ASSUME TraderInv, NEW s \in Traded, holdings[s] # NoHolding, NEW h \in Holding,
         h.quantity = holdings[s].quantity, h.basis = holdings[s].basis,
         holdings' = [holdings EXCEPT ![s] = h], checked' = <<>>,
         UNCHANGED <<cashBalance, orders, trades, openingFees>>
  PROVE  TraderInv'
  <1>1. holdings \in [Traded -> Holding]
    BY DEF TraderInv, TraderTypes
  <1>2. /\ holdings' \in [Traded -> Holding] /\ holdings'[s] = h
        /\ CostOf(holdings') = CostOf(holdings) - holdings[s].basis + h.basis
    <2>1. /\ [holdings EXCEPT ![s] = h] \in [Traded -> Holding]
          /\ [holdings EXCEPT ![s] = h][s] = h
          /\ CostOf([holdings EXCEPT ![s] = h]) = CostOf(holdings) - holdings[s].basis + h.basis
      BY <1>1, CostChanges
    <2> QED BY <2>1
  <1>3. CostOf(holdings) \in Int /\ holdings[s].basis \in Int
    BY <1>1, CostType, HoldingFields
  <1>4. CostOf(holdings') = CostOf(holdings)
    BY <1>2, <1>3
  <1>5. Balanced(cashBalance, holdings, trades.pnl, openingFees)'
    BY <1>4 DEF TraderInv, Balanced, CostOf
  <1>6. ASSUME NEW x \in Traded, holdings'[x].quantity = 0 PROVE holdings'[x] = NoHolding
    <2>1. CASE x = s
      BY <1>2, <1>6, <2>1 DEF TraderInv, TraderTypes
    <2>2. CASE x # s
      BY <1>1, <1>6, <2>2 DEF TraderInv, TraderTypes
    <2> QED BY <2>1, <2>2
  <1>7. StopsHonoured'
    BY NotChecked
  <1> QED BY <1>2, <1>5, <1>6, <1>7 DEF TraderInv, TraderTypes

LEMMA SetStopKeeps ==
  ASSUME TraderInv, NEW s \in Traded, SetStop(s)
  PROVE  TraderInv'
  <1> DEFINE entry == holdings[s].basis \div holdings[s].quantity
             stop == (entry * (100 - StopPercent)) \div 100
             h == [holdings[s] EXCEPT !.stop = stop]
  <1>1. /\ holdings \in [Traded -> Holding] /\ holdings[s] \in Holding
        /\ holdings[s].quantity # 0 /\ holdings[s] # NoHolding
    BY DEF TraderInv, TraderTypes, SetStop
  <1>2. stop \in Int
    <2> DEFINE b == holdings[s].basis
               n == holdings[s].quantity
    <2>1. b \in Int /\ n \in Nat /\ n > 0
      BY <1>1, HoldingFields
    <2> HIDE DEF b, n
    <2>2. b \div n \in Int
      BY <2>1
    <2>3. entry \in Int
      BY <2>2 DEF b, n
    <2> HIDE DEF entry
    <2>4. entry * (100 - StopPercent) \in Int
      BY <2>3, TraderAssumption
    <2> QED BY <2>4
  <1>3. holdings' = [holdings EXCEPT ![s] = h] /\ checked' = <<>>
        /\ UNCHANGED <<cashBalance, orders, trades, openingFees>>
    BY DEF SetStop
  <1> HIDE DEF stop
  <1>4. h \in Holding /\ h.quantity = holdings[s].quantity /\ h.basis = holdings[s].basis
    BY <1>1, <1>2 DEF Holding
  <1> HIDE DEF h
  <1> QED BY <1>1, <1>3, <1>4, MarkKeeps

LEMMA UpdatePriceKeeps ==
  ASSUME TraderInv, NEW s \in Traded, NEW price \in Nat, UpdatePrice(s, price)
  PROVE  TraderInv'
  <1> DEFINE h == [holdings[s] EXCEPT !.price = price]
  <1>1. holdings \in [Traded -> Holding] /\ holdings[s] \in Holding /\ holdings[s] # NoHolding
    BY DEF TraderInv, TraderTypes, UpdatePrice
  <1>2. h \in Holding /\ h.quantity = holdings[s].quantity /\ h.basis = holdings[s].basis
    BY <1>1 DEF Holding
  <1>3. holdings' = [holdings EXCEPT ![s] = h] /\ checked' = <<>>
        /\ UNCHANGED <<cashBalance, orders, trades, openingFees>>
    BY DEF UpdatePrice
  <1> HIDE DEF h
  <1> QED BY <1>1, <1>2, <1>3, MarkKeeps
\* Orders made of a set's elements, in any order.
LEMMA SalesAreOrders ==
  ASSUME NEW S, IsFiniteSet(S), NEW sale \in [S -> TraderOrder], NEW sequence \in SetToSeqs(S)
  PROVE  [k \in DOMAIN sequence |-> sale[sequence[k]]] \in Seq(TraderOrder)
  <1> DEFINE n == Cardinality(S)
             new == [k \in DOMAIN sequence |-> sale[sequence[k]]]
  <1>1. n \in Nat
    BY FS_CardinalityType
  <1>2. sequence \in [1..n -> S]
    BY DEF SetToSeqs
  <1> HIDE DEF n
  <1>3. new \in [1..n -> TraderOrder]
    BY <1>2
  <1> HIDE DEF new
  <1>4. new \in Seq(TraderOrder)
    BY <1>1, <1>3
  <1> QED BY <1>4 DEF new

LEMMA StopsKeep ==
  ASSUME TraderInv, NEW prices \in [Traded -> Nat], CheckStopLosses(prices)
  PROVE  TraderInv'
  <1> DEFINE hit == Hit(prices)
             sale == [s \in hit |-> StopOrder(s, prices[s])]
             got == [s \in hit |-> Proceeds(sale[s])]
             won == [s \in hit |-> Proceeds(sale[s]) - holdings[s].basis]
             lost == [s \in hit |-> holdings[s].basis]
  <1>0. /\ holdings \in [Traded -> Holding] /\ cashBalance \in Int /\ openingFees \in Int
        /\ trades.count \in Nat /\ trades.pnl \in Int /\ orders \in Seq(TraderOrder)
        /\ cashBalance + CostOf(holdings) = InitialBalance + trades.pnl - openingFees
    BY DEF TraderInv, TraderTypes, Balanced
  <1>1. hit \subseteq Traded /\ IsFiniteSet(hit)
    BY TraderAssumption, FS_Subset DEF Hit
  <1>2. ASSUME NEW s \in hit
        PROVE  /\ holdings[s] \in Holding /\ holdings[s].quantity \in Nat
               /\ holdings[s].quantity # 0 /\ holdings[s].basis \in Int /\ prices[s] \in Nat
               /\ s \in Traded
    <2>1. s \in Traded /\ holdings[s] # NoHolding
      BY <1>2 DEF Hit
    <2> QED BY <1>0, <2>1, HoldingFields DEF TraderInv, TraderTypes
  <1>3. /\ cashBalance' = cashBalance + SumFunction(got)
        /\ holdings' = [s \in Traded |-> IF s \in hit THEN NoHolding ELSE holdings[s]]
        /\ trades' = [count |-> trades.count + Cardinality(hit), pnl |-> trades.pnl + SumFunction(won)]
        /\ \E sequence \in SetToSeqs(hit) :
             orders' = orders \o [k \in DOMAIN sequence |-> sale[sequence[k]]]
        /\ checked' = prices /\ openingFees' = openingFees
    BY Zenon DEF CheckStopLosses
  <1> HIDE DEF hit
  <1>4. ASSUME NEW s \in hit PROVE sale[s] \in TraderOrder
    <2> DEFINE q == holdings[s].quantity
               p == prices[s]
               x == q * p * FeePercent
               fee == x \div 100
    <2>1. q \in Nat /\ p \in Nat /\ q # 0 /\ s \in Traded
      BY <1>2
    <2>2. sale[s] = [symbol |-> s, side |-> "SELL", type |-> "MARKET", quantity |-> q, limit |-> 0,
                     status |-> "FILLED", price |-> p, fee |-> fee]
      BY DEF StopOrder, FilledAt, OrderOf
    <2> HIDE DEF q, p
    <2>3. x \in Nat
      BY <2>1, TraderAssumption
    <2> HIDE DEF x
    <2>4. fee \in Nat
      BY <2>3
    <2> HIDE DEF fee, sale
    <2> QED BY <2>1, <2>2, <2>4 DEF TraderOrder
  <1>5. sale \in [hit -> TraderOrder]
    BY <1>4
  <1> HIDE DEF sale
  <1>6. orders' \in Seq(TraderOrder)
    <2>1. PICK sequence \in SetToSeqs(hit) :
            orders' = orders \o [k \in DOMAIN sequence |-> sale[sequence[k]]]
      BY <1>3
    <2>2. [k \in DOMAIN sequence |-> sale[sequence[k]]] \in Seq(TraderOrder)
      BY <1>1, <1>5, SalesAreOrders
    <2> DEFINE new == [k \in DOMAIN sequence |-> sale[sequence[k]]]
    <2> HIDE DEF new
    <2>3. new \in Seq(TraderOrder) /\ orders' = orders \o new
      BY <2>1, <2>2 DEF new
    <2> QED BY <1>0, <2>3
  <1>7. ASSUME NEW s \in hit PROVE Proceeds(sale[s]) \in Int
    BY <1>4, OrderTypes DEF Proceeds
  <1>8. /\ SumFunction(got) \in Int /\ SumFunction(won) \in Int /\ SumFunction(lost) \in Int
        /\ SumFunction(got) = SumFunction(won) + SumFunction(lost)
    <2>1. DOMAIN got = hit /\ DOMAIN won = hit /\ DOMAIN lost = hit
      OBVIOUS
    <2>2. ASSUME NEW s \in hit
          PROVE  /\ got[s] = Proceeds(sale[s]) /\ won[s] = Proceeds(sale[s]) - holdings[s].basis
                 /\ lost[s] = holdings[s].basis
      OBVIOUS
    <2> HIDE DEF got, won, lost
    <2>3. \A s \in hit : got[s] \in Int /\ won[s] \in Int /\ lost[s] \in Int /\ got[s] = won[s] + lost[s]
      BY <1>2, <1>7, <2>2
    <2> QED BY <1>1, <2>1, <2>3, SumIsInt, SumPlus
  <1>9. /\ holdings' \in [Traded -> Holding]
        /\ \A s \in Traded : holdings'[s] = IF s \in hit THEN NoHolding ELSE holdings[s]
    BY <1>0, <1>3, NoHoldingIs
  <1>10. CostOf(holdings) = CostOf(holdings') + SumFunction(lost)
    <2> DEFINE f == [s \in Traded |-> holdings[s].basis]
               g == [s \in Traded |-> holdings'[s].basis]
               z == [s \in Traded |-> IF s \in hit THEN holdings[s].basis ELSE 0]
    <2>1. /\ DOMAIN f = Traded /\ DOMAIN g = Traded /\ DOMAIN z = Traded /\ DOMAIN lost = hit
          /\ \A s \in Traded : f[s] = holdings[s].basis /\ g[s] = holdings'[s].basis
          /\ \A s \in Traded : z[s] = IF s \in hit THEN holdings[s].basis ELSE 0
          /\ \A s \in hit : lost[s] = holdings[s].basis
      OBVIOUS
    <2>2. CostOf(holdings) = SumFunction(f) /\ CostOf(holdings') = SumFunction(g)
      BY Zenon DEF CostOf
    <2> HIDE DEF f, g, z, lost
    <2>3. ASSUME NEW s \in Traded
          PROVE  f[s] \in Int /\ g[s] \in Int /\ z[s] \in Int /\ f[s] = g[s] + z[s]
      <3>1. holdings[s].basis \in Int
        BY <1>0, HoldingFields
      <3> QED BY <1>9, <2>1, <3>1, NoHoldingIs
    <2>4. IsFiniteSet(Traded)
      BY TraderAssumption
    <2>5. SumFunction(f) = SumFunction(g) + SumFunction(z)
      BY <2>1, <2>3, <2>4, SumPlus
    <2>6. SumFunction(z) = SumFunction(lost)
      <3>1. DOMAIN lost \subseteq DOMAIN z
        BY <1>1, <2>1
      <3>2. \A s \in DOMAIN z : z[s] = IF s \in DOMAIN lost THEN lost[s] ELSE 0
        BY <2>1
      <3> QED BY <2>1, <2>3, <2>4, <3>1, <3>2, SumPart
    <2> QED BY <2>2, <2>5, <2>6
  <1>11. Cardinality(hit) \in Nat
    BY <1>1, FS_CardinalityType
  <1> HIDE DEF got, won, lost
  <1> DEFINE g == SumFunction(got)
             w == SumFunction(won)
             l == SumFunction(lost)
             c == Cardinality(hit)
  <1>12. /\ g \in Int /\ w \in Int /\ l \in Int /\ g = w + l /\ c \in Nat
         /\ cashBalance' = cashBalance + g
         /\ trades' = [count |-> trades.count + c, pnl |-> trades.pnl + w]
    BY <1>3, <1>8, <1>11
  <1> HIDE DEF g, w, l, c
  <1>13. trades' \in [count : Nat, pnl : Int] /\ trades'.pnl = trades.pnl + w
    <2> DEFINE x == trades.count + c
               y == trades.pnl + w
    <2>1. x \in Nat /\ y \in Int /\ trades' = [count |-> x, pnl |-> y]
      BY <1>0, <1>12
    <2> HIDE DEF x, y
    <2>2. trades' \in [count : Nat, pnl : Int] /\ trades'.pnl = y
      BY <2>1
    <2> QED BY <2>2 DEF y
  <1>14. cashBalance' + CostOf(holdings') = InitialBalance + trades'.pnl - openingFees'
    <2> DEFINE a == CostOf(holdings)
               b == CostOf(holdings')
    <2>1. a = b + l
      BY <1>10 DEF l
    <2>2. a \in Int /\ b \in Int
      BY <1>0, <1>9, CostType
    <2>3. cashBalance + a = InitialBalance + trades.pnl - openingFees
      BY <1>0
    <2> DEFINE p == trades.pnl
               q == trades'.pnl
    <2>4. /\ a \in Int /\ b \in Int /\ p \in Int /\ q \in Int /\ q = p + w /\ w \in Int /\ l \in Int
          /\ g = w + l /\ a = b + l /\ cashBalance \in Int /\ openingFees \in Int
          /\ cashBalance' = cashBalance + g /\ openingFees' = openingFees
          /\ cashBalance + a = InitialBalance + p - openingFees /\ InitialBalance \in Int
      BY <1>0, <1>3, <1>12, <1>13, <2>1, <2>2, <2>3, TraderAssumption
    <2> HIDE DEF a, b, p, q
    <2>5. cashBalance' + b = InitialBalance + q - openingFees'
      BY <2>4
    <2> QED BY <2>5 DEF b, q
  <1>15. Balanced(cashBalance, holdings, trades.pnl, openingFees)'
    <2>1. CostOf(holdings)' = CostOf(holdings')
      BY DEF CostOf
    <2> QED BY <1>14, <2>1 DEF Balanced
  <1>16. \A s \in Traded : holdings'[s].quantity = 0 => holdings'[s] = NoHolding
    BY <1>9 DEF TraderInv, TraderTypes
  <1>17. StopsHonoured'
    <2> SUFFICES ASSUME NEW s \in Traded, holdings'[s].quantity > 0, holdings'[s].stop # 0
                 PROVE  prices[s] > holdings'[s].stop
      BY <1>3 DEF StopsHonoured
    <2>1. s \notin hit /\ holdings'[s] = holdings[s]
      <3>1. ~(0 > 0)
        OBVIOUS
      <3> QED BY <1>9, <3>1, NoHoldingIs
    <2>2. holdings[s] # NoHolding
      <3>1. ~(0 > 0)
        OBVIOUS
      <3> QED BY <2>1, <3>1, NoHoldingIs
    <2>3. ~(prices[s] <= holdings[s].stop)
      BY <2>1, <2>2 DEF hit, Hit
    <2>4. prices[s] \in Int /\ holdings[s].stop \in Int
      BY <1>0, HoldingFields
    <2> QED BY <2>1, <2>3, <2>4
  <1> QED BY <1>3, <1>0, <1>6, <1>9, <1>12, <1>13, <1>15, <1>16, <1>17 DEF TraderInv, TraderTypes
LEMMA InitTraderInv == TraderInit => TraderInv
  <1> SUFFICES ASSUME TraderInit PROVE TraderInv
    OBVIOUS
  <1>1. /\ cashBalance = InitialBalance /\ holdings = [s \in Traded |-> NoHolding] /\ orders = <<>>
        /\ trades = [count |-> 0, pnl |-> 0] /\ openingFees = 0 /\ checked = <<>>
    BY DEF TraderInit
  <1>2. CostOf(holdings) = 0
    <2> DEFINE f == [s \in Traded |-> holdings[s].basis]
    <2>1. IsFiniteSet(DOMAIN f) /\ \A s \in DOMAIN f : f[s] = 0
      BY <1>1, TraderAssumption, NoHoldingIs
    <2> HIDE DEF f
    <2>2. SumFunction(f) = 0
      BY <2>1, SumIsZero
    <2> QED BY <2>2 DEF f, CostOf
  <1>3. Balanced(cashBalance, holdings, trades.pnl, openingFees)
    BY <1>1, <1>2, TraderAssumption DEF Balanced
  <1>4. StopsHonoured
    BY <1>1 DEF StopsHonoured
  <1>5. TraderTypes
    BY <1>1, TraderAssumption, NoHoldingIs DEF TraderTypes
  <1> QED BY <1>3, <1>4, <1>5 DEF TraderInv

LEMMA NextTraderInv == TraderInv /\ [TraderNext]_traderVars => TraderInv'
  <1> SUFFICES ASSUME TraderInv, [TraderNext]_traderVars PROVE TraderInv'
    OBVIOUS
  <1>1. ASSUME NEW s \in Traded, NEW side \in {"BUY", "SELL"}, NEW q \in TradeSizes,
               \/ SubmitOrder(s, side, "MARKET", q, 0)
               \/ \E l \in LimitPrices : SubmitOrder(s, side, "LIMIT", q, l)
        PROVE  TraderInv'
    BY <1>1, SubmitKeeps, TraderAssumption
  <1>2. ASSUME NEW i \in DOMAIN orders, NEW b \in BarsSeen, TraderExecute(i, b)
        PROVE  TraderInv'
    BY <1>2, ExecuteKeeps
  <1>3. ASSUME NEW s \in Traded, SetStop(s) PROVE TraderInv'
    BY <1>3, SetStopKeeps
  <1>4. ASSUME NEW s \in Traded, NEW b \in BarsSeen, UpdatePrice(s, b.price) PROVE TraderInv'
    <2>1. b.price \in Nat
      BY TraderAssumption
    <2> QED BY <1>4, <2>1, UpdatePriceKeeps
  <1>5. ASSUME NEW p \in [Traded -> {b.price : b \in BarsSeen}], CheckStopLosses(p)
        PROVE  TraderInv'
    <2>1. p \in [Traded -> Nat]
      BY TraderAssumption
    <2> QED BY <1>5, <2>1, StopsKeep
  <1>6. CASE UNCHANGED traderVars
    BY <1>6 DEF traderVars, TraderInv, TraderTypes, Balanced, CostOf, StopsHonoured
  <1> QED BY <1>1, <1>2, <1>3, <1>4, <1>5, <1>6 DEF TraderNext

LEMMA BalancedAddsUp == TraderInv => SummaryAddsUp
  <1> SUFFICES ASSUME TraderInv PROVE SummaryAddsUp
    OBVIOUS
  <1> DEFINE v == [s \in Traded |-> holdings[s].quantity * holdings[s].price]
             u == [s \in Traded |-> holdings[s].quantity * holdings[s].price - holdings[s].basis]
             b == [s \in Traded |-> holdings[s].basis]
  <1>1. /\ holdings \in [Traded -> Holding] /\ cashBalance \in Int /\ trades.pnl \in Int
        /\ openingFees \in Int
        /\ cashBalance + CostOf(holdings) = InitialBalance + trades.pnl - openingFees
    BY DEF TraderInv, TraderTypes, Balanced
  <1>2. /\ DOMAIN v = Traded /\ DOMAIN u = Traded /\ DOMAIN b = Traded
        /\ \A s \in Traded : v[s] \in Int /\ u[s] \in Int /\ b[s] \in Int /\ v[s] = u[s] + b[s]
    <2>1. ASSUME NEW s \in Traded
          PROVE  v[s] \in Int /\ u[s] \in Int /\ b[s] \in Int /\ v[s] = u[s] + b[s]
      <3> DEFINE x == holdings[s].quantity * holdings[s].price
                 y == holdings[s].basis
      <3>1. v[s] = x /\ u[s] = x - y /\ b[s] = y
        OBVIOUS
      <3>2. x \in Int /\ y \in Int
        BY <1>1, HoldingFields
      <3> HIDE DEF x, y, v, u, b
      <3> QED BY <3>1, <3>2
    <2> QED BY <2>1
  <1>3. TotalEquity = cashBalance + SumFunction(v)
    BY Zenon DEF TotalEquity, OverPositions
  <1>4. UnrealizedPnl = SumFunction(u)
    BY Zenon DEF UnrealizedPnl, OverPositions
  <1>5. CostOf(holdings) = SumFunction(b)
    BY Zenon DEF CostOf
  <1> HIDE DEF v, u, b
  <1>6. SumFunction(v) = SumFunction(u) + SumFunction(b)
    BY <1>2, TraderAssumption, SumPlus
  <1>7. SumFunction(u) \in Int /\ SumFunction(b) \in Int
    BY <1>2, TraderAssumption, SumIsInt
  <1> DEFINE x == SumFunction(u)
             y == SumFunction(b)
             p == trades.pnl
  <1>8. /\ TotalEquity = cashBalance + (x + y) /\ UnrealizedPnl = x /\ RealizedPnl = p
        /\ x \in Int /\ y \in Int /\ p \in Int
        /\ cashBalance + y = InitialBalance + p - openingFees
    BY <1>1, <1>3, <1>4, <1>5, <1>6, <1>7 DEF RealizedPnl
  <1> HIDE DEF x, y, p
  <1>9. TotalEquity - InitialBalance = RealizedPnl + UnrealizedPnl - openingFees
    BY <1>1, <1>8, TraderAssumption
  <1> QED BY <1>9 DEF SummaryAddsUp

\* Whatever is ordered, executed, executed once more, averaged, sold in parts and stopped
\* out: the summary's P&L figures add up, and check_stop_losses leaves no position at its
\* stop (paper_trader.py, execute_order, check_stop_losses, get_summary).
THEOREM TraderAddsUp == TraderSpec => [](SummaryAddsUp /\ StopsHonoured)
  <1>1. TraderInit => TraderInv
    BY InitTraderInv
  <1>2. TraderInv /\ [TraderNext]_traderVars => TraderInv'
    BY NextTraderInv
  <1>3. TraderInv => SummaryAddsUp /\ StopsHonoured
    BY BalancedAddsUp DEF TraderInv
  <1> QED BY <1>1, <1>2, <1>3, PTL DEF TraderSpec
-----------------------------------------------------------------------------
\* FillSimulation: a fill is a number of shares at a whole price.
SimFill == [quantity : Nat, price : Int]

\* What the simulation counts down is what its fills leave, and no fill, being sized from
\* the order, is larger than the order.  All the fills but the last left something over:
\* the bar that brought it was looked at because of that.
SimInv ==
  /\ simOrder \in SimOrders
  /\ simFills \in Seq(SimFill)
  /\ simState = "running" => simModel # "linear"
  /\ simModel \in SlippageModels /\ simDaily \in Dailies /\ simBook \in Books
  /\ \A i \in DOMAIN simFills : simFills[i].quantity <= simOrder.quantity
  /\ simRemaining = simOrder.quantity - FilledQuantity(simFills)
  /\ simFills # <<>> => FilledQuantity(SubSeq(simFills, 1, Len(simFills) - 1)) < simOrder.quantity

\* The whole square root of a whole number is there to be chosen.
LEMMA IsqrtType == ASSUME NEW n \in Nat PROVE Isqrt(n) \in Nat
  <1> DEFINE Over == {m \in Nat : n < (m + 1) * (m + 1)}
  <1>1. n \in Over
    OBVIOUS
  <1>2. PICK m \in Over : \A k \in Over : m <= k
    <2> HIDE DEF Over
    <2>1. Over \subseteq Nat
      BY DEF Over
    <2> QED BY <1>1, <2>1, LeastNumber
  <1>3. m \in 0 .. n /\ n < (m + 1) * (m + 1)
    BY <1>1, <1>2
  <1>4. m * m <= n
    <2>1. CASE m = 0
      BY <2>1
    <2>2. CASE m # 0
      <3>1. m - 1 \in Nat /\ m - 1 \notin Over
        BY <1>2, <2>2
      <3>2. ~(n < (m - 1 + 1) * (m - 1 + 1))
        BY <3>1
      <3>3. m - 1 + 1 = m
        BY <1>3
      <3> QED BY <1>3, <3>2, <3>3
    <2> QED BY <2>1, <2>2
  <1>5. Isqrt(n) \in 0 .. n
    BY <1>3, <1>4, Zenon DEF Isqrt
  <1> QED BY <1>5

LEMMA FilledAppend ==
  ASSUME NEW fills \in Seq(SimFill), NEW fill \in SimFill
  PROVE  /\ FilledQuantity(fills) \in Int
         /\ FilledQuantity(Append(fills, fill)) = FilledQuantity(fills) + fill.quantity
  <1> DEFINE of == [i \in DOMAIN fills |-> fills[i].quantity]
             longer == Append(fills, fill)
             more == [i \in DOMAIN longer |-> longer[i].quantity]
  <1>1. FilledQuantity(fills) = SumFunction(of) /\ FilledQuantity(longer) = SumFunction(more)
    BY Zenon DEF FilledQuantity, Sum
  <1>2. Len(fills) \in Nat /\ DOMAIN of = 1 .. Len(fills) /\ DOMAIN more = 1 .. (Len(fills) + 1)
    OBVIOUS
  <1>3. \A i \in 1 .. Len(fills) : fills[i] \in SimFill /\ longer[i] = fills[i]
    OBVIOUS
  <1>4. longer[Len(fills) + 1] = fill
    OBVIOUS
  <1>5. \A i \in 1 .. Len(fills) : of[i] \in Int /\ more[i] = of[i]
    BY <1>2, <1>3 DEF SimFill
  <1>6. more[Len(fills) + 1] = fill.quantity /\ fill.quantity \in Int
    BY <1>2, <1>4 DEF SimFill
  <1>7. IsFiniteSet(DOMAIN of)
    <2>1. 1 \in Int /\ Len(fills) \in Int
      BY <1>2
    <2>2. IsFiniteSet(1 .. Len(fills))
      BY <2>1, FS_Interval
    <2> QED BY <1>2, <2>2
  <1> HIDE DEF of, more, longer
  <1>8. SumFunction(of) \in Int
    BY <1>2, <1>5, <1>7, SumIsInt
  <1>9. SumFunction(more) = SumFunction(of) + more[Len(fills) + 1]
    BY <1>2, <1>5, <1>6, SumAppend
  <1> QED BY <1>1, <1>6, <1>8, <1>9 DEF longer

\* The price of a fill is whole, if not positive, when nothing raises.
LEMMA FillPriceType ==
  ASSUME NEW side \in {"BUY", "SELL"}, NEW model \in {"fixed", "volume", "sqrt"},
         NEW daily \in Nat, NEW quoted \in [bid : Nat, ask : Nat, size : Nat], NEW quantity \in Nat,
         ~SlippageRaises(model, daily)
  PROVE  FillPrice(side, model, daily, quoted, quantity) \in Int
  <1> DEFINE slip == Slippage(model, quantity, daily)
             push == Impact(quantity, daily)
             quote == Quote(side, quoted)
  <1>1. slip \in Int
    <2>1. CASE model = "fixed"
      <3>1. model \notin {"volume", "sqrt"}
        BY <2>1
      <3>2. slip = 1
        BY <2>1, <3>1, Zenon DEF Slippage
      <3> QED BY <3>2
    <2>2. CASE model # "fixed"
      <3>1. daily \in Nat /\ daily > 0
        BY <2>2 DEF SlippageRaises
      <3>2. slip = (quantity * 1000) \div daily
        BY <2>2, Zenon DEF Slippage
      <3> QED BY <3>1, <3>2
    <2> QED BY <2>1, <2>2
  <1>2. push \in Int
    <2>1. CASE daily = 0
      BY <2>1 DEF Impact
    <2>2. CASE daily # 0
      <3>1. (quantity * 100) \div daily \in Nat /\ (quantity * 25000) \div daily \in Nat
        <4>1. daily \in Nat /\ daily > 0
          BY <2>2
        <4> DEFINE x == quantity * 100  y == quantity * 25000
        <4>2. x \in Nat /\ y \in Nat
          OBVIOUS
        <4> HIDE DEF x, y
        <4>3. x \div daily \in Nat /\ y \div daily \in Nat
          BY <4>1, <4>2
        <4> QED BY <4>3 DEF x, y
      <3>2. Isqrt((quantity * 25000) \div daily) \in Nat
        BY <3>1, IsqrtType
      <3> QED BY <2>2, <3>1, <3>2 DEF Impact
    <2> QED BY <2>1, <2>2
  <1>3. quote \in Int
    <2>0. quoted.ask \in Nat /\ quoted.bid \in Nat /\ Bps \in Nat /\ Close \in Nat
      BY DEF Bps, Close
    <2>1. \/ quote = Close * Bps \/ quote = quoted.ask * Bps \/ quote = quoted.bid * Bps
      <3>1. \/ quoted = NoBook
            \/ quoted # NoBook /\ side = "BUY"
            \/ quoted # NoBook /\ side = "SELL"
        OBVIOUS
      <3> QED BY <3>1, Zenon DEF Quote
    <2> QED BY <2>0, <2>1
  <1>4. FillPrice(side, model, daily, quoted, quantity)
          = IF side = "BUY" THEN quote + (quote \div 10000) * (slip + push)
            ELSE quote - (quote \div 10000) * (slip + push)
    BY DEF FillPrice
  <1> HIDE DEF slip, push, quote
  <1>5. (quote \div 10000) * (slip + push) \in Int
    <2>1. quote \div 10000 \in Int
      BY <1>3
    <2> QED BY <1>1, <1>2, <2>1
  <1> QED BY <1>3, <1>4, <1>5

LEMMA SimOrderType ==
  ASSUME SimInv
  PROVE  /\ simOrder.quantity \in Nat /\ simOrder.quantity > 0
         /\ simOrder.side \in {"BUY", "SELL"}
  <1>1. simOrder \in [side : {"BUY", "SELL"}, quantity : SimQuantities]
    BY DEF SimInv, SimOrders
  <1>2. simOrder.quantity \in SimQuantities /\ simOrder.side \in {"BUY", "SELL"}
    BY <1>1
  <1>3. \A q \in SimQuantities : q \in Nat /\ q > 0
    BY SimAssumption
  <1> QED BY <1>2, <1>3

\* A bar's fill is sized from the order, and is not larger.
LEMMA FillQuantityBounds ==
  ASSUME NEW remaining \in Nat, NEW volume \in Nat, NEW quoted \in [bid : Nat, ask : Nat, size : Nat]
  PROVE  FillQuantity(remaining, volume, quoted) \in 0 .. remaining
  <1>1. Lesser(remaining, IF quoted.size > 0 THEN quoted.size ELSE volume) \in 0 .. remaining
    BY DEF Lesser
  <1> QED BY <1>1, SimAssumption DEF FillQuantity

LEMMA BarKeepsSimInv ==
  ASSUME SimInv, NEW volume \in Volumes, NEW filled \in BOOLEAN, Bar(volume, filled)
  PROVE  SimInv'
  <1> DEFINE quantity == FillQuantity(simOrder.quantity, volume, simBook)
             price == FillPrice(simOrder.side, simModel, simDaily, simBook, quantity)
             fill == FillOf(quantity, price)
  <1>1. UNCHANGED <<simOrder, simModel, simDaily, simBook>> /\ simState = "running" /\ simRemaining > 0
    BY DEF Bar
  <1>2. \/ UNCHANGED <<simRemaining, simFills>>
        \/ /\ filled /\ quantity > 0 /\ ~SlippageRaises(simModel, simDaily)
           /\ simFills' = Append(simFills, fill) /\ simRemaining' = simRemaining - quantity
    <2>1. CASE ~filled \/ quantity = 0
      BY <2>1, Zenon DEF Bar
    <2>2. CASE filled /\ quantity > 0 /\ SlippageRaises(simModel, simDaily)
      BY <2>2, Zenon DEF Bar
    <2>3. CASE ~(~filled \/ quantity = 0) /\ ~(filled /\ quantity > 0 /\ SlippageRaises(simModel, simDaily))
      <3>1. quantity \in Nat
        <4>1. volume \in Nat /\ simBook \in [bid : Nat, ask : Nat, size : Nat]
          BY SimAssumption DEF SimInv
        <4>2. quantity \in 0 .. simOrder.quantity
          BY <4>1, SimOrderType, FillQuantityBounds
        <4> QED BY <4>2, SimOrderType
      <3>2. filled /\ quantity > 0 /\ ~SlippageRaises(simModel, simDaily)
        <4> HIDE DEF quantity
        <4> QED BY <2>3, <3>1
      <3>3. \/ UNCHANGED <<simRemaining, simFills>>
            \/ simFills' = Append(simFills, fill) /\ simRemaining' = simRemaining - quantity
        BY <2>3, Zenon DEF Bar
      <3> QED BY <3>2, <3>3
    <2> QED BY <2>1, <2>2, <2>3
  <1>3. simState' = "running" => simModel # "linear"
    BY <1>1 DEF SimInv
  <1>4. CASE UNCHANGED <<simRemaining, simFills>>
    BY <1>1, <1>3, <1>4 DEF SimInv, FilledQuantity, Sum
  <1>5. CASE /\ filled /\ quantity > 0 /\ ~SlippageRaises(simModel, simDaily)
             /\ simFills' = Append(simFills, fill) /\ simRemaining' = simRemaining - quantity
    <2>1. /\ volume \in Nat /\ simBook \in [bid : Nat, ask : Nat, size : Nat] /\ simDaily \in Nat
          /\ simModel \in {"fixed", "volume", "sqrt"} /\ simOrder.side \in {"BUY", "SELL"}
          /\ simOrder.quantity \in Nat
      BY <1>1, SimAssumption, SimOrderType DEF SimInv
    <2>2. quantity \in 0 .. simOrder.quantity
      BY <2>1, FillQuantityBounds
    <2> HIDE DEF quantity
    <2>3. quantity \in Nat
      BY <2>1, <2>2
    <2>4. price \in Int
      BY <1>5, <2>1, <2>3, FillPriceType
    <2> HIDE DEF price
    <2>5. fill \in SimFill /\ fill.quantity = quantity
      BY <2>3, <2>4 DEF FillOf, SimFill
    <2> HIDE DEF fill
    <2>6. simFills \in Seq(SimFill)
      BY DEF SimInv
    <2>7. /\ FilledQuantity(simFills) \in Int
          /\ FilledQuantity(Append(simFills, fill)) = FilledQuantity(simFills) + quantity
      BY <2>5, <2>6, FilledAppend
    <2>8. /\ simFills' \in Seq(SimFill) /\ simFills' # <<>>
          /\ SubSeq(simFills', 1, Len(simFills') - 1) = simFills
          /\ DOMAIN simFills' = 1 .. (Len(simFills) + 1) /\ Len(simFills) \in Nat
          /\ \A i \in 1 .. Len(simFills) : simFills'[i] = simFills[i]
          /\ simFills'[Len(simFills) + 1] = fill
      BY <1>5, <2>5, <2>6
    <2>9. \A i \in DOMAIN simFills' : simFills'[i].quantity <= simOrder.quantity
      <3>1. \A i \in 1 .. Len(simFills) : simFills[i].quantity <= simOrder.quantity
        BY <2>6 DEF SimInv
      <3>2. \A i \in DOMAIN simFills' : i \in 1 .. Len(simFills) \/ i = Len(simFills) + 1
        BY <2>8
      <3>3. fill.quantity <= simOrder.quantity
        BY <2>1, <2>2, <2>5
      <3> QED BY <2>8, <3>1, <3>2, <3>3
    <2>10. FilledQuantity(simFills') = FilledQuantity(simFills) + quantity
      BY <1>5, <2>7
    <2>11. simRemaining = simOrder.quantity - FilledQuantity(simFills)
      BY DEF SimInv
    <2>12. simRemaining' = simOrder.quantity - FilledQuantity(simFills')
      BY <1>5, <2>1, <2>3, <2>7, <2>10, <2>11
    <2>13. FilledQuantity(SubSeq(simFills', 1, Len(simFills') - 1)) < simOrder.quantity
      <3>1. FilledQuantity(simFills) < simOrder.quantity
        BY <1>1, <2>1, <2>7, <2>11
      <3> QED BY <2>8, <3>1
    <2>14. FilledQuantity(simFills)' = FilledQuantity(simFills')
      BY DEF FilledQuantity, Sum
    <2>15. /\ FilledQuantity(SubSeq(simFills, 1, Len(simFills) - 1))'
                = FilledQuantity(SubSeq(simFills', 1, Len(simFills') - 1))
      BY DEF FilledQuantity, Sum
    <2>16. simOrder' = simOrder /\ SimOrders' = SimOrders
      BY <1>1 DEF SimOrders
    <2>17. /\ simOrder' \in SimOrders'
           /\ simModel' \in SlippageModels /\ simDaily' \in Dailies /\ simBook' \in Books
      BY <1>1, <2>16 DEF SimInv
    <2> QED BY <1>3, <1>1, <2>8, <2>9, <2>12, <2>13, <2>14, <2>15, <2>16, <2>17 DEF SimInv
  <1> QED BY <1>2, <1>4, <1>5

-----------------------------------------------------------------------------
\* Whatever the bars' volumes, the book and the models: no fill is larger than the order,
\* and all but the last leave something of it, so that the fills together pass it by less
\* than one fill (fill_simulator.py, simulate_order_execution, simulate_fill).
THEOREM LittleOvershoot == SimSpec => []OvershootWithinOneFill
  <1>1. SimInit => SimInv
    <2> SUFFICES ASSUME SimInit PROVE SimInv
      OBVIOUS
    <2>1. simFills = <<>> /\ simFills \in Seq(SimFill) /\ DOMAIN simFills = {}
      BY DEF SimInit
    <2>2. FilledQuantity(simFills) = 0
      <3>1. FilledQuantity(simFills) = SumFunction([i \in DOMAIN simFills |-> simFills[i].quantity])
        BY Zenon DEF FilledQuantity, Sum
      <3> DEFINE of == [i \in DOMAIN simFills |-> simFills[i].quantity]
      <3>2. DOMAIN of = {}
        BY <2>1
      <3> HIDE DEF of
      <3>3. SumFunction(of) = 0
        BY <3>2, SumIsZero, FS_EmptySet
      <3> QED BY <3>1, <3>3 DEF of
    <2>3. simRemaining = simOrder.quantity /\ simOrder.quantity \in Nat /\ simOrder \in SimOrders
      BY SimAssumption DEF SimInit, SimOrders
    <2>4. simRemaining = simOrder.quantity - FilledQuantity(simFills)
      BY <2>2, <2>3
    <2>5. simState = "running" => simModel # "linear"
      BY DEF SimInit
    <2> QED BY <2>1, <2>3, <2>4, <2>5 DEF SimInit, SimInv
  <1>2. SimInv /\ [SimNext]_simVars => SimInv'
    <2> SUFFICES ASSUME SimInv, [SimNext]_simVars PROVE SimInv'
      OBVIOUS
    <2>1. ASSUME NEW v \in Volumes, NEW filled \in BOOLEAN, Bar(v, filled) PROVE SimInv'
      BY <2>1, BarKeepsSimInv
    <2>2. CASE Analyze
      BY <2>2 DEF Analyze, SimInv, SimOrders, FilledQuantity, Sum
    <2>3. CASE UNCHANGED simVars
      BY <2>3 DEF simVars, SimInv, SimOrders, FilledQuantity, Sum
    <2> QED BY <2>1, <2>2, <2>3 DEF SimNext
  <1>3. SimInv => OvershootWithinOneFill
    BY DEF SimInv, OvershootWithinOneFill
  <1> QED BY <1>1, <1>2, <1>3, PTL DEF SimSpec
-----------------------------------------------------------------------------
\* Schedules: what the sizes of one add up to.
LEMMA FiniteDomain ==
  ASSUME NEW n \in Nat PROVE IsFiniteSet(1 .. n)
  <1>1. 1 \in Int /\ n \in Int
    OBVIOUS
  <1> QED BY <1>1, FS_Interval

LEMMA TotalConstant ==
  ASSUME NEW c \in Int
  PROVE  \A n \in Nat : Total([i \in 1 .. n |-> c]) = n * c
  <1> DEFINE Same(n) == [i \in 1 .. n |-> c]
             C == {n \in Nat : SumFunction(Same(n)) = n * c}
  <1>1. 0 \in C
    <2>1. DOMAIN Same(0) = {}
      OBVIOUS
    <2> HIDE DEF Same
    <2>2. SumFunction(Same(0)) = 0
      BY <2>1, SumIsZero, FS_EmptySet
    <2> QED BY <2>2
  <1>2. ASSUME NEW n \in Nat, n \in C PROVE n + 1 \in C
    <2>1. /\ DOMAIN Same(n) = 1 .. n /\ DOMAIN Same(n + 1) = 1 .. (n + 1)
          /\ \A i \in 1 .. n : Same(n)[i] \in Int /\ Same(n + 1)[i] = Same(n)[i]
          /\ Same(n + 1)[n + 1] = c
      OBVIOUS
    <2>2. SumFunction(Same(n)) = n * c
      BY <1>2
    <2> HIDE DEF Same
    <2>3. SumFunction(Same(n + 1)) = SumFunction(Same(n)) + Same(n + 1)[n + 1]
      BY <2>1, SumAppend
    <2>4. n * c \in Int /\ (n + 1) * c = n * c + c /\ n + 1 \in Nat
      OBVIOUS
    <2> QED BY <2>1, <2>2, <2>3, <2>4
  <1>3. Nat \subseteq C
    <2> HIDE DEF C
    <2> QED BY <1>1, <1>2, NatSetInduction
  <1> QED BY <1>3 DEF Total

LEMMA TotalAppend ==
  ASSUME NEW sizes \in Seq(Int), NEW size \in Int
  PROVE  /\ Total(sizes) \in Int
         /\ Total(Append(sizes, size)) = Total(sizes) + size
  <1> DEFINE longer == Append(sizes, size)
  <1>1. /\ Len(sizes) \in Nat /\ DOMAIN sizes = 1 .. Len(sizes)
        /\ DOMAIN longer = 1 .. (Len(sizes) + 1)
        /\ \A i \in 1 .. Len(sizes) : sizes[i] \in Int /\ longer[i] = sizes[i]
        /\ longer[Len(sizes) + 1] = size
    OBVIOUS
  <1>2. IsFiniteSet(DOMAIN sizes)
    BY <1>1, FiniteDomain
  <1> HIDE DEF longer
  <1>3. SumFunction(sizes) \in Int
    BY <1>1, <1>2, SumIsInt
  <1>4. SumFunction(longer) = SumFunction(sizes) + longer[Len(sizes) + 1]
    BY <1>1, SumAppend
  <1> QED BY <1>1, <1>3, <1>4 DEF longer, Total

\* A schedule of an order of so many shares adds up: it comes to the order, if it is in
\* whole children.
AddsUp(schedule, quantity) ==
  /\ schedule.sizes \in Seq(Int)
  /\ schedule.unit \in Nat
  /\ (\A i \in DOMAIN schedule.sizes : schedule.sizes[i] > 0) =>
       Total(schedule.sizes) = quantity * schedule.unit

\* It is sound if it does so to within its tolerance.
Sound(schedule, quantity) ==
  /\ schedule.sizes \in Seq(Int)
  /\ schedule.unit \in Nat /\ schedule.tolerance \in Nat
  /\ (\A i \in DOMAIN schedule.sizes : schedule.sizes[i] > 0) =>
       /\ Total(schedule.sizes) <= quantity * schedule.unit + schedule.tolerance
       /\ Total(schedule.sizes) >= quantity * schedule.unit - schedule.tolerance

LEMMA AddingUpIsSound ==
  ASSUME NEW schedule, NEW quantity \in Nat, AddsUp(schedule, quantity), schedule.tolerance = 0
  PROVE  Sound(schedule, quantity)
  <1> DEFINE whole == quantity * schedule.unit
  <1>1. whole \in Int
    BY DEF AddsUp
  <1> HIDE DEF whole
  <1>2. (\A i \in DOMAIN schedule.sizes : schedule.sizes[i] > 0) => Total(schedule.sizes) = whole
    BY DEF AddsUp, whole
  <1>3. (\A i \in DOMAIN schedule.sizes : schedule.sizes[i] > 0) =>
          Total(schedule.sizes) <= whole + 0 /\ Total(schedule.sizes) >= whole - 0
    BY <1>1, <1>2
  <1> QED BY <1>3 DEF AddsUp, Sound, whole

LEMMA TotalOne == ASSUME NEW x \in Int PROVE Total(<<x>>) = x
  <1> DEFINE none == <<>>
  <1>1. none \in Seq(Int) /\ Append(none, x) = <<x>> /\ DOMAIN none = {}
    OBVIOUS
  <1> HIDE DEF none
  <1>2. Total(none) = 0
    BY <1>1, SumIsZero, FS_EmptySet DEF Total
  <1>3. Total(Append(none, x)) = Total(none) + x
    BY <1>1, TotalAppend
  <1> QED BY <1>1, <1>2, <1>3

LEMMA BuiltExact == \A unit, sizes : Built(unit, sizes).tolerance = 0
  BY DEF Built, Schedule, NoSchedule

\* TWAP: the last slice makes up for the rounding.
LEMMA TwapSound ==
  ASSUME NEW quantity \in Nat, NEW slices \in Nat \ {0}
  PROVE  AddsUp(Twap(quantity, slices), quantity)
  <1> DEFINE slice == quantity \div slices
             last == quantity - slice * (slices - 1)
             sizes == [i \in 1 .. slices |-> IF i = slices THEN last ELSE slice]
             even == [i \in 1 .. (slices - 1) |-> slice]
  <1>1. Twap(quantity, slices).sizes = (IF slice = 0 THEN <<last>> ELSE sizes)
        /\ Twap(quantity, slices).unit = 1
    BY DEF Twap, Schedule
  <1>2. slice \in Nat /\ slices - 1 \in Nat /\ slice * (slices - 1) \in Int
    <2>1. slice \in Nat
      OBVIOUS
    <2> HIDE DEF slice
    <2> QED BY <2>1
  <1>3. last \in Int /\ last = quantity - (slices - 1) * slice
    <2> HIDE DEF slice, sizes, even
    <2>1. slice * (slices - 1) = (slices - 1) * slice
      BY <1>2
    <2>2. last = quantity - slice * (slices - 1)
      BY DEF last
    <2> HIDE DEF last
    <2> QED BY <1>2, <2>1, <2>2
  <1>4. CASE slice = 0
    <2>1. last = quantity
      BY <1>2, <1>4
    <2> HIDE DEF slice, last
    <2>2. <<last>> \in Seq(Int) /\ Total(<<last>>) = last
      BY <1>3, TotalOne
    <2> QED BY <1>1, <1>4, <2>1, <2>2 DEF AddsUp
  <1>5. CASE slice # 0
    <2> DEFINE n == slices - 1
    <2>1. /\ DOMAIN even = 1 .. n /\ DOMAIN sizes = 1 .. (n + 1) /\ n \in Nat
          /\ \A i \in 1 .. n : even[i] \in Int /\ sizes[i] = even[i]
          /\ sizes[n + 1] = last
      <3> HIDE DEF slice, last
      <3> QED BY <1>2, <1>3
    <2>2. Total(even) = n * slice
      <3> HIDE DEF slice
      <3> QED BY <1>2, TotalConstant
    <2>3. sizes \in Seq(Int)
      <3> HIDE DEF slice, last
      <3> QED BY <1>2, <1>3
    <2> HIDE DEF even, sizes, slice, last
    <2>4. SumFunction(sizes) = SumFunction(even) + sizes[n + 1]
      BY <1>3, <2>1, SumAppend
    <2>5. Total(sizes) = n * slice + last /\ n * slice \in Int
      BY <1>2, <2>1, <2>2, <2>4 DEF Total
    <2>6. Total(sizes) = quantity
      BY <1>2, <1>3, <2>5
    <2> QED BY <1>1, <1>5, <2>3, <2>6 DEF AddsUp
  <1> QED BY <1>4, <1>5

\* VWAP: what the sizes are off goes to the last child, or is within the tolerance.
LEMMA VwapSound ==
  ASSUME NEW quantity \in Nat, NEW profile \in Seq(Nat), profile # <<>>, NEW whole \in Nat,
         NEW off, \A i \in 0 .. Len(profile) : off[i] \in Int, off[0] \in -whole .. whole,
         ~Vwap(quantity, profile, whole, off).raises
  PROVE  Sound(Vwap(quantity, profile, whole, off), quantity)
  <1> DEFINE unit == 1000 * whole
             sizes == [i \in DOMAIN profile |-> 1000 * quantity * profile[i] + off[i]]
             drift == quantity * unit - Total(sizes)
             more == sizes[Len(sizes)] + drift + off[0]
             n == Len(profile)
             mended == IF AbsOf(drift) > whole
                       THEN [sizes EXCEPT ![Len(sizes)] = @ + drift + off[0]] ELSE sizes
             vwap == Vwap(quantity, profile, whole, off)
  <1>1. n \in Nat \ {0} /\ DOMAIN profile = 1 .. n
        /\ \A i \in 1 .. n : profile[i] \in Nat /\ off[i] \in Int
        /\ off[0] \in Int
    <2>1. n \in Nat \ {0} /\ DOMAIN profile = 1 .. n /\ \A i \in 1 .. n : profile[i] \in Nat
      OBVIOUS
    <2>2. \A i \in 0 .. n : off[i] \in Int
      OBVIOUS
    <2> HIDE DEF n
    <2>3. 0 \in 0 .. n /\ \A i \in 1 .. n : i \in 0 .. n
      BY <2>1
    <2> QED BY <2>1, <2>2, <2>3
  <1>2. sizes \in Seq(Int) /\ DOMAIN sizes = 1 .. n /\ Len(sizes) = n
        /\ \A i \in 1 .. n : sizes[i] \in Int
    <2>1. \A i \in 1 .. n : 1000 * quantity * profile[i] + off[i] \in Int
      <3> TAKE i \in 1 .. n
      <3> DEFINE x == 1000 * quantity * profile[i]
      <3>1. x \in Int
        BY <1>1
      <3> HIDE DEF x
      <3> QED BY <1>1, <3>1 DEF x
    <2> QED BY <1>1, <2>1
  <1>3. IsFiniteSet(DOMAIN sizes)
    BY <1>1, <1>2, FiniteDomain
  <1>4. Total(sizes) \in Int /\ unit \in Nat /\ quantity * unit \in Int
    <2>1. unit \in Nat
      OBVIOUS
    <2> HIDE DEF unit
    <2>2. quantity * unit \in Int
      BY <2>1
    <2> HIDE DEF sizes
    <2> QED BY <1>2, <1>3, <2>1, <2>2, SumIsInt DEF Total
  <1>5. vwap = IF Built(unit, sizes).raises THEN NoSchedule
               ELSE [Schedule(unit, mended) EXCEPT !.tolerance = whole]
    BY Zenon DEF Vwap
  <1>6. /\ vwap.sizes = mended /\ vwap.unit = unit /\ vwap.tolerance = whole
    <2> DEFINE schedule == Schedule(unit, mended)
    <2>1. vwap = [schedule EXCEPT !.tolerance = whole]
      <3> HIDE DEF sizes, unit, mended, schedule
      <3>1. NoSchedule.raises
        BY DEF NoSchedule
      <3> QED BY <1>5, <3>1 DEF schedule
    <2> HIDE DEF mended, unit, vwap
    <2> QED BY <2>1 DEF Schedule
  <1> HIDE DEF vwap, sizes, unit
  <1>7. drift \in Int /\ Total(sizes) = quantity * unit - drift
    <2> DEFINE x == quantity * unit  y == Total(sizes)
    <2>1. x \in Int /\ y \in Int
      BY <1>4
    <2> HIDE DEF x, y
    <2>2. x - y \in Int /\ y = x - (x - y)
      BY <2>1
    <2> QED BY <2>2 DEF x, y
  <1> HIDE DEF drift
  <1>8. CASE AbsOf(drift) > whole
    <2>1. n \in 1 .. n /\ Len(sizes) = n
      BY <1>1, <1>2
    <2>2. sizes[n] \in Int /\ more = sizes[n] + drift + off[0] /\ more \in Int
      BY <1>1, <1>2, <1>7, <2>1
    <2>3. mended = [sizes EXCEPT ![n] = more]
      BY <1>8, <2>1
    <2> HIDE DEF more, mended, n
    <2>4. /\ mended \in Seq(Int) /\ DOMAIN mended = DOMAIN sizes
          /\ mended[n] = more
          /\ \A i \in 1 .. n : i # n => mended[i] = sizes[i]
      BY <1>2, <2>1, <2>2, <2>3
    <2>5. \A i \in DOMAIN sizes : sizes[i] \in Int /\ mended[i] \in Int /\ (i # n => sizes[i] = mended[i])
      BY <1>2, <2>2, <2>4
    <2>6. SumFunction(mended) = SumFunction(sizes) - sizes[n] + mended[n]
      <3>1. n \in DOMAIN sizes
        BY <1>2, <2>1
      <3> QED BY <1>3, <2>4, <2>5, <3>1, SumExcept
    <2>7. Total(mended) = Total(sizes) + drift + off[0]
      <3> DEFINE x == SumFunction(sizes)  y == sizes[n]
      <3>1. x \in Int /\ y \in Int /\ off[0] \in Int /\ mended[n] = y + drift + off[0]
        BY <1>1, <1>4, <2>2, <2>4 DEF Total
      <3>2. SumFunction(mended) = x - y + mended[n]
        BY <2>6
      <3> HIDE DEF x, y
      <3>3. SumFunction(mended) = x + drift + off[0]
        BY <1>7, <3>1, <3>2
      <3> QED BY <3>3 DEF x, Total
    <2>8. Total(mended) = quantity * unit + off[0]
      BY <1>1, <1>4, <1>7, <2>7
    <2>9. Total(mended) <= quantity * unit + whole /\ Total(mended) >= quantity * unit - whole
      BY <1>1, <1>4, <2>8
    <2> QED BY <1>4, <1>6, <2>4, <2>9 DEF Sound, vwap
  <1>9. CASE ~(AbsOf(drift) > whole)
    <2>1. mended = sizes
      BY <1>9
    <2>2. drift <= whole /\ drift >= -whole
      BY <1>7, <1>9 DEF AbsOf
    <2>3. Total(sizes) <= quantity * unit + whole /\ Total(sizes) >= quantity * unit - whole
      BY <1>4, <1>7, <2>2
    <2> HIDE DEF mended
    <2> QED BY <1>2, <1>4, <1>6, <2>1, <2>3 DEF Sound, vwap
  <1> QED BY <1>8, <1>9

\* Iceberg: whole slices and a rest.
LEMMA IcebergSound ==
  ASSUME NEW quantity \in Nat, NEW display \in Nat, display # 0
  PROVE  AddsUp(Iceberg(quantity, display), quantity)
  <1> DEFINE full == quantity \div display
             rest == quantity % display
             slices == [i \in 1 .. full |-> display]
  <1>1. Iceberg(quantity, display).sizes = slices \o (IF rest > 0 THEN <<rest>> ELSE <<>>)
        /\ Iceberg(quantity, display).unit = 1
    BY DEF Iceberg, Schedule
  <1>2. full \in Nat /\ rest \in Nat /\ quantity = full * display + rest
    BY DEF full, rest
  <1> HIDE DEF full, rest
  <1>3. slices \in Seq(Int)
    BY <1>2
  <1>4. Total(slices) = full * display
    BY <1>2, TotalConstant
  <1> HIDE DEF slices
  <1>5. CASE rest > 0
    <2>1. slices \o <<rest>> = Append(slices, rest) /\ Append(slices, rest) \in Seq(Int)
      BY <1>2, <1>3
    <2>2. Total(Append(slices, rest)) = Total(slices) + rest
      BY <1>2, <1>3, TotalAppend
    <2>3. Total(Append(slices, rest)) = quantity * 1
      <3>1. full * display \in Int
        BY <1>2
      <3> QED BY <1>2, <1>4, <2>2, <3>1
    <2>4. Iceberg(quantity, display).sizes = Append(slices, rest)
      BY <1>1, <1>5, <2>1
    <2> DEFINE schedule == Iceberg(quantity, display)
               sizes == Append(slices, rest)
    <2>5. schedule.sizes = sizes /\ schedule.unit = 1 /\ sizes \in Seq(Int)
          /\ Total(sizes) = quantity * 1
      BY <1>1, <2>1, <2>3, <2>4
    <2> HIDE DEF schedule, sizes
    <2>6. AddsUp(schedule, quantity)
      BY <2>5 DEF AddsUp
    <2> QED BY <2>6 DEF schedule
  <1>6. CASE ~(rest > 0)
    <2>1. slices \o <<>> = slices /\ rest = 0
      BY <1>2, <1>3, <1>6
    <2>2. quantity = full * display
      <3>1. full * display \in Int
        BY <1>2
      <3> QED BY <1>2, <2>1, <3>1
    <2> QED BY <1>1, <1>3, <1>4, <1>6, <2>1, <2>2 DEF AddsUp
  <1> QED BY <1>5, <1>6

\* Implementation shortfall: the last child is what the others leave, and is there.
LEMMA ShortfallSound ==
  ASSUME NEW quantity \in Nat, NEW periods \in Nat \ {0}, NEW side \in {"BUY", "SELL"},
         ~Shortfall(quantity, periods, side).raises
  PROVE  AddsUp(Shortfall(quantity, periods, side), quantity)
  <1> DEFINE Size(k) == (quantity * (IF side = "SELL" THEN k - 1 ELSE periods - k + 1)) \div periods
             first == [k \in 1 .. (periods - 1) |-> Size(k)]
             last == GreatestOf(0, quantity - Total(first))
             sizes == Append(first, last)
  <1>1. Shortfall(quantity, periods, side) = Built(1, sizes)
    BY Zenon DEF Shortfall
  <1>2. first \in Seq(Int)
    <2>1. \A k \in 1 .. (periods - 1) : Size(k) \in Int
      <3> TAKE k \in 1 .. (periods - 1)
      <3> DEFINE part == quantity * (IF side = "SELL" THEN k - 1 ELSE periods - k + 1)
      <3>1. part \in Int /\ periods \in Nat /\ periods > 0
        <4> DEFINE factor == IF side = "SELL" THEN k - 1 ELSE periods - k + 1
        <4>1. factor \in Int
          OBVIOUS
        <4> HIDE DEF factor
        <4>2. quantity * factor \in Int
          BY <4>1
        <4> QED BY <4>2 DEF factor
      <3> HIDE DEF part
      <3>2. part \div periods \in Int
        BY <3>1
      <3> QED BY <3>2 DEF part
    <2>2. periods - 1 \in Nat
      OBVIOUS
    <2> HIDE DEF Size
    <2> QED BY <2>1, <2>2
  <1> HIDE DEF first
  <1>3. Total(first) \in Int
    <2>1. 0 \in Int
      OBVIOUS
    <2> QED BY <1>2, <2>1, TotalAppend
  <1>4. last \in Int /\ (last > 0 => last = quantity - Total(first))
    BY <1>3 DEF GreatestOf
  <1> HIDE DEF last
  <1>5. /\ sizes \in Seq(Int) /\ Total(sizes) = Total(first) + last
        /\ Len(first) + 1 \in DOMAIN sizes /\ sizes[Len(first) + 1] = last
    BY <1>2, <1>4, TotalAppend, SMTT(40)
  <1> HIDE DEF sizes
  <1>6. Built(1, sizes) = Schedule(1, sizes)
    BY <1>1 DEF Built, NoSchedule
  <1>7. /\ Shortfall(quantity, periods, side).sizes = sizes
        /\ Shortfall(quantity, periods, side).unit = 1
    BY <1>1, <1>6 DEF Schedule
  <1>8. (\A i \in DOMAIN sizes : sizes[i] > 0) => Total(sizes) = quantity * 1
    BY <1>3, <1>4, <1>5
  <1> DEFINE schedule == Shortfall(quantity, periods, side)
  <1> HIDE DEF schedule
  <1>9. AddsUp(schedule, quantity)
    BY <1>5, <1>7, <1>8 DEF AddsUp, schedule
  <1> QED BY <1>9 DEF schedule

\* POV: its children are typed, and promise nothing else.
LEMMA PovSizes ==
  ASSUME NEW quantity \in Nat, NEW rate \in Nat, NEW least \in Nat, NEW most \in Nat,
         NEW checks \in Nat
  PROVE  /\ Pov(quantity, rate, least, most, checks).sizes \in Seq(Int)
         /\ Pov(quantity, rate, least, most, checks).unit \in Nat
         /\ Pov(quantity, rate, least, most, checks).tolerance \in Nat
  <1> DEFINE unit == 100 * checks
             size == Clamp(quantity * rate, least * unit, most * unit)
             sizes == [i \in 1 .. checks |-> size]
  <1>1. Pov(quantity, rate, least, most, checks) = Built(unit, sizes)
    BY DEF Pov
  <1>2. unit \in Nat
    OBVIOUS
  <1>3. size \in Int
    <2> HIDE DEF unit
    <2> DEFINE x == quantity * rate  low == least * unit  high == most * unit
    <2>1. x \in Int /\ low \in Int /\ high \in Int
      BY <1>2
    <2> HIDE DEF x, low, high
    <2>2. Clamp(x, low, high) \in Int
      BY <2>1 DEF Clamp, GreatestOf, LeastOf
    <2> QED BY <2>2 DEF x, low, high
  <1> HIDE DEF unit, size
  <1>4. sizes \in Seq(Int) /\ <<>> \in Seq(Int)
    BY <1>3
  <1> HIDE DEF sizes
  <1>5. \/ Built(unit, sizes) = Schedule(unit, sizes)
        \/ Built(unit, sizes) = NoSchedule
    BY DEF Built
  <1>6. /\ Schedule(unit, sizes).sizes = sizes /\ Schedule(unit, sizes).unit = unit
        /\ NoSchedule.sizes = <<>> /\ NoSchedule.unit = 1
        /\ Schedule(unit, sizes).tolerance = 0 /\ NoSchedule.tolerance = 0
    BY DEF Schedule, NoSchedule
  <1> DEFINE pov == Pov(quantity, rate, least, most, checks)
  <1>7. pov = Schedule(unit, sizes) \/ pov = NoSchedule
    BY <1>1, <1>5
  <1> HIDE DEF pov
  <1>8. 1 \in Nat /\ 0 \in Nat
    OBVIOUS
  <1>9. pov.sizes \in Seq(Int) /\ pov.unit \in Nat /\ pov.tolerance \in Nat
    BY <1>2, <1>4, <1>6, <1>7, <1>8, Zenon
  <1> QED BY <1>9 DEF pov

\* Every schedule an order may get is typed and, but for POV's, sound.
LEMMA SchedulesSound ==
  ASSUME NEW algorithm \in Algorithms, NEW quantity \in Nat, NEW side \in {"BUY", "SELL"},
         NEW s \in SchedulesOf(algorithm, quantity, side), ~s.raises
  PROVE  /\ s.sizes \in Seq(Int) /\ s.unit \in Nat /\ s.tolerance \in Nat
         /\ algorithm # "pov" => Sound(s, quantity)
  <1>1. CASE algorithm = "twap"
    <2>0. /\ algorithm # "vwap"
          /\ algorithm # "pov"
          /\ algorithm # "iceberg"
          /\ algorithm # "implementation_shortfall"
      BY <1>1
    <2>1. s \in {Twap(quantity, TwapSlices(n, 10, i)) : n \in 0..3, i \in {0, 4}}
      BY <1>1, <2>0 DEF SchedulesOf
    <2>2. PICK n \in 0..3, i \in {0, 4} : s = Twap(quantity, TwapSlices(n, 10, i))
      BY <2>1
    <2>3. TwapSlices(n, 10, i) \in Nat \ {0}
      <3>1. TwapSlices(n, 10, i) \in {GreatestOf(1, n), GreatestOf(1, 10 \div i), GreatestOf(1, 10 \div 5)}
            /\ (i = 0 => TwapSlices(n, 10, i) \in {GreatestOf(1, n), GreatestOf(1, 10 \div 5)})
        <4>1. CASE n # 0
          BY <4>1, Zenon DEF TwapSlices
        <4>2. CASE n = 0 /\ i # 0
          BY <4>2, Zenon DEF TwapSlices
        <4>3. CASE n = 0 /\ i = 0
          <5>1. ~(n # 0) /\ ~(n = 0 /\ i # 0)
            BY <4>3
          <5>2. TwapSlices(n, 10, i) = GreatestOf(1, 10 \div 5)
            BY <5>1, Zenon DEF TwapSlices
          <5> QED BY <5>2
        <4> QED BY <4>1, <4>2, <4>3
      <3>2. i = 4 => 10 \div i = 2
        OBVIOUS
      <3> QED BY <3>1, <3>2 DEF GreatestOf
    <2>4. Sound(s, quantity)
      <3>1. s.tolerance = 0
        BY <2>2 DEF Twap, Schedule
      <3>2. AddsUp(s, quantity)
        BY <2>2, <2>3, TwapSound
      <3> QED BY <3>1, <3>2, AddingUpIsSound
    <2> QED BY <2>4 DEF Sound
  <1>2. CASE algorithm = "vwap"
    <2>1. /\ algorithm # "twap"
          /\ algorithm # "pov"
          /\ algorithm # "iceberg"
          /\ algorithm # "implementation_shortfall"
      BY <1>2
    <2>2. s \in {Vwap(quantity, p, 4, Off(p, 0)) : p \in {<<2, 1, 1>>, <<4, 0>>, <<8, 8>>}}
                \cup {Vwap(quantity, p, 3, Off(p, by)) : p \in {<<1, 1, 1>>, <<2, 2>>}, by \in {-1, 1}}
      BY <1>2, <2>1 DEF SchedulesOf
    <2> DEFINE Profiles == {<<2, 1, 1>>, <<4, 0>>, <<8, 8>>, <<1, 1, 1>>, <<2, 2>>}
    <2>3. \E p \in Profiles : \E whole \in {3, 4} : \E by \in {-1, 0, 1} :
            s = Vwap(quantity, p, whole, Off(p, by))
      BY <2>2
    <2>4. \A p \in Profiles : p \in Seq(Nat) /\ p # <<>>
      <3>1. <<2, 1, 1>> \in Seq(Nat) /\ <<2, 1, 1>> # <<>>
        OBVIOUS
      <3>2. <<4, 0>> \in Seq(Nat) /\ <<4, 0>> # <<>>
        OBVIOUS
      <3>3. <<8, 8>> \in Seq(Nat) /\ <<8, 8>> # <<>>
        OBVIOUS
      <3>4. <<1, 1, 1>> \in Seq(Nat) /\ <<1, 1, 1>> # <<>>
        OBVIOUS
      <3>5. <<2, 2>> \in Seq(Nat) /\ <<2, 2>> # <<>>
        OBVIOUS
      <3> QED BY <3>1, <3>2, <3>3, <3>4, <3>5, Zenon
    <2> HIDE DEF Profiles
    <2>5. Sound(s, quantity)
      <3>1. PICK p \in Profiles, whole \in {3, 4}, by \in {-1, 0, 1} :
              s = Vwap(quantity, p, whole, Off(p, by))
        BY <2>3
      <3> DEFINE off == Off(p, by)
      <3>2. whole \in Nat /\ by \in Int /\ by \in -whole .. whole
        OBVIOUS
      <3>3. p \in Seq(Nat) /\ p # <<>> /\ Len(p) \in Nat
        BY <2>4
      <3>4. \A i \in 0 .. Len(p) : off[i] = by
        BY DEF Off
      <3>5. 0 \in 0 .. Len(p)
        BY <3>3
      <3> HIDE DEF off
      <3>6. (\A i \in 0 .. Len(p) : off[i] \in Int) /\ off[0] \in -whole .. whole
        BY <3>2, <3>4, <3>5
      <3>7. s = Vwap(quantity, p, whole, off)
        BY <3>1 DEF off
      <3> QED BY <3>2, <3>3, <3>6, <3>7, VwapSound
    <2> QED BY <2>5 DEF Sound
  <1>3. CASE algorithm = "pov"
    <2>1. /\ algorithm # "twap"
          /\ algorithm # "vwap"
          /\ algorithm # "iceberg"
          /\ algorithm # "implementation_shortfall"
      BY <1>3
    <2>2. s \in {Pov(quantity, r, least, 3, 2) : r \in {10, 100}, least \in {0, 2}}
      BY <1>3, <2>1 DEF SchedulesOf
    <2>3. PICK r \in {10, 100}, least \in {0, 2} : s = Pov(quantity, r, least, 3, 2)
      BY <2>2
    <2>4. r \in Nat /\ least \in Nat /\ 3 \in Nat /\ 2 \in Nat
      OBVIOUS
    <2> QED BY <1>3, <2>3, <2>4, PovSizes, ZenonT(60)
  <1>4. CASE algorithm = "iceberg"
    <2>1. /\ algorithm # "twap"
          /\ algorithm # "vwap"
          /\ algorithm # "pov"
          /\ algorithm # "implementation_shortfall"
      BY <1>4
    <2>2. s \in {Iceberg(quantity, d) : d \in {0, 2}}
                  \cup {Iceberg(quantity, DisplayQuantity(quantity, d, 3)) : d \in {0, 1}}
      BY <1>4, <2>1 DEF SchedulesOf
    <2>3. \E d \in Nat : s = Iceberg(quantity, d)
      <3>1. \A d \in {0, 1} : DisplayQuantity(quantity, d, 3) \in Nat
        <4>1. quantity \div 50 \in Nat
          OBVIOUS
        <4> QED BY <4>1 DEF DisplayQuantity, LeastOf, GreatestOf
      <3> QED BY <2>2, <3>1
    <2>4. PICK d \in Nat : s = Iceberg(quantity, d)
      BY <2>3
    <2>5. d # 0
      BY <2>4 DEF Iceberg, NoSchedule
    <2>6. Sound(s, quantity)
      <3>1. s.tolerance = 0
        BY <2>4 DEF Iceberg, Schedule, NoSchedule
      <3>2. AddsUp(s, quantity)
        BY <2>4, <2>5, IcebergSound
      <3> QED BY <3>1, <3>2, AddingUpIsSound
    <2> QED BY <2>6 DEF Sound
  <1>5. CASE algorithm = "implementation_shortfall"
    <2>1. /\ algorithm # "twap"
          /\ algorithm # "vwap"
          /\ algorithm # "pov"
          /\ algorithm # "iceberg"
      BY <1>5
    <2>2. s \in {Shortfall(quantity, n, side) : n \in 1..4}
      BY <1>5, <2>1 DEF SchedulesOf
    <2>3. PICK n \in 1..4 : s = Shortfall(quantity, n, side)
      BY <2>2
    <2>4. n \in Nat \ {0}
      OBVIOUS
    <2>5. Sound(s, quantity)
      <3>1. s.tolerance = 0
        BY <2>3, BuiltExact, Zenon DEF Shortfall
      <3>2. AddsUp(s, quantity)
        BY <2>3, <2>4, ShortfallSound
      <3> QED BY <3>1, <3>2, AddingUpIsSound
    <2> QED BY <2>5 DEF Sound
  <1> QED BY <1>1, <1>2, <1>3, <1>4, <1>5 DEF Algorithms
-----------------------------------------------------------------------------
\* ChildOrders.
ChildOrder == [quantity : Int, due : Int, status : ChildStatus, filled : Int]
QuantitiesOf(cs) == [i \in DOMAIN cs |-> cs[i].quantity]

\* A child has no more filled than it is for; it is filled when it says so, and not before.
ChildRight(c) ==
  /\ c.filled >= 0 /\ (c.filled <= c.quantity \/ c.filled = 0)
  /\ c.status = "PENDING" => c.filled = 0
  /\ c.status = "FILLED" => c.filled = c.quantity
  /\ c.status # "FILLED" /\ c.quantity > 0 => c.filled < c.quantity

\* The children, in whole quantities, come to the order, to within the tolerance: what
\* happens to them changes neither.
ComesTo(cs) ==
  /\ Total(QuantitiesOf(cs)) <= parent + tolerance
  /\ Total(QuantitiesOf(cs)) >= parent - tolerance
ChildInv ==
  /\ children \in Seq(ChildOrder)
  /\ parent \in Int /\ tolerance \in Nat
  /\ \A i \in DOMAIN children : ChildRight(children[i])
  /\ named # "pov" /\ (\A i \in DOMAIN children : children[i].quantity > 0) => ComesTo(children)

LEMMA ChildInvInit == ChildInit => ChildInv
  <1> SUFFICES ASSUME ChildInit PROVE ChildInv
    OBVIOUS
  <1>1. PICK q \in ParentQuantities, side \in {"BUY", "SELL"} :
          \E s \in {x \in SchedulesOf(named, q, side) : ~x.raises} :
            parent = q * s.unit /\ tolerance = s.tolerance /\ children = Children(named, s.sizes)
    BY DEF ChildInit
  <1>2. PICK s \in SchedulesOf(named, q, side) :
          /\ ~s.raises /\ parent = q * s.unit /\ tolerance = s.tolerance
          /\ children = Children(named, s.sizes)
    BY <1>1
  <1>3. q \in Nat /\ named \in Algorithms
    BY ChildAssumption DEF ChildInit
  <1>4. /\ s.sizes \in Seq(Int) /\ s.unit \in Nat /\ s.tolerance \in Nat
        /\ named # "pov" => Sound(s, q)
    BY <1>2, <1>3, SchedulesSound
  <1> DEFINE sizes == s.sizes
             child(i) == [quantity |-> sizes[i], due |-> IF named = "iceberg" THEN 0 ELSE i - 1,
                          status |-> "PENDING", filled |-> 0]
  <1>5. children = [i \in DOMAIN sizes |-> child(i)]
    BY <1>2, Zenon DEF Children
  <1> HIDE DEF sizes
  <1>6. Len(sizes) \in Nat /\ DOMAIN sizes = 1 .. Len(sizes) /\ \A i \in DOMAIN sizes : sizes[i] \in Int
    BY <1>4 DEF sizes
  <1>7. \A i \in DOMAIN sizes : child(i) \in ChildOrder /\ ChildRight(child(i))
                                /\ child(i).quantity = sizes[i]
    BY <1>6 DEF ChildOrder, ChildStatus, ChildRight
  <1> HIDE DEF child
  <1>8. children \in Seq(ChildOrder) /\ DOMAIN children = DOMAIN sizes
        /\ \A i \in DOMAIN sizes : children[i] = child(i)
    BY <1>5, <1>6, <1>7
  <1>9. \A i \in DOMAIN children : ChildRight(children[i]) /\ children[i].quantity = sizes[i]
    BY <1>7, <1>8
  <1>10. QuantitiesOf(children) = sizes
    <2>1. QuantitiesOf(children) = [i \in DOMAIN sizes |-> sizes[i]]
      BY <1>8, <1>9 DEF QuantitiesOf
    <2> QED BY <1>4, <2>1 DEF sizes
  <1>11. parent \in Int /\ tolerance \in Nat
    BY <1>2, <1>3, <1>4
  <1>12. ASSUME named # "pov", \A i \in DOMAIN children : children[i].quantity > 0
         PROVE  ComesTo(children)
    <2>1. \A i \in DOMAIN sizes : sizes[i] > 0
      BY <1>8, <1>9, <1>12
    <2>2. /\ Total(sizes) <= q * s.unit + s.tolerance
          /\ Total(sizes) >= q * s.unit - s.tolerance
      BY <1>4, <1>12, <2>1 DEF Sound, sizes
    <2> QED BY <1>2, <1>10, <2>2 DEF ComesTo
  <1> QED BY <1>8, <1>9, <1>11, <1>12 DEF ChildInv

\* One child changes, in nothing that is ordered of it.
LEMMA ChildChanges ==
  ASSUME ChildInv, NEW i \in DOMAIN children, NEW new \in ChildOrder, ChildRight(new),
         new.quantity = children[i].quantity,
         children' = [children EXCEPT ![i] = new], UNCHANGED <<named, parent, tolerance>>
  PROVE  ChildInv'
  <1>1. children \in Seq(ChildOrder)
    BY DEF ChildInv
  <1>2. children' \in Seq(ChildOrder) /\ DOMAIN children' = DOMAIN children
        /\ \A k \in DOMAIN children : children'[k] = IF k = i THEN new ELSE children[k]
    BY <1>1
  <1>3. \A k \in DOMAIN children : /\ ChildRight(children'[k])
                                   /\ children'[k].quantity = children[k].quantity
    BY <1>2 DEF ChildInv
  <1>4. QuantitiesOf(children') = QuantitiesOf(children)
    BY <1>2, <1>3 DEF QuantitiesOf
  <1>5. QuantitiesOf(children)' = QuantitiesOf(children')
    BY DEF QuantitiesOf
  <1>6. named # "pov" /\ (\A k \in DOMAIN children' : children'[k].quantity > 0) =>
          /\ Total(QuantitiesOf(children')) <= parent + tolerance
          /\ Total(QuantitiesOf(children')) >= parent - tolerance
    <2>1. named # "pov" /\ (\A k \in DOMAIN children : children[k].quantity > 0) =>
            /\ Total(QuantitiesOf(children)) <= parent + tolerance
            /\ Total(QuantitiesOf(children)) >= parent - tolerance
      BY DEF ChildInv, ComesTo
    <2> QED BY <1>2, <1>3, <1>4, <2>1
  <1>7. \A k \in DOMAIN children' : ChildRight(children'[k])
    BY <1>2, <1>3
  <1>8. (\A k \in DOMAIN children : ChildRight(children[k]))'
    BY <1>7 DEF ChildRight
  <1>9. Total(QuantitiesOf(children))' = Total(QuantitiesOf(children'))
    BY <1>5 DEF Total
  <1>10. (children \in Seq(ChildOrder))' /\ (parent \in Int)' /\ (tolerance \in Nat)'
    BY <1>2 DEF ChildInv, ChildOrder, ChildStatus
  <1>11. (named # "pov" /\ (\A k \in DOMAIN children : children[k].quantity > 0) =>
            ComesTo(children))'
    BY <1>6, <1>9 DEF ComesTo
  <1> QED BY <1>8, <1>10, <1>11 DEF ChildInv

\* A child moves: it is brought to the market, or more of it is filled there.
ChildMoves(i, new) ==
  /\ children' = [children EXCEPT ![i] = new] /\ UNCHANGED <<named, parent, tolerance>>
  /\ new \in ChildOrder /\ ChildRight(new) /\ new.quantity = children[i].quantity
  /\ \/ /\ children[i].status = "PENDING" /\ new.status # "PENDING"
        /\ new.filled = children[i].filled
     \/ /\ children[i].status # "PENDING" /\ new.status # "PENDING"
        /\ new.filled > children[i].filled

LEMMA ChildStep ==
  ASSUME ChildInv, [ChildNext]_childVars
  PROVE  UNCHANGED <<named, parent, tolerance, children>> \/ \E i \in DOMAIN children : \E new : ChildMoves(i, new)
  <1> DEFINE Moves == \E i \in DOMAIN children : \E new : ChildMoves(i, new)
  <1>0. \A i \in DOMAIN children : children[i] \in ChildOrder /\ ChildRight(children[i])
    <2>1. children \in Seq(ChildOrder)
      BY DEF ChildInv
    <2>2. \A i \in DOMAIN children : children[i] \in ChildOrder
      BY <2>1
    <2> QED BY <2>2 DEF ChildInv
  <1>1. ASSUME NextChild PROVE Moves
    <2>1. PICK i \in NextFitting(Remaining) : \A y \in NextFitting(Remaining) : i <= y
      <3>1. NextFitting(Remaining) # {} /\ NextFitting(Remaining) \subseteq Nat
        <4>1. NextFitting(Remaining) \subseteq DOMAIN children
          BY DEF NextFitting
        <4>2. DOMAIN children \subseteq Nat
          <5>1. children \in Seq(ChildOrder)
            BY DEF ChildInv
          <5> QED BY <5>1
        <4>3. NextFitting(Remaining) # {}
          BY <1>1, Zenon DEF NextChild
        <4> QED BY <4>1, <4>2, <4>3
      <3> QED BY <3>1, LeastNumber
    <2> DEFINE fitting == NextFitting(Remaining)
               first == CHOOSE x \in fitting : \A y \in fitting : x <= y
    <2>2. first \in fitting
      BY <2>1, Zenon
    <2>3. /\ children' = [children EXCEPT ![first].status = "SUBMITTED"]
          /\ UNCHANGED <<named, parent, tolerance>>
      BY <1>1, Zenon DEF NextChild
    <2> HIDE DEF first
    <2>4. first \in DOMAIN children /\ children[first].status = "PENDING"
      BY <2>2 DEF NextFitting
    <2> DEFINE new == [children[first] EXCEPT !.status = "SUBMITTED"]
    <2>5. children' = [children EXCEPT ![first] = new]
      BY <2>3
    <2>6. /\ new \in ChildOrder /\ ChildRight(new) /\ new.quantity = children[first].quantity
          /\ new.status = "SUBMITTED" /\ new.filled = children[first].filled
      <3> DEFINE old == children[first]
      <3>1. old \in ChildOrder /\ ChildRight(old) /\ old.status = "PENDING"
        BY <1>0, <2>4
      <3> HIDE DEF old
      <3>2. [old EXCEPT !.status = "SUBMITTED"] \in ChildOrder
            /\ ChildRight([old EXCEPT !.status = "SUBMITTED"])
            /\ [old EXCEPT !.status = "SUBMITTED"].quantity = old.quantity
            /\ [old EXCEPT !.status = "SUBMITTED"].filled = old.filled
            /\ [old EXCEPT !.status = "SUBMITTED"].status = "SUBMITTED"
        BY <3>1 DEF ChildOrder, ChildStatus, ChildRight
      <3> QED BY <3>2 DEF old
    <2> HIDE DEF new
    <2>7. ChildMoves(first, new)
      BY <2>3, <2>4, <2>5, <2>6 DEF ChildMoves
    <2> QED BY <2>4, <2>7
  <1>2. ASSUME NEW i \in DOMAIN children, NEW amount \in Int, UpdateFill(i, amount) PROVE Moves
    <2> DEFINE new == FilledBy(children[i], amount)
    <2>1. /\ children' = [children EXCEPT ![i] = new] /\ UNCHANGED <<named, parent, tolerance>>
          /\ amount > 0 /\ amount <= children[i].quantity - children[i].filled
          /\ children[i].status # "PENDING"
      BY <1>2 DEF UpdateFill
    <2>2. /\ new \in ChildOrder /\ ChildRight(new) /\ new.quantity = children[i].quantity
          /\ new.status # "PENDING" /\ new.filled > children[i].filled
      <3> DEFINE old == children[i]
                 status == IF old.filled + amount >= old.quantity THEN "FILLED" ELSE "PARTIAL"
                 filled == old.filled + amount
      <3>1. old \in ChildOrder /\ ChildRight(old)
        BY <1>0
      <3>2. old.filled \in Int /\ old.quantity \in Int /\ old.filled >= 0
        BY <3>1 DEF ChildOrder, ChildRight
      <3>3. new = [old EXCEPT !.filled = filled, !.status = status]
        BY DEF FilledBy
      <3>4. filled \in Int /\ filled >= 0 /\ filled <= old.quantity /\ filled > old.filled
            /\ status \in {"FILLED", "PARTIAL"}
            /\ (status = "FILLED" => filled = old.quantity)
            /\ (status # "FILLED" => filled < old.quantity)
        BY <2>1, <3>2
      <3> HIDE DEF new, old, filled, status
      <3>5. /\ new \in ChildOrder /\ new.quantity = old.quantity
            /\ new.filled = filled /\ new.status = status
        BY <3>1, <3>3, <3>4 DEF ChildOrder, ChildStatus
      <3>6. ChildRight(new)
        BY <3>2, <3>4, <3>5 DEF ChildRight
      <3> QED BY <3>4, <3>5, <3>6 DEF old
    <2> HIDE DEF new
    <2>3. ChildMoves(i, new)
      BY <2>1, <2>2 DEF ChildMoves
    <2> QED BY <2>3
  <1>3. ASSUME \E i \in DOMAIN children :
                 \/ UpdateFill(i, children[i].quantity - children[i].filled)
                 \/ UpdateFill(i, children[i].quantity \div 2)
        PROVE  Moves
    <2>1. PICK i \in DOMAIN children :
               \/ UpdateFill(i, children[i].quantity - children[i].filled)
               \/ UpdateFill(i, children[i].quantity \div 2)
      BY <1>3
    <2>2. children[i].quantity - children[i].filled \in Int /\ children[i].quantity \div 2 \in Int
      <3>1. children[i].quantity \in Int /\ children[i].filled \in Int
        BY <1>0 DEF ChildOrder
      <3> QED BY <3>1
    <2> QED BY <1>2, <2>1, <2>2
  <1>4. CASE Wait \/ UNCHANGED childVars
    BY <1>4 DEF Wait, childVars
  <1> QED BY <1>1, <1>3, <1>4 DEF ChildNext

LEMMA NextChildInv == ChildInv /\ [ChildNext]_childVars => ChildInv'
  <1> SUFFICES ASSUME ChildInv, [ChildNext]_childVars PROVE ChildInv'
    OBVIOUS
  <1>1. CASE UNCHANGED <<named, parent, tolerance, children>>
    BY <1>1 DEF ChildInv, ChildOrder, ChildStatus, ChildRight, ComesTo, QuantitiesOf, Total
  <1>2. ASSUME NEW i \in DOMAIN children, NEW new, ChildMoves(i, new) PROVE ChildInv'
    BY <1>2, ChildChanges DEF ChildMoves
  <1> QED BY <1>1, <1>2, ChildStep

\* The sums of the three quantities a child has: ordered, at the market, filled.
LEMMA ChildSums ==
  ASSUME ChildInv, Sliced
  PROVE  /\ parent \in Int /\ tolerance \in Nat
         /\ FilledOf(children) \in Int /\ ReleasedOf(children) \in Int
         /\ FilledOf(children) <= ReleasedOf(children)
         /\ ReleasedOf(children) <= parent + tolerance
         /\ (\A i \in DOMAIN children : children[i].status = "FILLED") =>
              FilledOf(children) >= parent - tolerance
         /\ \A i \in DOMAIN children :
              /\ children[i].quantity \in Int /\ children[i].filled \in Int
              /\ children[i].quantity - children[i].filled <= parent + tolerance - FilledOf(children)
              /\ children[i].status = "PENDING" => children[i].filled = 0
  <1> DEFINE D == DOMAIN children
             ordered == QuantitiesOf(children)
             filled == [i \in D |-> children[i].filled]
             market == [i \in D |-> IF children[i].status = "PENDING" THEN 0 ELSE children[i].quantity]
  <1>1. children \in Seq(ChildOrder)
    BY DEF ChildInv
  <1>2. D = 1 .. Len(children) /\ Len(children) \in Nat /\ \A i \in D : children[i] \in ChildOrder
    BY <1>1
  <1>3. IsFiniteSet(D)
    BY <1>2, FiniteDomain
  <1>4. \A i \in D : /\ children[i].quantity \in Int /\ children[i].filled \in Int
                     /\ children[i].filled <= children[i].quantity
                     /\ children[i].quantity > 0
                     /\ (children[i].status = "PENDING" => children[i].filled = 0)
                     /\ (children[i].status = "FILLED" => children[i].filled = children[i].quantity)
                     /\ (children[i].status # "FILLED" => children[i].filled < children[i].quantity)
    <2> TAKE i \in D
    <2>1. children[i] \in ChildOrder /\ ChildRight(children[i]) /\ children[i].quantity > 0
      BY <1>2 DEF ChildInv, Sliced
    <2> QED BY <2>1 DEF ChildOrder, ChildRight
  <1>5. /\ DOMAIN ordered = D /\ DOMAIN filled = D /\ DOMAIN market = D
        /\ \A i \in D : /\ ordered[i] = children[i].quantity /\ filled[i] = children[i].filled
                        /\ market[i] = IF children[i].status = "PENDING" THEN 0 ELSE children[i].quantity
    BY DEF QuantitiesOf
  <1>6. FilledOf(children) = SumFunction(filled) /\ ReleasedOf(children) = SumFunction(market)
    BY DEF FilledOf, ReleasedOf, Total
  <1>7. /\ parent \in Int /\ tolerance \in Nat
        /\ SumFunction(ordered) <= parent + tolerance /\ SumFunction(ordered) >= parent - tolerance
    BY DEF ChildInv, ComesTo, Sliced, Total
  <1> HIDE DEF ordered, filled, market, D
  <1>8. \A i \in D : /\ ordered[i] \in Int /\ filled[i] \in Int /\ market[i] \in Int
                     /\ filled[i] <= market[i] /\ market[i] <= ordered[i]
    BY <1>4, <1>5
  <1>9. /\ SumFunction(ordered) = SumFunctionOnSet(ordered, D)
        /\ SumFunction(filled) = SumFunctionOnSet(filled, D)
        /\ SumFunction(market) = SumFunctionOnSet(market, D)
    BY <1>5, Zenon DEF SumFunction
  <1>10. SumFunctionOnSet(filled, D) <= SumFunctionOnSet(market, D)
    BY <1>3, <1>8, SumLeq
  <1>11. SumFunctionOnSet(market, D) <= SumFunctionOnSet(ordered, D)
    BY <1>3, <1>8, SumLeq
  <1>12. SumFunction(filled) \in Int /\ SumFunction(market) \in Int /\ SumFunction(ordered) \in Int
    BY <1>3, <1>5, <1>8, SumIsInt
  <1>13. ASSUME \A i \in D : children[i].status = "FILLED" PROVE SumFunction(filled) >= parent - tolerance
    <2>1. \A i \in D : filled[i] = ordered[i]
      BY <1>4, <1>5, <1>13
    <2>2. SumFunctionOnSet(filled, D) = SumFunctionOnSet(ordered, D)
      BY <1>3, <2>1, SumSame
    <2> QED BY <1>7, <1>9, <2>2
  <1>14. \A i \in D : ordered[i] - filled[i] <= parent + tolerance - SumFunction(filled)
    <2> TAKE i \in D
    <2> DEFINE rest == D \ {i}
    <2>1. /\ SumFunctionOnSet(filled, D) = filled[i] + SumFunctionOnSet(filled, rest)
          /\ SumFunctionOnSet(ordered, D) = ordered[i] + SumFunctionOnSet(ordered, rest)
      BY <1>3, <1>8, SumRemove
    <2>2. IsFiniteSet(rest) /\ rest \in SUBSET D
      BY <1>3, FS_Subset
    <2>3. SumFunctionOnSet(filled, rest) <= SumFunctionOnSet(ordered, rest)
      <3>1. \A k \in rest : filled[k] \in Int /\ ordered[k] \in Int /\ filled[k] <= ordered[k]
        BY <1>4, <1>5
      <3> QED BY <2>2, <3>1, SumLeq
    <2>4. SumFunctionOnSet(filled, rest) \in Int /\ SumFunctionOnSet(ordered, rest) \in Int
      BY <1>3, <1>8, <2>2, SumInt
    <2>5. filled[i] \in Int /\ ordered[i] \in Int
      BY <1>8
    <2> HIDE DEF rest
    <2> QED BY <1>7, <1>9, <1>12, <2>1, <2>3, <2>4, <2>5
  <1>15. \A i \in D : /\ children[i].quantity \in Int /\ children[i].filled \in Int
                      /\ children[i].quantity - children[i].filled <= parent + tolerance - SumFunction(filled)
                      /\ children[i].status = "PENDING" => children[i].filled = 0
    BY <1>4, <1>5, <1>14
  <1>16. SumFunction(market) <= parent + tolerance /\ SumFunction(filled) <= SumFunction(market)
    BY <1>7, <1>9, <1>10, <1>11, <1>12
  <1> QED BY <1>6, <1>7, <1>12, <1>13, <1>15, <1>16 DEF D

\* What a move of one child does to them.
LEMMA SumsMove ==
  ASSUME ChildInv, NEW i \in DOMAIN children, NEW new, ChildMoves(i, new)
  PROVE  /\ Sliced' <=> Sliced
         /\ ReleasedOf(children') = ReleasedOf(children)
              + (IF children[i].status = "PENDING" THEN new.quantity ELSE 0)
         /\ FilledOf(children') = FilledOf(children) + (new.filled - children[i].filled)
  <1> DEFINE D == DOMAIN children
             old == children[i]
             filled == [k \in D |-> children[k].filled]
             market == [k \in D |-> IF children[k].status = "PENDING" THEN 0 ELSE children[k].quantity]
             filledThen == [k \in D |-> children'[k].filled]
             marketThen == [k \in D |-> IF children'[k].status = "PENDING" THEN 0 ELSE children'[k].quantity]
  <1>1. children \in Seq(ChildOrder) /\ new \in ChildOrder
    BY DEF ChildInv, ChildMoves
  <1>2. /\ DOMAIN children' = D /\ D = 1 .. Len(children) /\ Len(children) \in Nat
        /\ \A k \in D : children'[k] = IF k = i THEN new ELSE children[k]
    BY <1>1 DEF ChildMoves
  <1>3. IsFiniteSet(D)
    BY <1>2, FiniteDomain
  <1>4. \A k \in D : children[k] \in ChildOrder /\ children'[k] \in ChildOrder
    BY <1>1, <1>2
  <1>5. /\ DOMAIN filled = D /\ DOMAIN market = D /\ DOMAIN filledThen = D /\ DOMAIN marketThen = D
        /\ \A k \in D :
             /\ filled[k] = children[k].filled /\ filledThen[k] = children'[k].filled
             /\ market[k] = IF children[k].status = "PENDING" THEN 0 ELSE children[k].quantity
             /\ marketThen[k] = IF children'[k].status = "PENDING" THEN 0 ELSE children'[k].quantity
    OBVIOUS
  <1>6. /\ FilledOf(children) = SumFunction(filled) /\ ReleasedOf(children) = SumFunction(market)
        /\ FilledOf(children') = SumFunction(filledThen)
        /\ ReleasedOf(children') = SumFunction(marketThen)
    BY <1>2 DEF FilledOf, ReleasedOf, Total
  <1>7. Sliced' <=> Sliced
    BY <1>2 DEF Sliced, ChildMoves
  <1> HIDE DEF D, filled, market, filledThen, marketThen
  <1>8. \A k \in D : /\ filled[k] \in Int /\ market[k] \in Int
                     /\ filledThen[k] \in Int /\ marketThen[k] \in Int
    BY <1>4, <1>5 DEF ChildOrder
  <1>9. \A k \in D : k # i => filled[k] = filledThen[k] /\ market[k] = marketThen[k]
    BY <1>2, <1>5
  <1>10. i \in D
    BY DEF D
  <1>11. /\ SumFunction(filledThen) = SumFunction(filled) - filled[i] + filledThen[i]
         /\ SumFunction(marketThen) = SumFunction(market) - market[i] + marketThen[i]
    BY <1>3, <1>5, <1>8, <1>9, <1>10, SumExcept
  <1>12. SumFunction(filled) \in Int /\ SumFunction(market) \in Int
    BY <1>3, <1>5, <1>8, SumIsInt
  <1>13. /\ filled[i] = children[i].filled /\ filledThen[i] = new.filled
         /\ market[i] = IF children[i].status = "PENDING" THEN 0 ELSE new.quantity
         /\ marketThen[i] = new.quantity
    BY <1>2, <1>5, <1>10 DEF ChildMoves
  <1>14. filled[i] \in Int /\ filledThen[i] \in Int /\ new.quantity \in Int
    BY <1>1, <1>8, <1>10 DEF ChildOrder
  <1>15. ReleasedOf(children') = ReleasedOf(children)
           + (IF children[i].status = "PENDING" THEN new.quantity ELSE 0)
    BY <1>6, <1>11, <1>12, <1>13, <1>14
  <1>16. FilledOf(children') = FilledOf(children) + (new.filled - children[i].filled)
    BY <1>6, <1>11, <1>12, <1>13, <1>14
  <1> QED BY <1>7, <1>15, <1>16
-----------------------------------------------------------------------------
\* However its children are released and filled, of whatever size the order is: an
\* algorithm whose schedule adds up serves it as ParentOrder says, and never has more than
\* the order at the market (algorithms/base.py, get_next_child, update_fill).
THEOREM ChildrenServe == ChildSpec => ServesTheOrder
  <1>1. ChildInv /\ ChildInit => Parent!Init
    <2> SUFFICES ASSUME ChildInv, ChildInit, Sliced
                 PROVE  parent + tolerance \in Nat /\ ReleasedOf(children) = 0 /\ FilledOf(children) = 0
      BY DEF Parent!Init
    <2>1. children \in Seq(ChildOrder) /\ \A i \in DOMAIN children : children[i].status = "PENDING"
                                                                  /\ children[i].filled = 0
      BY DEF ChildInv, ChildInit, Children
    <2>2. IsFiniteSet(DOMAIN children)
      BY <2>1, FiniteDomain
    <2>3. ReleasedOf(children) = 0 /\ FilledOf(children) = 0
      BY <2>1, <2>2, SumIsZero DEF ReleasedOf, FilledOf, Total
    <2> QED BY <2>3, ChildSums
  <1>2. ChildInv /\ ChildInv' /\ [ChildNext]_childVars => [Parent!Next]_Parent!vars
    <2> SUFFICES ASSUME ChildInv, ChildInv', [ChildNext]_childVars PROVE [Parent!Next]_Parent!vars
      OBVIOUS
    <2>1. CASE UNCHANGED <<named, parent, tolerance, children>>
      BY <2>1 DEF Parent!vars, Sliced, ReleasedOf, FilledOf
    <2>2. ASSUME NEW i \in DOMAIN children, NEW new, ChildMoves(i, new)
          PROVE  [Parent!Next]_Parent!vars
      <3>1. /\ (Sliced' <=> Sliced) /\ parent' = parent /\ tolerance' = tolerance
            /\ ReleasedOf(children)' = ReleasedOf(children)
                 + (IF children[i].status = "PENDING" THEN new.quantity ELSE 0)
            /\ FilledOf(children)' = FilledOf(children) + (new.filled - children[i].filled)
        BY <2>2, SumsMove DEF ChildMoves, ReleasedOf, FilledOf
      <3>2. CASE ~Sliced
        BY <3>1, <3>2 DEF Parent!vars
      <3>3. CASE Sliced
        <4>1. /\ parent \in Int /\ tolerance \in Nat /\ FilledOf(children) \in Int /\ ReleasedOf(children) \in Int
              /\ (FilledOf(children) <= ReleasedOf(children))'
              /\ (ReleasedOf(children) <= parent + tolerance)'
          <5>1. (FilledOf(children) <= ReleasedOf(children) /\ ReleasedOf(children) <= parent + tolerance)'
            BY <3>1, <3>3, ChildSums, PTL
          <5> QED BY <3>3, <5>1, ChildSums
        <4> DEFINE taken == new.filled - children[i].filled
        <4>2. /\ new.quantity \in Int /\ new.quantity > 0 /\ taken \in Int
              /\ new.filled \in Int /\ children[i].filled \in Int
          <5>1. children[i] \in ChildOrder /\ children[i].quantity > 0
            BY <3>3 DEF ChildInv, Sliced
          <5> QED BY <2>2, <5>1 DEF ChildMoves, ChildOrder
        <4>3. CASE children[i].status = "PENDING"
          <5>1. taken = 0
            BY <2>2, <4>2, <4>3 DEF ChildMoves
          <5>2. /\ ReleasedOf(children)' = ReleasedOf(children) + new.quantity
                /\ FilledOf(children)' = FilledOf(children)
            BY <3>1, <4>1, <4>3, <5>1
          <5>3. ReleasedOf(children)' \in ReleasedOf(children) + 1 .. parent + tolerance
            BY <3>1, <4>1, <4>2, <5>2
          <5>4. Parent!Release
            BY <3>1, <3>3, <5>2, <5>3, Zenon DEF Parent!Release
          <5> QED BY <5>4 DEF Parent!Next
        <4>4. CASE children[i].status # "PENDING"
          <5>1. taken > 0
            BY <2>2, <4>2, <4>4 DEF ChildMoves
          <5>2. /\ FilledOf(children)' = FilledOf(children) + taken
                /\ ReleasedOf(children)' = ReleasedOf(children)
            BY <3>1, <4>1, <4>4
          <5>3. FilledOf(children)' \in FilledOf(children) + 1 .. ReleasedOf(children)
            BY <4>1, <4>2, <5>1, <5>2
          <5>4. Parent!Fill
            BY <3>1, <3>3, <5>2, <5>3, Zenon DEF Parent!Fill
          <5> QED BY <5>4 DEF Parent!Next
        <4> QED BY <4>3, <4>4
      <3> QED BY <3>2, <3>3
    <2> QED BY <2>1, <2>2, ChildStep
  <1> QED BY <1>1, <1>2, ChildInvInit, NextChildInv, PTL DEF ChildSpec, ServesTheOrder, Parent!Spec

\* To within the tolerance of its schedule, whatever the order's size: an algorithm whose
\* children are all filled is complete, one that is complete has no more left over, and one
\* that holds a child back does so for no more (algorithms/base.py, get_next_child,
\* is_complete; vwap.py:135).
THEOREM CompleteWhenDone == ChildSpec => []CompleteWithinTolerance
  <1>1. ASSUME ChildInv PROVE CompleteWithinTolerance
    <2> SUFFICES ASSUME Sliced
                 PROVE  /\ (\A i \in DOMAIN children : children[i].status = "FILLED") =>
                             Remaining <= tolerance
                        /\ Complete => \A i \in DOMAIN children :
                             children[i].quantity - children[i].filled <= tolerance
                        /\ \A i \in DOMAIN children :
                             children[i].status = "PENDING" =>
                               children[i].quantity <= Remaining + tolerance
      BY DEF CompleteWithinTolerance
    <2> DEFINE filled == FilledOf(children)
    <2>1. /\ parent \in Int /\ tolerance \in Nat /\ filled \in Int
          /\ (\A i \in DOMAIN children : children[i].status = "FILLED") => filled >= parent - tolerance
          /\ \A i \in DOMAIN children :
               /\ children[i].quantity \in Int /\ children[i].filled \in Int
               /\ children[i].quantity - children[i].filled <= parent + tolerance - filled
               /\ children[i].status = "PENDING" => children[i].filled = 0
      BY <1>1, ChildSums
    <2>2. Remaining = parent - filled /\ (Complete <=> filled >= parent)
      BY DEF Remaining, Complete
    <2> HIDE DEF filled
    <2>3. (\A i \in DOMAIN children : children[i].status = "FILLED") => Remaining <= tolerance
      BY <2>1, <2>2
    <2>4. ASSUME Complete, NEW i \in DOMAIN children
          PROVE  children[i].quantity - children[i].filled <= tolerance
      BY <2>1, <2>2, <2>4
    <2>5. ASSUME NEW i \in DOMAIN children, children[i].status = "PENDING"
          PROVE  children[i].quantity <= Remaining + tolerance
      BY <2>1, <2>2, <2>5
    <2> QED BY <2>3, <2>4, <2>5
  <1> QED BY <1>1, ChildInvInit, NextChildInv, PTL DEF ChildSpec
-----------------------------------------------------------------------------
\* BrokerRouting: a finite set of places in the dictionary can be ranked.
BestIn(T) == \E b \in T : \A i \in T : i # b => Before(b, i)
RankedBy(T, o) == o \in SetToSeqs(T) /\ \A j, k \in DOMAIN o : j < k => Before(o[j], o[k])

LEMMA ScoreType == \A i \in DOMAIN Venues : Venues[i] \in VenueSet /\ Scores[Venues[i]] \in Nat
  <1>1. \A i \in DOMAIN Venues : Venues[i] \in VenueSet
    BY DEF VenueSet, Range
  <1> QED BY <1>1, RoutingAssumption

LEMMA PlacesFinite == IsFiniteSet(DOMAIN Venues) /\ DOMAIN Venues \subseteq Nat /\ 1 \in DOMAIN Venues
  <1>1. Len(Venues) \in Nat /\ DOMAIN Venues = 1 .. Len(Venues) /\ Len(Venues) # 0
    BY RoutingAssumption
  <1>2. IsFiniteSet(1 .. Len(Venues))
    BY <1>1, FiniteDomain
  <1> QED BY <1>1, <1>2

LEMMA BestThere ==
  ASSUME NEW S \in SUBSET DOMAIN Venues
  PROVE  \A T \in SUBSET S : T # {} => BestIn(T)
  <1> DEFINE C == {T \in SUBSET S : T # {} => BestIn(T)}
  <1>1. {} \in C
    OBVIOUS
  <1>2. ASSUME NEW T \in SUBSET S, T # {}, \A x \in T : T \ {x} \in C PROVE T \in C
    <2>1. PICK x \in T : TRUE
      BY <1>2
    <2>2. CASE T \ {x} = {}
      <3>1. \A i \in T : i = x
        BY <2>2
      <3> QED BY <1>2, <3>1 DEF BestIn
    <2>3. CASE T \ {x} # {}
      <3>1. PICK b \in T \ {x} : \A i \in T \ {x} : i # b => Before(b, i)
        BY <1>2, <2>3 DEF BestIn
      <3>2. \A i \in T : i \in Nat /\ Scores[Venues[i]] \in Nat
        BY ScoreType, PlacesFinite
      <3>3. CASE Before(b, x)
        <4>1. \A i \in T : i # b => Before(b, i)
          BY <3>1, <3>3
        <4> QED BY <1>2, <3>1, <4>1 DEF BestIn
      <3>4. CASE ~Before(b, x)
        <4>1. \A i \in T : i # x => Before(x, i)
          <5> TAKE i \in T
          <5> DEFINE s == Scores[Venues[i]]  r == Scores[Venues[x]]  q == Scores[Venues[b]]
          <5>1. s \in Nat /\ r \in Nat /\ q \in Nat /\ i \in Nat /\ x \in Nat /\ b \in Nat /\ b # x
            BY <3>1, <3>2
          <5>2. ~(q > r) /\ ~(q = r /\ b < x)
            BY <3>4 DEF Before
          <5>3. i # x /\ i # b => q > s \/ (q = s /\ b < i)
            BY <3>1 DEF Before
          <5>4. i # x => r > s \/ (r = s /\ x < i)
            <6>1. i = b => q = s
              OBVIOUS
            <6> HIDE DEF s, r, q
            <6> QED BY <5>1, <5>2, <5>3, <6>1
          <5> QED BY <5>4 DEF Before
        <4> QED BY <1>2, <4>1 DEF BestIn
      <3> QED BY <3>3, <3>4
    <2> QED BY <2>2, <2>3
  <1>3. IsFiniteSet(S)
    BY PlacesFinite, FS_Subset
  <1> HIDE DEF C
  <1>4. SUBSET S \subseteq C
    BY <1>1, <1>2, <1>3, SubsetInduction
  <1> QED BY <1>4 DEF C

LEMMA RankingThere ==
  ASSUME NEW S \in SUBSET DOMAIN Venues
  PROVE  \E o : RankedBy(S, o)
  <1> DEFINE C == {T \in SUBSET S : \E o : RankedBy(T, o)}
  <1>0. IsFiniteSet(S)
    BY PlacesFinite, FS_Subset
  <1>1. {} \in C
    <2>1. Cardinality({}) = 0
      BY FS_EmptySet
    <2>2. 1 .. 0 = {}
      OBVIOUS
    <2> DEFINE none == [k \in {} |-> k]
    <2>3. none \in [{} -> {}] /\ DOMAIN none = {}
      OBVIOUS
    <2> HIDE DEF none
    <2>4. none \in SetToSeqs({})
      BY <2>1, <2>2, <2>3 DEF SetToSeqs
    <2>5. RankedBy({}, none)
      BY <2>3, <2>4 DEF RankedBy
    <2> QED BY <2>5
  <1>2. ASSUME NEW T \in SUBSET S, T # {}, \A x \in T : T \ {x} \in C PROVE T \in C
    <2>1. PICK b \in T : \A i \in T : i # b => Before(b, i)
      BY <1>2, BestThere DEF BestIn
    <2>2. PICK o : RankedBy(T \ {b}, o)
      BY <1>2, <2>1
    <2> DEFINE n == Cardinality(T \ {b})
               longer == [k \in 1 .. (n + 1) |-> IF k = 1 THEN b ELSE o[k - 1]]
    <2>3. n \in Nat /\ Cardinality(T) = n + 1
      <3>1. IsFiniteSet(T) /\ IsFiniteSet(T \ {b})
        BY <1>0, FS_Subset
      <3>2. n \in Nat /\ Cardinality(T) \in Nat
        BY <3>1, FS_CardinalityType
      <3>3. n = Cardinality(T) - 1
        BY <2>1, <3>1, FS_RemoveElement
      <3> HIDE DEF n
      <3> QED BY <3>2, <3>3
    <2>4. /\ o \in [1 .. n -> T \ {b}] /\ DOMAIN o = 1 .. n
          /\ \A i, j \in 1 .. n : i # j => o[i] # o[j]
          /\ \A j, k \in 1 .. n : j < k => Before(o[j], o[k])
      <3>1. o \in {f \in [1 .. n -> T \ {b}] : \A i, j \in 1 .. n : i # j => f[i] # f[j]}
        BY <2>2, Zenon DEF RankedBy, SetToSeqs
      <3> HIDE DEF n
      <3>2. DOMAIN o = 1 .. n
        BY <3>1
      <3> QED BY <2>2, <3>1, <3>2 DEF RankedBy
    <2> HIDE DEF n
    <2>5. \A k \in 1 .. (n + 1) : k = 1 \/ k - 1 \in 1 .. n
      BY <2>3
    <2>6. /\ DOMAIN longer = 1 .. (n + 1)
          /\ \A k \in 1 .. (n + 1) : longer[k] = IF k = 1 THEN b ELSE o[k - 1]
      OBVIOUS
    <2>7. \A k \in 1 .. (n + 1) : k # 1 => o[k - 1] \in T /\ o[k - 1] # b
      BY <2>4, <2>5
    <2>8. longer \in [1 .. (n + 1) -> T]
      BY <2>1, <2>7
    <2> HIDE DEF longer
    <2>9. \A i, j \in 1 .. (n + 1) : i # j => longer[i] # longer[j]
      <3> TAKE i, j \in 1 .. (n + 1)
      <3>1. CASE i = 1 \/ j = 1
        BY <2>6, <2>7, <3>1
      <3>2. CASE i # 1 /\ j # 1
        <4>1. i - 1 \in 1 .. n /\ j - 1 \in 1 .. n /\ (i # j => i - 1 # j - 1)
          BY <2>3, <2>5, <3>2
        <4>2. longer[i] = o[i - 1] /\ longer[j] = o[j - 1]
          BY <2>6, <3>2
        <4> QED BY <2>4, <4>1, <4>2
      <3> QED BY <3>1, <3>2
    <2>10. \A j, k \in 1 .. (n + 1) : j < k => Before(longer[j], longer[k])
      <3> SUFFICES ASSUME NEW j \in 1 .. (n + 1), NEW k \in 1 .. (n + 1), j < k
                   PROVE  Before(longer[j], longer[k])
        OBVIOUS
      <3>1. k # 1 /\ longer[k] = o[k - 1] /\ o[k - 1] \in T /\ o[k - 1] # b
        BY <2>3, <2>6, <2>7
      <3>2. CASE j = 1
        BY <2>1, <2>6, <3>1, <3>2
      <3>3. CASE j # 1
        <4>1. j - 1 \in 1 .. n /\ k - 1 \in 1 .. n /\ j - 1 < k - 1
          BY <2>3, <2>5, <3>1, <3>3
        <4>2. longer[j] = o[j - 1]
          BY <2>6, <3>3
        <4> QED BY <2>4, <3>1, <4>1, <4>2
      <3> QED BY <3>2, <3>3
    <2>11. longer \in SetToSeqs(T)
      BY <2>3, <2>8, <2>9, Zenon DEF SetToSeqs
    <2>12. RankedBy(T, longer)
      BY <2>6, <2>10, <2>11 DEF RankedBy
    <2> QED BY <2>12
  <1> HIDE DEF C
  <1>3. SUBSET S \subseteq C
    BY <1>0, <1>1, <1>2, SubsetInduction
  <1> QED BY <1>3 DEF C

\* A ranking is a sequence of venues, none of which scores more than the first.
LEMMA RankedType ==
  ASSUME NEW up
  PROVE  /\ Ranked(up) \in Seq(VenueSet) /\ Len(Ranked(up)) <= Len(Venues)
         /\ \A k \in DOMAIN Ranked(up) : Scores[Ranked(up)[k]] <= Scores[Ranked(up)[1]]
  <1> DEFINE S == {i \in DOMAIN Venues : Venues[i] \in up}
             n == Cardinality(S)
             order == CHOOSE o \in [1 .. n -> S] : \A j, k \in DOMAIN o : j < k => Before(o[j], o[k])
  <1>1. S \in SUBSET DOMAIN Venues
    OBVIOUS
  <1>4. Ranked(up) = [k \in DOMAIN order |-> Venues[order[k]]]
    BY Zenon DEF Ranked
  <1> HIDE DEF S
  <1>2. \E o \in [1 .. n -> S] : \A j, k \in DOMAIN o : j < k => Before(o[j], o[k])
    <2>1. PICK o \in SetToSeqs(S) : \A j, k \in DOMAIN o : j < k => Before(o[j], o[k])
      BY <1>1, RankingThere DEF RankedBy
    <2>2. o \in [1 .. n -> S]
      BY <2>1, Zenon DEF SetToSeqs
    <2> QED BY <2>1, <2>2, Zenon
  <1>3. order \in [1 .. n -> S] /\ \A j, k \in DOMAIN order : j < k => Before(order[j], order[k])
    BY <1>2, Zenon
  <1>5. order \in [1 .. n -> S]
    BY <1>3
  <1> HIDE DEF order
  <1>6. n \in Nat /\ n <= Len(Venues)
    <2>1. Len(Venues) \in Nat /\ DOMAIN Venues = 1 .. Len(Venues)
      BY RoutingAssumption
    <2>2. Cardinality(1 .. Len(Venues)) = Len(Venues) /\ IsFiniteSet(1 .. Len(Venues))
      <3>1. 1 \in Int /\ Len(Venues) \in Int
        BY <2>1
      <3>2. Cardinality(1 .. Len(Venues)) = IF 1 > Len(Venues) THEN 0 ELSE Len(Venues) - 1 + 1
        BY <3>1, FS_Interval
      <3> QED BY <2>1, <3>2, FiniteDomain
    <2> QED BY <1>1, <2>1, <2>2, FS_Subset, FS_CardinalityType
  <1> HIDE DEF n
  <1>7. DOMAIN order = 1 .. n /\ \A k \in DOMAIN order : order[k] \in DOMAIN Venues
    BY <1>1, <1>5
  <1>8. \A k \in 1 .. n : /\ Ranked(up)[k] = Venues[order[k]] /\ Ranked(up)[k] \in VenueSet
                          /\ Scores[Venues[order[k]]] \in Nat
    BY <1>4, <1>7, ScoreType
  <1>9. Ranked(up) \in Seq(VenueSet) /\ Len(Ranked(up)) = n /\ DOMAIN Ranked(up) = 1 .. n
    BY <1>4, <1>6, <1>7, <1>8
  <1>10. \A k \in 1 .. n : Scores[Ranked(up)[k]] <= Scores[Ranked(up)[1]]
    <2> SUFFICES ASSUME NEW k \in 1 .. n PROVE Scores[Ranked(up)[k]] <= Scores[Ranked(up)[1]]
      OBVIOUS
    <2>1. 1 \in 1 .. n
      BY <1>6
    <2>2. CASE k = 1
      BY <1>8, <2>1, <2>2
    <2>3. CASE k # 1
      <3>1. Before(order[1], order[k])
        BY <1>3, <1>7, <2>1, <2>3
      <3>2. Scores[Venues[order[1]]] >= Scores[Venues[order[k]]]
        BY <1>8, <2>1, <3>1 DEF Before
      <3> QED BY <1>8, <2>1, <3>2
    <2> QED BY <2>2, <2>3
  <1> QED BY <1>6, <1>9, <1>10

\* The best venue, or the default, is one of them.
LEMMA SelectBrokerType == ASSUME NEW up PROVE SelectBroker(up) \in VenueSet
  <1>1. Ranked(up) # <<>> => Ranked(up)[1] \in VenueSet
    BY RankedType
  <1>2. Venues[1] \in VenueSet
    BY ScoreType, PlacesFinite
  <1> QED BY <1>1, <1>2 DEF SelectBroker

\* Sums of one and two terms.
LEMMA SumOne ==
  ASSUME NEW f, DOMAIN f = 1 .. 1, f[1] \in Int
  PROVE  SumFunction(f) = f[1]
  <1> DEFINE none == [i \in 1 .. 0 |-> 0]
  <1>1. DOMAIN none = {} /\ DOMAIN none = 1 .. 0 /\ \A i \in 1 .. 0 : none[i] \in Int /\ f[i] = none[i]
    OBVIOUS
  <1> HIDE DEF none
  <1>2. SumFunction(none) = 0
    BY <1>1, SumIsZero, FS_EmptySet
  <1>3. 0 \in Nat /\ 0 + 1 = 1
    OBVIOUS
  <1>4. SumFunction(f) = SumFunction(none) + f[0 + 1]
    BY <1>1, <1>3, SumAppend
  <1> QED BY <1>2, <1>3, <1>4

\* A split that places the order it is for.
PlacesAll(shares, quantity) ==
  /\ Placed(shares) = quantity * Grain
  /\ \A k \in DOMAIN shares : shares[k].quantity > 0

LEMMA GrainType == Grain \in Nat \ {0} /\ Grain >= Len(Venues) /\ Len(Venues) \in Nat
  BY RoutingAssumption

LEMMA PlacesWhole ==
  ASSUME NEW venue, NEW quantity \in Nat \ {0}
  PROVE  PlacesAll(To(venue, quantity), quantity)
  <1> DEFINE shares == To(venue, quantity)
             of == [k \in DOMAIN shares |-> shares[k].quantity]
             whole == quantity * Grain
  <1>1. whole \in Int /\ whole > 0
    BY GrainType
  <1> HIDE DEF whole
  <1>2. shares = <<[venue |-> venue, quantity |-> whole]>>
    BY DEF To, whole
  <1>3. DOMAIN shares = 1 .. 1 /\ shares[1].quantity = whole /\ \A k \in 1 .. 1 : k = 1
    BY <1>2
  <1>4. DOMAIN of = 1 .. 1 /\ of[1] = whole
    BY <1>3
  <1>5. Placed(shares) = SumFunction(of)
    BY DEF Placed
  <1> HIDE DEF of
  <1>6. Placed(shares) = whole
    BY <1>1, <1>4, <1>5, SumOne
  <1> HIDE DEF shares
  <1>7. PlacesAll(shares, quantity)
    BY <1>1, <1>3, <1>6 DEF PlacesAll, whole
  <1> QED BY <1>7 DEF shares

\* A part of a whole that is split by a score is at most the whole.
LEMMA PartOfWhole ==
  ASSUME NEW whole \in Nat, NEW score \in Nat, NEW total \in Nat \ {0}, score <= total
  PROVE  (whole * score) \div total \in 0 .. whole
  <1> DEFINE part == whole * score
  <1>1. part \in Nat /\ part <= whole * total /\ whole * total \in Nat
    OBVIOUS
  <1> DEFINE most == whole * total  q == part \div total
  <1> HIDE DEF part
  <1>2. q \in Nat /\ total * q <= part
    BY <1>1
  <1> HIDE DEF q
  <1>3. total * q <= whole * total
    <2>1. total * q \in Int
      BY <1>2
    <2> HIDE DEF most
    <2> QED BY <1>1, <1>2, <2>1
  <1>4. q <= whole
    <2> SUFFICES ASSUME q >= whole + 1 PROVE FALSE
      BY <1>2
    <2>1. total * q >= total * (whole + 1)
      BY <1>2
    <2>2. total * (whole + 1) = whole * total + total
      OBVIOUS
    <2>3. total * q \in Int /\ whole * total \in Int /\ total > 0
      BY <1>2
    <2> DEFINE x == total * q  y == whole * total
    <2> HIDE DEF x, y
    <2>4. x >= y + total /\ x <= y /\ x \in Int /\ y \in Int
      BY <1>3, <2>1, <2>2, <2>3 DEF x, y
    <2> QED BY <2>3, <2>4
  <1> QED BY <1>2, <1>4 DEF q, part

LEMMA LeastBounds ==
  ASSUME NEW a \in Nat, NEW b \in Nat PROVE Least(a, b) \in 0 .. a
  BY DEF Least

\* The best venues a split may use are the first of the ranking.
LEMMA BestType ==
  ASSUME NEW up, NEW most \in Nat
  PROVE  /\ Best(up, most) \in Seq(VenueSet) /\ Len(Best(up, most)) <= Len(Venues)
         /\ Len(Best(up, most)) = Least(most, Len(Ranked(up)))
         /\ \A k \in DOMAIN Best(up, most) : Best(up, most)[k] = Ranked(up)[k]
         /\ \A k \in DOMAIN Best(up, most) :
              Scores[Best(up, most)[k]] <= Scores[Ranked(up)[1]]
  <1> DEFINE r == Ranked(up)
             n == Len(r)
             k == Least(most, n)
             b == SubSeq(r, 1, k)
  <1>1. r \in Seq(VenueSet) /\ n \in Nat /\ n <= Len(Venues)
        /\ \A i \in DOMAIN r : Scores[r[i]] <= Scores[r[1]]
    <2>1. r \in Seq(VenueSet) /\ n <= Len(Venues) /\ \A i \in DOMAIN r : Scores[r[i]] <= Scores[r[1]]
      BY RankedType
    <2> HIDE DEF r
    <2>2. n \in Nat
      BY <2>1
    <2> QED BY <2>1, <2>2
  <1>2. Best(up, most) = b
    BY DEF Best
  <1> HIDE DEF r
  <1>3. k \in 0 .. n
    <2> HIDE DEF n
    <2> QED BY <1>1 DEF Least
  <1>4. Least(most, Len(r)) = k
    OBVIOUS
  <1> HIDE DEF k
  <1>5. b \in Seq(VenueSet) /\ Len(b) = k /\ DOMAIN b = 1 .. k /\ \A i \in 1 .. k : b[i] = r[i]
    BY <1>1, <1>3
  <1>6. \A i \in 1 .. k : i \in DOMAIN r
    BY <1>1, <1>3
  <1>7. k <= Len(Venues)
    BY <1>1, <1>3, GrainType
  <1> HIDE DEF b
  <1>8. \A i \in DOMAIN b : b[i] = r[i] /\ Scores[b[i]] <= Scores[r[1]]
    BY <1>1, <1>5, <1>6
  <1> QED BY <1>2, <1>4, <1>5, <1>7, <1>8 DEF r

\* What the ranking's scores add up to is no less than each, and no more than as many
\* times the highest.
LEMMA TotalOfScores ==
  ASSUME NEW ranking \in Seq(VenueSet)
  PROVE  /\ ScoreTotal(ranking) \in Nat
         /\ \A i \in DOMAIN ranking : Scores[ranking[i]] \in 0 .. ScoreTotal(ranking)
         /\ \A top \in Nat : (\A i \in DOMAIN ranking : Scores[ranking[i]] <= top)
                               => ScoreTotal(ranking) <= Len(ranking) * top
  <1> DEFINE of == [i \in DOMAIN ranking |-> Scores[ranking[i]]]
             n == Len(ranking)
             none == [i \in 1 .. n |-> 0]
  <1>1. n \in Nat /\ DOMAIN of = 1 .. n /\ DOMAIN ranking = 1 .. n
        /\ \A i \in 1 .. n : of[i] = Scores[ranking[i]] /\ ranking[i] \in VenueSet
    OBVIOUS
  <1>2. \A i \in 1 .. n : of[i] \in Nat
    BY <1>1, RoutingAssumption
  <1>3. ScoreTotal(ranking) = SumFunction(of) /\ SumFunction(of) = SumFunctionOnSet(of, 1 .. n)
    BY <1>1, Zenon DEF ScoreTotal, SumFunction
  <1>4. \A i \in 1 .. n : none[i] = 0 /\ none[i] \in Int
    OBVIOUS
  <1>5. IsFiniteSet(1 .. n)
    BY <1>1, FiniteDomain
  <1> HIDE DEF of, none, n
  <1>6. SumFunction(of) \in Nat
    BY <1>1, <1>2, <1>5, SumIsNat
  <1>7. \A i \in 1 .. n : of[i] \in 0 .. SumFunction(of)
    <2> SUFFICES ASSUME NEW i \in 1 .. n PROVE of[i] \in 0 .. SumFunction(of)
      OBVIOUS
    <2> DEFINE T == (1 .. n) \ {i}
    <2>1. \A j \in 1 .. n : of[j] \in Int /\ of[j] >= 0
      BY <1>2
    <2>2. SumFunctionOnSet(of, 1 .. n) = of[i] + SumFunctionOnSet(of, T)
      <3> DEFINE S == 1 .. n
      <3>1. IsFiniteSet(S) /\ i \in S /\ \A j \in S : of[j] \in Int
        BY <1>5, <2>1
      <3> HIDE DEF S
      <3>2. \A z \in S : SumFunctionOnSet(of, S) = of[z] + SumFunctionOnSet(of, S \ {z})
        BY <3>1, SumRemove, Zenon
      <3> QED BY <3>1, <3>2, Zenon DEF S
    <2>3. IsFiniteSet(T) /\ T \subseteq 1 .. n
      BY <1>5, FS_Subset
    <2> HIDE DEF T
    <2>4. SumFunctionOnSet(none, T) = 0
      BY <1>4, <2>3, SumZero
    <2>5. \A j \in T : none[j] \in Int /\ of[j] \in Int /\ none[j] <= of[j]
      BY <1>4, <2>1, <2>3
    <2>6. SumFunctionOnSet(none, T) <= SumFunctionOnSet(of, T)
      BY <2>3, <2>5, SumLeq
    <2>7. SumFunctionOnSet(of, T) \in Int
      BY <1>5, <2>1, <2>3, SumInt
    <2> QED BY <1>2, <1>3, <1>6, <2>2, <2>4, <2>6, <2>7
  <1>8. ASSUME NEW top \in Nat, \A i \in DOMAIN ranking : Scores[ranking[i]] <= top
        PROVE  SumFunction(of) <= n * top
    <2> DEFINE g == [i \in 1 .. n |-> top]
    <2>0. top \in Nat /\ top \in Int /\ \A i \in 1 .. n : of[i] <= top
      BY <1>1, <1>8
    <2>1. \A i \in 1 .. n : g[i] = top /\ g[i] \in Int /\ of[i] \in Int /\ of[i] <= g[i]
      BY <1>2, <2>0
    <2>2. Total(g) = n * top
      BY <1>1, <2>0, TotalConstant
    <2>3. SumFunction(g) = SumFunctionOnSet(g, 1 .. n)
      BY Zenon DEF SumFunction
    <2> HIDE DEF g
    <2>4. SumFunctionOnSet(of, 1 .. n) <= SumFunctionOnSet(g, 1 .. n)
      BY <1>5, <2>1, SumLeq
    <2> QED BY <1>3, <2>2, <2>3, <2>4 DEF Total
  <1>9. \A top \in Nat : (\A i \in DOMAIN ranking : Scores[ranking[i]] <= top)
                           => SumFunction(of) <= n * top
    BY <1>8
  <1> QED BY <1>1, <1>3, <1>6, <1>7, <1>9 DEF n

\* The loop, as the recursive function it is.
ShareTotal(ranking) == IF ScoreTotal(ranking) = 0 THEN 1 ELSE ScoreTotal(ranking)
Share(ranking, whole, most, k, prev) ==
  Least(((whole - prev) * Scores[ranking[k]]) \div ShareTotal(ranking), most)
Looping(ranking, whole, most, n, a) ==
  a = [k \in 0 .. n |-> IF k = 0 THEN 0 ELSE a[k - 1] + Share(ranking, whole, most, k, a[k - 1])]

LEMMA LoopingExists ==
  ASSUME NEW ranking, NEW whole, NEW most
  PROVE  \A n \in Nat : \E a : Looping(ranking, whole, most, n, a)
  <1> DEFINE Step(k, prev) == prev + Share(ranking, whole, most, k, prev)
             Upto(n, a) == a = [k \in 0 .. n |-> IF k = 0 THEN 0 ELSE Step(k, a[k - 1])]
             C == {n \in Nat : \E a : Upto(n, a)}
  <1> HIDE DEF Step
  <1>1. 0 \in C
    <2> DEFINE a == [k \in 0 .. 0 |-> 0]
    <2>1. \A k \in 0 .. 0 : k = 0
      OBVIOUS
    <2>2. Upto(0, a)
      BY <2>1
    <2> QED BY <2>2
  <1>2. ASSUME NEW n \in Nat, n \in C PROVE n + 1 \in C
    <2>1. PICK a : Upto(n, a)
      BY <1>2
    <2> DEFINE b == [k \in 0 .. n + 1 |-> IF k = n + 1 THEN Step(n + 1, a[n]) ELSE a[k]]
    <2>2. \A k \in 0 .. n : a[k] = IF k = 0 THEN 0 ELSE Step(k, a[k - 1])
      BY <2>1
    <2>3. \A k \in 0 .. n + 1 : k = n + 1 \/ k \in 0 .. n
      OBVIOUS
    <2>4. \A k \in 0 .. n + 1 : b[k] = IF k = 0 THEN 0 ELSE Step(k, b[k - 1])
      <3> SUFFICES ASSUME NEW k \in 0 .. n + 1
                   PROVE  b[k] = IF k = 0 THEN 0 ELSE Step(k, b[k - 1])
        OBVIOUS
      <3>1. CASE k = n + 1
        <4>1. k - 1 = n /\ n \in 0 .. n + 1 /\ n # n + 1 /\ k # 0
          BY <3>1
        <4>2. b[k] = Step(n + 1, a[n]) /\ b[k - 1] = a[n]
          BY <3>1, <4>1
        <4> QED BY <3>1, <4>1, <4>2
      <3>2. CASE k # n + 1
        <4>1. k \in 0 .. n /\ b[k] = a[k]
          BY <2>3, <3>2
        <4>2. k # 0 => k - 1 \in 0 .. n + 1 /\ k - 1 # n + 1
          BY <4>1
        <4>3. k # 0 => b[k - 1] = a[k - 1]
          BY <4>2
        <4>4. a[k] = IF k = 0 THEN 0 ELSE Step(k, a[k - 1])
          BY <2>2, <4>1
        <4> HIDE DEF b
        <4> QED BY <4>1, <4>3, <4>4
      <3> QED BY <3>1, <3>2
    <2>5. DOMAIN b = 0 .. n + 1 /\ b = [k \in 0 .. n + 1 |-> b[k]]
      OBVIOUS
    <2> HIDE DEF b
    <2>6. Upto(n + 1, b)
      BY <2>4, <2>5
    <2> QED BY <2>6
  <1> HIDE DEF C
  <1>3. Nat \subseteq C
    BY <1>1, <1>2, NatSetInduction
  <1>4. \A n \in Nat : \E a : Upto(n, a)
    BY <1>3 DEF C
  <1> QED BY <1>4, Zenon DEF Looping, Step

LEMMA ShareType ==
  ASSUME NEW ranking \in Seq(VenueSet), NEW whole \in Nat, NEW most \in Nat,
         NEW k \in DOMAIN ranking, NEW prev \in 0 .. whole
  PROVE  Share(ranking, whole, most, k, prev) \in 0 .. (whole - prev)
  <1> DEFINE left == whole - prev
             score == Scores[ranking[k]]
             total == ShareTotal(ranking)
             part == (left * score) \div total
  <1>1. left \in Nat /\ total \in Nat \ {0} /\ score \in Nat /\ score <= total
    <2>1. ScoreTotal(ranking) \in Nat /\ score \in 0 .. ScoreTotal(ranking)
      BY TotalOfScores
    <2> QED BY <2>1 DEF ShareTotal
  <1>2. Share(ranking, whole, most, k, prev) = Least(part, most)
    BY DEF Share
  <1> HIDE DEF left, score, total
  <1>3. part \in 0 .. left
    BY <1>1, PartOfWhole
  <1> HIDE DEF part
  <1>4. part \in Nat
    BY <1>1, <1>3
  <1>5. Least(part, most) \in 0 .. part
    BY <1>4, LeastBounds
  <1>6. Least(part, most) \in 0 .. left
    BY <1>1, <1>3, <1>5
  <1> QED BY <1>2, <1>6 DEF left

\* After each venue as much is placed as after the one before it or more, and never
\* more than the order.
LEMMA AllocatedSound ==
  ASSUME NEW ranking \in Seq(VenueSet), NEW quantity \in Nat, NEW maxSlice \in Nat
  PROVE  LET allocated == Allocated(ranking, quantity, maxSlice)
             whole == quantity * Grain
             most == maxSlice * Grain
         IN /\ allocated[0] = 0
            /\ \A k \in 0 .. Len(ranking) : allocated[k] \in 0 .. whole
            /\ \A k \in DOMAIN ranking : /\ k \in Nat \ {0} /\ k - 1 \in 0 .. Len(ranking)
                                         /\ k \in 0 .. Len(ranking)
                                         /\ allocated[k] >= allocated[k - 1]
                                         /\ allocated[k] = allocated[k - 1]
                                              + Share(ranking, whole, most, k, allocated[k - 1])
  <1> DEFINE n == Len(ranking)
             whole == quantity * Grain
             most == maxSlice * Grain
             a == Allocated(ranking, quantity, maxSlice)
             total == ShareTotal(ranking)
             C == {m \in Nat : m <= n => a[m] \in 0 .. whole}
  <1>1. n \in Nat /\ DOMAIN ranking = 1 .. n /\ whole \in Nat /\ most \in Nat
    BY GrainType
  <1>2. total \in Nat \ {0} /\ \A i \in 1 .. n : Scores[ranking[i]] \in 0 .. total
    BY <1>1, TotalOfScores DEF ShareTotal
  <1>3. a = CHOOSE f : Looping(ranking, whole, most, n, f)
    BY Zenon DEF Allocated, Looping, Share, ShareTotal
  <1> HIDE DEF n, whole, most, a, total
  <1>4. Looping(ranking, whole, most, n, a)
    <2>1. \E f : Looping(ranking, whole, most, n, f)
      BY <1>1, LoopingExists, Zenon
    <2> QED BY <1>3, <2>1, Zenon
  <1> DEFINE S(k, prev) == Share(ranking, whole, most, k, prev)
  <1> HIDE DEF S
  <1>5. a = [k \in 0 .. n |-> IF k = 0 THEN 0 ELSE a[k - 1] + S(k, a[k - 1])]
    BY <1>4, Zenon DEF Looping, S
  <1>6. 0 \in 0 .. n /\ \A k \in 1 .. n : k \in 0 .. n /\ k - 1 \in 0 .. n /\ k \in Nat \ {0}
    BY <1>1
  <1>7. a[0] = 0 /\ \A k \in 1 .. n : a[k] = a[k - 1] + S(k, a[k - 1])
    <2>1. \A k \in 0 .. n : a[k] = IF k = 0 THEN 0 ELSE a[k - 1] + S(k, a[k - 1])
      BY <1>5, Zenon
    <2>2. \A k \in 1 .. n : k \in 0 .. n /\ k # 0
      BY <1>6
    <2> QED BY <1>6, <2>1, <2>2
  <1>8. ASSUME NEW k \in 1 .. n, NEW prev \in 0 .. whole
        PROVE  S(k, prev) \in 0 .. (whole - prev)
    BY <1>1, <1>8, ShareType DEF S
  <1>9. 0 \in C
    BY <1>1, <1>7
  <1>10. ASSUME NEW m \in Nat, m \in C PROVE m + 1 \in C
    <2> SUFFICES ASSUME m + 1 <= n PROVE a[m + 1] \in 0 .. whole
      OBVIOUS
    <2>1. m + 1 \in 1 .. n /\ a[m] \in 0 .. whole /\ m + 1 - 1 = m
      BY <1>1, <1>10
    <2>2. a[m + 1] = a[m] + S(m + 1, a[m])
      BY <1>7, <2>1
    <2>3. S(m + 1, a[m]) \in 0 .. (whole - a[m])
      BY <1>8, <2>1
    <2> DEFINE x == S(m + 1, a[m])  y == a[m]
    <2>4. y \in 0 .. whole /\ x \in 0 .. (whole - y) /\ a[m + 1] = y + x
      BY <2>1, <2>2, <2>3
    <2> HIDE DEF x, y
    <2> QED BY <1>1, <2>4
  <1> HIDE DEF C
  <1>11. Nat \subseteq C
    BY <1>9, <1>10, NatSetInduction
  <1>12. \A k \in 0 .. n : a[k] \in 0 .. whole
    BY <1>1, <1>11 DEF C
  <1>13. \A k \in 1 .. n : a[k] >= a[k - 1]
    <2> SUFFICES ASSUME NEW k \in 1 .. n PROVE a[k] >= a[k - 1]
      OBVIOUS
    <2> DEFINE y == a[k - 1]  x == S(k, y)
    <2>1. y \in 0 .. whole /\ a[k] = y + x
      BY <1>6, <1>7, <1>12
    <2>2. x \in 0 .. (whole - y)
      BY <1>8, <2>1
    <2> HIDE DEF x, y
    <2>3. a[k] >= y
      BY <1>1, <2>1, <2>2
    <2> QED BY <2>3 DEF y
  <1>14. \A k \in DOMAIN ranking : a[k] = a[k - 1] + Share(ranking, whole, most, k, a[k - 1])
    BY <1>1, <1>7, Zenon DEF S
  <1> QED BY <1>1, <1>6, <1>7, <1>12, <1>13, <1>14 DEF n, a, whole, most

\* Its first part: the best venue is given something just when it may be.
LEMMA FirstShare ==
  ASSUME NEW ranking \in Seq(VenueSet), Len(ranking) <= Len(Venues), ranking # <<>>,
         NEW quantity \in Nat \ {0}, NEW maxSlice \in Nat \ {0}, Scores[ranking[1]] > 0,
         \A k \in DOMAIN ranking : Scores[ranking[k]] <= Scores[ranking[1]]
  PROVE  Share(ranking, quantity * Grain, maxSlice * Grain, 1, 0) > 0
  <1> DEFINE n == Len(ranking)
             s == Scores[ranking[1]]
             total == ShareTotal(ranking)
             whole == quantity * Grain
             most == maxSlice * Grain
             x == whole * s
  <1>1. n \in Nat \ {0} /\ n <= Grain /\ Grain \in Nat /\ ranking[1] \in VenueSet
    BY GrainType
  <1>2. s \in Nat \ {0}
    BY <1>1, RoutingAssumption
  <1>3. total \in Nat \ {0} /\ total <= n * s
    <2>1. ScoreTotal(ranking) \in Nat /\ ScoreTotal(ranking) <= n * s
      BY <1>2, TotalOfScores
    <2> HIDE DEF s, n
    <2>2. n * s >= 1
      BY <1>1, <1>2
    <2> DEFINE y == n * s
    <2> HIDE DEF y
    <2> QED BY <2>1, <2>2 DEF ShareTotal, y
  <1>4. whole \in Nat /\ whole >= Grain /\ most \in Nat /\ most > 0 /\ whole - 0 = whole
    BY GrainType
  <1>5. Share(ranking, whole, most, 1, 0) = Least(x \div total, most)
    <2>1. whole - 0 = whole
      BY <1>4
    <2> HIDE DEF whole, most
    <2> QED BY <2>1 DEF Share
  <1> HIDE DEF n, s, total, whole, most
  <1>6. n * s <= Grain * s /\ Grain * s <= whole * s /\ n * s \in Int /\ Grain * s \in Int
        /\ x \in Nat
    BY <1>1, <1>2, <1>4
  <1>7. x >= total
    <2> DEFINE y == n * s  z == Grain * s
    <2>1. total <= y /\ y <= z /\ z <= x /\ y \in Int /\ z \in Int
      BY <1>3, <1>6
    <2> HIDE DEF x, y, z
    <2> QED BY <1>3, <1>6, <2>1
  <1> HIDE DEF x
  <1>8. x \div total \in Nat /\ x \div total >= 1
    BY <1>3, <1>6, <1>7
  <1>9. Least(x \div total, most) > 0
    <2> DEFINE q == x \div total
    <2> HIDE DEF q
    <2>1. q \in Nat /\ q >= 1
      BY <1>8 DEF q
    <2>2. Least(q, most) > 0
      BY <1>4, <2>1 DEF Least
    <2> QED BY <2>2 DEF q
  <1> QED BY <1>5, <1>9 DEF whole, most

\* What the first differences of the loop come to.
LEMMA Telescoped ==
  ASSUME NEW n \in Nat, NEW a, a[0] = 0, \A k \in 0 .. n : a[k] \in Int
  PROVE  SumFunction([k \in 1 .. n |-> a[k] - a[k - 1]]) = a[n]
  <1> DEFINE Gap(m) == [k \in 1 .. m |-> a[k] - a[k - 1]]
             C == {m \in Nat : m <= n => SumFunction(Gap(m)) = a[m]}
  <1>1. 0 \in C
    <2>1. DOMAIN Gap(0) = {} /\ \A k \in DOMAIN Gap(0) : Gap(0)[k] = 0
      OBVIOUS
    <2> HIDE DEF Gap
    <2>2. SumFunction(Gap(0)) = 0
      BY <2>1, SumIsZero, FS_EmptySet
    <2> QED BY <2>2
  <1>2. ASSUME NEW m \in Nat, m \in C PROVE m + 1 \in C
    <2> SUFFICES ASSUME m + 1 <= n PROVE SumFunction(Gap(m + 1)) = a[m + 1]
      OBVIOUS
    <2>1. SumFunction(Gap(m)) = a[m]
      BY <1>2
    <2>2. \A k \in 1 .. m + 1 : k \in 0 .. n /\ k - 1 \in 0 .. n
      OBVIOUS
    <2>3. \A k \in 1 .. m + 1 : a[k] - a[k - 1] \in Int
      BY <2>2
    <2>4. /\ DOMAIN Gap(m) = 1 .. m /\ DOMAIN Gap(m + 1) = 1 .. (m + 1)
          /\ \A k \in 1 .. m : Gap(m)[k] = a[k] - a[k - 1] /\ Gap(m + 1)[k] = Gap(m)[k]
          /\ Gap(m + 1)[m + 1] = a[m + 1] - a[m]
      OBVIOUS
    <2> DEFINE f == Gap(m)  g == Gap(m + 1)
    <2> HIDE DEF f, g, Gap
    <2>5. SumFunction(g) = SumFunction(f) + g[m + 1]
      <3>1. \A k \in 1 .. m : f[k] \in Int /\ g[k] = f[k]
        BY <2>3, <2>4 DEF f, g
      <3>2. g[m + 1] \in Int /\ DOMAIN f = 1 .. m /\ DOMAIN g = 1 .. (m + 1)
        BY <2>2, <2>4 DEF f, g
      <3> QED BY <3>1, <3>2, SumAppend
    <2>6. a[m] \in Int /\ a[m + 1] \in Int
      OBVIOUS
    <2> QED BY <2>1, <2>4, <2>5, <2>6 DEF f, g
  <1> HIDE DEF C
  <1>3. Nat \subseteq C
    BY <1>1, <1>2, NatSetInduction
  <1> QED BY <1>3 DEF C

\* The first of the venues given anything takes the rest: nothing is lost.
LEMMA RestIsPlaced ==
  ASSUME NEW ranking \in Seq(VenueSet), NEW a, NEW whole \in Nat, a[0] = 0,
         \A k \in 0 .. Len(ranking) : a[k] \in 0 .. whole,
         \A k \in DOMAIN ranking : a[k] >= a[k - 1],
         NEW first \in DOMAIN ranking, a[first] > a[first - 1]
  PROVE  LET shares == Allocations(ranking, a, whole - a[Len(ranking)]) IN
         /\ Placed(shares) = whole
         /\ \A k \in DOMAIN shares : shares[k].quantity > 0
  <1> DEFINE n == Len(ranking)
             D == 1 .. n
             rest == whole - a[n]
             taking == {k \in DOMAIN ranking : a[k] - a[k - 1] > 0}
             m == Min(taking)
             Given(k) == (a[k] - a[k - 1]) + IF k = m THEN rest ELSE 0
             shares == Allocations(ranking, a, rest)
             f == [k \in D |-> a[k] - a[k - 1]]
             g == [k \in D |-> Given(k)]
             of == [k \in DOMAIN shares |-> shares[k].quantity]
  <1>1. n \in Nat /\ DOMAIN ranking = D /\ \A k \in D : k \in 0 .. n /\ k - 1 \in 0 .. n
    OBVIOUS
  <1>2. \A k \in 0 .. n : a[k] \in Int
    OBVIOUS
  <1>3. \A k \in D : a[k] - a[k - 1] \in Int /\ a[k] - a[k - 1] >= 0
    <2> SUFFICES ASSUME NEW k \in D PROVE a[k] - a[k - 1] \in Int /\ a[k] - a[k - 1] >= 0
      OBVIOUS
    <2>1. a[k] \in Int /\ a[k - 1] \in Int /\ a[k] >= a[k - 1]
      BY <1>1, <1>2
    <2> QED BY <2>1
  <1>4. rest \in Int /\ rest >= 0 /\ a[n] \in Int /\ a[n] + rest = whole
    <2>1. a[n] \in 0 .. whole
      BY <1>1
    <2> QED BY <2>1
  <1>5. m \in taking /\ taking \subseteq D
    <2>1. first \in taking
      <3>1. a[first] \in Int /\ a[first - 1] \in Int
        BY <1>1, <1>2
      <3> QED BY <3>1
    <2>2. taking \subseteq D /\ taking \subseteq Nat
      BY <1>1
    <2> HIDE DEF taking
    <2>3. \E x \in taking : \A y \in taking : x <= y
      BY <2>1, <2>2, LeastNumber
    <2>4. m = CHOOSE x \in taking : \A y \in taking : x <= y
      BY DEF Min
    <2> HIDE DEF m
    <2> QED BY <2>2, <2>3, <2>4
  <1>6. shares = [k \in taking |-> [venue |-> ranking[k], quantity |-> Given(k)]]
    BY Zenon DEF Allocations
  <1>7. \A k \in D : Given(k) \in Int /\ (k \in taking => Given(k) > 0) /\ (k \notin taking => Given(k) = 0)
    <2> SUFFICES ASSUME NEW k \in D
                 PROVE  Given(k) \in Int /\ (k \in taking => Given(k) > 0)
                        /\ (k \notin taking => Given(k) = 0)
      OBVIOUS
    <2> DEFINE d == a[k] - a[k - 1]
    <2>1. d \in Int /\ d >= 0
      BY <1>3
    <2>2. (k \in taking <=> d > 0) /\ (k = m => k \in taking)
      BY <1>1, <1>5
    <2>3. Given(k) = d + IF k = m THEN rest ELSE 0
      OBVIOUS
    <2> HIDE DEF d, Given, rest, taking, m
    <2>4. CASE k = m
      BY <1>4, <2>1, <2>2, <2>3, <2>4
    <2>5. CASE k # m
      BY <2>1, <2>2, <2>3, <2>5
    <2> QED BY <2>4, <2>5
  <1>8. /\ DOMAIN f = D /\ DOMAIN g = D
        /\ \A k \in D : f[k] \in Int /\ f[k] = a[k] - a[k - 1] /\ g[k] = Given(k)
        /\ \A k \in D : k # m => g[k] = f[k]
        /\ g[m] = f[m] + rest
    <2>1. m \in D
      BY <1>5
    <2>2. \A k \in D : k # m => Given(k) = a[k] - a[k - 1] + 0
      OBVIOUS
    <2>3. Given(m) = (a[m] - a[m - 1]) + rest
      OBVIOUS
    <2>4. \A k \in D : f[k] = a[k] - a[k - 1] /\ g[k] = Given(k)
      OBVIOUS
    <2>5. \A k \in D : k # m => g[k] = f[k]
      BY <1>3, <2>2, <2>4
    <2> HIDE DEF Given
    <2> QED BY <1>3, <2>1, <2>3, <2>4, <2>5
  <1>9. SumFunction(f) = a[n]
    BY <1>1, <1>2, Telescoped
  <1>10. IsFiniteSet(D)
    BY <1>1, FiniteDomain
  <1> HIDE DEF f, g, D, taking, m, Given, rest, shares
  <1>11. SumFunction(g) = whole
    <2>1. m \in DOMAIN f /\ DOMAIN g = DOMAIN f /\ IsFiniteSet(DOMAIN f)
      BY <1>5, <1>8, <1>10
    <2>2. \A k \in DOMAIN f : f[k] \in Int /\ g[k] \in Int /\ (k # m => f[k] = g[k])
      BY <1>7, <1>8
    <2>3. SumFunction(g) = SumFunction(f) - f[m] + g[m]
      BY <2>1, <2>2, SumExcept
    <2>4. f[m] \in Int
      BY <2>1, <2>2
    <2> QED BY <1>4, <1>8, <1>9, <2>3, <2>4
  <1>12. DOMAIN shares = taking /\ \A k \in taking : shares[k].quantity = Given(k)
    BY <1>6
  <1>13. DOMAIN of = taking /\ \A k \in taking : of[k] = Given(k)
    BY <1>12
  <1>14. Placed(shares) = SumFunction(of)
    BY DEF Placed
  <1> HIDE DEF of
  <1>15. SumFunction(g) = SumFunction(of)
    <2>1. IsFiniteSet(DOMAIN g) /\ DOMAIN of \subseteq DOMAIN g
      BY <1>5, <1>8, <1>10, <1>13
    <2>2. \A k \in DOMAIN g : g[k] \in Int /\ g[k] = IF k \in DOMAIN of THEN of[k] ELSE 0
      BY <1>7, <1>8, <1>13
    <2> QED BY <2>1, <2>2, SumPart
  <1>16. \A k \in DOMAIN shares : shares[k].quantity > 0
    BY <1>5, <1>7, <1>12
  <1> QED BY <1>11, <1>14, <1>15, <1>16 DEF shares, rest, n

\* Both ways to split an order place it.
LEMMA CrossPlaces ==
  ASSUME NEW up, NEW quantity \in Nat \ {0}, NEW maxSlice \in Nat, NEW most \in Nat
  PROVE  LET shares == CrossExchange(up, quantity, maxSlice, most) IN
         IF Ranked(up) # <<>> /\ (maxSlice = 0 \/ most = 0 \/ Scores[Ranked(up)[1]] = 0)
         THEN DOMAIN shares = {} ELSE PlacesAll(shares, quantity)
  <1> DEFINE best == Ranked(up)
             ranking == Best(up, most)
             n == Len(ranking)
             whole == quantity * Grain
             slice == maxSlice * Grain
             a == Allocated(ranking, quantity, maxSlice)
             shares == Allocations(ranking, a, whole - a[n])
  <1>1. CASE best = <<>>
    <2>1. CrossExchange(up, quantity, maxSlice, most) = To(Venues[1], quantity)
      BY <1>1, Zenon DEF CrossExchange
    <2> QED BY <1>1, <2>1, PlacesWhole
  <1>2. CASE best # <<>>
    <2>1. CrossExchange(up, quantity, maxSlice, most) = shares
      BY <1>2, Zenon DEF CrossExchange
    <2>2. /\ ranking \in Seq(VenueSet) /\ n <= Len(Venues) /\ n = Least(most, Len(best))
          /\ \A k \in DOMAIN ranking : ranking[k] = best[k] /\ Scores[ranking[k]] <= Scores[best[1]]
      BY BestType
    <2>3. best \in Seq(VenueSet) /\ Len(best) \in Nat \ {0}
      <3>1. best \in Seq(VenueSet)
        BY RankedType
      <3> HIDE DEF best
      <3> QED BY <1>2, <3>1
    <2>4. whole \in Nat /\ slice \in Nat /\ (maxSlice = 0 => slice = 0)
      BY GrainType
    <2> HIDE DEF best, ranking
    <2>5. n \in Nat /\ DOMAIN ranking = 1 .. n
      BY <2>2
    <2>6. Scores[best[1]] \in Nat /\ \A k \in 1 .. n : Scores[ranking[k]] \in Nat
      <3>1. best[1] \in VenueSet /\ \A k \in 1 .. n : ranking[k] \in VenueSet
        BY <2>2, <2>3, <2>5
      <3> QED BY <3>1, RoutingAssumption
    <2>7. /\ a[0] = 0
          /\ \A k \in 0 .. n : a[k] \in 0 .. whole
          /\ \A k \in DOMAIN ranking : /\ k \in Nat \ {0} /\ k - 1 \in 0 .. n /\ k \in 0 .. n
                                       /\ a[k] >= a[k - 1]
                                       /\ a[k] = a[k - 1] + Share(ranking, whole, slice, k, a[k - 1])
      <3>1. quantity \in Nat /\ maxSlice \in Nat
        OBVIOUS
      <3>2. ranking \in Seq(VenueSet)
        BY <2>2
      <3> QED BY <3>1, <3>2, AllocatedSound, SMTT(30)
    <2> HIDE DEF a
    <2>8. CASE maxSlice = 0 \/ most = 0 \/ Scores[best[1]] = 0
      <3>1. \A k \in DOMAIN ranking : a[k] - a[k - 1] <= 0
        <4> SUFFICES ASSUME NEW k \in DOMAIN ranking PROVE a[k] - a[k - 1] <= 0
          OBVIOUS
        <4>1. n # 0 /\ k \in 1 .. n
          BY <2>5
        <4>2. most # 0
          BY <2>2, <2>3, <4>1 DEF Least
        <4> DEFINE x == a[k - 1]
                   score == Scores[ranking[k]]
                   total == ShareTotal(ranking)
                   part == ((whole - x) * score) \div total
        <4>3. x \in 0 .. whole /\ a[k] = x + Share(ranking, whole, slice, k, x)
          BY <2>7
        <4>4. Share(ranking, whole, slice, k, x) = Least(part, slice)
          BY DEF Share
        <4>5. total \in Nat \ {0} /\ score \in Nat /\ score <= total
          <5>1. ScoreTotal(ranking) \in Nat /\ score \in 0 .. ScoreTotal(ranking)
            BY <2>2, TotalOfScores
          <5> QED BY <5>1 DEF ShareTotal
        <4> DEFINE left == whole - x
        <4>6. left \in Nat
          BY <2>4, <4>3
        <4> HIDE DEF x, score, total, left
        <4>7. (left * score) \div total \in 0 .. left
          BY <4>5, <4>6, PartOfWhole
        <4>8. part = (left * score) \div total
          BY DEF left
        <4>9. score = 0 => part = 0
          <5> SUFFICES ASSUME score = 0 PROVE part = 0
            OBVIOUS
          <5>1. left * score = 0
            BY <4>6
          <5>2. 0 \div total = 0
            BY <4>5
          <5> QED BY <4>8, <5>1, <5>2
        <4>10. part \in Nat
          BY <4>6, <4>7, <4>8
        <4> HIDE DEF part
        <4>11. slice = 0 \/ part = 0
          <5>1. Scores[best[1]] = 0 => score = 0
            <6>1. Scores[ranking[k]] <= Scores[best[1]] /\ Scores[ranking[k]] \in Nat
              BY <2>2, <2>6, <4>1
            <6> QED BY <6>1 DEF score
          <5> QED BY <2>4, <2>8, <4>2, <4>9, <5>1
        <4>12. Least(part, slice) = 0
          BY <2>4, <4>10, <4>11 DEF Least
        <4>13. a[k] = x /\ x \in Int
          BY <2>4, <4>3, <4>4, <4>12
        <4> QED BY <4>13 DEF x
      <3>2. \A k \in DOMAIN ranking : a[k] - a[k - 1] \in Int
        <4> TAKE k \in DOMAIN ranking
        <4>1. a[k] \in 0 .. whole /\ a[k - 1] \in 0 .. whole
          BY <2>7
        <4> QED BY <2>4, <4>1
      <3>3. {k \in DOMAIN ranking : a[k] - a[k - 1] > 0} = {}
        BY <3>1, <3>2
      <3>4. DOMAIN shares = {k \in DOMAIN ranking : a[k] - a[k - 1] > 0}
        BY DEF Allocations
      <3> QED BY <1>2, <2>1, <2>8, <3>3, <3>4 DEF best
    <2>9. CASE maxSlice # 0 /\ most # 0 /\ Scores[best[1]] # 0
      <3>1. n # 0 /\ 1 \in DOMAIN ranking /\ ranking # <<>>
        <4>1. n # 0
          BY <2>2, <2>3, <2>9 DEF Least
        <4>2. ranking = <<>> => n = 0
          OBVIOUS
        <4> QED BY <2>5, <4>1, <4>2
      <3>2. ranking[1] = best[1]
        BY <2>2, <3>1
      <3>3. Scores[ranking[1]] > 0
        BY <2>6, <2>9, <3>2
      <3>4. Share(ranking, whole, slice, 1, 0) > 0
        BY <2>2, <2>9, <3>1, <3>2, <3>3, FirstShare
      <3>5. a[1] > a[1 - 1]
        <4>1. a[1] = a[1 - 1] + Share(ranking, whole, slice, 1, a[1 - 1]) /\ 1 - 1 = 0
          BY <2>7, <3>1
        <4> DEFINE x == Share(ranking, whole, slice, 1, 0)
        <4>2. a[1] = 0 + x /\ a[1] \in 0 .. whole
          BY <2>7, <3>1, <4>1
        <4> HIDE DEF x
        <4>3. x > 0 /\ x \in Int
          <5>1. 0 \in 0 .. whole
            BY <2>4
          <5>2. x \in 0 .. (whole - 0)
            BY <2>2, <2>4, <3>1, <5>1, ShareType DEF x
          <5> QED BY <2>4, <3>4, <5>2 DEF x
        <4>4. a[1] > 0
          BY <4>2, <4>3
        <4> QED BY <2>7, <4>1, <4>4
      <3> HIDE DEF whole, slice
      <3>6. /\ Placed(shares) = whole
            /\ \A k \in DOMAIN shares : shares[k].quantity > 0
        BY <2>2, <2>4, <2>7, <3>1, <3>5, RestIsPlaced
      <3>7. PlacesAll(shares, quantity)
        BY <3>6 DEF PlacesAll, whole
      <3>8. CrossExchange(up, quantity, maxSlice, most) = shares
        BY <2>1 DEF whole
      <3> HIDE DEF shares
      <3> QED BY <2>9, <3>7, <3>8 DEF best
    <2> QED BY <2>8, <2>9
  <1> QED BY <1>1, <1>2

LEMMA AcrossPlaces ==
  ASSUME NEW up, NEW quantity \in Nat \ {0}, NEW minSlice \in Nat
  PROVE  PlacesAll(SplitAcross(up, quantity, minSlice), quantity)
  <1> DEFINE ranking == Ranked(up)
             total == ScoreTotal(ranking)
             Takes(v) == /\ total > 0 /\ 5 * Scores[v] >= 4 * total
                         /\ quantity * Scores[v] >= minSlice * total
             taking == SelectSeq(ranking, Takes)
  <1>1. SplitAcross(up, quantity, minSlice)
          = CASE ranking = <<>> -> To(Venues[1], quantity)
              [] ranking # <<>> /\ taking = <<>> -> To(ranking[1], quantity)
              [] OTHER -> To(taking[1], quantity)
    BY DEF SplitAcross
  <1> HIDE DEF ranking, taking
  <1>2. \E v : SplitAcross(up, quantity, minSlice) = To(v, quantity)
    <2>1. CASE ranking = <<>>
      <3>1. SplitAcross(up, quantity, minSlice) = To(Venues[1], quantity)
        BY <1>1, <2>1, Zenon
      <3> QED BY <3>1
    <2>2. CASE ranking # <<>> /\ taking = <<>>
      <3>1. SplitAcross(up, quantity, minSlice) = To(ranking[1], quantity)
        BY <1>1, <2>2, Zenon
      <3> QED BY <3>1
    <2>3. CASE ranking # <<>> /\ taking # <<>>
      <3>1. SplitAcross(up, quantity, minSlice) = To(taking[1], quantity)
        BY <1>1, <2>3, Zenon
      <3> QED BY <3>1
    <2> QED BY <2>1, <2>2, <2>3
  <1> QED BY <1>2, PlacesWhole
-----------------------------------------------------------------------------
\* Whatever the venues' scores, the slices and the venues connected, and however many of
\* them may be used: a split places the order, no more and no less, and gives no venue
\* nothing, unless a cross-exchange split has nothing to give (broker_selector.py,
\* split_across_brokers, select_broker_cross_exchange).
THEOREM SplitsPlaceAll == RoutingSpec => []SplitPlacesTheOrder
  <1> DEFINE Inv == SplitPlacesTheOrder
  <1>1. RoutingInit => Inv
    <2> SUFFICES ASSUME RoutingInit PROVE Inv
      OBVIOUS
    <2>1. asked.cross = FALSE /\ asked.quantity = 0
      BY DEF RoutingInit, NoSplit
    <2>2. routed = <<>> /\ DOMAIN routed = {}
      BY DEF RoutingInit
    <2> DEFINE of == [k \in DOMAIN routed |-> routed[k].quantity]
    <2>3. DOMAIN of = {}
      BY <2>2
    <2>4. Placed(routed) = SumFunction(of)
      BY DEF Placed
    <2> HIDE DEF of
    <2>5. Placed(routed) = 0 /\ 0 * Grain = 0
      BY <2>3, <2>4, SumIsZero, FS_EmptySet, GrainType
    <2> QED BY <2>1, <2>2, <2>5 DEF SplitPlacesTheOrder, NothingToGive
  <1>2. Inv /\ [RoutingNext]_routingVars => Inv'
    <2> SUFFICES ASSUME Inv, [RoutingNext]_routingVars PROVE Inv'
      OBVIOUS
    <2>1. ASSUME NEW q \in Demands, NEW s \in Slices, RouteSplit(q, s) PROVE Inv'
      <3>1. q \in Nat \ {0} /\ s \in Nat
        BY RoutingAssumption
      <3>2. asked'.cross = FALSE /\ asked'.quantity = q /\ PlacesAll(routed', q)
        BY <2>1, <3>1, AcrossPlaces DEF RouteSplit
      <3> QED BY <3>2 DEF SplitPlacesTheOrder, NothingToGive, PlacesAll, Placed
    <2>2. ASSUME NEW q \in Demands, NEW s \in Slices, NEW most \in Widths, RouteCross(q, s, most)
          PROVE  Inv'
      <3>1. q \in Nat \ {0} /\ s \in Nat /\ most \in Nat
        BY RoutingAssumption
      <3>2. /\ asked'.cross /\ asked'.quantity = q /\ asked'.slice = s /\ asked'.most = most
            /\ asked'.up = connected /\ routed' = CrossExchange(connected, q, s, most)
        BY <2>2 DEF RouteCross
      <3>3. IF Ranked(asked'.up) # <<>> /\ (s = 0 \/ most = 0 \/ Scores[Ranked(asked'.up)[1]] = 0)
            THEN DOMAIN routed' = {} ELSE PlacesAll(routed', q)
        BY <3>1, <3>2, CrossPlaces
      <3> QED BY <3>2, <3>3 DEF SplitPlacesTheOrder, NothingToGive, PlacesAll, Placed
    <2>3. CASE (\E v \in VenueSet : Reconnect(v)) \/ UNCHANGED routingVars
      <3>1. UNCHANGED <<asked, routed>>
        BY <2>3 DEF Reconnect, routingVars
      <3> QED BY <3>1 DEF SplitPlacesTheOrder, NothingToGive, PlacesAll, Placed
    <2> QED BY <2>1, <2>2, <2>3 DEF RoutingNext
  <1> QED BY <1>1, <1>2, PTL DEF RoutingSpec
-----------------------------------------------------------------------------
\* SmartRouter: a recorded fill counts towards the total of the order's fills.
LEMMA FillCounts ==
  ASSUME NEW s \in Seq(Nat), NEW q \in Nat
  PROVE  /\ SumFunction(s) \in Int
         /\ SumFunction(Append(s, q)) = SumFunction(s) + q
         /\ Append(s, q) \in Seq(Nat)
  <1>1. Len(s) \in Nat /\ DOMAIN s = 1 .. Len(s) /\ \A i \in 1 .. Len(s) : s[i] \in Int
    OBVIOUS
  <1> DEFINE longer == Append(s, q)
  <1>2. /\ longer \in Seq(Nat) /\ Len(longer) = Len(s) + 1
        /\ \A i \in 1 .. Len(s) : longer[i] = s[i]
        /\ longer[Len(s) + 1] = q
    BY AppendProperties
  <1> HIDE DEF longer
  <1>3. DOMAIN longer = 1 .. (Len(s) + 1)
    BY <1>2
  <1>4. SumFunction(longer) = SumFunction(s) + longer[Len(s) + 1]
    BY <1>1, <1>2, <1>3, SumAppend
  <1>5. SumFunction(s) \in Int
    BY <1>1, FiniteDomain, SumIsInt
  <1> QED BY <1>2, <1>4, <1>5 DEF longer

RouterTypes ==
  /\ orderStatus \in [Orders -> {"PENDING", "FILLED", "CANCELLED"}]
  /\ filledQuantity \in [Orders -> Nat]
  /\ orderBroker \in [Orders -> VenueSet \cup {"None"}]
  /\ orderFills \in [Orders -> Seq(Nat)]

RouterInv == RouterTypes /\ RouterTablesAgree

LEMMA RouterStarts == (RouterInit => RouterInv) /\ (ResetRouter => RouterInv')
  <1>1. <<>> \in Seq(Nat) /\ SumFunction(<<>>) = 0
    <2>1. \A s \in Seq(Nat) : s = <<>> => SumFunction(s) = 0
      <3> SUFFICES ASSUME NEW s \in Seq(Nat), s = <<>> PROVE SumFunction(s) = 0
        OBVIOUS
      <3>1. DOMAIN s = {}
        OBVIOUS
      <3> QED BY <3>1, FS_EmptySet, SumIsZero
    <2>2. <<>> \in Seq(Nat)
      OBVIOUS
    <2> QED BY <2>1, <2>2, Zenon
  <1>2. RouterInit => RouterInv
    <2> SUFFICES ASSUME RouterInit PROVE RouterInv
      OBVIOUS
    <2>1. /\ RouterTypes /\ activeOrders = {}
          /\ \A o \in Orders : orderFills[o] = <<>> /\ filledQuantity[o] = 0
      BY <1>1 DEF RouterInit, RouterTypes
    <2>2. \A o \in Orders : Filled(o) = 0
      BY <1>1, <2>1, Zenon DEF Filled
    <2>3. \A o \in Orders : filledQuantity[o] <= Filled(o)
      BY <2>1, <2>2
    <2> QED BY <2>1, <2>3 DEF RouterInv, RouterTablesAgree
  <1>3. ResetRouter => RouterInv'
    <2> SUFFICES ASSUME ResetRouter PROVE RouterInv'
      OBVIOUS
    <2>1. /\ RouterTypes' /\ activeOrders' = {}
          /\ \A o \in Orders : orderFills'[o] = <<>> /\ filledQuantity'[o] = 0
      BY <1>1 DEF ResetRouter, RouterTypes
    <2>2. \A o \in Orders : Filled(o)' = 0
      BY <1>1, <2>1, Zenon DEF Filled
    <2>3. \A o \in Orders : filledQuantity'[o] <= Filled(o)'
      BY <2>1, <2>2
    <2> QED BY <2>1, <2>3 DEF RouterInv, RouterTablesAgree
  <1> QED BY <1>2, <1>3

LEMMA AddFillAgrees ==
  ASSUME RouterInv, NEW o \in Orders, NEW q \in 1 .. Quantity, AddFill(o, q)
  PROVE  RouterInv'
  <1>1. q \in Nat /\ q > 0 /\ Quantity \in Nat
    BY RouterAssumption
  <1>2. /\ orderFills[o] \in Seq(Nat)
        /\ orderFills' = [orderFills EXCEPT ![o] = Append(orderFills[o], q)]
        /\ activeOrders' = activeOrders /\ scheduled' = scheduled /\ algorithms' = algorithms
    BY DEF AddFill, RouterInv, RouterTypes
  <1> DEFINE longer == Append(orderFills[o], q)
  <1>3. /\ longer \in Seq(Nat) /\ SumFunction(longer) = Filled(o) + q /\ Filled(o) \in Int
    BY <1>1, <1>2, FillCounts DEF Filled
  <1> HIDE DEF longer
  <1>4. /\ orderFills' \in [Orders -> Seq(Nat)]
        /\ Filled(o)' = Filled(o) + q
        /\ \A p \in Orders : p # o => Filled(p)' = Filled(p)
    <2>1. orderFills' = [orderFills EXCEPT ![o] = longer] /\ orderFills \in [Orders -> Seq(Nat)]
      BY <1>2 DEF longer, RouterInv, RouterTypes
    <2>2. orderFills'[o] = longer /\ \A p \in Orders : p # o => orderFills'[p] = orderFills[p]
      BY <2>1
    <2> QED BY <1>3, <2>1, <2>2 DEF Filled
  <1>5. CASE o \in activeOrders \ algorithms
    <2>1. /\ filledQuantity' = [filledQuantity EXCEPT ![o] = @ + q]
          /\ orderStatus' = IF filledQuantity[o] + q >= Quantity
                            THEN [orderStatus EXCEPT ![o] = "FILLED"] ELSE orderStatus
          /\ orderBroker' = orderBroker
      BY <1>5 DEF AddFill, Counted
    <2>2. /\ orderStatus' \in [Orders -> {"PENDING", "FILLED", "CANCELLED"}]
          /\ \A p \in Orders : orderStatus'[p] = orderStatus[p] \/ orderStatus'[p] = "FILLED"
      BY <2>1 DEF RouterInv, RouterTypes
    <2>3. /\ filledQuantity' \in [Orders -> Nat] /\ filledQuantity'[o] = filledQuantity[o] + q
          /\ \A p \in Orders : p # o => filledQuantity'[p] = filledQuantity[p]
      BY <1>1, <2>1 DEF RouterInv, RouterTypes
    <2>4. \A p \in Orders : filledQuantity'[p] <= Filled(p)'
      <3>1. \A p \in Orders : filledQuantity[p] <= Filled(p) /\ filledQuantity[p] \in Nat
        BY DEF RouterInv, RouterTypes, RouterTablesAgree
      <3>2. filledQuantity[o] + q <= Filled(o) + q
        BY <1>1, <1>3, <3>1
      <3> QED BY <1>4, <2>3, <3>1, <3>2
    <2>5. \A p \in Orders : p \in activeOrders' \ algorithms' => orderStatus'[p] \in {"CANCELLED", "FILLED"}
      BY <1>2, <2>2 DEF RouterInv, RouterTablesAgree
    <2>6. \A p \in Orders : p \in activeOrders' => p \in scheduled' /\ orderBroker'[p] # "None"
      BY <1>2, <2>1 DEF RouterInv, RouterTablesAgree
    <2>7. RouterTypes'
      BY <1>4, <2>1, <2>2, <2>3 DEF RouterInv, RouterTypes
    <2> QED BY <2>4, <2>5, <2>6, <2>7 DEF RouterInv, RouterTablesAgree
  <1>6. CASE o \notin activeOrders \ algorithms
    <2>1. UNCHANGED orderVars
      BY <1>6 DEF AddFill
    <2>2. \A p \in Orders : filledQuantity[p] <= Filled(p) /\ filledQuantity[p] \in Nat
      BY DEF RouterInv, RouterTypes, RouterTablesAgree
    <2>3. filledQuantity[o] <= Filled(o) + q
      BY <1>1, <1>3, <2>2
    <2>4. \A p \in Orders : filledQuantity'[p] <= Filled(p)'
      BY <1>4, <2>1, <2>2, <2>3 DEF orderVars
    <2>5. RouterTypes'
      BY <1>4, <2>1 DEF orderVars, RouterInv, RouterTypes
    <2> QED BY <1>2, <2>1, <2>4, <2>5 DEF orderVars, RouterInv, RouterTablesAgree
  <1> QED BY <1>5, <1>6

\* Whatever is executed, filled, cancelled or raises half way: no order counts more than
\* its recorded fills, and an active order has its schedule and its broker, and its
\* algorithm unless it ended (smart_router.py, execute_order, add_fill, cancel_order).
THEOREM TablesAgree == RouterSpec => []RouterTablesAgree
  <1>1. RouterInit => RouterInv
    BY RouterStarts
  <1>2. RouterInv /\ [RouterNext]_routerVars => RouterInv'
    <2> SUFFICES ASSUME RouterInv, [RouterNext]_routerVars PROVE RouterInv'
      OBVIOUS
    <2>1. ASSUME NEW o \in Orders, NEW built \in BOOLEAN, ExecuteRaises(o, built) PROVE RouterInv'
      BY <2>1 DEF ExecuteRaises, orderVars, RouterInv, RouterTypes, RouterTablesAgree, Filled
    <2>2. ASSUME NEW o \in Orders, NEW broker \in Selectable, ExecuteOrder(o, broker) PROVE RouterInv'
      <3>1. broker \in VenueSet /\ broker # "None"
        BY SelectBrokerType, RoutingAssumption DEF Selectable
      <3>2. orderBroker' = [orderBroker EXCEPT ![o] = broker]
        BY <2>2 DEF ExecuteOrder
      <3> QED BY <2>2, <3>1, <3>2
           DEF ExecuteOrder, orderVars, RouterInv, RouterTypes, RouterTablesAgree, Filled
    <2>3. ASSUME NEW o \in Orders, NEW q \in 1 .. Quantity, AddFill(o, q) PROVE RouterInv'
      BY <2>3, AddFillAgrees
    <2>4. ASSUME NEW o \in Orders, CancelOrder(o) PROVE RouterInv'
      BY <2>4 DEF CancelOrder, RouterInv, RouterTypes, RouterTablesAgree, Filled
    <2>5. CASE ResetRouter
      BY <2>5, RouterStarts
    <2>6. CASE UNCHANGED routerVars
      BY <2>6 DEF routerVars, orderVars, RouterInv, RouterTypes, RouterTablesAgree, Filled
    <2> QED BY <2>1, <2>2, <2>3, <2>4, <2>5, <2>6 DEF RouterNext
  <1>3. RouterInv => RouterTablesAgree
    BY DEF RouterInv
  <1> QED BY <1>1, <1>2, <1>3, PTL DEF RouterSpec

\* No position is left at or below its stop by check_stop_losses, averaged down or not
\* (paper_trader.py, check_stop_losses; stop_loss.py, set_stop_loss).
THEOREM StopsAreHonoured == TraderSpec => []StopsHonoured
  BY TraderAddsUp, PTL
=============================================================================
