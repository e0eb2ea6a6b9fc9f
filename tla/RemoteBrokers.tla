---------------------------- MODULE RemoteBrokers -----------------------------
(***************************************************************************)
(* AlpacaBroker and BinanceBroker (adapters/brokers): what the caller is   *)
(* told of orders that live at a broker's server, which fills, cancels and *)
(* expires them in its own time, and whose answers get lost.               *)
(*                                                                         *)
(* The servers and their libraries are external.  Orders are purchases of  *)
(* one symbol; the kinds of order differ only in what is submitted.        *)
(***************************************************************************)
EXTENDS Integers, Sequences, FiniteSets, FiniteSetsExt, SequencesExt

CONSTANTS
  RemoteQuantity,   \* of every order
  MaxRemoteOrders   \* bound on the orders at the servers

ASSUME RemoteAssumption == RemoteQuantity \in Nat /\ MaxRemoteOrders \in Nat

VARIABLES
  session,       \* per adapter: [client, connected]
  remoteOrders,  \* external: the orders at the servers, [at, status, filled]
  told,          \* history: the OrderResults handed out, [order, status, filled]
  seen           \* what the newest get_account says is held

remoteVars == <<session, remoteOrders, told, seen>>

Adapters == {"alpaca", "binance"}
\* "held" stands for any word the adapters do not know, and for "pending_new".
Open == {"new", "accepted", "partially_filled", "held"}
Ended == {"canceled", "rejected", "expired"}
NoId == 0

RemoteInit ==
  /\ session = [b \in Adapters |-> [client |-> FALSE, connected |-> FALSE]]
  /\ remoteOrders = <<>>
  /\ told = {}
  /\ seen = 0
-----------------------------------------------------------------------------
Tell(answers) == told' = told \cup answers

\* connect: the client is made before the account is asked for, and a failure after that
\* leaves it, and a connection there was.
Connect(b) ==
  /\ \E verified \in BOOLEAN :
       session' = [session EXCEPT ![b].client = TRUE, ![b].connected = @ \/ verified]
  /\ UNCHANGED <<remoteOrders, told, seen>>

Disconnect(b) ==
  /\ session' = [session EXCEPT ![b] = [client |-> FALSE, connected |-> FALSE]]
  /\ UNCHANGED <<remoteOrders, told, seen>>

\* status_map of place_order; a word it does not know is PENDING.  Slip: what has begun to
\* fill is filled.
StatusOfBegun(word) ==
  CASE word \in {"new", "accepted"} -> "SUBMITTED"
    [] word \in {"filled", "partially_filled"} -> "FILLED"
    [] word = "canceled" -> "CANCELLED"
    [] word = "rejected" -> "REJECTED"
    [] word = "expired" -> "EXPIRED"
    [] OTHER -> "PENDING"
StatusOfWord(word) ==
  CASE word \in {"new", "accepted"} -> "SUBMITTED"
    [] word = "filled" -> "FILLED"
    [] word = "partially_filled" -> "PARTIALLY_FILLED"
    [] word = "canceled" -> "CANCELLED"
    [] word = "rejected" -> "REJECTED"
    [] word = "expired" -> "EXPIRED"
    [] OTHER -> "PENDING"

Rejection == [order |-> NoId, status |-> "REJECTED", filled |-> 0]
FilledAs(word) ==
  CASE word = "filled" -> RemoteQuantity [] word = "partially_filled" -> 1 [] OTHER -> 0

\* place_order: without a connection, on a refusal, and when the answer of an order that
\* the server took is lost, the caller is told the same.
PlaceRemote(b) ==
  /\ \/ /\ Tell({Rejection})
        /\ UNCHANGED remoteOrders
     \/ /\ session[b].connected /\ session[b].client
        /\ Len(remoteOrders) < MaxRemoteOrders
        /\ \E word \in Open \cup Ended \cup {"filled"}, lost \in BOOLEAN :
             /\ remoteOrders' = Append(remoteOrders,
                                       [at |-> b, status |-> word, filled |-> FilledAs(word)])
             /\ Tell({IF lost THEN Rejection
                      ELSE [order |-> Len(remoteOrders'), status |-> StatusOfWord(word),
                            filled |-> FilledAs(word)]})
  /\ UNCHANGED <<session, seen>>

\* cancel_order of Alpaca, and cancel_order_by_symbol of Binance, whose cancel_order does
\* nothing: a request, which a fill may overtake.
CancelRemote(o) ==
  /\ session[remoteOrders[o].at].client
  /\ remoteOrders[o].status \in Open
  /\ remoteOrders' = [remoteOrders EXCEPT ![o].status = "canceled"]
  /\ UNCHANGED <<session, told, seen>>

\* get_order of Alpaca: filled, or pending.  Binance's has no answer.
GetOrder(o) ==
  /\ remoteOrders[o].at = "alpaca" /\ session["alpaca"].client
  /\ Tell({[order |-> o, filled |-> remoteOrders[o].filled,
            status |-> IF remoteOrders[o].status = "filled" THEN "FILLED" ELSE "PENDING"]})
  /\ UNCHANGED <<session, remoteOrders, seen>>

\* get_open_orders of Alpaca.  Binance inherits the empty list.
GetOpenOrders ==
  /\ session["alpaca"].client
  /\ Tell({[order |-> o, status |-> "PENDING", filled |-> remoteOrders[o].filled] :
             o \in {n \in DOMAIN remoteOrders : /\ remoteOrders[n].at = "alpaca"
                                                /\ remoteOrders[n].status \in Open}})
  /\ UNCHANGED <<session, remoteOrders, seen>>

\* get_account with get_positions: zeros on an error of the first, an empty list on one of
\* the second.
HeldAt(b) ==
  MapThenSumSet(LAMBDA o : remoteOrders[o].filled,
                {o \in DOMAIN remoteOrders : remoteOrders[o].at = b})
GetAccount(b, answered) ==
  /\ seen' = IF session[b].client /\ answered THEN HeldAt(b) ELSE 0
  /\ UNCHANGED <<session, remoteOrders, told>>

\* External: the server fills an order by one, or ends it.
ServerFills(o) ==
  /\ remoteOrders[o].status \in Open
  /\ LET filled == remoteOrders[o].filled + 1 IN
     remoteOrders' = [remoteOrders EXCEPT
       ![o].filled = filled,
       ![o].status = IF filled = RemoteQuantity THEN "filled" ELSE "partially_filled"]
  /\ UNCHANGED <<session, told, seen>>
ServerEnds(o) ==
  /\ remoteOrders[o].status \in Open
  /\ \E word \in Ended : remoteOrders' = [remoteOrders EXCEPT ![o].status = word]
  /\ UNCHANGED <<session, told, seen>>

RemoteNext ==
  \/ \E b \in Adapters :
       \/ Connect(b) \/ Disconnect(b) \/ PlaceRemote(b)
       \/ \E answered \in BOOLEAN : GetAccount(b, answered)
  \/ GetOpenOrders
  \/ \E o \in DOMAIN remoteOrders :
       CancelRemote(o) \/ GetOrder(o) \/ ServerFills(o) \/ ServerEnds(o)

RemoteSpec == RemoteInit /\ [][RemoteNext]_remoteVars
-----------------------------------------------------------------------------
\* What the caller is told of an order it has the id of stays true, whatever the server does
\* afterwards and however stale the answer: never more is reported filled than is, an order
\* reported filled is filled whole, and one reported ended is not open any more
\* (alpaca_broker.py and binance_broker.py, place_order; alpaca_broker.py, get_order).
FinalAnswersStayTrue ==
  \A answer \in told : answer.order # NoId =>
    LET order == remoteOrders[answer.order] IN
    /\ answer.filled <= order.filled
    /\ answer.status = "FILLED" => order.filled = RemoteQuantity
    /\ answer.status \in {"CANCELLED", "REJECTED", "EXPIRED"} => order.status \in Ended
=============================================================================
