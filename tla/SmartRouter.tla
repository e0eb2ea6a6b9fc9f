---------------------------- MODULE SmartRouter ----------------------------
(***************************************************************************)
(* SmartOrderRouter (adapters/execution/smart_router.py): an order is      *)
(* given an algorithm, a schedule and a broker, its fills are added one by *)
(* one and it may be cancelled at any time.  The children themselves are   *)
(* the subject of ChildOrders; what counts here is which tables know the   *)
(* order, in particular after a call that raised half way.                 *)
(***************************************************************************)
EXTENDS BrokerRouting

CONSTANTS
  Orders,        \* ids of BrokerOrder objects
  Quantity,      \* what each of them is for
  MaxFills       \* bound on the fills recorded per order

ASSUME RouterAssumption == Quantity \in Nat \ {0}

VARIABLES
  orderStatus,   \* BrokerOrder.status of each object
  filledQuantity,
  orderBroker,   \* BrokerOrder.broker, "None" before one is chosen
  activeOrders,  \* _active_orders
  scheduled,     \* _child_orders
  algorithms,    \* _algorithms
  orderFills     \* _fills: the quantities of the fills

orderVars == <<orderStatus, filledQuantity, orderBroker>>
routerVars == <<orderVars, activeOrders, scheduled, algorithms, orderFills>>

RouterInit ==
  /\ orderStatus = [o \in Orders |-> "PENDING"]
  /\ filledQuantity = [o \in Orders |-> 0]
  /\ orderBroker = [o \in Orders |-> "None"]
  /\ activeOrders = {}
  /\ scheduled = {}
  /\ algorithms = {}
  /\ orderFills = [o \in Orders |-> <<>>]

\* Slip: the order is active before it has a broker.
ExecuteHalf(o, built) ==
  /\ algorithms' = algorithms \cup {o}
  /\ scheduled' = IF built THEN scheduled \cup {o} ELSE scheduled
  /\ activeOrders' = activeOrders \cup {o}
  /\ UNCHANGED <<orderVars, orderFills>>

\* execute_order where it raises.  "market" (OrderType is not imported), an unknown
\* name and parameters the algorithm does not take raise before anything is stored:
\* those calls are no steps.  A schedule that cannot be built leaves the algorithm
\* behind, a broker that cannot be asked (BaseBroker.is_connected is a property)
\* the schedule as well.
ExecuteRaises(o, built) ==
  /\ algorithms' = algorithms \cup {o}
  /\ scheduled' = IF built THEN scheduled \cup {o} ELSE scheduled
  /\ UNCHANGED <<orderVars, activeOrders, orderFills>>

\* The brokers an order may go to, whichever venues are connected.
Selectable == {SelectBroker(up) : up \in SUBSET VenueSet}

\* execute_order to its end.
ExecuteOrder(o, broker) ==
  /\ algorithms' = algorithms \cup {o}
  /\ scheduled' = scheduled \cup {o}
  /\ orderBroker' = [orderBroker EXCEPT ![o] = broker]
  /\ activeOrders' = activeOrders \cup {o}
  /\ UNCHANGED <<orderStatus, filledQuantity, orderFills>>

\* The order counts a fill, whatever its status.
Counted(o, quantity) ==
  /\ filledQuantity' = [filledQuantity EXCEPT ![o] = @ + quantity]
  /\ orderStatus' = IF filledQuantity[o] + quantity >= Quantity
                    THEN [orderStatus EXCEPT ![o] = "FILLED"] ELSE orderStatus
  /\ UNCHANGED orderBroker

\* Slip: the order counts the fill before it is recorded and the algorithm told.
AddFillCountedFirst(o, quantity) ==
  /\ Len(orderFills[o]) < MaxFills
  /\ o \in activeOrders => Counted(o, quantity)
  /\ o \notin activeOrders => UNCHANGED orderVars
  /\ orderFills' = IF o \in algorithms THEN orderFills
                   ELSE [orderFills EXCEPT ![o] = Append(@, quantity)]
  /\ UNCHANGED <<activeOrders, scheduled, algorithms>>

\* add_fill: the fill is recorded first.  With an algorithm the call then raises
\* (Fill has no child_order_id) and the order does not count it.
AddFill(o, quantity) ==
  /\ Len(orderFills[o]) < MaxFills
  /\ orderFills' = [orderFills EXCEPT ![o] = Append(@, quantity)]
  /\ IF o \in activeOrders \ algorithms THEN Counted(o, quantity) ELSE UNCHANGED orderVars
  /\ UNCHANGED <<activeOrders, scheduled, algorithms>>

\* cancel_order: whatever became of the order; _cleanup_order does nothing.
CancelOrder(o) ==
  /\ o \in activeOrders
  /\ orderStatus' = [orderStatus EXCEPT ![o] = "CANCELLED"]
  /\ algorithms' = algorithms \ {o}
  /\ UNCHANGED <<filledQuantity, orderBroker, activeOrders, scheduled, orderFills>>

\* reset, between two runs: the tables are cleared, and the next run has orders of
\* its own.
ResetRouter ==
  /\ orderStatus' = [o \in Orders |-> "PENDING"]
  /\ filledQuantity' = [o \in Orders |-> 0]
  /\ orderBroker' = [o \in Orders |-> "None"]
  /\ activeOrders' = {} /\ scheduled' = {} /\ algorithms' = {}
  /\ orderFills' = [o \in Orders |-> <<>>]

RouterNext ==
  \/ \E o \in Orders :
       \/ \E built \in BOOLEAN : ExecuteRaises(o, built)
       \/ \E broker \in Selectable : ExecuteOrder(o, broker)
       \/ \E q \in 1..Quantity : AddFill(o, q)
       \/ CancelOrder(o)
  \/ ResetRouter

RouterSpec == RouterInit /\ [][RouterNext]_routerVars
-----------------------------------------------------------------------------
Filled(o) == SumFunction(orderFills[o])

\* get_execution_report's fill total never falls short of what the order was told,
\* though either is written without the other, and an order is active only with the
\* schedule and the broker of a call that ended, however many raised before or after
\* it (smart_router.py, execute_order, add_fill).
RouterTablesAgree ==
  \A o \in Orders :
    /\ filledQuantity[o] <= Filled(o)
    /\ o \in activeOrders => o \in scheduled /\ orderBroker[o] # "None"
    /\ o \in activeOrders \ algorithms => orderStatus[o] \in {"CANCELLED", "FILLED"}
=============================================================================
