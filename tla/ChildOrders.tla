---------------------------- MODULE ChildOrders ----------------------------
(***************************************************************************)
(* One execution algorithm at work on one order: the child orders of its   *)
(* schedule are released when they are due (get_next_child) and filled in  *)
(* parts (update_fill), in any order and after any delay.  The caller      *)
(* passes what get_remaining_quantity returns.                             *)
(***************************************************************************)
EXTENDS Schedules

CONSTANTS
  ParentQuantities,  \* sizes of the order
  Refresh,           \* Iceberg's refresh_speed
  MaxTime            \* bound on the clock

ASSUME ChildAssumption ==
  ParentQuantities \subseteq Nat \ {0} /\ Refresh \in Nat /\ MaxTime \in Nat

VARIABLES
  named,         \* the algorithm
  parent,        \* its order's quantity, in the schedule's units
  tolerance,     \* what the schedule's sizes may be off it
  children,      \* OrderAlgorithm.child_orders
  clock,
  lastRefresh    \* IcebergAlgorithm._last_refresh_time, -1 for None

childVars == <<named, parent, tolerance, children, clock, lastRefresh>>

ChildStatus == {"PENDING", "SUBMITTED", "PARTIAL", "FILLED"}

\* A schedule's children: the iceberg's are all due at once, the others in turn.
Children(algorithm, sizes) ==
  [i \in DOMAIN sizes |->
     [quantity |-> sizes[i], due |-> IF algorithm = "iceberg" THEN 0 ELSE i - 1,
      status |-> "PENDING", filled |-> 0]]

ChildInit ==
  /\ named \in Algorithms
  /\ \E q \in ParentQuantities, side \in {"BUY", "SELL"} :
       \E s \in {x \in SchedulesOf(named, q, side) : ~x.raises} :
         /\ parent = q * s.unit
         /\ tolerance = s.tolerance
         /\ children = Children(named, s.sizes)
  /\ clock = 0
  /\ lastRefresh = -1

FilledOf(cs) == Total([i \in DOMAIN cs |-> cs[i].filled])

\* get_remaining_quantity
Remaining == parent - FilledOf(children)

\* The children get_next_child may release: pending, due, not larger than what
\* remains.
NextFitting(remaining) ==
  {i \in DOMAIN children : /\ children[i].status = "PENDING"
                           /\ children[i].due <= clock
                           /\ remaining >= children[i].quantity}

\* get_next_child: the first of them.  The iceberg waits for its refresh interval
\* before, and notes the time of the release.
NextChild ==
  /\ named = "iceberg" /\ lastRefresh >= 0 => clock - lastRefresh >= Refresh
  /\ LET fitting == NextFitting(Remaining) IN
     /\ fitting # {}
     /\ LET i == CHOOSE x \in fitting : \A y \in fitting : x <= y IN
        children' = [children EXCEPT ![i].status = "SUBMITTED"]
  /\ lastRefresh' = IF named = "iceberg" THEN clock ELSE lastRefresh
  /\ UNCHANGED <<named, parent, tolerance, clock>>

\* update_fill
FilledBy(child, amount) ==
  [child EXCEPT !.filled = @ + amount,
                !.status = IF child.filled + amount >= child.quantity THEN "FILLED" ELSE "PARTIAL"]

\* A broker fills an order it has, at most what is open of it.
UpdateFill(i, amount) ==
  /\ children[i].status \in {"SUBMITTED", "PARTIAL"}
  /\ amount > 0
  /\ amount <= children[i].quantity - children[i].filled
  /\ children' = [children EXCEPT ![i] = FilledBy(@, amount)]
  /\ UNCHANGED <<named, parent, tolerance, clock, lastRefresh>>

Wait ==
  /\ clock < MaxTime
  /\ clock' = clock + 1
  /\ UNCHANGED <<named, parent, tolerance, children, lastRefresh>>

ChildNext ==
  \/ NextChild
  \/ \E i \in DOMAIN children :
       \/ UpdateFill(i, children[i].quantity - children[i].filled)
       \/ UpdateFill(i, children[i].quantity \div 2)
  \/ Wait

ChildSpec == ChildInit /\ [][ChildNext]_childVars

\* is_complete
Complete == FilledOf(children) >= parent
-----------------------------------------------------------------------------
\* The schedules that add up: POV's estimates need not, and a VWAP profile that is not
\* normalised can leave a last child of negative size behind too large ones.
Sliced == named # "pov" /\ \A i \in DOMAIN children : children[i].quantity > 0

\* The children get_next_child has handed out.
ReleasedOf(cs) ==
  Total([i \in DOMAIN cs |-> IF cs[i].status = "PENDING" THEN 0 ELSE cs[i].quantity])

\* An order that is not sliced maps to one of nothing.
Parent == INSTANCE ParentOrder WITH
  size <- IF Sliced THEN parent + tolerance ELSE 0,
  released <- IF Sliced THEN ReleasedOf(children) ELSE 0,
  filled <- IF Sliced THEN FilledOf(children) ELSE 0

\* The children are brought to the market one by one and never come to more than the
\* order, although get_next_child does not count those under way: it is the schedule
\* that adds up, to within its tolerance, which protects it.  Fills never pass what was
\* brought, in whatever order and however many parts they come (algorithms/base.py,
\* get_next_child, update_fill).
ServesTheOrder == Parent!Spec

\* To within the tolerance of its schedule, an order is complete when all its children
\* are filled, has no more than that left over when it is complete, and holds back a
\* child for no more than that (get_next_child, update_fill, is_complete,
\* algorithms/base.py; vwap.py:135): its parts were filled in any order and in several
\* fills each.  For the exact schedules this is complete if and only if all filled.
\* POV's children need not come to the order, and a VWAP profile that is not normalised
\* can leave a child of negative size; both are left out.
CompleteWithinTolerance ==
  Sliced =>
    /\ (\A i \in DOMAIN children : children[i].status = "FILLED") => Remaining <= tolerance
    /\ Complete => \A i \in DOMAIN children :
                      children[i].quantity - children[i].filled <= tolerance
    /\ \A i \in DOMAIN children :
         children[i].status = "PENDING" => children[i].quantity <= Remaining + tolerance
=============================================================================
