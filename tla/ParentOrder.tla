----------------------------- MODULE ParentOrder -----------------------------
(***************************************************************************)
(* What an execution algorithm promises of the order it works on, however  *)
(* it slices it: shares are brought to the market, never more than the     *)
(* order is for, and filled there, never more than were brought.  The      *)
(* abstract specification that ChildOrders implements when its schedule    *)
(* adds up, to within a tolerance that then counts as part of the order.   *)
(***************************************************************************)
EXTENDS Integers

VARIABLES
  size,       \* shares ordered
  released,   \* shares of the children at the market so far, filled or not
  filled      \* shares filled

vars == <<size, released, filled>>

Init == size \in Nat /\ released = 0 /\ filled = 0

Release ==
  /\ released' \in released + 1 .. size
  /\ UNCHANGED <<size, filled>>

Fill ==
  /\ filled' \in filled + 1 .. released
  /\ UNCHANGED <<size, released>>

Next == Release \/ Fill

Spec == Init /\ [][Next]_vars
=============================================================================
