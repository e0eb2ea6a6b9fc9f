------------------------------ MODULE Ledger ------------------------------
(***************************************************************************)
(* What a brokerage account promises, whatever the adapter behind it: the  *)
(* cash pays for every purchase, a sale delivers only shares that are      *)
(* held, and one order moves cash and shares together or moves nothing.    *)
(* The abstract specification that PaperBroker implements: of the listed   *)
(* positions when one thread places the orders, of the shares wherever     *)
(* they are however many do.                                               *)
(***************************************************************************)
EXTENDS Integers

CONSTANTS Symbols, Quantities, Prices, InitialCapital

VARIABLES
  cash,       \* the account's cash balance
  holdings    \* shares held, by symbol

vars == <<cash, holdings>>

Init ==
  /\ cash = InitialCapital
  /\ holdings = [s \in Symbols |-> 0]

Buy(s, q, p) ==
  /\ q * p <= cash
  /\ cash' = cash - q * p
  /\ holdings' = [holdings EXCEPT ![s] = @ + q]

Sell(s, q, p) ==
  /\ q <= holdings[s]
  /\ cash' = cash + q * p
  /\ holdings' = [holdings EXCEPT ![s] = @ - q]

Next ==
  \E s \in Symbols, q \in Quantities, p \in Prices : Buy(s, q, p) \/ Sell(s, q, p)

Spec == Init /\ [][Next]_vars
=============================================================================
