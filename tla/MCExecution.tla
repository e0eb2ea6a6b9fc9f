----------------------------- MODULE MCExecution -----------------------------
(***************************************************************************)
(* The execution layer for TLC.  Its classes call each other by value      *)
(* only, so a behaviour exercises one of them and the others stand still   *)
(* in one of their initial states.                                         *)
(***************************************************************************)
EXTENDS ChildOrders, SmartRouter, FillSimulation, PaperTrader, RemoteBrokers

VARIABLE desk   \* which of them this behaviour exercises

deskVars == <<desk, childVars, routingVars, routerVars, simVars, traderVars, remoteVars>>

MCVenues == <<"paper", "alpaca", "binance", "coinbase">>
MCScores == [paper |-> 0, alpaca |-> 1, binance |-> 3, coinbase |-> 2]
MCBooks == {NoBook, [bid |-> 9, ask |-> 11, size |-> 0], [bid |-> 10, ask |-> 11, size |-> 6]}
MCBars == {[price |-> 3600, high |-> 0, low |-> 0], [price |-> 7200, high |-> 10800, low |-> 3600]}

\* A component that stands still does so in one initial state.
ChildIdle == named = "twap" /\ parent = 3 /\ Len(children) = 1
RoutingIdle == connected = {}
SimIdle == /\ simOrder = [side |-> "BUY", quantity |-> 10] /\ simModel = "fixed"
           /\ simDaily = 0 /\ simBook = NoBook

DeskInit ==
  /\ desk \in {"children", "routing", "router", "fills", "trader", "remote"}
  /\ ChildInit /\ (desk = "children" \/ ChildIdle)
  /\ RoutingInit /\ (desk = "routing" \/ RoutingIdle)
  /\ RouterInit
  /\ SimInit /\ (desk = "fills" \/ SimIdle)
  /\ TraderInit
  /\ RemoteInit

DeskNext ==
  /\ UNCHANGED desk
  /\ \/ /\ desk = "children" /\ ChildNext
        /\ UNCHANGED <<routingVars, routerVars, simVars, traderVars, remoteVars>>
     \/ /\ desk = "routing" /\ RoutingNext
        /\ UNCHANGED <<childVars, routerVars, simVars, traderVars, remoteVars>>
     \/ /\ desk = "router" /\ RouterNext
        /\ UNCHANGED <<childVars, routingVars, simVars, traderVars, remoteVars>>
     \/ /\ desk = "fills" /\ SimNext
        /\ UNCHANGED <<childVars, routingVars, routerVars, traderVars, remoteVars>>
     \/ /\ desk = "trader" /\ TraderNext
        /\ UNCHANGED <<childVars, routingVars, routerVars, simVars, remoteVars>>
     \/ /\ desk = "remote" /\ RemoteNext
        /\ UNCHANGED <<childVars, routingVars, routerVars, simVars, traderVars>>

DeskSpec == DeskInit /\ [][DeskNext]_deskVars
=============================================================================
