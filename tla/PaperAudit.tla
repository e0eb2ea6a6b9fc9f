----------------------------- MODULE PaperAudit -----------------------------
(***************************************************************************)
(* The books of PaperBroker, audited: what its trade log says against the  *)
(* cash and the positions it keeps.                                        *)
(***************************************************************************)
EXTENDS PaperBroker, Functions

Flow(o) == IF o.side = "BUY" THEN -Cost(o) ELSE Cost(o)

Shares(o) == IF o.side = "BUY" THEN o.quantity ELSE -o.quantity

Total(f(_), seq) == SumFunction([i \in DOMAIN seq |-> f(seq[i])])

InFlight(f(_), stages(_)) ==
  SumFunction([t \in Threads |-> IF calls[t].at \in stages(calls[t].order)
                                 THEN f(calls[t].order) ELSE 0])

Net(s, orders) == Total(LAMBDA e : IF e.symbol = s THEN Shares(e) ELSE 0, orders)

\* The cash is the initial capital moved by the logged trades, by the orders whose
\* cash has moved and whose entry is still to come, and by those whose call
\* raised in between: no order is paid twice, none is logged unpaid (place_order,
\* trade_log).
CashMatchesLog ==
  cash = InitialCapital + Total(Flow, tradeLog) + Total(Flow, failed)
         + InFlight(Flow, LAMBDA o : IF o.side = "BUY" THEN {"book", "record"} ELSE {"record"})

\* No share is created or destroyed, not even when the position object it is in
\* has fallen out of the dictionary.
SharesConserved ==
  \A s \in Symbols :
    Total(LAMBDA p : IF p.symbol = s THEN p.quantity ELSE 0, heap)
      = Net(s, tradeLog) + Net(s, failed)
        + InFlight(LAMBDA o : IF o.symbol = s THEN Shares(o) ELSE 0,
                          LAMBDA o : {"record"})

\* The shares of a symbol wherever they are: in its position objects, those that have
\* fallen out of the dictionary included, and paid for and not booked yet.
Owned(s) ==
  Total(LAMBDA p : IF p.symbol = s THEN p.quantity ELSE 0, heap)
    + InFlight(LAMBDA o : IF o.symbol = s THEN o.quantity ELSE 0,
               LAMBDA o : IF o.side = "BUY" THEN {"book"} ELSE {})

Estate == INSTANCE Ledger WITH holdings <- [s \in Symbols |-> Owned(s)]

\* However the threads' calls interleave, each order moves its cash and its shares at
\* once, within the funds and the shares there are, or moves nothing: two orders at the
\* same time can lose the sight of a position, never its shares (place_order).
OrdersAreAtomic == Estate!Spec

\* trade_log is the "Full trade history": with no order under way, the positions
\* are what its entries add up to.
FullTradeHistory ==
  (\A t \in Threads : ~Busy(t)) => \A s \in Symbols : Booked(s) = Net(s, tradeLog)

\* Each entry's cash_after follows from the entry before it.
LogIsChained ==
  \A i \in DOMAIN tradeLog :
    tradeLog[i].cashAfter
      = (IF i = 1 THEN InitialCapital ELSE tradeLog[i - 1].cashAfter) + Flow(tradeLog[i])
=============================================================================
