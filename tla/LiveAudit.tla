----------------------------- MODULE LiveAudit -----------------------------
(***************************************************************************)
(* The session of LiveTrading, audited: its trade table and its daily P&L  *)
(* against what the broker did.                                            *)
(***************************************************************************)
EXTENDS LiveTrading, SequencesExt

Total(f(_), seq) == SumFunction([i \in DOMAIN seq |-> f(seq[i])])

Awaiting == {t \in Threads : Returned(t, "FILLED") \/ Returned(t, "ERROR")}

\* Every order that moved cash is a row of the trade table, is about to become
\* one, or its handler's failure has been reported; and no order is two rows
\* (_execute_signal_direct, _cmd_buy, _cmd_sell, place_order).
NoSilentLoss ==
  Len(tradeLog) + Len(failed) = Len(rows) + Cardinality(Awaiting) + alerts

\* As long as no insert fails, the purchases in the trade table are, share by
\* share, those the broker filled.
BuysMatchLog ==
  faults = 0 =>
    \A s \in Symbols :
      LET Bought(e) == IF e.symbol = s /\ e.side = "BUY" THEN e.quantity ELSE 0
      IN Total(Bought, tradeLog)
           = Total(Bought, rows)
             + SumFunction([t \in Threads |->
                              IF Returned(t, "FILLED") THEN Bought(work[t]) ELSE 0])

LastRow(t) == SelectLastInSeq(rows, LAMBDA r : r.by = t)

LastRowBefore(t, d) == SelectLastInSeq(rows, LAMBDA r : r.by = t /\ r.day < d)

\* The P&L the RiskManager holds against today's limit is that of the engine's
\* rows of today, and at most one of an earlier day: the last, if it was on its
\* way from record_sell to record_pnl at midnight.
DailyPnlIsTodays ==
  LET Realised(r) == IF r.by \in Loops /\ r.day = day THEN r.pnl ELSE 0
      Pending(t) == IF work[t].at = "risk" /\ rows[LastRow(t)].day = day THEN work[t].pnl ELSE 0
      earlier == {LastRowBefore(t, day) : t \in Loops} \ {0}
  IN \E late \in {0} \cup {rows[i].pnl : i \in earlier} :
       PnlToday + SumFunction([t \in Loops |-> Pending(t)]) = Total(Realised, rows) + late

\* The engine alone: its table lists the broker's trades in their order.
TableMirrorsLog ==
  faults = 0 =>
    \A i \in DOMAIN rows :
      /\ rows[i].symbol = tradeLog[i].symbol
      /\ rows[i].side = tradeLog[i].side
      /\ rows[i].price = tradeLog[i].price

Flat == \A s \in Symbols : book[s] = 0

\* RiskManager "Enforces: 2. Daily loss limit": no position is opened on a day
\* whose realised loss has reached the limit.  On the first day, with no position
\* open, the loss is what the cash lacks of the initial capital.
LossLimitHolds ==
  [][\A t \in Loops :
       /\ day = 0 /\ Flat /\ cash < InitialCapital
       /\ work[t].at = "decide" /\ work'[t].at = "placed" /\ work[t].side = "BUY"
       => (InitialCapital - cash) * 100 < cash * MaxDailyLossPct]_vars
=============================================================================
