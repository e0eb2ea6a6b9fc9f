---------------------------- MODULE AccountLimits ----------------------------
(***************************************************************************)
(* RiskLimits (core/risk_management/limits): the balance, its peak and the *)
(* day's P&L, updated by the caller with or without a date, and the checks *)
(* that stop trading.  Amounts are whole, limits percentages.              *)
(***************************************************************************)
EXTENDS Integers, Sequences, FiniteSetsExt

CONSTANTS
  Balances,          \* the balances an update may bring
  StartBalance,      \* initial_balance
  DailyLossPercent, MaxDrawdownPercent, MaxPositionPercent,
  MaxOpenPositions,
  LastDay,           \* bound on the dates
  MaxUpdates         \* bound on the updates

ASSUME LimitsAssumption ==
  /\ Balances \subseteq Nat /\ StartBalance \in Nat
  /\ DailyLossPercent \in Nat /\ MaxDrawdownPercent \in Nat /\ MaxPositionPercent \in Nat
  /\ MaxOpenPositions \in Nat /\ LastDay \in Nat /\ MaxUpdates \in Nat

NoDate == 0          \* None: the caller passes no date, or has passed none yet

VARIABLES
  limit,      \* RiskLimits: [balance, peak, date, dayStart, dailyPnl]
  verdict,    \* the last check_all_limits: [allowed, failed], or none yet
  seen        \* history: the updates, each a balance and a date

limitVars == <<limit, verdict, seen>>

NoVerdict == [allowed |-> TRUE, failed |-> {}, asked |-> FALSE]

LimitsInit ==
  /\ limit = [balance |-> StartBalance, peak |-> StartBalance, date |-> NoDate,
              dayStart |-> StartBalance, dailyPnl |-> 0]
  /\ verdict = NoVerdict
  /\ seen = <<>>

\* Slip: a day that begins keeps the start of the one before.
UpdatedSameStart(l, balance, date) ==
  LET started == IF date # NoDate /\ date # l.date
                 THEN [l EXCEPT !.date = date, !.dailyPnl = 0] ELSE l
  IN [started EXCEPT !.balance = balance,
        !.peak = IF balance > @ THEN balance ELSE @,
        !.dailyPnl = IF date # NoDate THEN balance - started.dayStart ELSE @]

\* update_balance: a new date starts a day at the balance there was; the day's P&L moves
\* only with updates that have a date.
Updated(l, balance, date) ==
  LET started == IF date # NoDate /\ date # l.date
                 THEN [l EXCEPT !.date = date, !.dayStart = l.balance, !.dailyPnl = 0] ELSE l
  IN [started EXCEPT !.balance = balance,
        !.peak = IF balance > @ THEN balance ELSE @,
        !.dailyPnl = IF date # NoDate THEN balance - started.dayStart ELSE @]

UpdateBalance(balance, date) ==
  /\ limit' = Updated(limit, balance, date)
  /\ seen' = Append(seen, [balance |-> balance, date |-> date])
  /\ verdict' = NoVerdict

\* check_daily_loss_limit, check_max_drawdown, check_open_positions_limit and
\* check_position_size_limit: whether each refuses.
DailyLossReached(l) ==
  l.date # NoDate /\ 100 * l.dailyPnl <= -(l.dayStart * DailyLossPercent)
DrawdownReached(l) ==
  l.peak = 0 \/ 100 * (l.peak - l.balance) >= MaxDrawdownPercent * l.peak
TooManyOpen(open) == open >= MaxOpenPositions
\* A position of value 0 stands for none: its size is not checked.
PositionTooLarge(l, value) == 100 * value > l.balance * MaxPositionPercent

\* check_all_limits
CheckAllLimits(value, open) ==
  /\ verdict' = LET failed == {c \in {"daily_loss", "max_drawdown", "open_positions", "position_size"} :
                                 \/ c = "daily_loss" /\ DailyLossReached(limit)
                                 \/ c = "max_drawdown" /\ DrawdownReached(limit)
                                 \/ c = "open_positions" /\ TooManyOpen(open)
                                 \/ c = "position_size" /\ PositionTooLarge(limit, value)}
                IN [allowed |-> failed = {}, failed |-> failed, asked |-> TRUE]
  /\ UNCHANGED <<limit, seen>>

\* Dates only go on, but a caller may skip days, and leave the date out.
LimitsNext ==
  \/ /\ Len(seen) < MaxUpdates
     /\ \E b \in Balances, d \in {NoDate} \cup (limit.date .. LastDay) : UpdateBalance(b, d)
  \/ \E v \in Balances \cup {0}, n \in 0 .. MaxOpenPositions : CheckAllLimits(v, n)

LimitsSpec == LimitsInit /\ [][LimitsNext]_limitVars
-----------------------------------------------------------------------------
\* The account as the updates tell it, whatever RiskLimits made of them: its balance after
\* the first n, the highest it ever had, and what it lost on the day of the last dated
\* update, from the balance before the first update of that day to the last.
BalanceAfter(n) == IF n = 0 THEN StartBalance ELSE seen[n].balance
Highest == Max({BalanceAfter(n) : n \in 0 .. Len(seen)})
Dated == {n \in DOMAIN seen : seen[n].date # NoDate}
LastDated == Max(Dated)
DayBegan == Min({n \in Dated : seen[n].date = seen[LastDated].date})
DayLoss == BalanceAfter(DayBegan - 1) - BalanceAfter(LastDated)

\* Trading that is allowed follows no day's loss at the limit and no fall at the limit from
\* the highest balance the account ever had, dated or not: what update_balance carries
\* from update to update, across days, days skipped and updates without a date, is what the
\* updates add up to.  An update without a date does not count for the day's loss until
\* one with a date follows (limits.py, update_balance, check_all_limits).
AllowedWithinLosses ==
  verdict.asked /\ verdict.allowed =>
    /\ Dated # {} => 100 * DayLoss < BalanceAfter(DayBegan - 1) * DailyLossPercent
    /\ 100 * (Highest - BalanceAfter(Len(seen))) < MaxDrawdownPercent * Highest
=============================================================================
