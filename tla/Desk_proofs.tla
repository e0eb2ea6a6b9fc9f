---------------------------- MODULE Desk_proofs -----------------------------
(***************************************************************************)
(* Theorems about the trading desk: the account's limits, what decisions   *)
(* and signals rest on, the risk report, sizes, drawdowns and routes, for  *)
(* any prices, series, balances and limits.                                *)
(***************************************************************************)
EXTENDS PortfolioRisk, AccountLimits, PositionSizing, Ensemble, Decision, Exchanges,
        Performance, Sums_proofs, SequenceTheorems

LimitRecords == [balance : Nat, peak : Nat, date : Nat, dayStart : Nat, dailyPnl : Int]

\* BalanceAfter and Dated of any history.
BalanceIn(s, n) == IF n = 0 THEN StartBalance ELSE s[n].balance
DatedIn(s) == {n \in DOMAIN s : s[n].date # NoDate}

\* The updates of the day: the first and the last dated ones of the date RiskLimits is at.
IsDay(l, s, first, last) ==
  /\ first \in DatedIn(s) /\ s[first].date = l.date
  /\ last \in DatedIn(s) /\ s[last].date = l.date
  /\ \A n \in DatedIn(s) : n <= last /\ (s[n].date = l.date => first <= n)
  /\ l.dayStart = BalanceIn(s, first - 1)
  /\ l.dailyPnl = BalanceIn(s, last) - BalanceIn(s, first - 1)

\* RiskLimits is what the updates add up to: the balance is that of the last, the peak the
\* highest, the day that of the last dated one, its start the balance before the first of
\* the day; and a verdict is that of the state it is seen in: an update takes it back.
LimitsInv ==
  /\ limit \in LimitRecords
  /\ seen \in Seq([balance : Nat, date : Nat])
  /\ limit.balance = BalanceIn(seen, Len(seen))
  /\ \A n \in 0 .. Len(seen) : BalanceIn(seen, n) <= limit.peak
  /\ \E n \in 0 .. Len(seen) : BalanceIn(seen, n) = limit.peak
  /\ \A n \in DatedIn(seen) : seen[n].date <= limit.date
  /\ limit.date # NoDate => \E first, last \in DatedIn(seen) : IsDay(limit, seen, first, last)
  /\ verdict.asked /\ verdict.allowed => ~DailyLossReached(limit) /\ ~DrawdownReached(limit)

LEMMA LimitFields ==
  ASSUME LimitsInv
  PROVE  /\ limit.balance \in Nat /\ limit.peak \in Nat /\ limit.date \in Nat
         /\ limit.dayStart \in Nat /\ limit.dailyPnl \in Int
         /\ DatedIn(seen) \subseteq 1 .. Len(seen) /\ Len(seen) \in Nat
         /\ \A n \in 1 .. Len(seen) : seen[n].date \in Nat
         /\ \A n \in 0 .. Len(seen) : BalanceIn(seen, n) \in Nat
  <1> DEFINE R == [balance : Nat, date : Nat]
  <1>0. seen \in Seq(R)
    BY DEF LimitsInv
  <1>1. \A n \in 1 .. Len(seen) : seen[n].balance \in Nat /\ seen[n].date \in Nat
    <2> HIDE DEF R
    <2>1. \A n \in 1 .. Len(seen) : seen[n] \in R
      BY <1>0
    <2> QED BY <2>1 DEF R
  <1>2. Len(seen) \in Nat /\ DOMAIN seen = 1 .. Len(seen)
    BY <1>0
  <1>3. StartBalance \in Nat
    BY LimitsAssumption
  <1>4. \A n \in 0 .. Len(seen) : BalanceIn(seen, n) \in Nat
    BY <1>1, <1>2, <1>3 DEF BalanceIn
  <1>5. DatedIn(seen) \subseteq 1 .. Len(seen)
    BY <1>2 DEF DatedIn
  <1>6. limit \in LimitRecords
    BY DEF LimitsInv
  <1> QED BY <1>1, <1>2, <1>4, <1>5, <1>6 DEF LimitRecords

\* update_balance: a record with the same fields, updated one after the other.
LEMMA UpdatedFields ==
  ASSUME NEW l \in [balance : Nat, peak : Nat, date : Nat, dayStart : Nat, dailyPnl : Int],
         NEW balance \in Nat, NEW date \in Nat
  PROVE  /\ Updated(l, balance, date) \in
              [balance : Nat, peak : Nat, date : Nat, dayStart : Nat, dailyPnl : Int]
         /\ Updated(l, balance, date).balance = balance
         /\ Updated(l, balance, date).peak = IF balance > l.peak THEN balance ELSE l.peak
         /\ Updated(l, balance, date).date = IF date # NoDate THEN date ELSE l.date
         /\ Updated(l, balance, date).dayStart
              = IF date # NoDate /\ date # l.date THEN l.balance ELSE l.dayStart
         /\ Updated(l, balance, date).dailyPnl
              = IF date = NoDate THEN l.dailyPnl
                ELSE balance - (IF date # l.date THEN l.balance ELSE l.dayStart)
  <1> DEFINE Limits == [balance : Nat, peak : Nat, date : Nat, dayStart : Nat, dailyPnl : Int]
             started == IF date # NoDate /\ date # l.date
                        THEN [l EXCEPT !.date = date, !.dayStart = l.balance, !.dailyPnl = 0] ELSE l
             new == [started EXCEPT !.balance = balance,
                       !.peak = IF balance > @ THEN balance ELSE @,
                       !.dailyPnl = IF date # NoDate THEN balance - started.dayStart ELSE @]
  <1>1. Updated(l, balance, date) = new
    BY DEF Updated
  <1>2. /\ started \in Limits /\ started.peak = l.peak /\ started.balance = l.balance
        /\ started.dayStart = IF date # NoDate /\ date # l.date THEN l.balance ELSE l.dayStart
        /\ started.date = IF date # NoDate THEN date ELSE l.date
        /\ date = NoDate => started.dailyPnl = l.dailyPnl
    <2>1. CASE date # NoDate /\ date # l.date
      <3>1. started = [l EXCEPT !.date = date, !.dayStart = l.balance, !.dailyPnl = 0]
        BY <2>1
      <3>2. l.balance \in Nat /\ l.peak \in Nat
        OBVIOUS
      <3> DEFINE opened == l.balance
      <3> HIDE DEF started, opened
      <3>3. started = [l EXCEPT !.date = date, !.dayStart = opened, !.dailyPnl = 0] /\ opened \in Nat
        BY <3>1, <3>2 DEF opened
      <3>4. /\ started \in Limits /\ started.peak = l.peak /\ started.balance = l.balance
            /\ started.dayStart = opened /\ started.date = date
        <4> DEFINE zero == 0
        <4>1. zero \in Int
          OBVIOUS
        <4> HIDE DEF zero
        <4>2. started = [l EXCEPT !.date = date, !.dayStart = opened, !.dailyPnl = zero]
          BY <3>3 DEF zero
        <4>3. opened \in Nat
          BY <3>3
        <4> HIDE DEF Limits
        <4>4. l \in Limits
          BY DEF Limits
        <4> QED BY <4>1, <4>2, <4>3, <4>4 DEF Limits
      <3> QED BY <2>1, <3>4 DEF opened
    <2>2. CASE ~(date # NoDate /\ date # l.date)
      BY <2>2
    <2> QED BY <2>1, <2>2
  <1> HIDE DEF started
  <1>3. started.peak \in Nat /\ started.dayStart \in Nat /\ started.dailyPnl \in Int
    BY <1>2
  <1> DEFINE peak == IF balance > started.peak THEN balance ELSE started.peak
             pnl == IF date # NoDate THEN balance - started.dayStart ELSE started.dailyPnl
  <1>4. peak \in Nat /\ pnl \in Int
    BY <1>3
  <1>5. new = [started EXCEPT !.balance = balance, !.peak = peak, !.dailyPnl = pnl]
    OBVIOUS
  <1> HIDE DEF new, peak, pnl
  <1>6. /\ new \in Limits /\ new.dayStart = started.dayStart /\ new.balance = balance
        /\ new.peak = peak /\ new.date = started.date /\ new.dailyPnl = pnl
    BY <1>2, <1>3, <1>4, <1>5
  <1>7. peak = IF balance > l.peak THEN balance ELSE l.peak
    BY <1>2 DEF peak
  <1>8. pnl = IF date = NoDate THEN l.dailyPnl
              ELSE balance - (IF date # l.date THEN l.balance ELSE l.dayStart)
    BY <1>2 DEF pnl
  <1> QED BY <1>1, <1>2, <1>6, <1>7, <1>8

\* What an update adds to the history, and what it leaves of it.
LEMMA UpdateSeen ==
  ASSUME LimitsInv, NEW b \in Nat, NEW d \in Nat, UpdateBalance(b, d)
  PROVE  /\ Len(seen') = Len(seen) + 1 /\ seen' \in Seq([balance : Nat, date : Nat])
         /\ \A n \in 0 .. Len(seen) : BalanceIn(seen', n) = BalanceIn(seen, n)
         /\ BalanceIn(seen', Len(seen) + 1) = b
         /\ \A n \in 1 .. Len(seen) : seen'[n] = seen[n]
         /\ seen'[Len(seen) + 1].date = d
         /\ DatedIn(seen') = DatedIn(seen) \cup (IF d = NoDate THEN {} ELSE {Len(seen) + 1})
  <1> DEFINE new == [balance |-> b, date |-> d]
  <1>1. seen' = Append(seen, new) /\ seen \in Seq([balance : Nat, date : Nat])
    BY DEF UpdateBalance, LimitsInv
  <1>2. new \in [balance : Nat, date : Nat] /\ new.balance = b /\ new.date = d
    OBVIOUS
  <1> HIDE DEF new
  <1>3. /\ Len(seen') = Len(seen) + 1 /\ seen' \in Seq([balance : Nat, date : Nat])
        /\ \A n \in 1 .. Len(seen) : seen'[n] = seen[n]
        /\ seen'[Len(seen) + 1] = new /\ Len(seen) \in Nat
        /\ DOMAIN seen = 1 .. Len(seen) /\ DOMAIN seen' = 1 .. (Len(seen) + 1)
    BY <1>1, <1>2
  <1>4. ASSUME NEW n \in 0 .. Len(seen) PROVE BalanceIn(seen', n) = BalanceIn(seen, n)
    <2>1. CASE n = 0
      BY <2>1 DEF BalanceIn
    <2>2. CASE n # 0
      <3>1. n \in 1 .. Len(seen)
        BY <2>2, <1>3
      <3>2. seen'[n] = seen[n]
        BY <3>1, <1>3
      <3> QED BY <3>2 DEF BalanceIn
    <2> QED BY <2>1, <2>2
  <1>5. BalanceIn(seen', Len(seen) + 1) = b
    BY <1>2, <1>3 DEF BalanceIn
  <1>6. DatedIn(seen') = DatedIn(seen) \cup (IF d = NoDate THEN {} ELSE {Len(seen) + 1})
    <2>1. ASSUME NEW n \in 1 .. (Len(seen) + 1)
          PROVE  n \in DatedIn(seen') <=> n \in DatedIn(seen) \/ (d # NoDate /\ n = Len(seen) + 1)
      <3>1. CASE n = Len(seen) + 1
        BY <3>1, <1>2, <1>3 DEF DatedIn
      <3>2. CASE n # Len(seen) + 1
        <4>1. n \in 1 .. Len(seen) /\ seen'[n] = seen[n]
          BY <3>2, <1>3
        <4> QED BY <4>1, <3>2, <1>3 DEF DatedIn
      <3> QED BY <3>1, <3>2
    <2>2. DatedIn(seen') \subseteq 1 .. (Len(seen) + 1) /\ DatedIn(seen) \subseteq 1 .. (Len(seen) + 1)
      BY <1>3 DEF DatedIn
    <2>3. Len(seen) + 1 \in 1 .. (Len(seen) + 1)
      BY <1>3
    <2> HIDE DEF DatedIn
    <2> QED BY <2>1, <2>2, <2>3
  <1> QED BY <1>2, <1>3, <1>4, <1>5, <1>6

\* After an update RiskLimits is still what the updates add up to.
LEMMA UpdateLimitsInv ==
  ASSUME LimitsInv, NEW b \in Nat, NEW d \in Nat, d = NoDate \/ limit.date <= d, UpdateBalance(b, d)
  PROVE  LimitsInv'
  <1> DEFINE len == Len(seen)
             k == len + 1
  <1>0. limit \in LimitRecords /\ limit' = Updated(limit, b, d)
    BY DEF LimitsInv, UpdateBalance
  <1>1. /\ limit' \in LimitRecords /\ limit'.balance = b
        /\ limit'.peak = IF b > limit.peak THEN b ELSE limit.peak
        /\ limit'.date = IF d # NoDate THEN d ELSE limit.date
        /\ limit'.dayStart = IF d # NoDate /\ d # limit.date THEN limit.balance ELSE limit.dayStart
        /\ limit'.dailyPnl = IF d = NoDate THEN limit.dailyPnl
                             ELSE b - (IF d # limit.date THEN limit.balance ELSE limit.dayStart)
    <2>1. limit \in [balance : Nat, peak : Nat, date : Nat, dayStart : Nat, dailyPnl : Int]
      BY <1>0 DEF LimitRecords
    <2> DEFINE new == Updated(limit, b, d)
    <2>2. /\ new \in [balance : Nat, peak : Nat, date : Nat, dayStart : Nat, dailyPnl : Int]
          /\ new.balance = b
          /\ new.peak = IF b > limit.peak THEN b ELSE limit.peak
          /\ new.date = IF d # NoDate THEN d ELSE limit.date
          /\ new.dayStart = IF d # NoDate /\ d # limit.date THEN limit.balance ELSE limit.dayStart
          /\ new.dailyPnl = IF d = NoDate THEN limit.dailyPnl
                            ELSE b - (IF d # limit.date THEN limit.balance ELSE limit.dayStart)
      BY <2>1, UpdatedFields, ZenonT(120)
    <2>3. limit' = new
      BY <1>0
    <2> HIDE DEF new
    <2> QED BY <2>2, <2>3, Zenon DEF LimitRecords
  <1>2. /\ Len(seen') = k /\ seen' \in Seq([balance : Nat, date : Nat])
        /\ \A n \in 0 .. len : BalanceIn(seen', n) = BalanceIn(seen, n)
        /\ BalanceIn(seen', k) = b
        /\ \A n \in 1 .. len : seen'[n] = seen[n]
        /\ seen'[k].date = d
        /\ DatedIn(seen') = DatedIn(seen) \cup (IF d = NoDate THEN {} ELSE {k})
    BY UpdateSeen
  <1>3. /\ limit.balance \in Nat /\ limit.peak \in Nat /\ limit.date \in Nat
        /\ limit.dayStart \in Nat /\ limit.dailyPnl \in Int
        /\ DatedIn(seen) \subseteq 1 .. len /\ len \in Nat /\ k = len + 1
        /\ \A n \in 1 .. len : seen[n].date \in Nat
        /\ \A n \in 0 .. len : BalanceIn(seen, n) \in Nat
    BY LimitFields
  <1>inv. /\ limit.balance = BalanceIn(seen, len)
          /\ \A n \in 0 .. len : BalanceIn(seen, n) <= limit.peak
          /\ \E n \in 0 .. len : BalanceIn(seen, n) = limit.peak
          /\ \A n \in DatedIn(seen) : seen[n].date <= limit.date
          /\ limit.date # NoDate => \E first, last \in DatedIn(seen) : IsDay(limit, seen, first, last)
    BY DEF LimitsInv
  <1> HIDE DEF len, k
  <1>4. ~verdict'.asked
    BY DEF UpdateBalance, NoVerdict
  <1>5. limit'.balance = BalanceIn(seen', Len(seen'))
    BY <1>1, <1>2
  <1>6. \A n \in 0 .. Len(seen') : BalanceIn(seen', n) <= limit'.peak
    <2> SUFFICES ASSUME NEW n \in 0 .. k PROVE BalanceIn(seen', n) <= limit'.peak
      BY <1>2
    <2>1. CASE n = k
      BY <2>1, <1>1, <1>2, <1>3
    <2>2. CASE n # k
      <3>1. n \in 0 .. len
        BY <2>2, <1>3
      <3>2. BalanceIn(seen', n) = BalanceIn(seen, n) /\ BalanceIn(seen, n) <= limit.peak
        BY <3>1, <1>2, <1>inv
      <3> QED BY <3>1, <3>2, <1>1, <1>3
    <2> QED BY <2>1, <2>2
  <1>7. \E n \in 0 .. Len(seen') : BalanceIn(seen', n) = limit'.peak
    <2>1. CASE b > limit.peak
      <3>1. k \in 0 .. Len(seen') /\ BalanceIn(seen', k) = limit'.peak
        BY <2>1, <1>1, <1>2, <1>3
      <3> QED BY <3>1
    <2>2. CASE ~(b > limit.peak)
      <3>1. PICK n \in 0 .. len : BalanceIn(seen, n) = limit.peak
        BY <1>inv
      <3>2. n \in 0 .. Len(seen') /\ BalanceIn(seen', n) = limit'.peak
        BY <3>1, <2>2, <1>1, <1>2, <1>3
      <3> QED BY <3>2
    <2> QED BY <2>1, <2>2
  <1>8. \A n \in DatedIn(seen) : seen'[n].date = seen[n].date /\ seen[n].date <= limit.date /\ n \in 1 .. len
    BY <1>2, <1>3, <1>inv
  <1>9. \A n \in DatedIn(seen') : seen'[n].date <= limit'.date
    <2> SUFFICES ASSUME NEW n \in DatedIn(seen') PROVE seen'[n].date <= limit'.date
      OBVIOUS
    <2>1. CASE n \in DatedIn(seen)
      BY <2>1, <1>1, <1>3, <1>8
    <2>2. CASE n \notin DatedIn(seen)
      BY <2>2, <1>1, <1>2
    <2> QED BY <2>1, <2>2
  <1>10. ASSUME limit'.date # NoDate PROVE \E first, last \in DatedIn(seen') : IsDay(limit', seen', first, last)
    <2>1. CASE d = NoDate
      <3>1. PICK first \in DatedIn(seen), last \in DatedIn(seen) : IsDay(limit, seen, first, last)
        BY <2>1, <1>1, <1>10, <1>inv
      <3>2. DatedIn(seen') = DatedIn(seen) /\ limit'.date = limit.date /\ limit'.dayStart = limit.dayStart
            /\ limit'.dailyPnl = limit.dailyPnl
        BY <2>1, <1>1, <1>2
      <3>3. first - 1 \in 0 .. len /\ last \in 0 .. len
        BY <1>3
      <3>4. IsDay(limit', seen', first, last)
        BY <3>1, <3>2, <3>3, <1>2, <1>8 DEF IsDay
      <3> QED BY <3>2, <3>4
    <2>2. CASE d # NoDate /\ d = limit.date
      <3>1. PICK first \in DatedIn(seen), last \in DatedIn(seen) : IsDay(limit, seen, first, last)
        BY <2>2, <1>10, <1>1, <1>inv
      <3>2. /\ DatedIn(seen') = DatedIn(seen) \cup {k} /\ limit'.date = limit.date /\ limit'.dayStart = limit.dayStart
            /\ limit'.dailyPnl = b - limit.dayStart
        BY <2>2, <1>1, <1>2
      <3>3. first - 1 \in 0 .. len /\ first \in 1 .. len
        BY <1>3
      <3>4. first \in DatedIn(seen') /\ seen'[first].date = limit'.date
        BY <3>1, <3>2, <1>8 DEF IsDay
      <3>5. k \in DatedIn(seen') /\ seen'[k].date = limit'.date
        BY <3>2, <1>2, <2>2
      <3>6. \A n \in DatedIn(seen') : n <= k /\ (seen'[n].date = limit'.date => first <= n)
        <4> SUFFICES ASSUME NEW n \in DatedIn(seen') PROVE n <= k /\ (seen'[n].date = limit'.date => first <= n)
          OBVIOUS
        <4>1. CASE n = k
          BY <4>1, <3>3, <1>3
        <4>2. CASE n # k
          <5>1. n \in DatedIn(seen)
            BY <4>2, <3>2
          <5> QED BY <5>1, <3>1, <3>2, <1>3, <1>8 DEF IsDay
        <4> QED BY <4>1, <4>2
      <3>7. /\ limit'.dayStart = BalanceIn(seen', first - 1)
            /\ limit'.dailyPnl = BalanceIn(seen', k) - BalanceIn(seen', first - 1)
        BY <3>1, <3>2, <3>3, <1>2 DEF IsDay
      <3>8. IsDay(limit', seen', first, k)
        BY <3>4, <3>5, <3>6, <3>7 DEF IsDay
      <3> QED BY <3>4, <3>5, <3>8
    <2>3. CASE d # NoDate /\ d # limit.date
      <3>1. /\ DatedIn(seen') = DatedIn(seen) \cup {k} /\ limit'.date = d /\ limit'.dayStart = limit.balance
            /\ limit'.dailyPnl = b - limit.balance
        BY <2>3, <1>1, <1>2
      <3>2. limit.date < d
        BY <2>3, <1>3
      <3>3. k \in DatedIn(seen') /\ seen'[k].date = limit'.date
        BY <3>1, <1>2
      <3>4. \A n \in DatedIn(seen') : n <= k /\ (seen'[n].date = limit'.date => k <= n)
        <4> SUFFICES ASSUME NEW n \in DatedIn(seen') PROVE n <= k /\ (seen'[n].date = limit'.date => k <= n)
          OBVIOUS
        <4>1. CASE n = k
          BY <4>1, <1>3
        <4>2. CASE n # k
          <5>1. n \in DatedIn(seen)
            BY <4>2, <3>1
          <5>2. seen'[n].date # limit'.date /\ n \in 1 .. len
            BY <5>1, <3>1, <3>2, <1>3, <1>8
          <5> QED BY <5>2, <1>3
        <4> QED BY <4>1, <4>2
      <3>5. /\ limit'.dayStart = BalanceIn(seen', k - 1)
            /\ limit'.dailyPnl = BalanceIn(seen', k) - BalanceIn(seen', k - 1)
        <4>1. k - 1 = len /\ len \in 0 .. len
          BY <1>3
        <4>2. BalanceIn(seen', k - 1) = BalanceIn(seen, len) /\ limit.balance = BalanceIn(seen, len)
          BY <4>1, <1>2, <1>inv
        <4> QED BY <4>2, <3>1, <1>2
      <3>6. IsDay(limit', seen', k, k)
        BY <3>3, <3>4, <3>5 DEF IsDay
      <3> QED BY <3>3, <3>6
    <2> QED BY <2>1, <2>2, <2>3
  <1> QED BY <1>1, <1>2, <1>4, <1>5, <1>6, <1>7, <1>9, <1>10 DEF LimitsInv

LEMMA NextLimitsInv == LimitsInv /\ [LimitsNext]_limitVars => LimitsInv'
  <1> SUFFICES ASSUME LimitsInv, [LimitsNext]_limitVars PROVE LimitsInv'
    OBVIOUS
  <1>1. ASSUME NEW b \in Balances, NEW d \in {NoDate} \cup (limit.date .. LastDay), UpdateBalance(b, d)
        PROVE  LimitsInv'
    <2>1. b \in Nat /\ d \in Nat /\ (d = NoDate \/ limit.date <= d)
      BY LimitsAssumption, LimitFields DEF NoDate
    <2> QED BY <1>1, <2>1, UpdateLimitsInv
  <1>2. ASSUME NEW v, NEW n \in 0 .. MaxOpenPositions, CheckAllLimits(v, n)
        PROVE  LimitsInv'
    <2>1. verdict'.allowed => ~DailyLossReached(limit) /\ ~DrawdownReached(limit)
      BY <1>2 DEF CheckAllLimits
    <2>2. limit' = limit /\ seen' = seen
      BY <1>2 DEF CheckAllLimits
    <2> QED BY <2>1, <2>2 DEF LimitsInv, DailyLossReached, DrawdownReached, BalanceIn, DatedIn, IsDay
  <1>3. CASE UNCHANGED limitVars
    BY <1>3 DEF LimitsInv, limitVars, DailyLossReached, DrawdownReached, BalanceIn, DatedIn, IsDay
  <1> QED BY <1>1, <1>2, <1>3 DEF LimitsNext
-----------------------------------------------------------------------------
\* Whatever balances are reported, dated or not, on whatever days: trading is allowed only
\* while the loss of the day and the fall from the highest balance, both as the updates
\* themselves tell them, are below their limits (limits.py, update_balance,
\* check_all_limits).
THEOREM AllowedOnlyWithinLosses == LimitsSpec => []AllowedWithinLosses
  <1>1. LimitsInit => LimitsInv
    <2> SUFFICES ASSUME LimitsInit PROVE LimitsInv
      OBVIOUS
    <2>1. seen = <<>> /\ Len(seen) = 0 /\ DOMAIN seen = {} /\ DatedIn(seen) = {}
          /\ seen \in Seq([balance : Nat, date : Nat])
      BY DEF LimitsInit, DatedIn
    <2>2. limit.date = NoDate /\ limit.balance = StartBalance /\ limit.peak = StartBalance
          /\ limit \in LimitRecords /\ ~verdict.asked
      BY LimitsAssumption DEF LimitsInit, LimitRecords, NoDate, NoVerdict
    <2>3. \A n \in 0 .. Len(seen) : BalanceIn(seen, n) = StartBalance
      BY <2>1 DEF BalanceIn
    <2>4. 0 \in 0 .. Len(seen) /\ StartBalance \in Nat
      BY <2>1, LimitsAssumption
    <2> QED BY <2>1, <2>2, <2>3, <2>4 DEF LimitsInv
  <1>2. LimitsInv /\ [LimitsNext]_limitVars => LimitsInv'
    BY NextLimitsInv
  <1>3. LimitsInv => AllowedWithinLosses
    <2> SUFFICES ASSUME LimitsInv, verdict.asked, verdict.allowed PROVE AllowedWithinLosses
      BY DEF AllowedWithinLosses
    <2>0. Dated = DatedIn(seen) /\ \A n : BalanceAfter(n) = BalanceIn(seen, n)
      BY DEF Dated, DatedIn, BalanceAfter, BalanceIn
    <2>1. ~DailyLossReached(limit) /\ ~DrawdownReached(limit)
      BY DEF LimitsInv
    <2>2. Highest = limit.peak
      <3> DEFINE B == {BalanceIn(seen, n) : n \in 0 .. Len(seen)}
      <3>1. limit.peak \in B /\ limit.peak \in Nat /\ B \subseteq Nat
        BY LimitFields DEF LimitsInv
      <3>2. \A x \in B : limit.peak >= x
        BY LimitFields DEF LimitsInv
      <3>3. Highest = CHOOSE x \in B : \A y \in B : x >= y
        BY <2>0 DEF Highest, Max
      <3> HIDE DEF B
      <3>4. Highest \in B /\ \A y \in B : Highest >= y
        BY <3>1, <3>2, <3>3
      <3> QED BY <3>1, <3>2, <3>4
    <2>3. 100 * (Highest - BalanceIn(seen, Len(seen))) < MaxDrawdownPercent * Highest
      <3> DEFINE most == MaxDrawdownPercent * limit.peak
      <3>p. limit.peak \in Nat /\ limit.balance \in Nat /\ MaxDrawdownPercent \in Nat
        BY LimitFields, LimitsAssumption
      <3>0. most \in Nat /\ limit.peak \in Nat /\ limit.balance \in Nat
        BY <3>p
      <3>1. ~(100 * (limit.peak - limit.balance) >= most)
        BY <2>1 DEF DrawdownReached
      <3> HIDE DEF most
      <3>2. 100 * (limit.peak - limit.balance) < MaxDrawdownPercent * limit.peak
        <4>1. 100 * (limit.peak - limit.balance) < most
          BY <3>0, <3>1
        <4> QED BY <4>1 DEF most
      <3> QED BY <2>2, <3>2 DEF LimitsInv
    <2>4. ASSUME DatedIn(seen) # {} PROVE 100 * DayLoss < BalanceIn(seen, DayBegan - 1) * DailyLossPercent
      <3>1. limit.date # NoDate
        <4>1. PICK n \in DatedIn(seen) : TRUE
          BY <2>4
        <4>2. seen[n].date # NoDate /\ seen[n].date <= limit.date /\ seen[n].date \in Nat
          BY LimitFields DEF LimitsInv, DatedIn
        <4> QED BY <4>2, LimitFields DEF NoDate
      <3>2. PICK first \in DatedIn(seen), last \in DatedIn(seen) : IsDay(limit, seen, first, last)
        BY <3>1 DEF LimitsInv
      <3>3. /\ DatedIn(seen) \subseteq 1 .. Len(seen) /\ Len(seen) \in Nat
            /\ first \in 1 .. Len(seen) /\ last \in 1 .. Len(seen)
        BY LimitFields
      <3>4. LastDated = last
        <4>1. last \in DatedIn(seen) /\ \A n \in DatedIn(seen) : last >= n
          BY <3>2, <3>3 DEF IsDay
        <4>2. LastDated = CHOOSE x \in DatedIn(seen) : \A y \in DatedIn(seen) : x >= y
          BY <2>0 DEF LastDated, Max
        <4>3. LastDated \in DatedIn(seen) /\ \A y \in DatedIn(seen) : LastDated >= y
          BY <4>1, <4>2
        <4> QED BY <4>1, <4>3, <3>3
      <3>5. DayBegan = first
        <4> DEFINE D == {n \in DatedIn(seen) : seen[n].date = seen[LastDated].date}
        <4>1. first \in D /\ (\A n \in D : first <= n) /\ D \subseteq DatedIn(seen)
          BY <3>2, <3>4 DEF IsDay
        <4>2. DayBegan = CHOOSE x \in D : \A y \in D : x <= y
          BY <2>0 DEF DayBegan, Min
        <4> HIDE DEF D
        <4>3. DayBegan \in D /\ \A y \in D : DayBegan <= y
          BY <4>1, <4>2
        <4> QED BY <4>1, <4>3, <3>3
      <3> DEFINE opening == BalanceIn(seen, first - 1)
                 closing == BalanceIn(seen, last)
      <3>6. opening \in Nat /\ closing \in Nat
        <4>1. first - 1 \in 0 .. Len(seen) /\ last \in 0 .. Len(seen)
          BY <3>3
        <4> QED BY <4>1, LimitFields
      <3>7. limit.dayStart = opening /\ limit.dailyPnl = closing - opening
        BY <3>2 DEF IsDay
      <3>8. DayLoss = opening - closing /\ BalanceIn(seen, DayBegan - 1) = opening
        BY <2>0, <3>4, <3>5 DEF DayLoss
      <3> HIDE DEF opening, closing
      <3> DEFINE least == opening * DailyLossPercent
      <3>9. least \in Nat
        BY <3>6, LimitsAssumption
      <3>10. ~(100 * (closing - opening) <= -least)
        BY <2>1, <3>1, <3>7 DEF DailyLossReached
      <3> HIDE DEF least
      <3>11. 100 * (opening - closing) < least
        BY <3>6, <3>9, <3>10
      <3> QED BY <3>8, <3>11 DEF least
    <2> QED BY <2>0, <2>3, <2>4 DEF AllowedWithinLosses
  <1> QED BY <1>1, <1>2, <1>3, PTL DEF LimitsSpec
-----------------------------------------------------------------------------

TwoLayers(bullish, ml, ai) ==
  \/ bullish >= 3 /\ ml = "up"
  \/ bullish >= 3 /\ ai = "bullish"
  \/ ml = "up" /\ ai = "bullish"

\* The weights of the three layers: no one layer carries a score over the line.
LEMMA BuyingScore ==
  ASSUME NEW bullish \in 0 .. 5, NEW ml \in {"up", "down", "none"},
         NEW ai \in {"bearish", "bullish", "neither", "none"},
         ActionFor(FinalScore(bullish, ml, ai)) = "BUY"
  PROVE  TwoLayers(bullish, ml, ai)
  <1> DEFINE model == CASE ml = "up" -> 40 [] ml = "none" -> 20 [] OTHER -> 0
             advice == CASE ai = "bearish" -> 45 [] ai = "bullish" -> 55 [] OTHER -> 50
  <1>1. model = (IF ml = "up" THEN 40 ELSE IF ml = "none" THEN 20 ELSE 0)
    BY Zenon
  <1>2. advice = (IF ai = "bearish" THEN 45 ELSE IF ai = "bullish" THEN 55 ELSE 50)
    BY Zenon
  <1>3. FinalScore(bullish, ml, ai) = (7 * bullish + model) * advice
    BY DEF FinalScore
  <1> HIDE DEF model, advice
  <1>4. FinalScore(bullish, ml, ai) > 2750
    <2> DEFINE score == FinalScore(bullish, ml, ai)
    <2>1. score \in Int
      BY <1>1, <1>2, <1>3
    <2> HIDE DEF score
    <2>2. score > 55 * 50
      BY Zenon DEF ActionFor, score
    <2> QED BY <2>1, <2>2 DEF score
  <1>5. (7 * bullish + model) * advice > 2750
    BY <1>3, <1>4
  <1>6. CASE ml = "up" /\ ai # "bullish"
    <2>1. model = 40 /\ advice <= 50 /\ advice \in {45, 50}
      BY <1>1, <1>2, <1>6
    <2>2. bullish >= 3
      BY <1>5, <2>1
    <2> QED BY <1>6, <2>2 DEF TwoLayers
  <1>7. CASE ml = "up" /\ ai = "bullish"
    BY <1>7 DEF TwoLayers
  <1>8. CASE ml # "up" /\ ai = "bullish"
    <2>1. advice = 55 /\ model \in {0, 20}
      BY <1>1, <1>2, <1>8
    <2>2. bullish >= 3
      BY <1>5, <2>1
    <2> QED BY <1>8, <2>2 DEF TwoLayers
  <1>9. CASE ml # "up" /\ ai # "bullish"
    <2>1. model \in {0, 20} /\ advice \in {45, 50}
      BY <1>1, <1>2, <1>9
    <2>2. FALSE
      BY <1>5, <2>1
    <2> QED BY <2>2
  <1> QED BY <1>6, <1>7, <1>8, <1>9

\* The readings' type, and the property.
DecisionInv == readings \in Seq(0 .. 5) /\ BuyNeedsTwoLayers

LEMMA NextDecisionInv == DecisionInv /\ [DecisionNext]_decisionVars => DecisionInv'
  <1> SUFFICES ASSUME DecisionInv, [DecisionNext]_decisionVars PROVE DecisionInv'
    OBVIOUS
  <1>1. ASSUME NEW n \in 0 .. 5, DayPasses(n) PROVE DecisionInv'
    BY <1>1 DEF DayPasses, DecisionInv, BuyNeedsTwoLayers
  <1>2. CASE TrainMlModel \/ OllamaChanges \/ UNCHANGED decisionVars
    BY <1>2 DEF TrainMlModel, OllamaChanges, decisionVars, DecisionInv, BuyNeedsTwoLayers
  <1>3. CASE Decide
    <2> DEFINE day == Len(readings) - FutureWindow
    <2>1. PICK ml \in MlSignals, ai \in AiSignals :
            decision' = [decision |-> ActionFor(FinalScore(readings[day], ml, ai)),
                         bullish |-> readings[day], ml |-> ml, ai |-> ai, day |-> day]
      BY <1>3 DEF Decide
    <2>2. day \in DOMAIN readings /\ readings[day] \in 0 .. 5
      BY <1>3, DecisionAssumption DEF Decide, FeatureDays, DecisionInv
    <2>3. ml \in {"up", "down", "none"} /\ ai \in {"bearish", "bullish", "neither", "none"}
      BY DEF MlSignals, AiSignals
    <2>4. decision'.decision = "BUY" => TwoLayers(decision'.bullish, decision'.ml, decision'.ai)
      BY <2>1, <2>2, <2>3, BuyingScore
    <2>5. readings' = readings
      BY <1>3 DEF Decide
    <2> QED BY <2>4, <2>5 DEF DecisionInv, BuyNeedsTwoLayers, TwoLayers
  <1> QED BY <1>1, <1>2, <1>3 DEF DecisionNext
-----------------------------------------------------------------------------
\* Whatever the model has learnt and the advisor writes, on whatever days, a purchase has
\* two layers behind it (decision_engine.py, generate_decision).
THEOREM NoLayerBuysAlone == DecisionSpec => []BuyNeedsTwoLayers
  <1>1. DecisionInit => DecisionInv
    BY DEF DecisionInit, DecisionInv, NoDecision, BuyNeedsTwoLayers
  <1>2. DecisionInv /\ [DecisionNext]_decisionVars => DecisionInv'
    BY NextDecisionInv
  <1>3. DecisionInv => BuyNeedsTwoLayers
    BY DEF DecisionInv
  <1> QED BY <1>1, <1>2, <1>3, PTL DEF DecisionSpec

\* Strategies: an exponential average of a series is a recursive function; one exists for any
\* number of bars.
Mixed(value, average, n) == (2 * value + (n - 1) * average) \div (n + 1)
Averaging(x, n, m, g) ==
  g = [t \in 1 .. m |-> IF t = 1 THEN x[1] ELSE Mixed(x[t], g[t - 1], n)]

LEMMA AveragingExists ==
  ASSUME NEW x, NEW n, NEW m \in Nat
  PROVE  \E g : Averaging(x, n, m, g)
  <1> DEFINE N == {k \in Nat : \E g : Averaging(x, n, k, g)}
  <1>1. 0 \in N
    <2> DEFINE g == [t \in 1 .. 0 |-> x[t]]
    <2>1. Averaging(x, n, 0, g)
      BY DEF Averaging
    <2> QED BY <2>1
  <1>2. ASSUME NEW k \in Nat, k \in N PROVE k + 1 \in N
    <2>1. PICK g : Averaging(x, n, k, g)
      BY <1>2
    <2> DEFINE last == IF k = 0 THEN x[1] ELSE Mixed(x[k + 1], g[k], n)
               h == [t \in 1 .. (k + 1) |-> IF t <= k THEN g[t] ELSE last]
    <2>2. /\ DOMAIN h = 1 .. (k + 1) /\ h[k + 1] = last
          /\ \A t \in 1 .. k : h[t] = g[t]
      OBVIOUS
    <2>3. \A t \in 1 .. k : g[t] = IF t = 1 THEN x[1] ELSE Mixed(x[t], g[t - 1], n)
      BY <2>1 DEF Averaging
    <2>4. h = [t \in 1 .. (k + 1) |-> h[t]]
      OBVIOUS
    <2>5. ASSUME NEW t \in 1 .. (k + 1)
          PROVE  h[t] = IF t = 1 THEN x[1] ELSE Mixed(x[t], h[t - 1], n)
      <3>1. CASE t = k + 1
        <4>1. t - 1 = k /\ (t # 1 => k \in 1 .. k) /\ (t = 1 <=> k = 0)
          BY <3>1
        <4>2. t # 1 => h[t - 1] = g[k]
          BY <2>2, <4>1
        <4> HIDE DEF h
        <4> QED BY <2>2, <3>1, <4>1, <4>2
      <3>2. CASE t # k + 1
        <4>1. t \in 1 .. k /\ (t # 1 => t - 1 \in 1 .. k)
          BY <3>2
        <4> HIDE DEF h
        <4>2. h[t] = g[t] /\ (t # 1 => h[t - 1] = g[t - 1])
          BY <2>2, <4>1
        <4> QED BY <2>3, <4>1, <4>2
      <3> QED BY <3>1, <3>2
    <2> HIDE DEF h
    <2>6. Averaging(x, n, k + 1, h)
      BY <2>4, <2>5 DEF Averaging
    <2> QED BY <2>6
  <1> HIDE DEF N
  <1>3. m \in N
    BY <1>1, <1>2, NatSetInduction
  <1> QED BY <1>3 DEF N

LEMMA EwmIs ==
  ASSUME NEW x, NEW n, NEW m \in Nat, DOMAIN x = 1 .. m
  PROVE  \A t \in 1 .. m : Ewm(x, n)[t] = IF t = 1 THEN x[1] ELSE Mixed(x[t], Ewm(x, n)[t - 1], n)
  <1> DEFINE p == Ewm(x, n)
  <1>1. \E g : g = [t \in DOMAIN x |->
                      IF t = 1 THEN x[1] ELSE (2 * x[t] + (n - 1) * g[t - 1]) \div (n + 1)]
    <2>1. PICK g : Averaging(x, n, m, g)
      BY AveragingExists
    <2>2. g = [t \in 1 .. m |->
                 IF t = 1 THEN x[1] ELSE (2 * x[t] + (n - 1) * g[t - 1]) \div (n + 1)]
      BY <2>1, Zenon DEF Averaging, Mixed
    <2> QED BY <2>2, Zenon
  <1>2. p = [t \in DOMAIN x |->
               IF t = 1 THEN x[1] ELSE (2 * x[t] + (n - 1) * p[t - 1]) \div (n + 1)]
    BY <1>1, Zenon DEF Ewm
  <1>3. p = [t \in 1 .. m |-> IF t = 1 THEN x[1] ELSE Mixed(x[t], p[t - 1], n)]
    BY <1>2, Zenon DEF Mixed
  <1> HIDE DEF p
  <1>4. \A t \in 1 .. m : p[t] = IF t = 1 THEN x[1] ELSE Mixed(x[t], p[t - 1], n)
    BY <1>3
  <1> QED BY <1>4 DEF p

\* Two series that are the same up to a bar.
SameUpTo(x, y, i) ==
  /\ i \in Nat \ {0}
  /\ \E m \in Nat : i <= m /\ DOMAIN x = 1 .. m
  /\ \E m \in Nat : i <= m /\ DOMAIN y = 1 .. m
  /\ \A t \in 1 .. i : x[t] = y[t]

\* An average knows nothing of later bars.
LEMMA EwmLocal ==
  ASSUME NEW x, NEW y, NEW n, NEW i, SameUpTo(x, y, i)
  PROVE  \A t \in 1 .. i : Ewm(x, n)[t] = Ewm(y, n)[t]
  <1>0. i \in Nat \ {0} /\ \A t \in 1 .. i : x[t] = y[t]
    BY DEF SameUpTo
  <1>1. \A t \in 1 .. i : Ewm(x, n)[t] = IF t = 1 THEN x[1] ELSE Mixed(x[t], Ewm(x, n)[t - 1], n)
    <2>1. PICK m \in Nat : i <= m /\ DOMAIN x = 1 .. m
      BY DEF SameUpTo
    <2>2. \A t \in 1 .. m : Ewm(x, n)[t] = IF t = 1 THEN x[1] ELSE Mixed(x[t], Ewm(x, n)[t - 1], n)
      BY <2>1, EwmIs
    <2>3. \A t \in 1 .. i : t \in 1 .. m
      BY <1>0, <2>1
    <2> QED BY <2>2, <2>3
  <1>2. \A t \in 1 .. i : Ewm(y, n)[t] = IF t = 1 THEN y[1] ELSE Mixed(y[t], Ewm(y, n)[t - 1], n)
    <2>1. PICK m \in Nat : i <= m /\ DOMAIN y = 1 .. m
      BY DEF SameUpTo
    <2>2. \A t \in 1 .. m : Ewm(y, n)[t] = IF t = 1 THEN y[1] ELSE Mixed(y[t], Ewm(y, n)[t - 1], n)
      BY <2>1, EwmIs
    <2>3. \A t \in 1 .. i : t \in 1 .. m
      BY <1>0, <2>1
    <2> QED BY <2>2, <2>3
  <1> DEFINE N == {k \in Nat : k \in 1 .. i => Ewm(x, n)[k] = Ewm(y, n)[k]}
  <1>3. 0 \in N
    BY <1>0
  <1>4. ASSUME NEW k \in Nat, k \in N PROVE k + 1 \in N
    <2> SUFFICES ASSUME k + 1 \in 1 .. i PROVE Ewm(x, n)[k + 1] = Ewm(y, n)[k + 1]
      OBVIOUS
    <2>1. 1 \in 1 .. i /\ x[1] = y[1] /\ x[k + 1] = y[k + 1] /\ (k + 1) - 1 = k
      BY <1>0
    <2>2. k + 1 # 1 => Ewm(x, n)[k] = Ewm(y, n)[k]
      BY <1>0, <1>4
    <2> QED BY <1>1, <1>2, <2>1, <2>2
  <1> HIDE DEF N
  <1>5. Nat \subseteq N
    BY <1>3, <1>4, NatSetInduction
  <1> QED BY <1>0, <1>5 DEF N

LEMMA SameBefore ==
  ASSUME NEW x, NEW y, NEW i, SameUpTo(x, y, i), NEW j \in 1 .. i
  PROVE  SameUpTo(x, y, j)
  <1>1. i \in Nat \ {0} /\ \A t \in 1 .. i : x[t] = y[t]
    BY DEF SameUpTo
  <1>2. j \in Nat \ {0} /\ j <= i
    BY <1>1
  <1>3. \E m \in Nat : j <= m /\ DOMAIN x = 1 .. m
    <2>1. PICK m \in Nat : i <= m /\ DOMAIN x = 1 .. m
      BY DEF SameUpTo
    <2> QED BY <1>1, <1>2, <2>1
  <1>4. \E m \in Nat : j <= m /\ DOMAIN y = 1 .. m
    <2>1. PICK m \in Nat : i <= m /\ DOMAIN y = 1 .. m
      BY DEF SameUpTo
    <2> QED BY <1>1, <1>2, <2>1
  <1>5. \A t \in 1 .. j : x[t] = y[t]
    BY <1>1, <1>2
  <1> QED BY <1>2, <1>3, <1>4, <1>5 DEF SameUpTo

LEMMA LastBarsSame ==
  ASSUME NEW x, NEW y, NEW i, SameUpTo(x, y, i), NEW n \in Nat \ {0}, HasLast(n, i)
  PROVE  /\ LastBars(n, i) \subseteq 1 .. i
         /\ \A t \in LastBars(n, i) : /\ t \in Nat /\ t >= i - n + 1
                                      /\ x[t] = y[t]
                                      /\ t > 1 => x[t - 1] = y[t - 1]
  <1>1. i \in Nat \ {0} /\ \A t \in 1 .. i : x[t] = y[t]
    BY DEF SameUpTo
  <1>2. LastBars(n, i) \subseteq 1 .. i
    BY <1>1 DEF LastBars, HasLast
  <1>3. \A t \in LastBars(n, i) : t \in Nat /\ t >= i - n + 1 /\ (t > 1 => t - 1 \in 1 .. i)
    BY <1>1, <1>2 DEF LastBars
  <1> QED BY <1>1, <1>2, <1>3

LEMMA ClosesSame ==
  ASSUME NEW b, NEW c, NEW i, SameUpTo(b, c, i)
  PROVE  SameUpTo(Closes(b), Closes(c), i)
  <1>1. i \in Nat \ {0} /\ \A t \in 1 .. i : b[t] = c[t]
    BY DEF SameUpTo
  <1>2. PICK m \in Nat : i <= m /\ DOMAIN b = 1 .. m
    BY DEF SameUpTo
  <1>3. PICK k \in Nat : i <= k /\ DOMAIN c = 1 .. k
    BY DEF SameUpTo
  <1>4. DOMAIN Closes(b) = 1 .. m /\ DOMAIN Closes(c) = 1 .. k
    BY <1>2, <1>3 DEF Closes
  <1>5. \A t \in 1 .. i : Closes(b)[t] = Closes(c)[t]
    BY <1>1, <1>2, <1>3 DEF Closes
  <1> QED BY <1>1, <1>2, <1>3, <1>4, <1>5 DEF SameUpTo

\* Sums over the last bars of the same bars.
CloseSum(b, n, i) == SumFunction([t \in LastBars(n, i) |-> b[t].close])
SquareSum(b, n, i) == SumFunction([t \in LastBars(n, i) |-> b[t].close * b[t].close])
VolumeSum(b, n, i) == SumFunction([t \in LastBars(n, i) |-> b[t].volume])

LEMMA WindowSame ==
  ASSUME NEW b, NEW c, NEW i, SameUpTo(b, c, i), NEW n \in Nat \ {0}, HasLast(n, i)
  PROVE  /\ CloseSum(b, n, i) = CloseSum(c, n, i)
         /\ SquareSum(b, n, i)
              = SquareSum(c, n, i)
         /\ VolumeSum(b, n, i) = VolumeSum(c, n, i)
  <1> DEFINE L == LastBars(n, i)
  <1>1. \A t \in L : b[t] = c[t]
    BY LastBarsSame
  <1>2. [t \in L |-> b[t].close] = [t \in L |-> c[t].close]
    BY <1>1
  <1>3. [t \in L |-> b[t].close * b[t].close] = [t \in L |-> c[t].close * c[t].close]
    BY <1>1
  <1>4. [t \in L |-> b[t].volume] = [t \in L |-> c[t].volume]
    BY <1>1
  <1> QED BY <1>2, <1>3, <1>4, Zenon DEF CloseSum, SquareSum, VolumeSum

LEMMA GainsSame ==
  ASSUME NEW b, NEW c, NEW i, SameUpTo(b, c, i), HasLast(Window, i)
  PROVE  Gain(b, i) = Gain(c, i) /\ Loss(b, i) = Loss(c, i)
  <1> DEFINE L == LastBars(Window, i)
  <1>1. \A t \in L : b[t] = c[t] /\ (t > 1 => b[t - 1] = c[t - 1])
    BY StrategiesAssumption, LastBarsSame
  <1>2. [t \in L |-> IF t > 1 /\ b[t].close > b[t - 1].close THEN b[t].close - b[t - 1].close ELSE 0]
        = [t \in L |-> IF t > 1 /\ c[t].close > c[t - 1].close THEN c[t].close - c[t - 1].close ELSE 0]
    BY <1>1
  <1>3. [t \in L |-> IF t > 1 /\ b[t].close < b[t - 1].close THEN b[t - 1].close - b[t].close ELSE 0]
        = [t \in L |-> IF t > 1 /\ c[t].close < c[t - 1].close THEN c[t - 1].close - c[t].close ELSE 0]
    BY <1>1
  <1> QED BY <1>2, <1>3, Zenon DEF SumLast, Gain, Loss

\* The indicators of the last bars.
LEMMA IndicatorsSame ==
  ASSUME NEW b, NEW c, NEW i, SameUpTo(b, c, i), HasLast(Window, i)
  PROVE  /\ HasRsi(b, i) = HasRsi(c, i) /\ Gain(b, i) = Gain(c, i) /\ Loss(b, i) = Loss(c, i)
         /\ Below(b, i) = Below(c, i) /\ SpreadOf(b, i) = SpreadOf(c, i)
         /\ \A k : Deviates(b, i, k) = Deviates(c, i, k)
  <1>1. b[i] = c[i]
    BY DEF SameUpTo
  <1>2. /\ CloseSum(b, Window, i) = CloseSum(c, Window, i)
        /\ SquareSum(b, Window, i)
             = SquareSum(c, Window, i)
    BY StrategiesAssumption, WindowSame
  <1>3. Gain(b, i) = Gain(c, i) /\ Loss(b, i) = Loss(c, i)
    BY GainsSame
  <1>4. Below(b, i) = Below(c, i)
    BY <1>1, <1>2, Zenon DEF Below, SumLast, CloseSum
  <1>5. SpreadOf(b, i) = SpreadOf(c, i)
    BY <1>2, Zenon DEF SpreadOf, SumLast, CloseSum, SquareSum
  <1>6. ASSUME NEW k PROVE Deviates(b, i, k) = Deviates(c, i, k)
    BY <1>4, <1>5, Zenon DEF Deviates
  <1>7. HasRsi(b, i) = HasRsi(c, i)
    BY <1>3, Zenon DEF HasRsi
  <1> QED BY <1>3, <1>4, <1>5, <1>6, <1>7

LEMMA VolumeSame ==
  ASSUME NEW b, NEW c, NEW i, SameUpTo(b, c, i), NEW percent
  PROVE  VolumeAtLeast(b, i, percent) = VolumeAtLeast(c, i, percent)
  <1>1. CASE ~HasLast(Window, i)
    BY <1>1, Zenon DEF VolumeAtLeast
  <1>2. CASE HasLast(Window, i)
    <2>1. VolumeSum(b, Window, i) = VolumeSum(c, Window, i)
      BY <1>2, StrategiesAssumption, WindowSame
    <2>2. b[i] = c[i]
      BY DEF SameUpTo
    <2> QED BY <2>1, <2>2, Zenon DEF VolumeAtLeast, SumLast, VolumeSum
  <1> QED BY <1>1, <1>2

\* Strategy by strategy: what it says at a bar is the same on series that are the same so far.
LEMMA AveragesSame ==
  ASSUME NEW b, NEW c, NEW i, SameUpTo(b, c, i), i >= 2, NEW n
  PROVE  /\ Ewm(Closes(b), n)[i] = Ewm(Closes(c), n)[i]
         /\ Ewm(Closes(b), n)[i - 1] = Ewm(Closes(c), n)[i - 1]
  <1>1. i \in 1 .. i /\ i - 1 \in 1 .. i
    BY DEF SameUpTo
  <1>2. SameUpTo(Closes(b), Closes(c), i)
    BY ClosesSame
  <1>3. \A t \in 1 .. i : Ewm(Closes(b), n)[t] = Ewm(Closes(c), n)[t]
    BY <1>2, EwmLocal
  <1> QED BY <1>1, <1>3

EmaSignal(fastBefore, slowBefore, fast, slow) ==
  WithConfidence(Crossing(fastBefore, slowBefore, fast, slow),
                 Clamp((10000 * (IF fast > slow THEN fast - slow ELSE slow - fast)) \div slow, 50, 100))

LEMMA EmaSame ==
  ASSUME NEW b, NEW c, NEW i, SameUpTo(b, c, i)
  PROVE  EmaCrossover(b, i) = EmaCrossover(c, i)
  <1> DEFINE After(x) == EmaSignal(Ewm(Closes(x), Fast)[i - 1], Ewm(Closes(x), Slow)[i - 1],
                                   Ewm(Closes(x), Fast)[i], Ewm(Closes(x), Slow)[i])
  <1>0. /\ EmaCrossover(b, i) = IF i < 2 THEN Hold ELSE After(b)
        /\ EmaCrossover(c, i) = IF i < 2 THEN Hold ELSE After(c)
    BY DEF EmaCrossover, EmaSignal
  <1>1. CASE i < 2
    BY <1>0, <1>1, Zenon
  <1>2. CASE ~(i < 2)
    <2>1. i >= 2
      BY <1>2 DEF SameUpTo
    <2>2. /\ Ewm(Closes(b), Fast)[i] = Ewm(Closes(c), Fast)[i]
          /\ Ewm(Closes(b), Fast)[i - 1] = Ewm(Closes(c), Fast)[i - 1]
      BY <2>1, AveragesSame
    <2>3. /\ Ewm(Closes(b), Slow)[i] = Ewm(Closes(c), Slow)[i]
          /\ Ewm(Closes(b), Slow)[i - 1] = Ewm(Closes(c), Slow)[i - 1]
      BY <2>1, AveragesSame
    <2> QED BY <1>0, <1>2, <2>2, <2>3, Zenon
  <1> QED BY <1>1, <1>2

LEMMA SmaSame ==
  ASSUME NEW b, NEW c, NEW i, SameUpTo(b, c, i)
  PROVE  SmaCrossover(b, i) = SmaCrossover(c, i)
  <1>1. CASE ~HasLast(Slow, i - 1)
    BY <1>1, Zenon DEF SmaCrossover
  <1>2. CASE HasLast(Slow, i - 1)
    <2>1. /\ i - 1 \in 1 .. i /\ HasLast(Slow, i) /\ HasLast(Fast, i) /\ HasLast(Fast, i - 1)
          /\ Fast \in Nat \ {0} /\ Slow \in Nat \ {0}
      BY <1>2, StrategiesAssumption DEF HasLast, SameUpTo
    <2>2. SameUpTo(b, c, i - 1)
      BY <2>1, SameBefore
    <2>3. /\ CloseSum(b, Fast, i) = CloseSum(c, Fast, i)
          /\ CloseSum(b, Slow, i) = CloseSum(c, Slow, i)
      BY <2>1, WindowSame
    <2>4. /\ CloseSum(b, Fast, i - 1) = CloseSum(c, Fast, i - 1)
          /\ CloseSum(b, Slow, i - 1) = CloseSum(c, Slow, i - 1)
      BY <1>2, <2>1, <2>2, WindowSame
    <2> QED BY <2>3, <2>4, Zenon DEF SmaCrossover, SumLast, CloseSum
  <1> QED BY <1>1, <1>2

LEMMA RsiSame ==
  ASSUME NEW b, NEW c, NEW i, SameUpTo(b, c, i)
  PROVE  Rsi(b, i) = Rsi(c, i)
  <1>1. CASE ~HasLast(Window, i)
    <2>1. ~HasRsi(b, i) /\ ~HasRsi(c, i)
      BY <1>1 DEF HasRsi
    <2>2. Rsi(b, i) = Hold
      BY <2>1 DEF Rsi
    <2>3. Rsi(c, i) = Hold
      BY <2>1 DEF Rsi
    <2> QED BY <2>2, <2>3
  <1>2. CASE HasLast(Window, i)
    <2>1. HasRsi(b, i) = HasRsi(c, i) /\ Gain(b, i) = Gain(c, i) /\ Loss(b, i) = Loss(c, i)
      BY <1>2, IndicatorsSame
    <2> QED BY <2>1, Zenon DEF Rsi
  <1> QED BY <1>1, <1>2

LEMMA MacdSame ==
  ASSUME NEW b, NEW c, NEW i, SameUpTo(b, c, i)
  PROVE  Macd(b, i) = Macd(c, i)
  <1> DEFINE lineB == [t \in DOMAIN b |-> Ewm(Closes(b), Fast)[t] - Ewm(Closes(b), Slow)[t]]
             lineC == [t \in DOMAIN c |-> Ewm(Closes(c), Fast)[t] - Ewm(Closes(c), Slow)[t]]
  <1>1. CASE i < 2
    BY <1>1, Zenon DEF Macd
  <1>2. CASE ~(i < 2)
    <2>1. SameUpTo(lineB, lineC, i)
      <3>1. /\ \A t \in 1 .. i : Ewm(Closes(b), Fast)[t] = Ewm(Closes(c), Fast)[t]
            /\ \A t \in 1 .. i : Ewm(Closes(b), Slow)[t] = Ewm(Closes(c), Slow)[t]
        <4>1. SameUpTo(Closes(b), Closes(c), i)
          BY ClosesSame
        <4> QED BY <4>1, EwmLocal
      <3>2. i \in Nat \ {0}
        BY DEF SameUpTo
      <3>3. PICK m \in Nat : i <= m /\ DOMAIN b = 1 .. m
        BY DEF SameUpTo
      <3>4. PICK k \in Nat : i <= k /\ DOMAIN c = 1 .. k
        BY DEF SameUpTo
      <3>5. DOMAIN lineB = 1 .. m /\ DOMAIN lineC = 1 .. k
        BY <3>3, <3>4
      <3>6. \A t \in 1 .. i : t \in DOMAIN b /\ t \in DOMAIN c
        BY <3>2, <3>3, <3>4
      <3>7. \A t \in 1 .. i : lineB[t] = lineC[t]
        BY <3>1, <3>6
      <3> HIDE DEF lineB, lineC
      <3> QED BY <3>2, <3>3, <3>4, <3>5, <3>7 DEF SameUpTo
    <2>2. i \in 1 .. i /\ i - 1 \in 1 .. i
      BY <1>2 DEF SameUpTo
    <2> HIDE DEF lineB, lineC
    <2>3. \A t \in 1 .. i : Ewm(lineB, SignalPeriod)[t] = Ewm(lineC, SignalPeriod)[t]
      BY <2>1, EwmLocal
    <2>4. lineB[i] = lineC[i] /\ lineB[i - 1] = lineC[i - 1]
      BY <2>1, <2>2 DEF SameUpTo
    <2>5. /\ Ewm(lineB, SignalPeriod)[i] = Ewm(lineC, SignalPeriod)[i]
          /\ Ewm(lineB, SignalPeriod)[i - 1] = Ewm(lineC, SignalPeriod)[i - 1]
      BY <2>2, <2>3
    <2>6. Macd(b, i) = WithConfidence(Crossing(lineB[i - 1], Ewm(lineB, SignalPeriod)[i - 1],
                                               lineB[i], Ewm(lineB, SignalPeriod)[i]), NoConfidence)
      BY <1>2, Zenon DEF Macd, lineB
    <2>7. Macd(c, i) = WithConfidence(Crossing(lineC[i - 1], Ewm(lineC, SignalPeriod)[i - 1],
                                               lineC[i], Ewm(lineC, SignalPeriod)[i]), NoConfidence)
      BY <1>2, Zenon DEF Macd, lineC
    <2> QED BY <2>4, <2>5, <2>6, <2>7, Zenon
  <1> QED BY <1>1, <1>2

LEMMA BollingerSame ==
  ASSUME NEW b, NEW c, NEW i, SameUpTo(b, c, i)
  PROVE  Bollinger(b, i) = Bollinger(c, i)
  <1>1. CASE ~HasLast(Window, i)
    <2>1. Bollinger(b, i) = Hold
      BY <1>1 DEF Bollinger
    <2>2. Bollinger(c, i) = Hold
      BY <1>1 DEF Bollinger
    <2> QED BY <2>1, <2>2
  <1>2. CASE HasLast(Window, i)
    <2>1. Below(b, i) = Below(c, i) /\ Deviates(b, i, BandWidth) = Deviates(c, i, BandWidth)
      BY <1>2, IndicatorsSame
    <2> QED BY <2>1, Zenon DEF Bollinger
  <1> QED BY <1>1, <1>2

\* All the volume so far, and what was paid for it.
VolumeTo(b, t) == SumFunction([u \in 1 .. t |-> b[u].volume])
AmountTo(b, t) == SumFunction([u \in 1 .. t |-> (b[u].high + b[u].low + b[u].close) * b[u].volume])

LEMMA TotalsSame ==
  ASSUME NEW b, NEW c, NEW i, SameUpTo(b, c, i)
  PROVE  VolumeTo(b, i) = VolumeTo(c, i) /\ AmountTo(b, i) = AmountTo(c, i)
  <1>1. \A u \in 1 .. i : b[u] = c[u]
    BY DEF SameUpTo
  <1>2. [u \in 1 .. i |-> b[u].volume] = [u \in 1 .. i |-> c[u].volume]
    BY <1>1
  <1>3. [u \in 1 .. i |-> (b[u].high + b[u].low + b[u].close) * b[u].volume]
        = [u \in 1 .. i |-> (c[u].high + c[u].low + c[u].close) * c[u].volume]
    BY <1>1
  <1> QED BY <1>2, <1>3, Zenon DEF VolumeTo, AmountTo

LEMMA VwapSame ==
  ASSUME NEW b, NEW c, NEW i, SameUpTo(b, c, i)
  PROVE  Vwap(b, i) = Vwap(c, i)
  <1> DEFINE After(x) ==
               IF 3 * VolumeTo(x, i - 1) = 0 THEN Hold
               ELSE WithConfidence(Crossing(x[i - 1].close * (3 * VolumeTo(x, i - 1)), AmountTo(x, i - 1),
                                            x[i].close * (3 * VolumeTo(x, i)), AmountTo(x, i)),
                                   IF VolumeAtLeast(x, i, 120) THEN 80 ELSE 50)
  <1>1. CASE i < 3
    BY <1>1, Zenon DEF Vwap
  <1>2. CASE ~(i < 3)
    <2>1. i - 1 \in 1 .. i /\ i \in 1 .. i
      BY <1>2 DEF SameUpTo
    <2>2. SameUpTo(b, c, i - 1)
      BY <2>1, SameBefore
    <2>3. b[i] = c[i] /\ b[i - 1] = c[i - 1]
      BY <2>1 DEF SameUpTo
    <2>4. /\ VolumeTo(b, i) = VolumeTo(c, i) /\ AmountTo(b, i) = AmountTo(c, i)
          /\ VolumeTo(b, i - 1) = VolumeTo(c, i - 1) /\ AmountTo(b, i - 1) = AmountTo(c, i - 1)
      BY <2>2, TotalsSame
    <2>5. VolumeAtLeast(b, i, 120) = VolumeAtLeast(c, i, 120)
      BY VolumeSame
    <2>6. After(b) = After(c)
      BY <2>3, <2>4, <2>5, Zenon
    <2>7. Vwap(b, i) = After(b)
      BY <1>2, Zenon DEF Vwap, VolumeTo, AmountTo
    <2>8. Vwap(c, i) = After(c)
      BY <1>2, Zenon DEF Vwap, VolumeTo, AmountTo
    <2> HIDE DEF After
    <2> QED BY <2>6, <2>7, <2>8
  <1> QED BY <1>1, <1>2

LEMMA TrueRangeSame ==
  ASSUME NEW b, NEW c, NEW t, b[t] = c[t], t > 1 => b[t - 1] = c[t - 1]
  PROVE  TrueRange(b, t) = TrueRange(c, t)
  <1>1. CASE t > 1
    BY <1>1, Zenon DEF TrueRange
  <1>2. CASE ~(t > 1)
    BY <1>2, Zenon DEF TrueRange
  <1> QED BY <1>1, <1>2

LEMMA BreakoutSame ==
  ASSUME NEW b, NEW c, NEW i, SameUpTo(b, c, i)
  PROVE  Breakout(b, i) = Breakout(c, i)
  <1> DEFINE L == LastBars(Window, i)
  <1>1. CASE i <= Required
    <2>1. ~(i > Required)
      BY <1>1, StrategiesAssumption DEF SameUpTo
    <2>2. Breakout(b, i) = Hold
      BY <2>1, Zenon DEF Breakout
    <2>3. Breakout(c, i) = Hold
      BY <2>1, Zenon DEF Breakout
    <2> QED BY <2>2, <2>3
  <1>2. CASE ~(i <= Required)
    <2>1. HasLast(Window, i) /\ i - 1 \in 1 .. i /\ i \in 1 .. i /\ Window \in Nat \ {0}
      BY <1>2, StrategiesAssumption DEF HasLast, SameUpTo
    <2>2. b[i] = c[i] /\ b[i - 1] = c[i - 1]
      BY <2>1 DEF SameUpTo
    <2>3. \A t \in L : b[t] = c[t] /\ (t > 1 => b[t - 1] = c[t - 1])
      BY <2>1, LastBarsSame
    <2>4. \A t \in L : TrueRange(b, t) = TrueRange(c, t)
      BY <2>3, TrueRangeSame
    <2>5. [t \in L |-> TrueRange(b, t)] = [t \in L |-> TrueRange(c, t)]
      BY <2>4
    <2>6. Margin(b, i) = Margin(c, i)
      BY <2>5, Zenon DEF Margin, SumLast
    <2>7. BreaksAbove(b, i) = BreaksAbove(c, i)
      BY <2>2, <2>3, <2>6, Zenon DEF BreaksAbove
    <2>8. BreaksBelow(b, i) = BreaksBelow(c, i)
      BY <2>2, <2>3, <2>6, Zenon DEF BreaksBelow
    <2>9. VolumeAtLeast(b, i, 150) = VolumeAtLeast(c, i, 150)
      BY VolumeSame
    <2> QED BY <2>7, <2>8, <2>9, Zenon DEF Breakout
  <1> QED BY <1>1, <1>2

LEMMA ReversionSame ==
  ASSUME NEW b, NEW c, NEW i, SameUpTo(b, c, i)
  PROVE  MeanReversion(b, i) = MeanReversion(c, i)
  <1>1. CASE i <= Required
    <2>1. ~(i > Required)
      BY <1>1, StrategiesAssumption DEF SameUpTo
    <2>2. MeanReversion(b, i) = Hold
      BY <2>1, Zenon DEF MeanReversion
    <2>3. MeanReversion(c, i) = Hold
      BY <2>1, Zenon DEF MeanReversion
    <2> QED BY <2>2, <2>3
  <1>2. CASE ~(i <= Required)
    <2>1. HasLast(Window, i)
      BY <1>2, StrategiesAssumption DEF HasLast, SameUpTo
    <2>2. /\ HasRsi(b, i) = HasRsi(c, i) /\ Gain(b, i) = Gain(c, i) /\ Loss(b, i) = Loss(c, i)
          /\ Below(b, i) = Below(c, i) /\ SpreadOf(b, i) = SpreadOf(c, i)
      BY <2>1, IndicatorsSame
    <2>3. {k \in 0 .. Window : Deviates(b, i, k)} = {k \in 0 .. Window : Deviates(c, i, k)}
      BY <2>1, IndicatorsSame
    <2> QED BY <2>2, <2>3, Zenon DEF MeanReversion
  <1> QED BY <1>1, <1>2

LEMMA MovesSame ==
  ASSUME NEW b, NEW c, NEW t \in Nat \ {0}, b[t] = c[t], t > 1 => b[t - 1] = c[t - 1]
  PROVE  Moves(b, t) = Moves(c, t)
  <1>1. CASE t = 1
    BY <1>1, Zenon DEF Moves
  <1>2. CASE t # 1
    <2>1. t > 1
      BY <1>2
    <2> QED BY <2>1, Zenon DEF Moves
  <1> QED BY <1>1, <1>2

\* What moved over a window, up and down.
UpSum(b, t) == SumFunction([u \in LastBars(Window, t) |-> Moves(b, u).up])
DownSum(b, t) == SumFunction([u \in LastBars(Window, t) |-> Moves(b, u).down])
Direction(up, down) ==
  IF up + down = 0 THEN -1
  ELSE (100 * (IF up > down THEN up - down ELSE down - up)) \div (up + down)

LEMMA DirectionSame ==
  ASSUME NEW b, NEW c, NEW i, SameUpTo(b, c, i), HasLast(Window, i)
  PROVE  DirectionAt(b, i) = DirectionAt(c, i)
  <1> DEFINE L == LastBars(Window, i)
  <1>1. \A t \in L : t \in Nat \ {0} /\ b[t] = c[t] /\ (t > 1 => b[t - 1] = c[t - 1])
    <2>1. L \subseteq 1 .. i /\ \A t \in L : t \in Nat /\ b[t] = c[t] /\ (t > 1 => b[t - 1] = c[t - 1])
      BY StrategiesAssumption, LastBarsSame
    <2> HIDE DEF L
    <2> QED BY <2>1
  <1>2. \A t \in L : Moves(b, t) = Moves(c, t)
    BY <1>1, MovesSame
  <1>3. [t \in L |-> Moves(b, t).up] = [t \in L |-> Moves(c, t).up]
    BY <1>2
  <1>4. [t \in L |-> Moves(b, t).down] = [t \in L |-> Moves(c, t).down]
    BY <1>2
  <1>5. UpSum(b, i) = UpSum(c, i) /\ DownSum(b, i) = DownSum(c, i)
    BY <1>3, <1>4, Zenon DEF UpSum, DownSum
  <1>6. /\ DirectionAt(b, i) = Direction(UpSum(b, i), DownSum(b, i))
        /\ DirectionAt(c, i) = Direction(UpSum(c, i), DownSum(c, i))
    BY Zenon DEF DirectionAt, Direction, SumLast, UpSum, DownSum
  <1> QED BY <1>5, <1>6

\* The directions over a window, and what the strategy makes of them.
DirectionSum(b, i) == SumFunction([t \in LastBars(Window, i) |-> DirectionAt(b, t)])
Trending(b, i) ==
  /\ HasLast(2 * Window - 1, i)
  /\ \A t \in LastBars(Window, i) : DirectionAt(b, t) >= 0
  /\ DirectionSum(b, i) \div Window >= TrendLine
MomentumSignal(before, now, adx) ==
  WithConfidence(Crossing(before, 0, now, 0), Clamp(50 + adx - TrendLine, 50, 100))

LEMMA MomentumIs ==
  ASSUME NEW b, NEW i
  PROVE  Momentum(b, i) =
           IF i <= Required \/ ~HasLast(Max({Fast, Slow, Window}) + 2, i) \/ ~Trending(b, i) THEN Hold
           ELSE MomentumSignal(MomentumScore(b, i - 1), MomentumScore(b, i), DirectionSum(b, i) \div Window)
  BY Zenon DEF Momentum, Trending, MomentumSignal, DirectionSum, SumLast

LEMMA LongestCovers ==
  ASSUME NEW i \in Nat, HasLast(Max({Fast, Slow, Window}) + 2, i)
  PROVE  i >= Fast + 2 /\ i >= Slow + 2 /\ i >= Window + 2
  <1> DEFINE S == {Fast, Slow, Window}
             long == Max(S)
  <1>1. \E m \in S : \A x \in S : m >= x
    BY StrategiesAssumption
  <1>2. long \in S /\ \A x \in S : long >= x
    BY <1>1, Zenon DEF Max
  <1>3. Fast \in S /\ Slow \in S /\ Window \in S /\ long \in Nat
    BY <1>2, StrategiesAssumption
  <1> HIDE DEF S, long
  <1>4. long + 2 <= i
    BY DEF long, S, HasLast
  <1> QED BY <1>2, <1>3, <1>4, StrategiesAssumption

LEMMA MomentumSame ==
  ASSUME NEW b, NEW c, NEW i, SameUpTo(b, c, i)
  PROVE  Momentum(b, i) = Momentum(c, i)
  <1> DEFINE Long == Max({Fast, Slow, Window}) + 2
             L == LastBars(Window, i)
  <1>0. i \in Nat \ {0}
    BY DEF SameUpTo
  <1>1. CASE ~HasLast(2 * Window - 1, i)
    <2>1. ~Trending(b, i) /\ ~Trending(c, i)
      BY <1>1, Zenon DEF Trending
    <2> QED BY <2>1, MomentumIs, Zenon
  <1>2. CASE HasLast(2 * Window - 1, i)
    <2>1. HasLast(Window, i) /\ \A t \in L : t \in 1 .. i /\ HasLast(Window, t)
      <3>1. i >= 2 * Window - 1 /\ Window \in Nat \ {0}
        BY <1>2, StrategiesAssumption DEF HasLast
      <3>2. \A t \in L : t \in Int /\ t >= i - Window + 1 /\ t <= i
        BY <1>0, <3>1 DEF LastBars
      <3>3. i >= Window
        BY <1>0, <3>1
      <3> HIDE DEF L
      <3>4. \A t \in L : t \in 1 .. i /\ t >= Window
        BY <1>0, <3>1, <3>2
      <3> QED BY <3>3, <3>4, Zenon DEF HasLast
    <2>2. \A t \in L : DirectionAt(b, t) = DirectionAt(c, t)
      <3> TAKE t \in L
      <3>1. SameUpTo(b, c, t)
        BY <2>1, SameBefore
      <3> QED BY <2>1, <3>1, DirectionSame
    <2>3. [t \in L |-> DirectionAt(b, t)] = [t \in L |-> DirectionAt(c, t)]
      BY <2>2
    <2>4. DirectionSum(b, i) = DirectionSum(c, i)
      BY <2>3, Zenon DEF DirectionSum
    <2>5. Trending(b, i) = Trending(c, i)
      BY <2>2, <2>4, Zenon DEF Trending
    <2>6. CASE ~HasLast(Long, i)
      BY <2>6, MomentumIs, Zenon
    <2>7. CASE HasLast(Long, i)
      <3>1. i >= Fast + 2 /\ i >= Slow + 2 /\ i >= Window + 2
        BY <1>0, <2>7, LongestCovers
      <3>2. /\ i \in 1 .. i /\ i - Fast \in 1 .. i /\ i - Slow \in 1 .. i /\ i - Window \in 1 .. i
            /\ i - 1 \in 1 .. i /\ (i - 1) - Fast \in 1 .. i /\ (i - 1) - Slow \in 1 .. i
            /\ (i - 1) - Window \in 1 .. i
        BY <1>0, <3>1, StrategiesAssumption
      <3>3. \A t \in 1 .. i : b[t] = c[t]
        BY DEF SameUpTo
      <3>4. MomentumScore(b, i) = MomentumScore(c, i)
        <4>1. b[i] = c[i] /\ b[i - Fast] = c[i - Fast] /\ b[i - Slow] = c[i - Slow] /\ b[i - Window] = c[i - Window]
          BY <3>2, <3>3
        <4> QED BY <4>1, Zenon DEF MomentumScore
      <3>5. MomentumScore(b, i - 1) = MomentumScore(c, i - 1)
        <4>1. /\ b[i - 1] = c[i - 1] /\ b[(i - 1) - Fast] = c[(i - 1) - Fast]
              /\ b[(i - 1) - Slow] = c[(i - 1) - Slow] /\ b[(i - 1) - Window] = c[(i - 1) - Window]
          BY <3>2, <3>3
        <4> QED BY <4>1, Zenon DEF MomentumScore
      <3> QED BY <2>4, <2>5, <3>4, <3>5, MomentumIs, Zenon
    <2> QED BY <2>6, <2>7
  <1> QED BY <1>1, <1>2

LEMMA ScalpingSame ==
  ASSUME NEW b, NEW c, NEW i, SameUpTo(b, c, i)
  PROVE  Scalping(b, i) = Scalping(c, i)
  <1> DEFINE L == LastBars(Window, i)
  <1>1. CASE i <= Required
    <2>1. ~(i > Required)
      BY <1>1, StrategiesAssumption DEF SameUpTo
    <2>2. Scalping(b, i) = Hold
      BY <2>1, Zenon DEF Scalping
    <2>3. Scalping(c, i) = Hold
      BY <2>1, Zenon DEF Scalping
    <2> QED BY <2>2, <2>3
  <1>2. CASE ~(i <= Required)
    <2>1. HasLast(Window, i) /\ i \in 1 .. i /\ i >= 2 /\ Window \in Nat \ {0}
      BY <1>2, StrategiesAssumption DEF HasLast, SameUpTo
    <2>2. b[i] = c[i]
      BY <2>1 DEF SameUpTo
    <2>3. \A t \in L : b[t] = c[t]
      BY <2>1, LastBarsSame
    <2>4. {b[t].low : t \in L} = {c[t].low : t \in L} /\ {b[t].high : t \in L} = {c[t].high : t \in L}
      BY <2>3
    <2>5. VolumeAtLeast(b, i, 150) = VolumeAtLeast(c, i, 150)
      BY VolumeSame
    <2>6. /\ Ewm(Closes(b), Fast)[i] = Ewm(Closes(c), Fast)[i]
          /\ Ewm(Closes(b), Fast)[i - 1] = Ewm(Closes(c), Fast)[i - 1]
      BY <2>1, AveragesSame
    <2>7. /\ Ewm(Closes(b), Slow)[i] = Ewm(Closes(c), Slow)[i]
          /\ Ewm(Closes(b), Slow)[i - 1] = Ewm(Closes(c), Slow)[i - 1]
      BY <2>1, AveragesSame
    <2> QED BY <2>2, <2>4, <2>5, <2>6, <2>7, ZenonT(60) DEF Scalping
  <1> QED BY <1>1, <1>2

LEMMA TemplateSame ==
  ASSUME NEW b, NEW c, NEW i, SameUpTo(b, c, i)
  PROVE  Template(b, i) = Template(c, i)
  <1>1. CASE ~HasLast(Window, i - 1)
    BY <1>1, Zenon DEF Template
  <1>2. CASE HasLast(Window, i - 1)
    <2>1. /\ i - 1 \in 1 .. i /\ i \in 1 .. i /\ HasLast(Window, i) /\ Window \in Nat \ {0}
      BY <1>2, StrategiesAssumption DEF HasLast, SameUpTo
    <2>2. SameUpTo(b, c, i - 1)
      BY <2>1, SameBefore
    <2>3. b[i] = c[i] /\ b[i - 1] = c[i - 1]
      BY <2>1 DEF SameUpTo
    <2>4. CloseSum(b, Window, i) = CloseSum(c, Window, i)
      BY <2>1, WindowSame
    <2>5. CloseSum(b, Window, i - 1) = CloseSum(c, Window, i - 1)
      BY <1>2, <2>1, <2>2, WindowSame
    <2> QED BY <2>3, <2>4, <2>5, Zenon DEF Template, SumLast, CloseSum
  <1> QED BY <1>1, <1>2

LEMMA SignalSame ==
  ASSUME NEW b, NEW c, NEW i, SameUpTo(b, c, i), NEW n \in Names
  PROVE  SignalOf(n, b, i) = SignalOf(n, c, i)
  <1>1. CASE n = "ema"
    BY <1>1, EmaSame DEF SignalOf
  <1>2. CASE n = "sma"
    BY <1>2, SmaSame DEF SignalOf
  <1>3. CASE n = "rsi"
    BY <1>3, RsiSame DEF SignalOf
  <1>4. CASE n = "macd"
    BY <1>4, MacdSame DEF SignalOf
  <1>5. CASE n = "bollinger"
    BY <1>5, BollingerSame DEF SignalOf
  <1>6. CASE n = "vwap"
    BY <1>6, VwapSame DEF SignalOf
  <1>7. CASE n = "breakout"
    BY <1>7, BreakoutSame DEF SignalOf
  <1>8. CASE n = "reversion"
    BY <1>8, ReversionSame DEF SignalOf
  <1>9. CASE n = "momentum"
    BY <1>9, MomentumSame DEF SignalOf
  <1>10. CASE n = "scalping"
    BY <1>10, ScalpingSame DEF SignalOf
  <1>11. CASE n = "template"
    BY <1>11, TemplateSame DEF SignalOf
  <1> QED
    BY <1>1, <1>2, <1>3, <1>4, <1>5, <1>6, <1>7, <1>8, <1>9, <1>10, <1>11, Zenon DEF Names

\* What every strategy has answered, bar by bar.
AnswersInv ==
  /\ bars \in Seq(Bars)
  /\ answers = [n \in Names |-> answers[n]]
  /\ \A n \in Names : answers[n] = [i \in 1 .. Len(bars) |-> answers[n][i]]
  /\ NoLookAhead

LEMMA AppendIs ==
  ASSUME NEW f, NEW m \in Nat, f = [i \in 1 .. m |-> f[i]], NEW x
  PROVE  Append(f, x) = [i \in 1 .. (m + 1) |-> IF i <= m THEN f[i] ELSE x]
  OBVIOUS

LEMMA BarStep ==
  ASSUME AnswersInv, NEW bar \in Bars, BarCloses(bar)
  PROVE  AnswersInv'
  <1> DEFINE m == Len(bars)
  <1>1. bars \in Seq(Bars) /\ m \in Nat /\ bars' = Append(bars, bar)
    BY DEF AnswersInv, BarCloses
  <1>2. bars' \in Seq(Bars) /\ Len(bars') = m + 1 /\ \A t \in 1 .. m : bars'[t] = bars[t]
    BY <1>1
  <1>3. answers' = [n \in Names |-> Append(answers[n], SignalOf(n, bars', Len(bars')))]
    BY DEF BarCloses
  <1>4. ASSUME NEW n \in Names
        PROVE  answers'[n] = [i \in 1 .. (m + 1) |-> IF i <= m THEN answers[n][i] ELSE SignalOf(n, bars', m + 1)]
    <2> DEFINE f == answers[n]  x == SignalOf(n, bars', m + 1)
    <2>1. f = [i \in 1 .. m |-> f[i]]
      BY DEF AnswersInv
    <2>2. answers'[n] = Append(f, x)
      BY <1>2, <1>3, Zenon
    <2> HIDE DEF f, x, m
    <2>3. Append(f, x) = [i \in 1 .. (m + 1) |-> IF i <= m THEN f[i] ELSE x]
      BY <1>1, <2>1, AppendIs
    <2> QED BY <2>2, <2>3, Zenon DEF f, x
  <1> HIDE DEF m
  <1>5. ASSUME NEW n \in Names, NEW i \in 1 .. (m + 1)
        PROVE  SignalOf(n, bars', i) = answers'[n][i]
    <2>1. CASE i = m + 1
      <3>1. ~(i <= m)
        BY <1>1, <2>1
      <3>2. answers'[n][i] = SignalOf(n, bars', m + 1)
        BY <1>4, <3>1, Zenon
      <3> QED BY <2>1, <3>2
    <2>2. CASE i # m + 1
      <3>1. i \in 1 .. m /\ i <= m
        BY <1>1, <2>2
      <3>2. answers'[n][i] = answers[n][i]
        BY <1>4, <3>1, Zenon
      <3>3. DOMAIN answers[n] = 1 .. m
        BY DEF AnswersInv, m
      <3>4. SignalOf(n, bars, i) = answers[n][i]
        BY <3>1, <3>3 DEF AnswersInv, NoLookAhead
      <3>5. SameUpTo(bars', bars, i)
        <4>1. DOMAIN bars = 1 .. m /\ DOMAIN bars' = 1 .. (m + 1)
          BY <1>1, <1>2 DEF m
        <4>2. i \in Nat \ {0} /\ i <= m /\ i <= m + 1 /\ m + 1 \in Nat
          BY <1>1, <3>1
        <4>3. \A t \in 1 .. i : bars'[t] = bars[t]
          <5>1. \A t \in 1 .. i : t \in 1 .. m
            BY <1>1, <4>2
          <5> QED BY <1>2, <5>1
        <4> QED BY <1>1, <4>1, <4>2, <4>3 DEF SameUpTo
      <3>6. SignalOf(n, bars', i) = SignalOf(n, bars, i)
        BY <3>5, SignalSame
      <3> QED BY <3>2, <3>4, <3>6
    <2> QED BY <2>1, <2>2
  <1>6. \A n \in Names : DOMAIN answers'[n] = 1 .. (m + 1)
    BY <1>4
  <1>7. NoLookAhead'
    BY <1>5, <1>6, Zenon DEF NoLookAhead
  <1>8. answers' = [n \in Names |-> answers'[n]]
    BY <1>3
  <1>9. \A n \in Names : answers'[n] = [i \in 1 .. Len(bars') |-> answers'[n][i]]
    BY <1>2, <1>4
  <1> QED BY <1>2, <1>7, <1>8, <1>9 DEF AnswersInv

\* Whatever bars follow, however long the series and whatever the strategies' periods: asked
\* again about an earlier bar with all the later ones at hand, each of them gives the signal it
\* gave when that bar was the newest (core/trading_strategies/base.py, generate_signal:
\* "CRITICAL: No Look-Ahead Bias").
THEOREM LooksNowhereAhead == StrategiesSpec => []NoLookAhead
  <1>1. StrategiesInit => AnswersInv
    <2> SUFFICES ASSUME StrategiesInit PROVE AnswersInv
      OBVIOUS
    <2>1. bars \in Seq(Bars) /\ Len(bars) = 0 /\ answers = [n \in Names |-> <<>>]
      BY DEF StrategiesInit
    <2>2. /\ answers = [n \in Names |-> answers[n]]
          /\ \A n \in Names : DOMAIN answers[n] = {}
      BY <2>1
    <2>3. \A n \in Names : answers[n] = [i \in 1 .. Len(bars) |-> answers[n][i]]
      BY <2>1
    <2>4. NoLookAhead
      BY <2>2 DEF NoLookAhead
    <2> QED BY <2>1, <2>2, <2>3, <2>4 DEF AnswersInv
  <1>2. AnswersInv /\ [StrategiesNext]_strategyVars => AnswersInv'
    <2> SUFFICES ASSUME AnswersInv, [StrategiesNext]_strategyVars PROVE AnswersInv'
      OBVIOUS
    <2>1. CASE UNCHANGED strategyVars
      BY <2>1 DEF AnswersInv, NoLookAhead, strategyVars
    <2>2. CASE StrategiesNext
      BY <2>2, BarStep DEF StrategiesNext
    <2> QED BY <2>1, <2>2
  <1>3. AnswersInv => NoLookAhead
    BY DEF AnswersInv
  <1> QED BY <1>1, <1>2, <1>3, PTL DEF StrategiesSpec

\* Strategies: bars whose closes lie between their lows and highs.
Candles(b, i) ==
  \A t \in 1 .. i : /\ b[t].low \in Int /\ b[t].close \in Int /\ b[t].high \in Int
                    /\ b[t].low <= b[t].close /\ b[t].close <= b[t].high

LEMMA TrueRangeIsNat ==
  ASSUME NEW b, NEW i \in Nat, Candles(b, i), NEW t \in 1 .. i
  PROVE  TrueRange(b, t) \in Nat
  <1> DEFINE size == b[t].high - b[t].low
             Abs(x) == IF x < 0 THEN -x ELSE x
             up == b[t].high - b[IF t > 1 THEN t - 1 ELSE t].close
             down == b[t].low - b[IF t > 1 THEN t - 1 ELSE t].close
             S == {size} \cup {IF x < 0 THEN -x ELSE x : x \in {y \in {up, down} : t > 1}}
  <1>1. size \in Nat /\ up \in Int /\ down \in Int
    <2>1. (IF t > 1 THEN t - 1 ELSE t) \in 1 .. i
      OBVIOUS
    <2> QED BY <2>1 DEF Candles
  <1>2. TrueRange(b, t) = Max(S)
    BY Zenon DEF TrueRange
  <1> HIDE DEF size, up, down
  <1>3. S \subseteq Int /\ size \in S
    BY <1>1
  <1>4. \E m \in S : \A x \in S : m >= x
    <2>1. \A x \in S : x = size \/ x = Abs(up) \/ x = Abs(down)
      OBVIOUS
    <2>2. CASE t > 1
      <3>1. Abs(up) \in S /\ Abs(down) \in S
        BY <2>2
      <3> QED BY <1>1, <1>3, <2>1, <3>1
    <2>3. CASE ~(t > 1)
      BY <1>1, <2>3
    <2> QED BY <2>2, <2>3
  <1> DEFINE m == Max(S)
  <1>5. m \in S /\ \A x \in S : m >= x
    BY <1>4, Zenon DEF Max
  <1> HIDE DEF S, m
  <1>6. m \in Nat
    BY <1>1, <1>3, <1>5
  <1> QED BY <1>2, <1>6 DEF m

LEMMA MarginIsNat ==
  ASSUME NEW b, NEW i \in Nat, Candles(b, i), HasLast(Window, i)
  PROVE  Margin(b, i) \in Nat
  <1> DEFINE L == LastBars(Window, i)
             f == [t \in L |-> TrueRange(b, t)]
             z == [t \in L |-> 0]
  <1>1. L \subseteq 1 .. i /\ IsFiniteSet(L)
    <2>1. L \subseteq 1 .. i
      BY StrategiesAssumption DEF LastBars, HasLast
    <2>2. IsFiniteSet(1 .. i)
      BY FS_Interval
    <2> HIDE DEF L
    <2> QED BY <2>1, <2>2, FS_Subset
  <1>2. Margin(b, i) = SumFunction(f)
    BY Zenon DEF Margin, SumLast
  <1> HIDE DEF L
  <1>3. \A t \in L : f[t] \in Nat /\ f[t] \in Int /\ z[t] = 0 /\ z[t] \in Int /\ z[t] <= f[t]
    BY <1>1, TrueRangeIsNat
  <1>4. DOMAIN f = L
    OBVIOUS
  <1> HIDE DEF f, z
  <1>5. SumFunction(f) \in Int
    BY <1>1, <1>3, <1>4, SumIsInt
  <1>6. SumFunction(f) = SumFunctionOnSet(f, L)
    BY <1>4, Zenon DEF SumFunction
  <1>7. SumFunctionOnSet(z, L) = 0
    BY <1>1, <1>3, SumZero
  <1>8. SumFunctionOnSet(z, L) <= SumFunctionOnSet(f, L)
    BY <1>1, <1>3, SumLeq
  <1> QED BY <1>2, <1>5, <1>6, <1>7, <1>8

\* The breakout strategy holds at every bar of every series whose closes lie between their
\* lows and highs: the window whose extremes a close would have to leave includes the bar
\* itself, and the margin is never below zero (breakout_strategy.py, calculate_indicators,
\* generate_signal).
THEOREM BreakoutIsSilent ==
  ASSUME NEW b, NEW i \in Nat \ {0}, Candles(b, i)
  PROVE  Breakout(b, i) = Hold
  <1>1. CASE i <= Required
    <2>1. ~(i > Required)
      BY <1>1, StrategiesAssumption
    <2> QED BY <2>1, Zenon DEF Breakout
  <1>2. CASE ~(i <= Required)
    <2>1. HasLast(Window, i) /\ i \in LastBars(Window, i)
      BY <1>2, StrategiesAssumption DEF HasLast, LastBars
    <2>2. Margin(b, i) \in Nat
      BY <2>1, MarginIsNat
    <2>3. /\ b[i].close - b[i].high \in Int /\ b[i].close - b[i].high <= 0
          /\ b[i].low - b[i].close \in Int /\ b[i].low - b[i].close <= 0
      BY DEF Candles
    <2>4. ASSUME NEW d \in Int, d <= 0 PROVE ~(2 * Window * d > Margin(b, i))
      <3>1. 2 * Window * d <= 0
        BY <2>4, StrategiesAssumption
      <3> QED BY <2>2, <3>1, StrategiesAssumption
    <2>5. ~BreaksAbove(b, i)
      BY <2>1, <2>3, <2>4 DEF BreaksAbove
    <2>6. ~BreaksBelow(b, i)
      BY <2>1, <2>3, <2>4 DEF BreaksBelow
    <2> QED BY <2>5, <2>6, Zenon DEF Breakout
  <1> QED BY <1>1, <1>2
-----------------------------------------------------------------------------
\* PortfolioRisk: the exposures of a book are whole, and a sector's is above zero.
LEMMA ExposureTypes ==
  ASSUME NEW values \in [Assets -> Int]
  PROVE  /\ GrossExposure(values) \in Int /\ NetExposure(values) \in Int
         /\ \A c \in DOMAIN SectorExposure(values) :
              SectorExposure(values)[c] \in Int /\ SectorExposure(values)[c] >= 1
         /\ HeldIn(values) # {} => DOMAIN SectorExposure(values) # {}
         /\ HeldIn(values) \subseteq Assets
  <1>1. IsFiniteSet(Assets)
    BY RiskAssumption
  <1>2. LongValue(values) \in Int
    <2> DEFINE S == {s \in Assets : values[s] > 0}
               f == [s \in S |-> values[s]]
    <2>1. IsFiniteSet(S)
      BY <1>1, FS_Subset
    <2>2. DOMAIN f = S /\ \A s \in S : f[s] \in Int
      OBVIOUS
    <2>3. LongValue(values) = SumFunction(f)
      BY Zenon DEF LongValue
    <2> HIDE DEF S, f
    <2> QED BY <2>1, <2>2, <2>3, SumIsInt
  <1>3. ShortValue(values) \in Int
    <2> DEFINE S == {s \in Assets : values[s] < 0}
               f == [s \in S |-> -values[s]]
    <2>1. IsFiniteSet(S)
      BY <1>1, FS_Subset
    <2>2. DOMAIN f = S /\ \A s \in S : f[s] \in Int
      OBVIOUS
    <2>3. ShortValue(values) = SumFunction(f)
      BY Zenon DEF ShortValue
    <2> HIDE DEF S, f
    <2> QED BY <2>1, <2>2, <2>3, SumIsInt
  <1>4. ASSUME NEW c \in DOMAIN SectorExposure(values)
        PROVE  SectorExposure(values)[c] \in Int /\ SectorExposure(values)[c] >= 1
    <2> DEFINE S == {s \in HeldIn(values) : Sector[s] = c}
               f == [s \in S |-> SizeOf(values[s])]
    <2>1. c \in {Sector[s] : s \in HeldIn(values)} /\ SectorExposure(values)[c] = SumFunction(f)
      BY Zenon DEF SectorExposure
    <2>2. PICK a \in HeldIn(values) : Sector[a] = c
      BY <2>1
    <2>3. IsFiniteSet(S) /\ a \in S
      BY <1>1, <2>2, FS_Subset DEF HeldIn
    <2>4. DOMAIN f = S /\ \A s \in S : f[s] \in Int /\ f[s] >= 1
      BY DEF HeldIn, SizeOf
    <2>5. SumFunction(f) = SumFunctionOnSet(f, DOMAIN f)
      BY Zenon DEF SumFunction
    <2> DEFINE rest == S \ {a}
               none == [s \in rest |-> 0]
    <2> HIDE DEF S, f
    <2>6. SumFunctionOnSet(f, S) = f[a] + SumFunctionOnSet(f, rest)
      BY <2>3, <2>4, SumRemove
    <2>7. IsFiniteSet(rest) /\ \A s \in rest : f[s] \in Int /\ none[s] \in Int /\ none[s] <= f[s] /\ none[s] = 0
      BY <2>3, <2>4, FS_Subset
    <2>8. rest \in SUBSET rest
      OBVIOUS
    <2> HIDE DEF rest, none
    <2>9. SumFunctionOnSet(none, rest) = 0 /\ SumFunctionOnSet(none, rest) <= SumFunctionOnSet(f, rest)
          /\ SumFunctionOnSet(f, rest) \in Int
      BY <2>7, <2>8, SumZero, SumLeq, SumInt
    <2> DEFINE x == SumFunctionOnSet(f, rest)
    <2> HIDE DEF x
    <2>10. x \in Int /\ x >= 0 /\ SectorExposure(values)[c] = f[a] + x /\ f[a] \in Int /\ f[a] >= 1
      BY <2>1, <2>3, <2>4, <2>5, <2>6, <2>9 DEF x
    <2> QED BY <2>10
  <1>5. HeldIn(values) # {} => DOMAIN SectorExposure(values) # {}
    BY DEF SectorExposure
  <1> QED BY <1>2, <1>3, <1>4, <1>5 DEF GrossExposure, NetExposure, HeldIn

\* A book without a breach is within its limits, or there is none.
LEMMA NoBreach ==
  ASSUME NEW values \in [Assets -> Int], NEW value \in Int, NEW var95, NEW l \in LimitSets,
         Breaches(values, value, var95, l) = {}, HeldIn(values) # {}
  PROVE  /\ 100 * GrossExposure(values) <= l.gross * value
         /\ \A c \in DOMAIN SectorExposure(values) : 100 * SectorExposure(values)[c] <= l.sector * value
         /\ 100 * SizeOf(NetExposure(values)) <= l.net * value
  <1> DEFINE at == SectorExposure(values)
             worth == IF value > 0 THEN value ELSE 1
  <1>1. l.sector \in 0 .. 99 /\ l.gross \in Nat /\ l.net \in Nat
    BY RiskAssumption
  <1>2. /\ ~OverShare(GrossExposure(values), l.gross, value)
        /\ ~OverShare(SizeOf(NetExposure(values)), l.net, value)
        /\ \A c \in DOMAIN at : ~(100 * at[c] > l.sector * worth)
    <2>1. ASSUME OverShare(GrossExposure(values), l.gross, value) PROVE FALSE
      <3>1. <<"gross", "-">> \in {b \in {<<"gross", "-">>} : OverShare(GrossExposure(values), l.gross, value)}
        BY <2>1
      <3> QED BY <3>1, Zenon DEF Breaches
    <2>2. ASSUME OverShare(SizeOf(NetExposure(values)), l.net, value) PROVE FALSE
      <3>1. <<"net", "-">> \in {b \in {<<"net", "-">>} : OverShare(SizeOf(NetExposure(values)), l.net, value)}
        BY <2>2
      <3> QED BY <3>1, Zenon DEF Breaches
    <2>3. ASSUME NEW c \in DOMAIN at, 100 * at[c] > l.sector * worth PROVE FALSE
      <3> DEFINE over == {<<"sector", d>> : d \in {e \in DOMAIN at : 100 * at[e] > l.sector * worth}}
      <3>1. <<"sector", c>> \in over
        BY <2>3
      <3>2. over \subseteq Breaches(values, value, var95, l)
        BY Zenon DEF Breaches
      <3> HIDE DEF over
      <3> QED BY <3>1, <3>2
    <2> QED BY <2>1, <2>2, <2>3
  <1>3. /\ GrossExposure(values) \in Int /\ NetExposure(values) \in Int
        /\ \A c \in DOMAIN at : at[c] \in Int /\ at[c] >= 1
    BY ExposureTypes
  <1>4. DOMAIN at # {}
    BY ExposureTypes
  <1> HIDE DEF at
  <1>5. value > 0
    <2> SUFFICES ASSUME ~(value > 0) PROVE FALSE
      OBVIOUS
    <2>1. PICK c \in DOMAIN at : TRUE
      BY <1>4
    <2>2. ~(100 * at[c] > l.sector) /\ at[c] \in Int /\ at[c] >= 1
      BY <1>1, <1>2, <1>3, <2>1
    <2> QED BY <1>1, <2>2
  <1>6. \A c \in DOMAIN at : 100 * at[c] <= l.sector * value
    <2> TAKE c \in DOMAIN at
    <2> DEFINE x == l.sector * value
    <2>1. x \in Int
      BY <1>1
    <2> HIDE DEF x
    <2>2. ~(100 * at[c] > x) /\ at[c] \in Int
      BY <1>2, <1>3, <1>5 DEF x
    <2>3. 100 * at[c] <= x
      BY <2>1, <2>2
    <2> QED BY <2>3 DEF x
  <1>7. 100 * GrossExposure(values) <= l.gross * value
    <2> DEFINE x == l.gross * value  y == GrossExposure(values)
    <2>1. x \in Int /\ y \in Int
      BY <1>1, <1>3
    <2>2. ~(100 * y > x)
      BY <1>2, <1>5 DEF OverShare
    <2> HIDE DEF x, y
    <2>3. 100 * y <= x
      BY <2>1, <2>2
    <2> QED BY <2>3 DEF x, y
  <1>8. 100 * SizeOf(NetExposure(values)) <= l.net * value
    <2> DEFINE x == l.net * value  y == SizeOf(NetExposure(values))
    <2>1. x \in Int /\ y \in Int
      BY <1>1, <1>3 DEF SizeOf
    <2>2. ~(100 * y > x)
      BY <1>2, <1>5 DEF OverShare
    <2> HIDE DEF x, y
    <2>3. 100 * y <= x
      BY <2>1, <2>2
    <2> QED BY <2>3 DEF x, y
  <1> QED BY <1>6, <1>7, <1>8 DEF at

\* What a report says of its book.
LEMMA ReportEarned ==
  ASSUME NEW values \in [Assets -> Int], NEW cash \in Int, NEW data, riskLimits \in LimitSets,
         NEW state, state = [values |-> values, cash |-> cash], NEW r, r = ReportOn(state, data),
         r.breaches = {}, NEW l \in r.limits
  PROVE  \/ r.held = {}
         \/ /\ 100 * r.gross <= l.gross * r.value
            /\ \A c \in DOMAIN r.sectors : 100 * r.sectors[c] <= l.sector * r.value
            /\ 100 * SizeOf(r.net) <= l.net * r.value
  <1> DEFINE value == cash + NetExposure(values)
             var95 == Var95(values, value, data)
  <1>1. state.values = values /\ state.cash = cash
    OBVIOUS
  <1>2. /\ r.held = HeldIn(values) /\ r.value = value /\ r.gross = GrossExposure(values)
        /\ r.net = NetExposure(values) /\ r.sectors = SectorExposure(values)
        /\ r.breaches = Breaches(values, value, var95, riskLimits) /\ r.limits = {riskLimits}
    BY <1>1 DEF ReportOn
  <1>3. value \in Int
    BY ExposureTypes
  <1> HIDE DEF value, var95
  <1>4. l = riskLimits /\ Breaches(values, value, var95, l) = {}
    BY <1>2
  <1>5. CASE HeldIn(values) # {}
    <2>1. /\ 100 * GrossExposure(values) <= l.gross * value
          /\ \A c \in DOMAIN SectorExposure(values) : 100 * SectorExposure(values)[c] <= l.sector * value
          /\ 100 * SizeOf(NetExposure(values)) <= l.net * value
      BY <1>3, <1>4, <1>5, NoBreach
    <2> QED BY <1>2, <2>1
  <1> QED BY <1>2, <1>5

\* A price history in the cache: the symbol, and whether there is data.
CacheEntries == [symbol : Assets, data : BOOLEAN]

\* What the cache holds for a set of symbols: a symbol noted without data is one whose last
\* fetch for that set failed.
Noted(S, entries, fetches) ==
  /\ entries \in Seq(CacheEntries)
  /\ \A k \in DOMAIN entries : /\ entries[k].symbol \in S
                               /\ ~entries[k].data => fetches[entries[k].symbol] = "failed"

CacheNoted(cache, fetches) ==
  /\ DOMAIN cache \subseteq Keys
  /\ \A S \in DOMAIN cache : Noted(S, cache[S].entries, fetches[S])
  /\ \A S \in DOMAIN cache : cache[S] = [entries |-> cache[S].entries, left |-> cache[S].left]

LEMMA LeastOf ==
  ASSUME NEW S \in SUBSET Nat, S # {}
  PROVE  Min(S) \in S /\ \A k \in S : Min(S) <= k
  <1>1. PICK m \in S : \A k \in S : m <= k
    BY LeastNumber
  <1> QED BY <1>1 DEF Min

\* What is had from the cache is the entries up to the first with data.
LEMMA HadFromCache ==
  ASSUME NEW cache, NEW S, NEW entries \in Seq(CacheEntries),
         cache[S].entries = entries, cache[S].left # 0
  PROVE  /\ FromCache(cache, S) \in Seq(CacheEntries)
         /\ Len(FromCache(cache, S)) <= Len(entries)
         /\ \A k \in DOMAIN FromCache(cache, S) :
              FromCache(cache, S)[k] = entries[k] /\ ~entries[k].data
         /\ \A k \in DOMAIN entries : (\A j \in 1 .. k : ~entries[j].data) => k \in DOMAIN FromCache(cache, S)
  <1> DEFINE good == {k \in DOMAIN entries : entries[k].data}
             upto == IF good = {} THEN Len(entries) ELSE Min(good) - 1
             known == SubSeq(entries, 1, upto)
  <1>1. Len(entries) \in Nat /\ DOMAIN entries = 1 .. Len(entries) /\ good \in SUBSET Nat
    OBVIOUS
  <1>2. FromCache(cache, S) = known
    BY DEF FromCache
  <1>3. good # {} => Min(good) \in good /\ \A k \in good : Min(good) <= k
    BY <1>1, LeastOf
  <1>4. /\ upto \in 0 .. Len(entries)
        /\ \A k \in 1 .. upto : k \in DOMAIN entries /\ ~entries[k].data
        /\ good # {} => upto + 1 \in good
    <2>1. CASE good = {}
      BY <1>1, <2>1
    <2>2. CASE good # {}
      <3> DEFINE m == Min(good)
      <3>1. m \in good /\ (\A k \in good : m <= k) /\ upto = m - 1
        BY <1>3, <2>2
      <3> HIDE DEF m
      <3>2. m \in 1 .. Len(entries)
        BY <1>1, <3>1
      <3>3. \A k \in 1 .. (m - 1) : k \in DOMAIN entries /\ k \notin good
        BY <1>1, <3>1, <3>2
      <3>4. \A k \in DOMAIN entries : k \notin good => ~entries[k].data
        OBVIOUS
      <3> HIDE DEF good, upto
      <3>5. upto \in 0 .. Len(entries) /\ upto + 1 = m
        BY <1>1, <3>1, <3>2
      <3> QED BY <3>1, <3>3, <3>4, <3>5
    <2> QED BY <2>1, <2>2
  <1> HIDE DEF upto
  <1>5. /\ known \in Seq(CacheEntries) /\ Len(known) = upto
        /\ DOMAIN known = 1 .. upto
        /\ \A k \in 1 .. upto : known[k] = entries[k]
    <2>1. upto \in Nat /\ upto <= Len(entries)
      BY <1>1, <1>4
    <2>2. entries \in Seq(CacheEntries) /\ 1 \in 1 .. Len(entries) + 1 /\ upto \in 1 - 1 .. Len(entries)
      BY <1>1, <1>4
    <2> HIDE DEF good
    <2>3. /\ known \in Seq(CacheEntries) /\ Len(known) = (IF 1 <= upto THEN upto - 1 + 1 ELSE 0)
          /\ \A i \in 1 .. upto - 1 + 1 : known[i] = entries[1 + i - 1]
      BY <2>2, SubSeqProperties
    <2>4. Len(known) = upto /\ \A k \in 1 .. upto : known[k] = entries[k]
      BY <2>1, <2>3
    <2> HIDE DEF known
    <2> QED BY <2>3, <2>4
  <1> HIDE DEF known
  <1>6. ASSUME NEW k \in DOMAIN entries, \A j \in 1 .. k : ~entries[j].data PROVE k \in 1 .. upto
    <2>1. CASE good = {}
      BY <1>1, <2>1 DEF upto
    <2>2. CASE good # {}
      <3>1. upto + 1 \in good /\ upto \in Nat
        BY <1>1, <1>4, <2>2
      <3>2. entries[upto + 1].data
        BY <3>1
      <3>3. ~(upto + 1 \in 1 .. k)
        BY <1>6, <3>2
      <3> QED BY <1>1, <3>1, <3>3
    <2> QED BY <2>1, <2>2
  <1> HIDE DEF good
  <1>7. \A k \in DOMAIN known : known[k] = entries[k] /\ ~entries[k].data
    BY <1>4, <1>5
  <1>8. \A k \in DOMAIN entries : (\A j \in 1 .. k : ~entries[j].data) => k \in DOMAIN known
    BY <1>5, <1>6
  <1>9. Len(known) <= Len(entries)
    BY <1>1, <1>4, <1>5
  <1> QED BY <1>2, <1>5, <1>7, <1>8, <1>9

\* The symbols a reading of the cache knows failed when they were last fetched.
LEMMA KnownFailed ==
  ASSUME NEW cache, NEW fetches, CacheNoted(cache, fetches), NEW S \in Keys
  PROVE  /\ Known(cache, S) \in Seq(CacheEntries)
         /\ \A k \in DOMAIN Known(cache, S) : /\ Known(cache, S)[k].symbol \in S
                                              /\ ~Known(cache, S)[k].data
                                              /\ fetches[S][Known(cache, S)[k].symbol] = "failed"
         /\ \A s \in S \ Wanted(cache, S) : fetches[S][s] = "failed"
  <1>1. /\ Known(cache, S) \in Seq(CacheEntries)
        /\ \A k \in DOMAIN Known(cache, S) : /\ Known(cache, S)[k].symbol \in S
                                             /\ ~Known(cache, S)[k].data
                                             /\ fetches[S][Known(cache, S)[k].symbol] = "failed"
    <2>1. CASE S \notin DOMAIN cache \/ (S \in DOMAIN cache /\ cache[S].left = 0)
      <3>1. Known(cache, S) = <<>>
        BY <2>1 DEF Known, FromCache
      <3> QED BY <3>1
    <2>2. CASE S \in DOMAIN cache /\ cache[S].left # 0
      <3> DEFINE entries == cache[S].entries
                 known == FromCache(cache, S)
      <3>1. Noted(S, entries, fetches[S]) /\ entries \in Seq(CacheEntries)
        BY <2>2 DEF CacheNoted, Noted
      <3>2. Known(cache, S) = known
        BY <2>2 DEF Known
      <3>3. known \in Seq(CacheEntries) /\ Len(known) <= Len(entries)
            /\ \A k \in DOMAIN known : known[k] = entries[k] /\ ~entries[k].data
        <4>1. cache[S].entries \in Seq(CacheEntries) /\ cache[S].left # 0
          BY <2>2, <3>1
        <4> QED BY <4>1, HadFromCache
      <3> HIDE DEF entries, known
      <3>4. \A k \in DOMAIN known : k \in DOMAIN entries
        BY <3>1, <3>3
      <3> QED BY <3>1, <3>2, <3>3, <3>4 DEF Noted
    <2> QED BY <2>1, <2>2
  <1>2. \A s \in S \ Wanted(cache, S) : \E k \in DOMAIN Known(cache, S) : Known(cache, S)[k].symbol = s
    BY DEF Wanted
  <1> QED BY <1>1, <1>2

\* One fetch: what is written back, given what each of the symbols turned out to be.
LEMMA FetchNoted ==
  ASSUME NEW cache, NEW fetches, CacheNoted(cache, fetches), NEW S \in Keys,
         NEW order \in SetToSeqs(Wanted(cache, S)), NEW next,
         \A s \in S \ Wanted(cache, S) : next[s] = fetches[S][s],
         \A s \in Wanted(cache, S) : s \notin sources => next[s] = "failed",
         NEW after, after = Fetched(cache, S, order)
  PROVE  /\ DOMAIN after = DOMAIN cache
         /\ \A T \in DOMAIN cache : T # S => after[T] = cache[T]
         /\ S \in DOMAIN cache =>
              /\ Noted(S, after[S].entries, next)
              /\ after[S] = [entries |-> after[S].entries, left |-> after[S].left]
         /\ S \in DOMAIN cache /\ Wanted(cache, S) # {} => after[S].left # 0
         /\ S \ Wanted(cache, S) \subseteq S \ Wanted(after, S)
  <1> DEFINE W == Wanted(cache, S)
             known == Known(cache, S)
             fresh == [k \in DOMAIN order |-> [symbol |-> order[k], data |-> order[k] \in sources]]
  <1>1. /\ known \in Seq(CacheEntries) /\ W \subseteq S /\ S \subseteq Assets
        /\ \A k \in DOMAIN known : /\ known[k].symbol \in S /\ ~known[k].data
                                   /\ fetches[S][known[k].symbol] = "failed"
    BY KnownFailed DEF Wanted, Keys
  <1>2. CASE S \notin DOMAIN cache
    <2>1. after = cache
      BY <1>2 DEF Fetched
    <2> QED BY <1>2, <2>1
  <1>3. CASE S \in DOMAIN cache /\ W = {}
    <2>1. after = cache
      BY <1>3 DEF Fetched
    <2>2. Noted(S, cache[S].entries, next)
      BY <1>3 DEF CacheNoted, Noted
    <2> QED BY <1>3, <2>1, <2>2 DEF CacheNoted
  <1>4. CASE S \in DOMAIN cache /\ W # {}
    <2> DEFINE n == Cardinality(W)
    <2>1. order \in [1 .. n -> W]
      BY Zenon DEF SetToSeqs
    <2>2. n \in Nat
      <3>1. IsFiniteSet(Assets)
        BY RiskAssumption
      <3> QED BY <1>1, <3>1, FS_Subset, FS_CardinalityType
    <2> HIDE DEF n
    <2>3. /\ fresh \in Seq(CacheEntries) /\ Len(fresh) = n /\ DOMAIN fresh = 1 .. n
          /\ \A k \in 1 .. n : /\ fresh[k].symbol \in W
                               /\ ~fresh[k].data => fresh[k].symbol \notin sources
      <3>1. DOMAIN order = 1 .. n /\ \A k \in 1 .. n : order[k] \in W /\ order[k] \in Assets
        BY <1>1, <2>1
      <3>2. DOMAIN fresh = 1 .. n
        BY <3>1
      <3>3. ASSUME NEW k \in 1 .. n
            PROVE  /\ fresh[k] \in CacheEntries /\ fresh[k].symbol \in W
                   /\ ~fresh[k].data => fresh[k].symbol \notin sources
        <4>1. fresh[k] = [symbol |-> order[k], data |-> order[k] \in sources]
          BY <3>1
        <4>2. (order[k] \in sources) \in BOOLEAN
          OBVIOUS
        <4> QED BY <3>1, <4>1, <4>2 DEF CacheEntries
      <3>4. fresh = [k \in 1 .. n |-> fresh[k]]
        BY <3>2
      <3> HIDE DEF fresh, W
      <3>5. fresh \in [1 .. n -> CacheEntries]
        BY <3>3, <3>4
      <3> QED BY <2>2, <3>2, <3>3, <3>5
    <2> DEFINE all == known \o fresh
    <2>4. after = [cache EXCEPT ![S] = [entries |-> all, left |-> CacheLife]]
      BY <1>4, Zenon DEF Fetched
    <2> HIDE DEF fresh, known, W
    <2>5. /\ all \in Seq(CacheEntries) /\ Len(all) = Len(known) + n
          /\ \A i \in 1 .. Len(known) + n : all[i] = IF i <= Len(known) THEN known[i] ELSE fresh[i - Len(known)]
      BY <1>1, <2>3, ConcatProperties, ZenonT(60)
    <2>6. Len(known) \in Nat /\ DOMAIN known = 1 .. Len(known) /\ DOMAIN all = 1 .. Len(known) + n
      BY <1>1, <2>5
    <2> HIDE DEF all
    <2>7. Noted(S, all, next)
      <3> SUFFICES ASSUME NEW k \in DOMAIN all
                   PROVE  all[k].symbol \in S /\ (~all[k].data => next[all[k].symbol] = "failed")
        BY <2>5 DEF Noted
      <3>1. CASE k <= Len(known)
        <4>1. k \in DOMAIN known /\ all[k] = known[k]
          BY <2>2, <2>5, <2>6, <3>1
        <4>2. known[k].symbol \in S \ Wanted(cache, S)
          BY <1>1, <4>1 DEF Wanted, known
        <4>3. next[known[k].symbol] = fetches[S][known[k].symbol]
          BY <4>2
        <4> QED BY <1>1, <4>1, <4>3
      <3>2. CASE ~(k <= Len(known))
        <4>1. k - Len(known) \in 1 .. n /\ all[k] = fresh[k - Len(known)]
          BY <2>2, <2>5, <2>6, <3>2
        <4>2. all[k].symbol \in W /\ (~all[k].data => all[k].symbol \notin sources)
          BY <2>3, <4>1
        <4> QED BY <1>1, <4>2 DEF W
      <3> QED BY <3>1, <3>2
    <2>8. /\ after[S] = [entries |-> all, left |-> CacheLife] /\ DOMAIN after = DOMAIN cache
          /\ \A T \in DOMAIN cache : T # S => after[T] = cache[T]
      BY <1>4, <2>4
    <2>9. after[S].entries = all /\ after[S].left = CacheLife /\ CacheLife # 0
      BY <2>8, RiskAssumption
    <2>10. \A s \in S \ W : s \notin Wanted(after, S)
      <3> TAKE s \in S \ W
      <3>1. PICK k \in DOMAIN known : known[k].symbol = s
        BY DEF W, known, Wanted
      <3>2. /\ k \in DOMAIN all /\ all[k] = known[k]
            /\ \A j \in 1 .. k : ~all[j].data
        <4>1. \A j \in 1 .. k : j \in DOMAIN known /\ j \in 1 .. Len(known) + n /\ j <= Len(known)
          BY <2>2, <2>6
        <4>2. \A j \in 1 .. k : all[j] = known[j]
          BY <2>5, <4>1
        <4>3. k \in 1 .. k
          BY <2>6
        <4> QED BY <1>1, <2>6, <4>1, <4>2, <4>3
      <3> DEFINE had == FromCache(after, S)
      <3>3. k \in DOMAIN had /\ had[k] = all[k]
        <4>1. /\ \A i \in DOMAIN had : had[i] = all[i]
              /\ \A i \in DOMAIN all : (\A j \in 1 .. i : ~all[j].data) => i \in DOMAIN had
          BY <2>5, <2>9, HadFromCache, SMTT(40)
        <4> QED BY <3>2, <4>1
      <3>4. Known(after, S) = had
        BY <1>4, <2>8 DEF Known
      <3> HIDE DEF had
      <3> QED BY <3>1, <3>2, <3>3, <3>4 DEF Wanted
    <2> QED BY <1>4, <2>7, <2>8, <2>9, <2>10 DEF W
  <1> QED BY <1>2, <1>3, <1>4

\* How the last fetch of a symbol ended.
FetchResults == {"never", "data", "failed"}

\* calculate_risk_metrics fetches twice, both times through the cache: the orders the fetches
\* end in, what is cached in between and after, and how the fetches of each symbol end.
TwoFetches(cache, fetches, S, one, cached, two, after, final, fetched) ==
  /\ fetches \in [Keys -> [Assets -> FetchResults]] /\ fetched = [fetches EXCEPT ![S] = final]
  /\ one \in SetToSeqs(Wanted(cache, S)) /\ cached = Fetched(cache, S, one)
  /\ two \in SetToSeqs(Wanted(cached, S)) /\ after = Fetched(cached, S, two)
  /\ final \in [Assets -> FetchResults]
  /\ \A s \in S \ (Wanted(cache, S) \cup Wanted(cached, S)) : final[s] = fetches[S][s]
  /\ \A s \in Wanted(cache, S) \cup Wanted(cached, S) :
       final[s] = IF s \in sources THEN "data" ELSE "failed"

LEMMA FetchedTwice ==
  ASSUME NEW cache, NEW fetches, CacheNoted(cache, fetches), NEW S \in Keys,
         NEW one, NEW cached, NEW two, NEW after, NEW final, NEW fetched,
         TwoFetches(cache, fetches, S, one, cached, two, after, final, fetched)
  PROVE  /\ fetched \in [Keys -> [Assets -> FetchResults]]
         /\ CacheNoted(after, fetched)
         /\ \A s \in S \ (Wanted(cache, S) \cap sources) : fetched[S][s] = "failed"
  <1> DEFINE W1 == Wanted(cache, S)
             W2 == Wanted(cached, S)
             middle == [s \in Assets |-> IF s \notin W1 THEN fetches[S][s]
                                         ELSE IF s \in sources THEN "data" ELSE "failed"]
             noted == [fetches EXCEPT ![S] = middle]
  <1>0. /\ one \in SetToSeqs(W1) /\ cached = Fetched(cache, S, one)
        /\ two \in SetToSeqs(W2) /\ after = Fetched(cached, S, two)
        /\ final \in [Assets -> FetchResults] /\ fetches \in [Keys -> [Assets -> FetchResults]]
        /\ fetched = [fetches EXCEPT ![S] = final]
        /\ \A s \in S \ (W1 \cup W2) : final[s] = fetches[S][s]
        /\ \A s \in W1 \cup W2 : final[s] = IF s \in sources THEN "data" ELSE "failed"
    BY DEF TwoFetches
  <1>1. S \subseteq Assets /\ W1 \subseteq S /\ W2 \subseteq S
    BY DEF Keys, Wanted
  <1>2. \A s \in S : /\ s \notin W1 => middle[s] = fetches[S][s]
                     /\ s \in W1 /\ s \notin sources => middle[s] = "failed"
                     /\ s \in W1 /\ s \in sources => middle[s] = "data"
    BY <1>1
  <1>3. \A s \in S : /\ s \notin W1 \cup W2 => final[s] = fetches[S][s]
                     /\ s \in W1 \cup W2 /\ s \notin sources => final[s] = "failed"
                     /\ s \in W1 \cup W2 /\ s \in sources => final[s] = "data"
    BY <1>0, <1>1
  <1>4. ASSUME NEW s \in Assets PROVE middle[s] \in FetchResults
    <2>1. fetches[S][s] \in FetchResults
      BY <1>0
    <2>2. middle[s] = fetches[S][s] \/ middle[s] = "data" \/ middle[s] = "failed"
      OBVIOUS
    <2> HIDE DEF middle
    <2> QED BY <2>1, <2>2 DEF FetchResults
  <1>5. middle \in [Assets -> FetchResults]
    BY <1>4
  <1> HIDE DEF middle
  <1>6. /\ \A T \in Keys : T # S => noted[T] = fetches[T] /\ fetched[T] = fetches[T]
        /\ noted[S] = middle /\ fetched[S] = final
        /\ fetched \in [Keys -> [Assets -> FetchResults]]
    BY <1>0, <1>5
  <1> HIDE DEF noted
  <1>7. /\ DOMAIN cached = DOMAIN cache
        /\ \A T \in DOMAIN cache : T # S => cached[T] = cache[T]
        /\ S \in DOMAIN cache => /\ Noted(S, cached[S].entries, middle)
                                 /\ cached[S] = [entries |-> cached[S].entries, left |-> cached[S].left]
        /\ S \ W1 \subseteq S \ W2
    <2>1. \A s \in S \ Wanted(cache, S) : middle[s] = fetches[S][s]
      BY <1>2
    <2>2. \A s \in Wanted(cache, S) : s \notin sources => middle[s] = "failed"
      BY <1>1, <1>2
    <2>3. cached = Fetched(cache, S, one) /\ one \in SetToSeqs(Wanted(cache, S))
      BY <1>0
    <2> HIDE DEF W1, W2
    <2>4. /\ DOMAIN cached = DOMAIN cache
          /\ \A T \in DOMAIN cache : T # S => cached[T] = cache[T]
          /\ S \in DOMAIN cache =>
               /\ Noted(S, cached[S].entries, middle)
               /\ cached[S] = [entries |-> cached[S].entries, left |-> cached[S].left]
          /\ S \ Wanted(cache, S) \subseteq S \ Wanted(cached, S)
      BY <2>1, <2>2, <2>3, FetchNoted
    <2> QED BY <2>4 DEF W1, W2
  <1>8. CacheNoted(cached, noted)
    BY <1>6, <1>7 DEF CacheNoted
  <1>9. /\ DOMAIN after = DOMAIN cached
        /\ \A T \in DOMAIN cached : T # S => after[T] = cached[T]
        /\ S \in DOMAIN cached => /\ Noted(S, after[S].entries, final)
                                  /\ after[S] = [entries |-> after[S].entries, left |-> after[S].left]
    <2>1. \A s \in S \ Wanted(cached, S) : final[s] = noted[S][s]
      BY <1>2, <1>3, <1>6
    <2>2. \A s \in Wanted(cached, S) : s \notin sources => final[s] = "failed"
      BY <1>1, <1>3
    <2>3. after = Fetched(cached, S, two)
      BY <1>0
    <2>4. CacheNoted(cached, noted) /\ S \in Keys /\ two \in SetToSeqs(Wanted(cached, S))
      BY <1>0, <1>8 DEF W2
    <2> DEFINE f == final  n == noted  c == cached
    <2>5. /\ CacheNoted(c, n) /\ S \in Keys /\ two \in SetToSeqs(Wanted(c, S))
          /\ \A s \in S \ Wanted(c, S) : f[s] = n[S][s]
          /\ \A s \in Wanted(c, S) : s \notin sources => f[s] = "failed"
          /\ after = Fetched(c, S, two)
      BY <2>1, <2>2, <2>3, <2>4
    <2> HIDE DEF f, n, c
    <2>6. /\ DOMAIN after = DOMAIN c
          /\ \A T \in DOMAIN c : T # S => after[T] = c[T]
          /\ S \in DOMAIN c => /\ Noted(S, after[S].entries, f)
                               /\ after[S] = [entries |-> after[S].entries, left |-> after[S].left]
      BY <2>5, FetchNoted
    <2> QED BY <2>6 DEF f, n, c
  <1>10. CacheNoted(after, fetched)
    <2>1. DOMAIN after \subseteq Keys /\ DOMAIN after = DOMAIN cache
      BY <1>7, <1>9 DEF CacheNoted
    <2>2. ASSUME NEW T \in DOMAIN after
          PROVE  /\ Noted(T, after[T].entries, fetched[T])
                 /\ after[T] = [entries |-> after[T].entries, left |-> after[T].left]
      <3>1. CASE T = S
        BY <1>6, <1>7, <1>9, <2>1, <3>1
      <3>2. CASE T # S
        <4>1. after[T] = cache[T] /\ fetched[T] = fetches[T]
          BY <1>6, <1>7, <1>9, <2>1, <3>2
        <4>2. /\ Noted(T, cache[T].entries, fetches[T])
              /\ cache[T] = [entries |-> cache[T].entries, left |-> cache[T].left]
          BY <2>1 DEF CacheNoted
        <4> QED BY <4>1, <4>2
      <3> QED BY <3>1, <3>2
    <2> QED BY <2>1, <2>2 DEF CacheNoted
  <1>11. ASSUME NEW s \in S \ (Wanted(cache, S) \cap sources) PROVE fetched[S][s] = "failed"
    <2>1. CASE s \in W1
      BY <1>3, <1>6, <2>1
    <2>2. CASE s \notin W1
      <3>1. fetches[S][s] = "failed"
        BY <2>2, KnownFailed
      <3> QED BY <1>3, <1>6, <1>7, <2>2, <3>1
    <2> QED BY <2>1, <2>2
  <1> QED BY <1>6, <1>10, <1>11

\* Beside the two properties: types, and what the cache holds as without data did fail.
RiskInv ==
  /\ account \in [values : Books, cash : CashAmounts, fails : BOOLEAN]
  /\ riskLimits \in LimitSets
  /\ lastFetch \in [Keys -> [Assets -> FetchResults]]
  /\ CacheNoted(redis, lastFetch)
  /\ CleanReportIsEarned
  /\ UsesWhatItFetched

LEMMA RiskStart == RiskInit => RiskInv
  <1> SUFFICES ASSUME RiskInit PROVE RiskInv
    OBVIOUS
  <1>1. /\ account \in [values : Books, cash : CashAmounts, fails : BOOLEAN] /\ riskLimits \in LimitSets
    BY DEF RiskInit
  <1>2. lastFetch \in [Keys -> [Assets -> FetchResults]]
    <2> DEFINE never == [s \in Assets |-> "never"]
    <2>1. never \in [Assets -> FetchResults]
      BY DEF FetchResults
    <2>2. lastFetch = [k \in Keys |-> never]
      BY DEF RiskInit
    <2> HIDE DEF never
    <2> QED BY <2>1, <2>2
  <1>3. DOMAIN redis \subseteq Keys /\ \A S \in DOMAIN redis : redis[S] = Expired
    BY DEF RiskInit
  <1>4. Expired.entries = <<>> /\ Expired = [entries |-> Expired.entries, left |-> Expired.left]
    BY DEF Expired
  <1>5. \A S \in DOMAIN redis : Noted(S, redis[S].entries, lastFetch[S])
    <2> TAKE S \in DOMAIN redis
    <2> DEFINE e == redis[S].entries  f == lastFetch[S]
    <2>1. e = <<>>
      BY <1>3, <1>4
    <2> HIDE DEF e, f
    <2>2. Noted(S, e, f)
      BY <2>1 DEF Noted
    <2> QED BY <2>2 DEF e, f
  <1>6. CacheNoted(redis, lastFetch)
    BY <1>3, <1>4, <1>5 DEF CacheNoted
  <1>7. report.held = {} /\ report.limits = {}
    BY DEF RiskInit, NoReport
  <1> QED BY <1>1, <1>2, <1>6, <1>7 DEF RiskInv, CleanReportIsEarned, UsesWhatItFetched

LEMMA MetricsKeep ==
  ASSUME RiskInv, CalculateRiskMetrics PROVE RiskInv'
  <1> DEFINE state == PortfolioState
             held == HeldIn(state.values)
             wanted == Wanted(redis, held)
             data == wanted \cap sources
  <1>1. /\ report' = ReportOn(state, data)
        /\ UNCHANGED <<account, sources, riskLimits>>
    BY Zenon DEF CalculateRiskMetrics
  <1>2. held \subseteq Assets
    BY DEF HeldIn
  <1>3. report'.held = held /\ report'.used = data /\ report'.errors = account.fails
    BY <1>1 DEF ReportOn
  <1>4. CleanReportIsEarned'
    <2> SUFFICES ASSUME report'.breaches = {}, ~report'.errors, NEW l \in report'.limits
                 PROVE  \/ report'.held = {}
                        \/ /\ 100 * report'.gross <= l.gross * report'.value
                           /\ \A c \in DOMAIN report'.sectors :
                                100 * report'.sectors[c] <= l.sector * report'.value
                           /\ 100 * SizeOf(report'.net) <= l.net * report'.value
      BY DEF CleanReportIsEarned
    <2>1. state = [values |-> account.values, cash |-> account.cash]
      BY <1>3 DEF PortfolioState
    <2>2. account.values \in [Assets -> Int] /\ account.cash \in Int /\ riskLimits \in LimitSets
      BY RiskAssumption DEF RiskInv
    <2> HIDE DEF state, data
    <2> QED BY <1>1, <2>1, <2>2, ReportEarned
  <1>5. CASE held = {}
    <2>1. UNCHANGED <<redis, lastFetch>>
      BY <1>5, SMT DEF CalculateRiskMetrics
    <2>2. UsesWhatItFetched'
      BY <1>3, <1>5 DEF UsesWhatItFetched
    <2> QED BY <1>1, <1>4, <2>1, <2>2 DEF RiskInv
  <1>6. CASE held # {}
    <2>1. PICK one \in SetToSeqs(wanted) :
            LET cached == Fetched(redis, held, one) IN
            /\ \E two \in SetToSeqs(Wanted(cached, held)) : redis' = Fetched(cached, held, two)
            /\ lastFetch' = [lastFetch EXCEPT ![held] = [s \in Assets |->
                    CASE s \notin wanted \cup Wanted(cached, held) -> lastFetch[held][s]
                      [] s \in (wanted \cup Wanted(cached, held)) \cap sources -> "data"
                      [] OTHER -> "failed"]]
      BY <1>6, Zenon DEF CalculateRiskMetrics
    <2> DEFINE cached == Fetched(redis, held, one)
    <2>2. PICK two \in SetToSeqs(Wanted(cached, held)) : redis' = Fetched(cached, held, two)
      BY <2>1
    <2> DEFINE final == [s \in Assets |->
                    CASE s \notin wanted \cup Wanted(cached, held) -> lastFetch[held][s]
                      [] s \in (wanted \cup Wanted(cached, held)) \cap sources -> "data"
                      [] OTHER -> "failed"]
    <2>3. lastFetch' = [lastFetch EXCEPT ![held] = final]
      BY <2>1
    <2>4. held \in Keys
      BY <1>2, <1>6 DEF Keys
    <2>5. lastFetch \in [Keys -> [Assets -> FetchResults]] /\ CacheNoted(redis, lastFetch)
      BY DEF RiskInv
    <2> HIDE DEF held, cached, final
    <2>6. /\ lastFetch' \in [Keys -> [Assets -> FetchResults]]
          /\ CacheNoted(redis', lastFetch')
          /\ \A s \in held \ (Wanted(redis, held) \cap sources) : lastFetch'[held][s] = "failed"
      <3>0. \E x, y, z, u : x = redis' /\ y = lastFetch' /\ z = cached /\ u = final
        OBVIOUS
      <3>5. PICK a, g, c, f : a = redis' /\ g = lastFetch' /\ c = cached /\ f = final
        BY <3>0
      <3>1. /\ one \in SetToSeqs(Wanted(redis, held)) /\ c = Fetched(redis, held, one)
            /\ two \in SetToSeqs(Wanted(c, held)) /\ a = Fetched(c, held, two)
            /\ g = [lastFetch EXCEPT ![held] = f]
        BY <2>2, <2>3, <3>5 DEF cached
      <3> DEFINE W == Wanted(redis, held) \cup Wanted(c, held)
      <3>2. /\ \A s \in held \ W : f[s] = lastFetch[held][s]
            /\ \A s \in W : f[s] = IF s \in sources THEN "data" ELSE "failed"
            /\ f \in [Assets -> FetchResults]
        <4>1. W \subseteq held /\ held \subseteq Assets
          BY <1>2 DEF Wanted, held
        <4>2. f = [s \in Assets |->
                    CASE s \notin W -> lastFetch[held][s]
                      [] s \in W \cap sources -> "data"
                      [] OTHER -> "failed"]
          BY <3>5 DEF final, held, cached
        <4> HIDE DEF W
        <4>3. \A s \in Assets : /\ s \notin W => f[s] = lastFetch[held][s]
                                /\ s \in W => f[s] = IF s \in sources THEN "data" ELSE "failed"
          BY <4>2
        <4>4. \A s \in Assets : lastFetch[held][s] \in FetchResults
          BY <2>4, <2>5
        <4>5. f \in [Assets -> FetchResults]
          <5>1. \A s \in Assets : f[s] \in FetchResults
            BY <4>3, <4>4 DEF FetchResults
          <5> QED BY <4>2, <5>1
        <4> QED BY <4>1, <4>3, <4>5
      <3>4. TwoFetches(redis, lastFetch, held, one, c, two, a, f, g)
        BY <2>5, <3>1, <3>2 DEF TwoFetches
      <3>3. /\ g \in [Keys -> [Assets -> FetchResults]]
            /\ CacheNoted(a, g)
            /\ \A s \in held \ (Wanted(redis, held) \cap sources) : g[held][s] = "failed"
        BY <2>4, <2>5, <3>4, FetchedTwice
      <3> QED BY <3>3, <3>5
    <2>7. UsesWhatItFetched'
      BY <1>3, <2>6 DEF UsesWhatItFetched
    <2> QED BY <1>1, <1>4, <2>6, <2>7 DEF RiskInv, CacheNoted, Noted
  <1> QED BY <1>5, <1>6

LEMMA CacheAgesKeep ==
  ASSUME RiskInv, CacheAges PROVE RiskInv'
  <1>1. /\ redis' = [k \in DOMAIN redis |-> IF redis[k].left <= 1 THEN Expired
                              ELSE [redis[k] EXCEPT !.left = @ - 1]]
        /\ UNCHANGED <<account, sources, riskLimits, report, lastFetch>>
    BY DEF CacheAges
  <1>2. CacheNoted(redis, lastFetch)
    BY DEF RiskInv
  <1>3. DOMAIN redis' = DOMAIN redis
    BY <1>1
  <1>4. ASSUME NEW S \in DOMAIN redis
        PROVE  /\ Noted(S, redis'[S].entries, lastFetch[S])
               /\ redis'[S] = [entries |-> redis'[S].entries, left |-> redis'[S].left]
    <2>1. CASE redis[S].left <= 1
      <3>1. redis'[S] = Expired
        BY <1>1, <2>1
      <3>2. Expired.entries = <<>> /\ Expired = [entries |-> Expired.entries, left |-> Expired.left]
        BY DEF Expired
      <3> QED BY <3>1, <3>2 DEF Noted
    <2>2. CASE ~(redis[S].left <= 1)
      <3> DEFINE e == redis[S].entries  t == redis[S].left
      <3>1. redis[S] = [entries |-> e, left |-> t] /\ Noted(S, e, lastFetch[S])
        BY <1>2 DEF CacheNoted
      <3>2. redis'[S] = [redis[S] EXCEPT !.left = redis[S].left - 1]
        BY <1>1, <2>2
      <3> HIDE DEF e, t
      <3>3. redis'[S] = [entries |-> e, left |-> t - 1]
        BY <3>1, <3>2
      <3> QED BY <3>1, <3>3
    <2> QED BY <2>1, <2>2
  <1>5. CacheNoted(redis', lastFetch)
    BY <1>2, <1>3, <1>4 DEF CacheNoted
  <1> QED BY <1>1, <1>5 DEF RiskInv, CacheNoted, Noted, CleanReportIsEarned, UsesWhatItFetched

LEMMA RiskStep == RiskInv /\ [RiskNext]_riskVars => RiskInv'
  <1> SUFFICES ASSUME RiskInv, [RiskNext]_riskVars PROVE RiskInv'
    OBVIOUS
  <1> USE DEF RiskInv, CacheNoted, Noted, CleanReportIsEarned, UsesWhatItFetched
  <1>1. CASE CalculateRiskMetrics
    BY <1>1, MetricsKeep
  <1>2. ASSUME NEW l \in LimitSets, UpdateLimits(l) PROVE RiskInv'
    BY <1>2 DEF UpdateLimits
  <1>3. CASE BookChanges
    BY <1>3 DEF BookChanges
  <1>4. CASE SourcesChange
    BY <1>4 DEF SourcesChange
  <1>5. CASE CacheAges
    BY <1>5, CacheAgesKeep
  <1>6. CASE UNCHANGED riskVars
    BY <1>6 DEF riskVars
  <1> QED BY <1>1, <1>2, <1>3, <1>4, <1>5, <1>6 DEF RiskNext

\* Whatever the books, limits, price histories and failures: a report without a breach or an
\* error describes a book within its limits, or none; and a position whose history the value
\* at risk leaves out is one whose last fetch for those positions failed, however the cache
\* was filled and aged (portfolio_risk.py, calculate_risk_metrics, _fetch_historical_prices;
\* limits.py, check_all_limits).
THEOREM ReportsEarned == RiskSpec => [](CleanReportIsEarned /\ UsesWhatItFetched)
  <1>1. RiskInv => CleanReportIsEarned /\ UsesWhatItFetched
    BY DEF RiskInv
  <1> QED BY <1>1, RiskStart, RiskStep, PTL DEF RiskSpec
-----------------------------------------------------------------------------
\* PositionSizing: division rounds down, and times a whole number above 0 is monotone.
LEMMA RoundsDown ==
  ASSUME NEW x \in Int, NEW m \in Nat \ {0}
  PROVE  /\ x \div m \in Int /\ m * (x \div m) <= x
         /\ x >= 0 => x \div m >= 0
         /\ x <= 0 => x \div m <= 0
  OBVIOUS

LEMMA TimesLeq ==
  ASSUME NEW a \in Int, NEW b \in Int, NEW n \in Nat, a <= b
  PROVE  n * a \in Int /\ n * b \in Int /\ n * a <= n * b
  OBVIOUS

\* What a request's size may lose at its stop, in millionths of the value.
SizeBudget == Larger(2 * BaseRisk, KellyCapPercent * 5000)

\* Shares whose loss at the stop is the given part of a value lose at most that part.
SharesAt(value, part, distance) == (value * part) \div (Millionths * distance)

LEMMA SharesLose ==
  ASSUME NEW value \in Int, NEW part \in Nat, NEW distance \in Nat \ {0}, NEW budget \in Nat,
         part <= budget, NEW q, q = SharesAt(value, part, distance)
  PROVE  /\ q \in Int
         /\ value <= 0 => q <= 0
         /\ value >= 0 => q >= 0
         /\ value >= 0 => (Millionths * distance) * q <= value * budget
  <1> DEFINE m == Millionths * distance  x == value * part
  <1>1. m \in Nat \ {0} /\ x \in Int /\ (value <= 0 => x <= 0) /\ (value >= 0 => x >= 0)
    BY DEF Millionths
  <1>2. q = x \div m
    BY DEF SharesAt
  <1>3. value >= 0 => x <= value * budget
    BY TimesLeq
  <1>4. value * budget \in Int
    OBVIOUS
  <1> DEFINE y == value * budget
  <1> HIDE DEF m, x, y
  <1>5. /\ q \in Int /\ m * q <= x
        /\ x >= 0 => q >= 0
        /\ x <= 0 => q <= 0
    BY <1>1, <1>2, RoundsDown
  <1>6. value >= 0 => m * q <= y
    <2> DEFINE z == m * q
    <2>1. z \in Int
      BY <1>1, <1>5
    <2> HIDE DEF z
    <2>2. z <= x
      BY <1>5 DEF z
    <2>3. value >= 0 => z <= y
      BY <1>1, <1>3, <1>4, <2>1, <2>2 DEF y
    <2> QED BY <2>3 DEF z
  <1>7. value >= 0 => (Millionths * distance) * q <= value * budget
    BY <1>6 DEF m, y
  <1> QED BY <1>1, <1>5, <1>7

\* The state of the sizer: the risk is only ever cut.
SizerTypes ==
  /\ sizer \in [value : PortfolioValues, risk : 0 .. BaseRisk, strategy : Strategies]
  /\ costHistory \in [SizedSymbols -> Seq(Costs)]
  /\ globalCosts \in Seq(Costs)

LEMMA SizerFields ==
  ASSUME SizerTypes
  PROVE  /\ sizer.value \in PortfolioValues /\ sizer.value \in Int
         /\ sizer.risk \in Nat /\ sizer.risk <= BaseRisk /\ sizer.strategy \in Strategies
  <1>1. sizer.value \in PortfolioValues /\ sizer.risk \in 0 .. BaseRisk /\ sizer.strategy \in Strategies
    BY DEF SizerTypes
  <1>2. PortfolioValues \subseteq Int /\ BaseRisk \in Nat
    BY SizingAssumption
  <1>3. sizer.value \in Int
    BY <1>1, <1>2
  <1> DEFINE r == sizer.risk
  <1>4. r \in 0 .. BaseRisk
    BY <1>1
  <1> HIDE DEF r
  <1>5. r \in Nat /\ r <= BaseRisk
    BY <1>2, <1>4
  <1> QED BY <1>1, <1>3, <1>5 DEF r

\* get_risk_scaling is a percentage: a sum above the threshold's share cannot scale up.
LEMMA ScalingPercent ==
  ASSUME NEW costs \in Seq(Costs)
  PROVE  Scaling(costs) \in 0 .. 100
  <1> DEFINE sum == SumFunction(costs)
             least == CostThreshold * Len(costs)
  <1>1. sum \in Int /\ least \in Int /\ (CostThreshold > 0 => least \in Nat)
    <2>1. DOMAIN costs = 1 .. Len(costs) /\ Len(costs) \in Nat
      OBVIOUS
    <2>2. IsFiniteSet(DOMAIN costs)
      BY <2>1, FS_Interval
    <2>3. \A k \in DOMAIN costs : costs[k] \in Int
      <3>1. Costs \subseteq Int
        BY SizingAssumption
      <3>2. \A k \in DOMAIN costs : costs[k] \in Costs
        OBVIOUS
      <3> QED BY <3>1, <3>2
    <2>4. sum \in Int
      BY <2>2, <2>3, SumIsInt
    <2>5. CostThreshold \in Int
      BY SizingAssumption
    <2> HIDE DEF sum
    <2> QED BY <2>1, <2>4, <2>5
  <1>2. CASE costs = <<>> \/ CostThreshold <= 0 \/ sum <= least
    <2>1. Scaling(costs) = 100
      BY <1>2, Zenon DEF Scaling
    <2> QED BY <2>1
  <1>3. CASE ~(costs = <<>> \/ CostThreshold <= 0 \/ sum <= least)
    <2> DEFINE x == 100 * CostThreshold * Len(costs)
               d == x \div sum
    <2>1. Scaling(costs) = Larger(50, d)
      BY <1>3, Zenon DEF Scaling
    <2>0. CostThreshold > 0 /\ least \in Nat
      BY <1>1, <1>3, SizingAssumption
    <2>2. x = 100 * least /\ x \in Nat
      BY <1>1, <2>0, SizingAssumption
    <2> HIDE DEF sum, least, x
    <2>3. sum \in Nat \ {0} /\ x < 100 * sum
      BY <1>1, <1>3, <2>0, <2>2
    <2>4. d \in Int /\ sum * d <= x /\ d >= 0
      BY <2>2, <2>3, RoundsDown
    <2> HIDE DEF d
    <2>5. ~(d >= 101)
      <3> SUFFICES ASSUME d >= 101 PROVE FALSE
        OBVIOUS
      <3>1. sum * 101 <= sum * d
        BY <2>3, <2>4, TimesLeq
      <3> DEFINE y == sum * d
      <3>2. y \in Int /\ y <= x /\ sum * 101 <= y
        BY <2>3, <2>4, <3>1
      <3> HIDE DEF y
      <3> QED BY <2>2, <2>3, <3>2
    <2> QED BY <2>1, <2>4, <2>5 DEF Larger
  <1> QED BY <1>2, <1>3

\* A percentage of a whole number.
LEMMA PercentOf ==
  ASSUME NEW x \in Nat, NEW p \in Nat
  PROVE  /\ (x * p) \div 100 \in Nat
         /\ p <= 100 => (x * p) \div 100 <= x
         /\ p <= 200 => (x * p) \div 100 <= 2 * x
  <1> DEFINE y == x * p
  <1>1. y \in Nat /\ (p <= 100 => y <= x * 100) /\ (p <= 200 => y <= x * 200)
    BY TimesLeq
  <1> HIDE DEF y
  <1>2. /\ y \div 100 \in Nat
        /\ p <= 100 => y \div 100 <= x
        /\ p <= 200 => y \div 100 <= 2 * x
    BY <1>1
  <1> QED BY <1>2 DEF y

\* A size fits when, for shares that lose m millionths each, it loses no more than the budget.
SizeFits(q, m) ==
  /\ q \in Int
  /\ sizer.value <= 0 => q <= 0
  /\ sizer.value >= 0 => q >= 0 /\ m * q <= sizer.value * SizeBudget

LEMMA BudgetType ==
  /\ SizeBudget \in Nat /\ 2 * BaseRisk <= SizeBudget /\ BaseRisk <= SizeBudget
  /\ KellyCapPercent * 5000 <= SizeBudget
  <1>1. BaseRisk \in Nat /\ KellyCapPercent \in Nat
    BY SizingAssumption
  <1> QED BY <1>1 DEF SizeBudget, Larger

LEMMA PartFits ==
  ASSUME SizerTypes, NEW request, Distance(request) \in Nat \ {0},
         NEW part \in Nat, part <= SizeBudget
  PROVE  SizeFits(SharesFor(part, request), Millionths * Distance(request))
  <1> DEFINE d == Distance(request)  v == sizer.value  b == SizeBudget  q == SharesFor(part, request)
  <1>1. v \in Int /\ b \in Nat /\ d \in Nat \ {0} /\ part <= b
    <2>1. v \in Int /\ b \in Nat
      BY SizerFields, BudgetType
    <2> HIDE DEF v, d
    <2> QED BY <2>1 DEF d
  <1>2. q = SharesAt(v, part, d)
    BY DEF SharesFor, SharesAt
  <1> HIDE DEF d, v, b, q
  <1>3. part <= b
    BY DEF b
  <1>4. /\ q \in Int
        /\ v <= 0 => q <= 0
        /\ v >= 0 => q >= 0
        /\ v >= 0 => (Millionths * d) * q <= v * b
    BY <1>1, <1>2, <1>3, SharesLose
  <1> QED BY <1>4 DEF SizeFits, d, v, b, q

LEMMA KellyPart ==
  ASSUME NEW request \in Requests
  PROVE  KellyFraction(request) \in Nat /\ KellyFraction(request) <= KellyCapPercent * 5000
  <1> DEFINE wins == IF request.winRate > 0 /\ request.winRate < 100 THEN request.winRate ELSE 50
             payoff == IF request.payoff > 0 THEN request.payoff ELSE 150
             top == 10000 * (wins * payoff - 100 * (100 - wins))
             full == top \div payoff
             c == KellyCapPercent
  <1>1. request.winRate \in Nat /\ request.payoff \in Nat /\ c \in Nat
    BY SizingAssumption
  <1>2. KellyFraction(request) = Smaller(c * 10000, Larger(0, full)) \div 2
    BY DEF KellyFraction
  <1>3. wins \in Int /\ payoff \in Nat \ {0}
    BY <1>1
  <1> HIDE DEF wins, payoff, c
  <1>4. top \in Int
    BY <1>3
  <1> HIDE DEF top
  <1>5. full \in Int
    BY <1>3, <1>4, RoundsDown
  <1> HIDE DEF full
  <1>6. Smaller(c * 10000, Larger(0, full)) \in 0 .. (c * 10000)
    BY <1>1, <1>5 DEF Smaller, Larger, c
  <1> DEFINE x == Smaller(c * 10000, Larger(0, full))
  <1> HIDE DEF x
  <1>7. x \in Nat /\ x <= c * 10000 /\ c \in Nat
    BY <1>1, <1>6 DEF x, c
  <1>8. x \div 2 \in Nat /\ x \div 2 <= c * 5000
    BY <1>7
  <1> QED BY <1>2, <1>8 DEF x, c

LEMMA VolatilityFits ==
  ASSUME SizerTypes, NEW request \in Requests, Distance(request) \in Nat \ {0}
  PROVE  SizeFits(VolatilityAdjusted(request), Millionths * Distance(request))
  <1> DEFINE m == Millionths * Distance(request)
             v == sizer.value
             q == SharesFor(sizer.risk, request)
             percent == Smaller(200, Larger(50, (100 * TargetVolatility) \div request.volatility))
             adjusted == VolatilityAdjusted(request)
  <1>1. /\ v \in Int /\ BaseRisk \in Nat /\ sizer.risk \in Nat /\ sizer.risk <= BaseRisk
        /\ request.volatility \in Nat /\ TargetVolatility \in Nat
    BY SizerFields, SizingAssumption
  <1>2. SizeFits(q, m)
    BY <1>1, PartFits, BudgetType
  <1>3. CASE request.volatility = 0
    <2>1. adjusted = q
      BY <1>3 DEF VolatilityAdjusted
    <2> QED BY <1>2, <2>1
  <1>4. CASE request.volatility # 0
    <2>1. adjusted = (q * percent) \div 100
      BY <1>4, Zenon DEF VolatilityAdjusted
    <2>2. percent \in Nat /\ percent <= 200
      <3> DEFINE x == (100 * TargetVolatility) \div request.volatility
      <3>1. x \in Int
        BY <1>1, <1>4
      <3> HIDE DEF x
      <3>2. Smaller(200, Larger(50, x)) \in Nat /\ Smaller(200, Larger(50, x)) <= 200
        BY <3>1 DEF Smaller, Larger
      <3> QED BY <3>2 DEF x
    <2>3. /\ q \in Int
          /\ v <= 0 => q <= 0
          /\ v >= 0 => q >= 0 /\ m * q <= v * BaseRisk
      <3> DEFINE d == Distance(request)
             r == sizer.risk
      <3>1. q = SharesAt(v, r, d) /\ d \in Nat \ {0} /\ r \in Nat /\ r <= BaseRisk
        BY <1>1 DEF SharesFor, SharesAt
      <3> HIDE DEF q, d, v, r
      <3>2. /\ q \in Int
            /\ v <= 0 => q <= 0
            /\ v >= 0 => q >= 0
            /\ v >= 0 => (Millionths * d) * q <= v * BaseRisk
        BY <1>1, <3>1, SharesLose
      <3> QED BY <3>2 DEF d
    <2>4. m \in Nat
      BY DEF Millionths
    <2> HIDE DEF q, m, percent, adjusted
    <2>5. CASE v <= 0
      <3> DEFINE x == q * percent
      <3>1. x \in Int /\ x <= 0
        BY <2>2, <2>3, <2>5
      <3> HIDE DEF x
      <3>2. x \div 100 \in Int /\ x \div 100 <= 0 /\ (x = 0 => x \div 100 = 0)
        BY <3>1
      <3>3. v >= 0 => v = 0
        BY <1>1, <2>5
      <3>4. v = 0 => q = 0 /\ x = 0
        BY <2>2, <2>3 DEF x
      <3>5. v = 0 => adjusted = 0 /\ v * SizeBudget = 0 /\ m * 0 = 0
        BY <2>1, <2>4, <3>2, <3>4, BudgetType DEF x
      <3>6. adjusted \in Int /\ adjusted <= 0
        BY <2>1, <3>2 DEF x
      <3>7. v >= 0 => adjusted >= 0 /\ m * adjusted <= v * SizeBudget
        BY <3>3, <3>5
      <3> QED BY <3>6, <3>7 DEF SizeFits, adjusted, m
    <2>6. CASE v > 0
      <3>1. adjusted \in Nat /\ adjusted <= 2 * q
        BY <1>1, <2>1, <2>2, <2>3, <2>6, PercentOf
      <3>2. m * adjusted <= m * (2 * q)
        BY <2>3, <2>4, <3>1, TimesLeq
      <3>3. v * (2 * BaseRisk) <= v * SizeBudget
        BY <1>1, <2>6, TimesLeq, BudgetType
      <3> DEFINE x == m * q  y == v * BaseRisk  z == m * adjusted  t == v * SizeBudget
      <3>4. x \in Int /\ y \in Int /\ z \in Int /\ t \in Int
        BY <1>1, <2>3, <2>4, <3>1, BudgetType
      <3>5. m * (2 * q) = 2 * x /\ v * (2 * BaseRisk) = 2 * y
        BY <1>1, <2>3, <2>4
      <3>6. x <= y
        BY <1>1, <2>3, <2>6
      <3> HIDE DEF x, y, z, t
      <3>7. z <= 2 * x /\ 2 * y <= t
        BY <3>2, <3>3, <3>5 DEF z, t
      <3>8. z <= t
        BY <3>4, <3>6, <3>7
      <3> QED BY <1>1, <2>6, <3>1, <3>8 DEF SizeFits, z, t, adjusted, m
    <2> QED BY <1>1, <2>5, <2>6 DEF adjusted, m
  <1> QED BY <1>3, <1>4

LEMMA SizesWanted ==
  ASSUME SizerTypes, NEW request \in Requests, Distance(request) \in Nat \ {0}
  PROVE  SizeFits(ByStrategy(sizer.strategy, request), Millionths * Distance(request))
  <1> DEFINE m == Millionths * Distance(request)
             r == sizer.risk
             part == (r * Larger(0, Smaller(100, request.confidence))) \div 100
  <1>1. r \in Nat /\ r <= SizeBudget
    BY SizerFields, BudgetType, SizingAssumption
  <1>2. SizeFits(SharesFor(r, request), m)
    BY <1>1, PartFits
  <1>3. SizeFits(SharesFor(KellyFraction(request), request), m)
    <2>1. KellyFraction(request) \in Nat /\ KellyFraction(request) <= SizeBudget
      BY KellyPart, BudgetType, SizingAssumption
    <2> QED BY <2>1, PartFits
  <1>4. SizeFits(VolatilityAdjusted(request), m)
    BY VolatilityFits
  <1>5. SizeFits(ConfidenceWeighted(request), m)
    <2> DEFINE c == Larger(0, Smaller(100, request.confidence))
    <2>1. request.confidence \in Int
      BY SizingAssumption
    <2>2. c \in Nat /\ c <= 100
      BY <2>1 DEF Larger, Smaller
    <2> HIDE DEF c, r
    <2>3. (r * c) \div 100 \in Nat /\ (r * c) \div 100 <= r
      BY <1>1, <2>2, PercentOf
    <2>4. part \in Nat /\ part <= r
      BY <2>3 DEF c
    <2> HIDE DEF part
    <2>5. part <= SizeBudget
      BY <1>1, <2>4, BudgetType
    <2>6. SizeFits(SharesFor(part, request), m)
      BY <2>4, <2>5, PartFits
    <2> QED BY <2>6 DEF ConfidenceWeighted, part, r
  <1>6. SizeFits(Composite(request), m)
    <2> DEFINE x == SharesFor(KellyFraction(request), request)
               y == VolatilityAdjusted(request)
               z == SharesFor(sizer.risk, request)
               s == 4 * x + 3 * y + 3 * z
               v == sizer.value
               t == v * SizeBudget
    <2>1. Composite(request) = s \div 10
      BY DEF Composite
    <2>2. v \in Int /\ t \in Int /\ m \in Nat
      BY SizerFields, BudgetType DEF Millionths
    <2>3. /\ x \in Int /\ y \in Int /\ z \in Int
          /\ v <= 0 => x <= 0 /\ y <= 0 /\ z <= 0
          /\ v >= 0 => /\ x >= 0 /\ y >= 0 /\ z >= 0
                       /\ m * x <= t /\ m * y <= t /\ m * z <= t
      BY <1>2, <1>3, <1>4 DEF SizeFits
    <2> HIDE DEF x, y, z, v, t, m
    <2>4. s \in Int /\ (v <= 0 => s <= 0) /\ (v >= 0 => s >= 0)
      BY <2>2, <2>3
    <2>5. m * s = 4 * (m * x) + 3 * (m * y) + 3 * (m * z)
      BY <2>2, <2>3
    <2> HIDE DEF s
    <2> DEFINE q == s \div 10
    <2>6. q \in Int /\ 10 * q <= s /\ (v <= 0 => q <= 0) /\ (v >= 0 => q >= 0)
      BY <2>2, <2>4
    <2> HIDE DEF q
    <2>7. v >= 0 => m * q <= t
      <3> SUFFICES ASSUME v >= 0 PROVE m * q <= t
        OBVIOUS
      <3>1. m * (10 * q) <= m * s
        BY <2>2, <2>4, <2>6, TimesLeq
      <3> DEFINE mx == m * x  my == m * y  mz == m * z  mq == m * q
      <3>2. m * (10 * q) = 10 * mq /\ mx \in Int /\ my \in Int /\ mz \in Int /\ mq \in Int
        BY <2>2, <2>3, <2>6
      <3>3. mx <= t /\ my <= t /\ mz <= t /\ 10 * mq <= 4 * mx + 3 * my + 3 * mz
        BY <2>3, <2>5, <3>1, <3>2
      <3> HIDE DEF mx, my, mz, mq
      <3>4. mq <= t
        BY <2>2, <3>2, <3>3
      <3> QED BY <3>4 DEF mq
    <2> QED BY <2>1, <2>6, <2>7 DEF SizeFits, q, v, t
  <1> HIDE DEF m, r, part
  <1> QED BY <1>2, <1>3, <1>4, <1>5, <1>6 DEF ByStrategy, m, r

\* Any quantity up to one that fits and up to the cap is within the budget.
WithinBudget(quantity, request) ==
  quantity > 1 =>
    /\ request.entry \in Nat
    /\ 100 * quantity * request.entry <= sizer.value * CapPercent
    /\ quantity * Distance(request) * Millionths <= sizer.value * SizeBudget

LEMMA NoMoreFits ==
  ASSUME SizerTypes, NEW request \in Requests, request.entry > 0, Distance(request) \in Nat \ {0},
         NEW wanted, SizeFits(wanted, Millionths * Distance(request)),
         NEW quantity \in Int, quantity > 1 => quantity <= wanted /\ sizer.value > 0,
         quantity > 1 => quantity <= (sizer.value * CapPercent) \div (100 * request.entry)
  PROVE  WithinBudget(quantity, request)
  <1> SUFFICES ASSUME quantity > 1 PROVE WithinBudget(quantity, request)
    BY DEF WithinBudget
  <1> DEFINE v == sizer.value
             e == request.entry
             d == Distance(request)
             x == v * CapPercent
             y == v * SizeBudget
             c == 100 * e
             m == Millionths * d
             cap == x \div c
  <1>1. e \in Nat /\ e > 0 /\ v \in Int /\ x \in Int /\ y \in Int
    <2>1. request.entry \in Int /\ CapPercent \in Nat
      BY SizingAssumption
    <2> QED BY <2>1, SizerFields, BudgetType
  <1>2. c \in Nat \ {0} /\ m \in Nat \ {0}
    BY <1>1 DEF Millionths
  <1>3. wanted \in Int /\ m * wanted <= y /\ quantity <= wanted /\ quantity <= cap
    <2> HIDE DEF cap
    <2>1. v > 0 /\ v >= 0
      BY <1>1
    <2> HIDE DEF v, y
    <2> QED BY <2>1 DEF SizeFits, cap, v, y
  <1>4. 100 * quantity * e = c * quantity /\ quantity * d * Millionths = m * quantity
    BY <1>1 DEF Millionths
  <1> HIDE DEF v, e, d, x, y, c, m
  <1>5. cap \in Int /\ c * cap <= x
    BY <1>1, <1>2, RoundsDown
  <1> HIDE DEF cap
  <1>6. c * quantity \in Int /\ c * cap \in Int /\ c * quantity <= c * cap
    BY <1>2, <1>3, <1>5, TimesLeq
  <1>7. m * quantity \in Int /\ m * wanted \in Int /\ m * quantity <= m * wanted
    BY <1>2, <1>3, TimesLeq
  <1> DEFINE a1 == c * quantity  a2 == c * cap  b1 == m * quantity  b2 == m * wanted
  <1>8. a1 \in Int /\ a2 \in Int /\ b1 \in Int /\ b2 \in Int /\ a1 <= a2 /\ a2 <= x /\ b1 <= b2 /\ b2 <= y
    BY <1>3, <1>5, <1>6, <1>7
  <1> HIDE DEF a1, a2, b1, b2
  <1>9. a1 <= x /\ b1 <= y
    BY <1>1, <1>8
  <1>10. 100 * quantity * e <= x /\ quantity * d * Millionths <= y
    BY <1>4, <1>9 DEF a1, b1
  <1> QED BY <1>1, <1>10 DEF WithinBudget, e, d, x, y, v

LEMMA DistanceType ==
  ASSUME NEW request \in Requests
  PROVE  Distance(request) \in Nat
  <1> DEFINE e == request.entry  s == request.stop
  <1>1. e \in Int /\ s \in Int
    BY SizingAssumption
  <1>2. Distance(request) = IF e > s THEN e - s ELSE s - e
    BY DEF Distance
  <1> HIDE DEF e, s
  <1> QED BY <1>1, <1>2

\* The cap, for an entry that is a price.
LEMMA CapType ==
  ASSUME SizerTypes, NEW request \in Requests, request.entry > 0
  PROVE  (sizer.value * CapPercent) \div (100 * request.entry) \in Int
  <1> DEFINE x == sizer.value * CapPercent  c == 100 * request.entry
  <1>1. x \in Int
    BY SizerFields, SizingAssumption
  <1>2. request.entry \in Int
    BY SizingAssumption
  <1>3. c \in Nat \ {0}
    BY <1>2
  <1> HIDE DEF x, c
  <1>4. x \div c \in Int
    BY <1>1, <1>3, RoundsDown
  <1> QED BY <1>4 DEF x, c

\* Both sizers.
LEMMA SizedWithin ==
  ASSUME SizerTypes, NEW request \in Requests
  PROVE  /\ PositionSize(request) \in Nat /\ WithinBudget(PositionSize(request), request)
         /\ FixedRiskSize(request) \in Int /\ WithinBudget(FixedRiskSize(request), request)
  <1> DEFINE v == sizer.value
             cap == (v * CapPercent) \div (100 * request.entry)
             wanted == ByStrategy(sizer.strategy, request)
             plain == SharesFor(sizer.risk, request)
             m == Millionths * Distance(request)
  <1>1. CASE Refused(request)
    <2>1. PositionSize(request) = 0 /\ FixedRiskSize(request) = 0
      BY <1>1 DEF PositionSize, FixedRiskSize
    <2> QED BY <2>1 DEF WithinBudget
  <1>2. CASE ~Refused(request)
    <2>1. Distance(request) \in Nat \ {0} /\ request.entry > 0
      <3>1. request.entry \in Int /\ Distance(request) \in Nat
        BY SizingAssumption, DistanceType
      <3> QED BY <1>2, <3>1 DEF Refused
    <2>2. v \in Int /\ cap \in Int
      BY <2>1, SizerFields, CapType
    <2>3. SizeFits(wanted, m)
      BY <2>1, SizesWanted
    <2>4. SizeFits(plain, m)
      <3>1. sizer.risk \in Nat /\ sizer.risk <= SizeBudget
        BY SizerFields, BudgetType, SizingAssumption
      <3> QED BY <2>1, <3>1, PartFits
    <2>5. PositionSize(request) = Larger(1, IF v > 0 THEN Smaller(wanted, cap) ELSE wanted)
      BY <1>2 DEF PositionSize
    <2>6. FixedRiskSize(request) = Smaller(plain, cap)
      BY <1>2 DEF FixedRiskSize
    <2> HIDE DEF cap, wanted, plain, m
    <2>7. wanted \in Int /\ plain \in Int /\ (v <= 0 => wanted <= 0 /\ plain <= 0)
      BY <2>3, <2>4 DEF SizeFits
    <2> DEFINE q == PositionSize(request)  f == FixedRiskSize(request)
    <2> HIDE DEF v, q, f
    <2>8. q \in Nat /\ (q > 1 => q <= wanted /\ v > 0 /\ q <= cap)
      BY <2>2, <2>5, <2>7 DEF Larger, Smaller, q
    <2>9. f \in Int /\ (f > 1 => f <= plain /\ v > 0 /\ f <= cap)
      BY <2>2, <2>6, <2>7 DEF Smaller, f
    <2>10. WithinBudget(q, request)
      BY <2>1, <2>3, <2>8, NoMoreFits DEF m, v, cap
    <2>11. WithinBudget(f, request)
      BY <2>1, <2>4, <2>9, NoMoreFits DEF m, v, cap
    <2> QED BY <2>8, <2>9, <2>10, <2>11 DEF q, f
  <1> QED BY <1>1, <1>2

\* The costs only cut what fits.
LEMMA CutWithin ==
  ASSUME SizerTypes, NEW request \in Requests, NEW base \in Nat, WithinBudget(base, request),
         NEW scale \in 0 .. 100,
         NEW quantity, quantity = IF scale < 100 THEN Larger(1, (base * scale) \div 100) ELSE base
  PROVE  WithinBudget(quantity, request)
  <1>1. quantity \in Nat /\ (quantity > 1 => quantity <= base)
    <2> DEFINE x == (base * scale) \div 100
    <2>1. x \in Nat /\ x <= base
      BY PercentOf
    <2>2. quantity = IF scale < 100 THEN Larger(1, x) ELSE base
      OBVIOUS
    <2> HIDE DEF x
    <2> QED BY <2>1, <2>2 DEF Larger
  <1> SUFFICES ASSUME quantity > 1 PROVE WithinBudget(quantity, request)
    BY DEF WithinBudget
  <1> DEFINE v == sizer.value
             e == request.entry
             d == Distance(request)
             x == v * CapPercent
             y == v * SizeBudget
  <1>2. e \in Nat /\ 100 * base * e <= x /\ base * d * Millionths <= y
    BY <1>1 DEF WithinBudget
  <1>3. d \in Nat /\ x \in Int /\ y \in Int
    BY DistanceType, SizerFields, BudgetType, SizingAssumption
  <1> DEFINE c == 100 * e  m == d * Millionths
  <1> HIDE DEF v, e, d, x, y
  <1>4. c \in Nat /\ m \in Nat
    BY <1>2, <1>3 DEF Millionths
  <1>5. 100 * base * e = c * base /\ base * d * Millionths = m * base
    BY <1>2, <1>3 DEF Millionths
  <1>6. 100 * quantity * e = c * quantity /\ quantity * d * Millionths = m * quantity
    BY <1>1, <1>2, <1>3 DEF Millionths
  <1> HIDE DEF c, m
  <1>7. /\ c * quantity \in Int /\ c * base \in Int /\ c * quantity <= c * base
        /\ m * quantity \in Int /\ m * base \in Int /\ m * quantity <= m * base
    BY <1>1, <1>4, TimesLeq
  <1> DEFINE a1 == c * quantity  a2 == c * base  b1 == m * quantity  b2 == m * base
  <1>8. a1 \in Int /\ a2 \in Int /\ b1 \in Int /\ b2 \in Int /\ a1 <= a2 /\ a2 <= x /\ b1 <= b2 /\ b2 <= y
    BY <1>2, <1>5, <1>7
  <1> HIDE DEF a1, a2, b1, b2
  <1>9. a1 <= x /\ b1 <= y
    BY <1>3, <1>8
  <1>10. 100 * quantity * e <= x /\ quantity * d * Millionths <= y
    BY <1>6, <1>9 DEF a1, b1
  <1> QED BY <1>2, <1>10 DEF WithinBudget, e, d, x, y, v

SizingInv == SizerTypes /\ SizesWithinBudget

LEMMA AnswerKeeps ==
  ASSUME SizerTypes, NEW request \in Requests, NEW q \in Int, WithinBudget(q, request),
         Answer(q, request)
  PROVE  SizesWithinBudget'
  <1>1. sized' = [quantity |-> q, entry |-> request.entry, stop |-> request.stop, value |-> sizer.value]
    BY DEF Answer
  <1>2. /\ sized'.quantity = q /\ sized'.entry = request.entry /\ sized'.stop = request.stop
        /\ sized'.value = sizer.value
    BY <1>1
  <1>3. Distance(sized') = Distance(request)
    BY <1>2 DEF Distance
  <1> QED BY <1>2, <1>3 DEF SizesWithinBudget, WithinBudget, SizeBudget

LEMMA RecordKeeps ==
  ASSUME SizingInv, NEW s \in SizedSymbols, NEW cost \in Costs, RecordTcaReport(s, cost)
  PROVE  SizingInv'
  <1> DEFINE costs == Remember(costHistory[s], cost, Lookback)
             r == sizer.risk
             scale == Scaling(costs)
  <1>1. SizerTypes
    BY DEF SizingInv
  <1>2. ASSUME NEW seq \in Seq(Costs), NEW n PROVE Remember(seq, cost, n) \in Seq(Costs)
    <2> DEFINE all == Append(seq, cost)
    <2>1. all \in Seq(Costs) /\ all # <<>>
      BY AppendProperties
    <2> HIDE DEF all
    <2>2. Tail(all) \in Seq(Costs)
      BY <2>1
    <2> QED BY <2>1, <2>2 DEF Remember, all
  <1>3. costs \in Seq(Costs) /\ Remember(globalCosts, cost, GlobalLookback) \in Seq(Costs)
    BY <1>1, <1>2 DEF SizerTypes
  <1>4. /\ costHistory' = [costHistory EXCEPT ![s] = costs]
        /\ globalCosts' = Remember(globalCosts, cost, GlobalLookback)
        /\ sizer' = [sizer EXCEPT !.risk = (r * scale) \div 100]
        /\ sized' = NotSized
    BY DEF RecordTcaReport
  <1>5. scale \in Nat /\ scale <= 100
    <2> HIDE DEF costs
    <2>1. Scaling(costs) \in 0 .. 100
      BY <1>3, ScalingPercent
    <2> QED BY <2>1
  <1>6. r \in Nat /\ r <= BaseRisk /\ BaseRisk \in Nat
    BY <1>1, SizerFields, SizingAssumption
  <1> HIDE DEF costs, scale, r
  <1> DEFINE x == (r * scale) \div 100
  <1>7. x \in Nat /\ x <= r
    BY <1>5, <1>6, PercentOf
  <1>8. x \in 0 .. BaseRisk
    <2> HIDE DEF x
    <2> QED BY <1>6, <1>7
  <1> HIDE DEF x
  <1>9. sizer' = [sizer EXCEPT !.risk = x]
    BY <1>4 DEF x
  <1>10. SizerTypes'
    BY <1>1, <1>3, <1>4, <1>8, <1>9 DEF SizerTypes
  <1>11. SizesWithinBudget'
    BY <1>4 DEF SizesWithinBudget, NotSized
  <1> QED BY <1>10, <1>11 DEF SizingInv

LEMMA SizingStep == SizingInv /\ [SizingNext]_sizingVars => SizingInv'
  <1> SUFFICES ASSUME SizingInv, [SizingNext]_sizingVars PROVE SizingInv'
    OBVIOUS
  <1>0. SizerTypes
    BY DEF SizingInv
  <1>1. ASSUME NEW s \in SizedSymbols, NEW c \in Costs, RecordTcaReport(s, c) PROVE SizingInv'
    BY <1>1, RecordKeeps
  <1>2. ASSUME NEW s \in SizedSymbols, NEW r \in Requests, SizeWithCosts(s, r) PROVE SizingInv'
    <2> DEFINE costs == IF costHistory[s] = <<>> THEN globalCosts ELSE costHistory[s]
               base == PositionSize(r)
               scale == Scaling(costs)
               q == IF scale < 100 THEN Larger(1, (base * scale) \div 100) ELSE base
    <2>1. Answer(q, r) /\ UNCHANGED <<sizer, costHistory, globalCosts>>
      BY <1>2 DEF SizeWithCosts
    <2>2. costs \in Seq(Costs)
      BY <1>0 DEF SizerTypes
    <2>3. base \in Nat /\ WithinBudget(base, r)
      BY <1>0, SizedWithin
    <2> HIDE DEF costs, base
    <2>4. scale \in 0 .. 100
      BY <2>2, ScalingPercent
    <2> HIDE DEF scale
    <2>5. WithinBudget(q, r)
      BY <1>0, <2>3, <2>4, CutWithin
    <2>6. q \in Int
      <3>1. (base * scale) \div 100 \in Nat
        BY <2>3, <2>4, PercentOf
      <3> QED BY <2>3, <3>1 DEF Larger
    <2> HIDE DEF q
    <2>7. SizesWithinBudget'
      BY <1>0, <2>1, <2>5, <2>6, AnswerKeeps
    <2> QED BY <1>0, <2>1, <2>7 DEF SizingInv, SizerTypes
  <1>3. ASSUME NEW r \in Requests, SizeDirectly(r) PROVE SizingInv'
    <2>1. PICK q \in {PositionSize(r), FixedRiskSize(r)} : Answer(q, r)
      BY <1>3 DEF SizeDirectly
    <2>2. UNCHANGED <<sizer, costHistory, globalCosts>>
      BY <1>3 DEF SizeDirectly
    <2>3. q \in Int /\ WithinBudget(q, r)
      <3>1. /\ PositionSize(r) \in Int /\ WithinBudget(PositionSize(r), r)
            /\ FixedRiskSize(r) \in Int /\ WithinBudget(FixedRiskSize(r), r)
        BY <1>0, SizedWithin
      <3> QED BY <3>1
    <2>4. SizesWithinBudget'
      BY <1>0, <2>1, <2>3, AnswerKeeps
    <2> QED BY <1>0, <2>2, <2>4 DEF SizingInv, SizerTypes
  <1>4. ASSUME NEW s \in Strategies, SetStrategy(s) PROVE SizingInv'
    BY <1>4 DEF SetStrategy, SizingInv, SizerTypes, SizesWithinBudget
  <1>5. CASE ResetCosts
    BY <1>5 DEF ResetCosts, SizingInv, SizerTypes, SizesWithinBudget
  <1>6. CASE UNCHANGED sizingVars
    BY <1>6 DEF sizingVars, SizingInv, SizerTypes, SizesWithinBudget
  <1> QED BY <1>1, <1>2, <1>3, <1>4, <1>5, <1>6 DEF SizingNext

\* For any portfolio, prices, rates and costs, and after any reports and changes of strategy:
\* a size of more than one share costs at most the cap, and loses at its stop at most twice
\* the configured risk or half the Kelly cap (domain/risk/position_sizer.py,
\* calculate_position_size; domain/risk/risk_manager.py; core/risk_management/position_sizer.py).
THEOREM SizesStayWithin == SizingSpec => []SizesWithinBudget
  <1>1. SizingInit => SizingInv
    <2> SUFFICES ASSUME SizingInit PROVE SizingInv
      OBVIOUS
    <2>1. sizer \in [value : PortfolioValues, risk : {BaseRisk}, strategy : Strategies]
      BY DEF SizingInit
    <2>2. {BaseRisk} \subseteq 0 .. BaseRisk
      BY SizingAssumption
    <2>3. SizerTypes
      BY <2>1, <2>2 DEF SizerTypes, SizingInit
    <2> QED BY <2>3 DEF SizingInit, SizingInv, SizesWithinBudget, NotSized
  <1>2. SizingInv => SizesWithinBudget
    BY DEF SizingInv
  <1> QED BY <1>1, <1>2, SizingStep, PTL DEF SizingSpec
-----------------------------------------------------------------------------
\* Performance: the largest of a finite set of numbers.
LEMMA LargestExists ==
  ASSUME NEW S, S \subseteq Int, IsFiniteSet(S), S # {}
  PROVE  Max(S) \in S /\ \A x \in S : x <= Max(S)
  <1> DEFINE Has(T) == \E m \in T : \A x \in T : x <= m
             C == {T \in SUBSET S : T = {} \/ Has(T)}
  <1>1. ASSUME NEW T \in SUBSET S, T # {}, \A x \in T : T \ {x} \in C
        PROVE  T \in C
    <2>1. PICK a \in T : TRUE
      BY <1>1
    <2>2. CASE T \ {a} = {}
      <3>1. a <= a /\ \A x \in T : x = a
        BY <2>2
      <3> QED BY <2>1, <3>1
    <2>3. CASE T \ {a} # {}
      <3>1. PICK m \in T \ {a} : \A x \in T \ {a} : x <= m
        BY <1>1, <2>3
      <3>2. a \in Int /\ m \in Int /\ \A x \in T : x \in Int
        OBVIOUS
      <3>3. CASE a <= m
        <4>1. \A x \in T : x <= m
          BY <3>1, <3>3
        <4> QED BY <3>1, <4>1
      <3>4. CASE ~(a <= m)
        <4>1. \A x \in T : x <= a
          <5> TAKE x \in T
          <5>1. CASE x = a
            BY <3>2, <5>1
          <5>2. CASE x # a
            <6>1. x <= m /\ x \in Int
              BY <3>1, <3>2, <5>2
            <6> QED BY <3>2, <3>4, <6>1
          <5> QED BY <5>1, <5>2
        <4> QED BY <4>1
      <3> QED BY <3>3, <3>4
    <2> QED BY <2>2, <2>3
  <1>2. {} \in C
    OBVIOUS
  <1> HIDE DEF C
  <1>3. SUBSET S \subseteq C
    BY <1>1, <1>2, SubsetInduction
  <1>4. Has(S)
    BY <1>3 DEF C
  <1>5. \E m \in S : \A x \in S : m >= x
    BY <1>4
  <1>6. Max(S) \in S /\ \A x \in S : Max(S) >= x
    BY <1>5, Zenon DEF Max
  <1> QED BY <1>6

LEMMA LargestIs ==
  ASSUME NEW S, S \subseteq Int, NEW m \in S, \A x \in S : x <= m
  PROVE  Max(S) = m
  <1>1. \A x \in S : m >= x
    OBVIOUS
  <1>2. Max(S) \in S /\ \A x \in S : Max(S) >= x
    BY <1>1, Zenon DEF Max
  <1> DEFINE x == Max(S)
  <1>3. x \in Int /\ m \in Int /\ x <= m /\ x >= m
    BY <1>2
  <1> HIDE DEF x
  <1>4. x = m
    BY <1>3
  <1> QED BY <1>4 DEF x

\* The running peak: the function the recursion defines exists.
Peaking(values, n, g) ==
  g = [i \in 1 .. n |-> IF i > 1 /\ g[i - 1] >= values[i] THEN g[i - 1] ELSE values[i]]

LEMMA PeakingExists ==
  ASSUME NEW values, NEW n \in Nat
  PROVE  \E g : Peaking(values, n, g)
  <1> DEFINE N == {k \in Nat : \E g : Peaking(values, k, g)}
  <1>1. 0 \in N
    <2> DEFINE g == [i \in 1 .. 0 |-> values[i]]
    <2>1. Peaking(values, 0, g)
      BY DEF Peaking
    <2> QED BY <2>1
  <1>2. ASSUME NEW k \in Nat, k \in N PROVE k + 1 \in N
    <2>1. PICK g : Peaking(values, k, g)
      BY <1>2
    <2> DEFINE last == IF k + 1 > 1 /\ g[k] >= values[k + 1] THEN g[k] ELSE values[k + 1]
               h == [i \in 1 .. (k + 1) |-> IF i <= k THEN g[i] ELSE last]
    <2>2. /\ DOMAIN h = 1 .. (k + 1) /\ h[k + 1] = last
          /\ \A i \in 1 .. k : h[i] = g[i]
      OBVIOUS
    <2>3. \A i \in 1 .. k : g[i] = IF i > 1 /\ g[i - 1] >= values[i] THEN g[i - 1] ELSE values[i]
      BY <2>1 DEF Peaking
    <2>4. h = [i \in 1 .. (k + 1) |-> h[i]]
      OBVIOUS
    <2>5. ASSUME NEW i \in 1 .. (k + 1)
          PROVE  h[i] = IF i > 1 /\ h[i - 1] >= values[i] THEN h[i - 1] ELSE values[i]
      <3>1. CASE i = k + 1
        <4>1. i - 1 = k /\ (i > 1 => k \in 1 .. k)
          BY <3>1
        <4>2. i > 1 => h[i - 1] = g[k]
          BY <2>2, <4>1
        <4> HIDE DEF h
        <4> QED BY <2>2, <3>1, <4>2
      <3>2. CASE i # k + 1
        <4>1. i \in 1 .. k /\ (i > 1 => i - 1 \in 1 .. k)
          BY <3>2
        <4> HIDE DEF h
        <4>2. h[i] = g[i] /\ (i > 1 => h[i - 1] = g[i - 1])
          BY <2>2, <4>1
        <4> QED BY <2>3, <4>1, <4>2
      <3> QED BY <3>1, <3>2
    <2> HIDE DEF h
    <2>6. Peaking(values, k + 1, h)
      BY <2>4, <2>5 DEF Peaking
    <2> QED BY <2>6
  <1> HIDE DEF N
  <1>3. n \in N
    BY <1>1, <1>2, NatSetInduction
  <1> QED BY <1>3 DEF N

\* It is the largest value so far.
LEMMA PeaksAre ==
  ASSUME NEW values \in Seq(Nat)
  PROVE  \A i \in DOMAIN values : /\ \E j \in 1 .. i : Peaks(values)[i] = values[j]
                                  /\ \A j \in 1 .. i : values[j] <= Peaks(values)[i]
  <1> DEFINE n == Len(values)
             p == Peaks(values)
             Good(i) == /\ \E j \in 1 .. i : p[i] = values[j]
                        /\ \A j \in 1 .. i : values[j] <= p[i]
             N == {i \in Nat : i \in 1 .. n => Good(i)}
  <1>1. n \in Nat /\ DOMAIN values = 1 .. n /\ \A i \in 1 .. n : values[i] \in Nat
    OBVIOUS
  <1>2. \E g : g = [i \in DOMAIN values |-> IF i > 1 /\ g[i - 1] >= values[i] THEN g[i - 1] ELSE values[i]]
    <2>1. PICK g : Peaking(values, n, g)
      BY <1>1, PeakingExists
    <2>2. g = [i \in 1 .. n |-> IF i > 1 /\ g[i - 1] >= values[i] THEN g[i - 1] ELSE values[i]]
      BY <2>1 DEF Peaking
    <2> QED BY <1>1, <2>2, Zenon
  <1>3. p = [i \in DOMAIN values |-> IF i > 1 /\ p[i - 1] >= values[i] THEN p[i - 1] ELSE values[i]]
    BY <1>2, Zenon DEF Peaks
  <1> HIDE DEF p, n
  <1>4. \A i \in 1 .. n : p[i] = IF i > 1 /\ p[i - 1] >= values[i] THEN p[i - 1] ELSE values[i]
    BY <1>1, <1>3
  <1>5. 0 \in N
    BY <1>1
  <1>6. ASSUME NEW k \in Nat, k \in N PROVE k + 1 \in N
    <2> SUFFICES ASSUME k + 1 \in 1 .. n PROVE Good(k + 1)
      OBVIOUS
    <2>1. p[k + 1] = IF k + 1 > 1 /\ p[k] >= values[k + 1] THEN p[k] ELSE values[k + 1]
      BY <1>1, <1>4
    <2>2. \A j \in 1 .. (k + 1) : j = k + 1 \/ j \in 1 .. k
      BY <1>1
    <2>3. k + 1 \in 1 .. (k + 1) /\ 1 .. k \subseteq 1 .. (k + 1) /\ values[k + 1] \in Nat
      BY <1>1
    <2>4. CASE k = 0
      <3>1. p[k + 1] = values[k + 1] /\ \A j \in 1 .. (k + 1) : j = k + 1
        BY <2>1, <2>2, <2>4
      <3> QED BY <2>3, <3>1
    <2>5. CASE k > 0
      <3>1. Good(k)
        BY <1>1, <1>6, <2>5
      <3>2. PICK j \in 1 .. k : p[k] = values[j]
        BY <3>1
      <3>3. p[k] \in Nat /\ \A i \in 1 .. k : values[i] <= p[k] /\ values[i] \in Nat
        BY <1>1, <3>1, <3>2
      <3>4. CASE p[k] >= values[k + 1]
        <4>1. p[k + 1] = p[k]
          BY <2>1, <2>5, <3>4
        <4>2. \A i \in 1 .. (k + 1) : values[i] <= p[k]
          BY <2>2, <2>3, <3>3, <3>4
        <4> QED BY <2>3, <3>2, <4>1, <4>2
      <3>5. CASE ~(p[k] >= values[k + 1])
        <4>1. p[k + 1] = values[k + 1]
          BY <2>1, <3>5
        <4>2. \A i \in 1 .. (k + 1) : values[i] <= values[k + 1]
          BY <2>2, <2>3, <3>3, <3>5
        <4> QED BY <2>3, <4>1, <4>2
      <3> QED BY <3>4, <3>5
    <2> QED BY <2>4, <2>5
  <1> HIDE DEF N
  <1>7. Nat \subseteq N
    BY <1>5, <1>6, NatSetInduction
  <1>8. \A i \in 1 .. n : Good(i)
    BY <1>1, <1>7 DEF N
  <1> QED BY <1>1, <1>8 DEF p

LEMMA RoundsDownLeast ==
  ASSUME NEW x \in Int, NEW m \in Nat \ {0}, NEW q \in Int, q * m <= x
  PROVE  q <= x \div m
  <1> DEFINE d == x \div m
  <1>1. d \in Int /\ x < m * (d + 1)
    OBVIOUS
  <1> HIDE DEF d
  <1> SUFFICES ASSUME d + 1 <= q PROVE FALSE
    BY <1>1 DEF d
  <1>2. m * (d + 1) <= m * q
    BY <1>1, TimesLeq
  <1> DEFINE a == m * (d + 1)  b == m * q
  <1>3. a \in Int /\ b \in Int /\ a <= b /\ x < a /\ b <= x
    BY <1>1, <1>2
  <1> HIDE DEF a, b
  <1> QED BY <1>3

\* A fall to the same value is the larger part the higher it starts, and no part of a rise.
LEMMA ShareGrows ==
  ASSUME NEW low \in Nat, NEW x \in Nat, NEW y \in Nat, x <= y
  PROVE  /\ Share(x - low, x) \in Int
         /\ low <= x => Share(x - low, x) <= Share(y - low, y)
         /\ low >= x => Share(x - low, x) <= 0
  <1> DEFINE q == (10000 * (x - low)) \div x
             r == (10000 * (y - low)) \div y
  <1>1. CASE x = 0
    <2>1. Share(x - low, x) = 0
      BY <1>1 DEF Share
    <2>2. ASSUME low <= x PROVE Share(y - low, y) >= 0
      <3>1. low = 0
        BY <1>1, <2>2
      <3>2. CASE y = 0
        BY <3>2 DEF Share
      <3>3. CASE y > 0
        <4> DEFINE z == 10000 * (y - low)
        <4>1. z \in Int /\ z >= 0 /\ y \in Nat \ {0}
          BY <3>1, <3>3
        <4>2. Share(y - low, y) = z \div y
          BY <3>3 DEF Share
        <4> HIDE DEF z
        <4> QED BY <4>1, <4>2, RoundsDown
      <3> QED BY <3>2, <3>3
    <2> QED BY <2>1, <2>2
  <1>2. CASE x > 0
    <2>1. Share(x - low, x) = q /\ Share(y - low, y) = r
      BY <1>2 DEF Share
    <2> DEFINE u == 10000 * (x - low)  w == 10000 * (y - low)
    <2>2. u \in Int /\ w \in Int /\ x \in Nat \ {0} /\ y \in Nat \ {0} /\ w - u = 10000 * (y - x)
          /\ u <= 10000 * x /\ (low >= x => u <= 0)
      BY <1>2
    <2>3. q = u \div x /\ r = w \div y
      OBVIOUS
    <2> HIDE DEF u, w, q, r
    <2>4. q \in Int /\ x * q <= u /\ (u <= 0 => q <= 0)
      BY <2>2, <2>3, RoundsDown
    <2>5. q <= 10000
      <3> SUFFICES ASSUME 10001 <= q PROVE FALSE
        BY <2>4
      <3>1. x * 10001 <= x * q
        BY <2>4, TimesLeq
      <3> DEFINE a == x * q
      <3>2. a \in Int /\ x * 10001 <= a /\ a <= u
        BY <2>4, <3>1
      <3> HIDE DEF a
      <3> QED BY <2>2, <3>2
    <2>6. q * y <= w
      <3> DEFINE z == y - x
      <3>1. z \in Nat /\ y = x + z
        OBVIOUS
      <3>2. z * q <= z * 10000
        BY <2>4, <2>5, <3>1, TimesLeq
      <3>3. q * y = x * q + z * q
        BY <2>4, <3>1
      <3>4. w = u + 10000 * z
        BY <2>2, <3>1
      <3> DEFINE a == x * q  b == z * q
      <3>5. a \in Int /\ b \in Int /\ a <= u /\ b <= z * 10000 /\ q * y = a + b
        BY <2>4, <3>1, <3>2, <3>3
      <3> HIDE DEF a, b, z
      <3> QED BY <2>2, <3>1, <3>4, <3>5
    <2>7. q <= r
      BY <2>2, <2>3, <2>4, <2>6, RoundsDownLeast
    <2> QED BY <2>1, <2>2, <2>4, <2>7
  <1> QED BY <1>1, <1>2

\* The sets the largest falls are taken from.
FallsFromPeaks(values) == {Share(Peaks(values)[i] - values[i], Peaks(values)[i]) : i \in DOMAIN values}
FallsFromAny(values) == {Share(values[f[1]] - values[f[2]], values[f[1]]) : f \in Falls(values)}

LEMMA FallsFrom ==
  ASSUME NEW values \in Seq(Nat)
  PROVE  /\ FallsFromPeaks(values) \subseteq FallsFromAny(values)
         /\ FallsFromAny(values) \subseteq Int
         /\ \A x \in FallsFromAny(values) : x <= 0 \/ \E y \in FallsFromPeaks(values) : x <= y
         /\ IsFiniteSet(DOMAIN values) /\ IsFiniteSet(Falls(values))
  <1> DEFINE n == Len(values)
             p == Peaks(values)
  <1>1. n \in Nat /\ DOMAIN values = 1 .. n /\ \A i \in 1 .. n : values[i] \in Nat
    OBVIOUS
  <1>2. \A i \in 1 .. n : /\ \E j \in 1 .. i : p[i] = values[j]
                          /\ \A j \in 1 .. i : values[j] <= p[i]
    BY <1>1, PeaksAre
  <1>3. \A i \in 1 .. n : \A j \in 1 .. i : <<j, i>> \in Falls(values)
    BY <1>1 DEF Falls
  <1>4. \A f \in Falls(values) : /\ f[1] \in 1 .. n /\ f[2] \in 1 .. n /\ f[1] \in 1 .. f[2]
                                 /\ values[f[1]] \in Nat /\ values[f[2]] \in Nat
    BY <1>1 DEF Falls
  <1> HIDE DEF p, n
  <1>5. FallsFromPeaks(values) \subseteq FallsFromAny(values)
    <2> SUFFICES ASSUME NEW i \in DOMAIN values
                 PROVE  Share(p[i] - values[i], p[i]) \in FallsFromAny(values)
      BY DEF FallsFromPeaks, p
    <2>1. PICK j \in 1 .. i : p[i] = values[j]
      BY <1>1, <1>2
    <2> DEFINE f == <<j, i>>
    <2>2. f \in Falls(values) /\ f[1] = j /\ f[2] = i
      BY <1>1, <1>3
    <2>3. Share(p[i] - values[i], p[i]) = Share(values[f[1]] - values[f[2]], values[f[1]])
      BY <2>1, <2>2
    <2> HIDE DEF f
    <2> QED BY <2>2, <2>3 DEF FallsFromAny
  <1>6. ASSUME NEW x \in FallsFromAny(values)
        PROVE  x \in Int /\ (x <= 0 \/ \E y \in FallsFromPeaks(values) : x <= y)
    <2>1. PICK f \in Falls(values) : x = Share(values[f[1]] - values[f[2]], values[f[1]])
      BY DEF FallsFromAny
    <2> DEFINE high == values[f[1]]  low == values[f[2]]  top == p[f[2]]
    <2>2. high \in Nat /\ low \in Nat /\ top \in Nat /\ high <= top
      <3>1. PICK j \in 1 .. f[2] : top = values[j]
        BY <1>2, <1>4
      <3>2. j \in 1 .. n
        BY <1>1, <1>4
      <3> QED BY <1>1, <1>2, <1>4, <3>1, <3>2
    <2>3. Share(top - low, top) \in FallsFromPeaks(values)
      <3>1. f[2] \in DOMAIN values
        BY <1>1, <1>4
      <3> QED BY <3>1 DEF FallsFromPeaks, p
    <2>4. x = Share(high - low, high)
      BY <2>1
    <2> HIDE DEF high, low, top
    <2>5. /\ x \in Int
          /\ low <= high => x <= Share(top - low, top)
          /\ low >= high => x <= 0
      BY <2>2, <2>4, ShareGrows
    <2> QED BY <2>2, <2>3, <2>5
  <1>7. IsFiniteSet(DOMAIN values) /\ IsFiniteSet(Falls(values))
    <2>1. IsFiniteSet(DOMAIN values)
      BY <1>1, FS_Interval
    <2>2. IsFiniteSet((DOMAIN values) \X (DOMAIN values))
      BY <2>1, FS_Product
    <2>3. Falls(values) \subseteq (DOMAIN values) \X (DOMAIN values)
      BY DEF Falls
    <2> QED BY <2>1, <2>2, <2>3, FS_Subset
  <1> QED BY <1>5, <1>6, <1>7

LEMMA ValuesFinite ==
  ASSUME NEW S, IsFiniteSet(S), NEW f, DOMAIN f = S
  PROVE  IsFiniteSet({f[x] : x \in S})
  <1> DEFINE T == {f[x] : x \in S}
             g == [x \in S |-> f[x]]
  <1>1. g \in Surjection(S, T)
    BY DEF Surjection
  <1> QED BY <1>1, FS_Surjection

LEMMA ShareLargest ==
  ASSUME NEW values \in Seq(Nat)
  PROVE  /\ MaxDrawdown(values) = LargestShare(values)
         /\ \A x \in FallsFromAny(values) : x <= LargestShare(values)
  <1> DEFINE A == FallsFromPeaks(values)
             B == FallsFromAny(values)
             A0 == {0} \cup A
             B0 == {0} \cup B
  <1>1. A \subseteq B /\ B \subseteq Int /\ \A x \in B : x <= 0 \/ \E y \in A : x <= y
    BY FallsFrom
  <1>2. IsFiniteSet(A) /\ IsFiniteSet(B)
    <2> DEFINE D == DOMAIN values
               E == Falls(values)
               F == [i \in D |-> Share(Peaks(values)[i] - values[i], Peaks(values)[i])]
               G == [f \in E |-> Share(values[f[1]] - values[f[2]], values[f[1]])]
    <2>1. IsFiniteSet(D) /\ IsFiniteSet(E)
      BY FallsFrom
    <2>2. A = {F[i] : i \in D} /\ B = {G[f] : f \in E}
      BY DEF FallsFromPeaks, FallsFromAny
    <2>3. DOMAIN F = D /\ DOMAIN G = E
      OBVIOUS
    <2> HIDE DEF F, G, A, B, D, E
    <2> QED BY <2>1, <2>2, <2>3, ValuesFinite
  <1>3. IsFiniteSet(A0) /\ IsFiniteSet(B0)
    <2>1. A0 = A \cup {0} /\ B0 = B \cup {0}
      OBVIOUS
    <2> QED BY <1>2, <2>1, FS_AddElement
  <1>4. MaxDrawdown(values) = Max(A0) /\ LargestShare(values) = Max(B0)
    BY Zenon DEF MaxDrawdown, LargestShare, FallsFromPeaks, FallsFromAny
  <1> HIDE DEF A, B
  <1>5. A0 \subseteq Int /\ B0 \subseteq Int /\ A0 # {} /\ B0 # {} /\ A0 \subseteq B0
    BY <1>1
  <1>6. \A x \in B0 : \E y \in A0 : x <= y
    BY <1>1
  <1>7. B \subseteq B0
    OBVIOUS
  <1> HIDE DEF A0, B0
  <1>8. Max(A0) \in A0 /\ \A x \in A0 : x <= Max(A0)
    BY <1>3, <1>5, LargestExists
  <1> DEFINE m == Max(A0)
  <1>9. m \in B0 /\ m \in Int /\ \A x \in B0 : x <= m
    <2>1. m \in B0 /\ m \in Int
      BY <1>5, <1>8
    <2>2. ASSUME NEW x \in B0 PROVE x <= m
      <3>1. PICK y \in A0 : x <= y
        BY <1>6
      <3>2. y <= m /\ x \in Int /\ y \in Int
        BY <1>5, <1>8
      <3> HIDE DEF m
      <3> QED BY <2>1, <3>1, <3>2
    <2> QED BY <2>1, <2>2
  <1> HIDE DEF m
  <1>10. Max(B0) = m
    BY <1>5, <1>9, LargestIs
  <1> QED BY <1>4, <1>7, <1>9, <1>10 DEF m, B

LEMMA MoneyLargest ==
  ASSUME NEW values \in Seq(Nat), values # <<>>
  PROVE  /\ CalculateMaxDrawdown(values).absolute
              = Max({values[f[1]] - values[f[2]] : f \in Falls(values)})
         /\ CalculateMaxDrawdown(values).percent <= LargestShare(values)
  <1> DEFINE n == Len(values)
             D == DOMAIN values
             p == Peaks(values)
             fall(i) == FallAt(values, i)
             S == {values[f[1]] - values[f[2]] : f \in Falls(values)}
             T == {i \in D : \A j \in D : fall(i) >= fall(j)}
             trough == Min(T)
  <1>1. n \in Nat /\ D = 1 .. n /\ (\A i \in 1 .. n : values[i] \in Nat) /\ n >= 1
    OBVIOUS
  <1>2. \A i \in 1 .. n : /\ \E j \in 1 .. i : p[i] = values[j]
                          /\ \A j \in 1 .. i : values[j] <= p[i]
    BY <1>1, PeaksAre
  <1>3. \A f \in Falls(values) : /\ f[1] \in 1 .. n /\ f[2] \in 1 .. n /\ f[1] \in 1 .. f[2]
                                 /\ values[f[1]] \in Nat /\ values[f[2]] \in Nat
    BY <1>1 DEF Falls
  <1>4. \A i \in 1 .. n : \A j \in 1 .. i : <<j, i>> \in Falls(values)
    BY <1>1 DEF Falls
  <1>5. \A i \in D : fall(i) = p[i] - values[i]
    BY DEF FallAt
  <1> HIDE DEF n, D, p, fall
  <1>6. S \subseteq Int
    BY <1>3
  <1>7. \A i \in D : p[i] \in Nat /\ fall(i) \in Int
    <2> TAKE i \in D
    <2>1. PICK j \in 1 .. i : p[i] = values[j]
      BY <1>1, <1>2
    <2>2. j \in 1 .. n
      BY <1>1
    <2> QED BY <1>1, <1>5, <2>1, <2>2
  <1>8. ASSUME NEW i \in D
        PROVE  \E f \in Falls(values) : /\ fall(i) = values[f[1]] - values[f[2]]
                                        /\ p[i] = values[f[1]]
    <2>1. PICK j \in 1 .. i : p[i] = values[j]
      BY <1>1, <1>2
    <2> DEFINE f == <<j, i>>
    <2>2. f \in Falls(values) /\ f[1] = j /\ f[2] = i
      BY <1>1, <1>4
    <2>3. fall(i) = values[f[1]] - values[f[2]] /\ p[i] = values[f[1]]
      BY <1>5, <2>1, <2>2
    <2> HIDE DEF f
    <2> QED BY <2>2, <2>3
  <1>9. ASSUME NEW x \in S PROVE \E i \in D : x <= fall(i)
    <2>1. PICK f \in Falls(values) : x = values[f[1]] - values[f[2]]
      OBVIOUS
    <2> DEFINE i == f[2]  a == values[f[1]]  b == values[f[2]]  c == p[f[2]]
    <2>2. i \in D /\ a \in Nat /\ b \in Nat /\ a <= c /\ c \in Nat /\ fall(i) = c - b
      BY <1>1, <1>2, <1>3, <1>5, <1>7
    <2>3. x = a - b
      BY <2>1
    <2> HIDE DEF i, a, b, c
    <2> QED BY <2>2, <2>3
  <1>10. trough \in T
    <2> DEFINE R == {fall(i) : i \in D}
    <2>1. IsFiniteSet(R)
      <3>1. IsFiniteSet(D)
        BY <1>1, FS_Interval
      <3> DEFINE F == [i \in D |-> fall(i)]
      <3>2. R = {F[i] : i \in D} /\ DOMAIN F = D
        OBVIOUS
      <3> HIDE DEF F, R
      <3> QED BY <3>1, <3>2, ValuesFinite
    <2>2. R # {} /\ R \subseteq Int
      BY <1>1, <1>7
    <2>3. Max(R) \in R /\ \A x \in R : x <= Max(R)
      <3> HIDE DEF R
      <3> QED BY <2>1, <2>2, LargestExists
    <2>4. PICK i \in D : fall(i) = Max(R)
      BY <2>3
    <2>5. \A j \in D : fall(i) >= fall(j)
      BY <1>7, <2>3, <2>4
    <2>6. T # {} /\ T \in SUBSET Nat
      BY <1>1, <2>5
    <2> HIDE DEF T
    <2> QED BY <2>6, LeastOf
  <1>11. trough \in D /\ \A j \in D : fall(trough) >= fall(j)
    BY <1>10
  <1> DEFINE result == CalculateMaxDrawdown(values)
  <1>12. CASE n < 2
    <2>1. result = [absolute |-> 0, percent |-> 0]
      BY <1>12, Zenon DEF CalculateMaxDrawdown, n
    <2>2. n = 1 /\ D = {1}
      BY <1>1, <1>12
    <2>3. 1 \in 1 .. n /\ 1 \in 1 .. 1
      BY <2>2
    <2>4. 0 \in S
      <3> DEFINE f == <<1, 1>>
      <3>1. f \in Falls(values)
        BY <1>4, <2>3
      <3>2. values[f[1]] - values[f[2]] = 0
        BY <1>1, <2>3
      <3> QED BY <3>1, <3>2
    <2>5. \A x \in S : x <= 0
      <3> TAKE x \in S
      <3>1. PICK f \in Falls(values) : x = values[f[1]] - values[f[2]]
        OBVIOUS
      <3>2. f[1] = f[2]
        BY <1>3, <2>2
      <3> QED BY <1>3, <3>1, <3>2
    <2> HIDE DEF S
    <2>6. Max(S) = 0
      BY <1>6, <2>4, <2>5, LargestIs
    <2>7. 0 <= LargestShare(values)
      <3> DEFINE f == <<1, 1>>  x == Share(values[f[1]] - values[f[2]], values[f[1]])
      <3>1. f \in Falls(values)
        BY <1>4, <2>3
      <3>2. x \in FallsFromAny(values)
        <4> HIDE DEF f
        <4> QED BY <3>1 DEF FallsFromAny
      <3>3. x <= LargestShare(values)
        <4> HIDE DEF x
        <4> QED BY <3>2, ShareLargest
      <3>4. x = 0
        <4>1. values[1] \in Nat
          BY <1>1, <2>3
        <4> DEFINE v == values[1]
        <4>2. v \in Nat /\ x = Share(v - v, v)
          BY <4>1
        <4> HIDE DEF v, x
        <4>3. v - v = 0
          BY <4>2
        <4>4. Share(0, v) = 0
          BY <4>2 DEF Share
        <4> QED BY <4>2, <4>3, <4>4
      <3> QED BY <3>3, <3>4
    <2> QED BY <2>1, <2>6, <2>7 DEF S
  <1>13. CASE ~(n < 2)
    <2>1. result = [absolute |-> fall(trough), percent |-> Share(fall(trough), p[trough])]
      BY <1>13, Zenon DEF CalculateMaxDrawdown, n, D, p, fall
    <2>2. PICK f \in Falls(values) : /\ fall(trough) = values[f[1]] - values[f[2]]
                                     /\ p[trough] = values[f[1]]
      BY <1>8, <1>11
    <2> HIDE DEF trough
    <2>3. fall(trough) \in S
      BY <2>2
    <2>4. \A x \in S : x <= fall(trough)
      <3> TAKE x \in S
      <3>1. PICK i \in D : x <= fall(i)
        BY <1>9
      <3>2. x \in Int /\ fall(i) \in Int /\ fall(trough) \in Int /\ fall(trough) >= fall(i)
        BY <1>6, <1>7, <1>11
      <3> HIDE DEF S
      <3> QED BY <3>1, <3>2
    <2>5. Share(fall(trough), p[trough]) \in FallsFromAny(values)
      BY <2>2 DEF FallsFromAny
    <2>6. Share(fall(trough), p[trough]) <= LargestShare(values)
      BY <2>5, ShareLargest
    <2> HIDE DEF S
    <2>7. Max(S) = fall(trough)
      BY <1>6, <2>3, <2>4, LargestIs
    <2> QED BY <2>1, <2>6, <2>7 DEF S
  <1> QED BY <1>12, <1>13

\* Values are never below nothing, and a backtest starts with its capital.
TrackedInv ==
  /\ brokerage.account.cash + brokerage.account.quantity * brokerage.account.price \in Nat
  /\ \A a \in reading : ValueOf(a) \in Nat
  /\ snapshots \in Seq(Nat)
  /\ equityCurve \in Seq(Nat) /\ equityCurve # <<>>

LEMMA TrackedShown == TrackedInv => DrawdownIsLargest
  <1> SUFFICES ASSUME TrackedInv PROVE DrawdownIsLargest
    OBVIOUS
  <1> DEFINE values == Newest(snapshots)
             curve == equityCurve
  <1>1. values \in Seq(Nat)
    <2> DEFINE n == Len(snapshots)
               m == IF n > SnapshotLimit THEN n - SnapshotLimit + 1 ELSE 1
    <2>1. snapshots \in Seq(Nat) /\ n \in Nat /\ SnapshotLimit \in Nat
      BY PerformanceAssumption DEF TrackedInv
    <2>2. m \in Int /\ m >= 1
      <3> HIDE DEF n
      <3> QED BY <2>1
    <2>3. values = SubSeq(snapshots, m, n)
      BY DEF Newest
    <2> HIDE DEF m, values
    <2>4. \A i \in m .. n : snapshots[i] \in Nat
      BY <2>1, <2>2
    <2> HIDE DEF n
    <2> QED BY <2>1, <2>2, <2>3, <2>4, SubSeqProperties
  <1>2. curve \in Seq(Nat) /\ curve # <<>>
    BY DEF TrackedInv
  <1> HIDE DEF values, curve
  <1>3. MaxDrawdown(values) = LargestShare(values)
    BY <1>1, ShareLargest
  <1>4. /\ CalculateMaxDrawdown(curve).absolute = Max({curve[f[1]] - curve[f[2]] : f \in Falls(curve)})
        /\ CalculateMaxDrawdown(curve).percent <= LargestShare(curve)
    BY <1>2, MoneyLargest
  <1> QED BY <1>3, <1>4 DEF DrawdownIsLargest, values, curve

LEMMA TrackedStep ==
  TrackedInv /\ [TrackingNext \/ CurveNext]_performanceVars => TrackedInv'
  <1> SUFFICES ASSUME TrackedInv, [TrackingNext \/ CurveNext]_performanceVars PROVE TrackedInv'
    OBVIOUS
  <1> USE DEF TrackedInv
  <1>1. CASE BrokerageChanges
    <2>1. PICK a \in Accounts, up \in BOOLEAN : brokerage' = [connected |-> up, account |-> a]
      BY <1>1 DEF BrokerageChanges
    <2>2. brokerage'.account = a /\ a.cash + a.quantity * a.price \in Nat
      BY <2>1, PerformanceAssumption
    <2> QED BY <1>1, <2>2 DEF BrokerageChanges
  <1>2. CASE UpdateReads
    BY <1>2 DEF UpdateReads, ValueOf
  <1>3. ASSUME NEW saved \in BOOLEAN, UpdateKeeps(saved) PROVE TrackedInv'
    <2>1. PICK a \in reading : SaveSnapshot(ValueOf(a), saved)
      BY <1>3 DEF UpdateKeeps
    <2>2. snapshots' \in Seq(Nat)
      BY <2>1, AppendProperties DEF SaveSnapshot
    <2> QED BY <1>3, <2>2 DEF UpdateKeeps
  <1>4. CASE FullReport
    BY <1>4, Zenon DEF FullReport
  <1>5. ASSUME NEW pnl \in Pnls, LogTrade(pnl) PROVE TrackedInv'
    BY <1>5 DEF LogTrade
  <1>6. CASE CurveNext
    <2>1. PICK a \in Accounts : UpdateEquity(ValueOf(a))
      BY <1>6 DEF CurveNext
    <2>2. ValueOf(a) \in Nat
      BY PerformanceAssumption DEF ValueOf
    <2> DEFINE v == ValueOf(a)
    <2>3. equityCurve' = Append(equityCurve, v)
      BY <2>1 DEF UpdateEquity
    <2> HIDE DEF v
    <2>4. equityCurve' \in Seq(Nat) /\ equityCurve' # <<>>
      BY <2>2, <2>3, AppendProperties DEF v
    <2> QED BY <2>1, <2>4 DEF UpdateEquity
  <1>7. CASE UNCHANGED performanceVars
    BY <1>7 DEF performanceVars
  <1> QED BY <1>1, <1>2, <1>3, <1>4, <1>5, <1>6, <1>7 DEF TrackingNext

\* For any snapshots and any equity curve: one pass with a running peak finds the largest fall
\* from any value to any later one, in percent and in money, and the percentage a backtest
\* gives is no larger than the largest (performance.py, _max_drawdown; metrics.py,
\* calculate_max_drawdown).
THEOREM DrawdownsAreLargest == PerformanceSpec => []DrawdownIsLargest
  <1>1. PerformanceInit => TrackedInv
    <2> SUFFICES ASSUME PerformanceInit PROVE TrackedInv
      OBVIOUS
    <2>1. InitialCapital \in Nat
      BY PerformanceAssumption
    <2>2. /\ brokerage.account.cash = InitialCapital /\ brokerage.account.quantity = 0
          /\ brokerage.account.price = 1
      BY DEF PerformanceInit
    <2>3. equityCurve = <<InitialCapital>> /\ snapshots = <<>> /\ reading = {}
      BY DEF PerformanceInit
    <2> QED BY <2>1, <2>2, <2>3 DEF TrackedInv
  <1> QED BY <1>1, TrackedStep, TrackedShown, PTL DEF PerformanceSpec

\* The value at risk leaves out a position only when its last fetch for those positions
\* failed (portfolio_risk.py, _fetch_historical_prices).
THEOREM FetchedIsUsed == RiskSpec => []UsesWhatItFetched
  BY ReportsEarned, PTL
-----------------------------------------------------------------------------
\* Exchanges: the best of some of the exchanges is one of them.
LEMMA BestIsOne ==
  ASSUME NEW S \in SUBSET Venues, S # {}
  PROVE  BestOf(S) \in S
  <1> DEFINE K == {k \in DOMAIN Ranking : Ranking[k] \in S}
             first == Min(K)
  <1>1. K \subseteq Nat /\ K # {}
    <2>1. DOMAIN Ranking \subseteq Nat
      BY ExchangesAssumption
    <2>2. PICK x \in S : x \in Venues
      OBVIOUS
    <2>3. PICK k \in DOMAIN Ranking : Ranking[k] = x
      BY <2>2, ExchangesAssumption, Zenon DEF Range
    <2> QED BY <2>1, <2>2, <2>3
  <1>2. \E k \in K : \A j \in K : k <= j
    BY <1>1, LeastNumber
  <1>3. first \in K
    BY <1>2, Zenon DEF Min
  <1> HIDE DEF first
  <1>4. Ranking[first] \in S
    BY <1>3
  <1> QED BY <1>4, Zenon DEF BestOf, first

\* What the last route was asked fits in what it was answered.
RoutingInv == listed \subseteq Venues /\ RoutedWhereItFits

LEMMA RouteOrderFits ==
  ASSUME RoutingInv, NEW p \in Pairs, NEW size \in OrderSizes, RouteOrder(p, size)
  PROVE  RoutingInv'
  <1> DEFINE R == Ranked(p)
             T == {x \in R : Takes(x, size)}
  <1>1. /\ listed' = listed /\ listed \subseteq Venues
        /\ routed'.to = Route(p, size)
        /\ routed'.eligible = {x \in listed : health[x] = "connected" /\ p \in Listings[x].symbols}
        /\ routed'.fits = {x \in listed : health[x] = "connected" /\ p \in Listings[x].symbols
                                          /\ Takes(x, size)}
    BY DEF RouteOrder, RoutingInv
  <1>2. routed'.eligible = R /\ routed'.fits = T /\ R \subseteq Venues /\ T \subseteq R
    <2>1. R = {x \in listed : health[x] = "connected" /\ p \in Listings[x].symbols}
      BY <1>1 DEF Ranked
    <2>2. T = {x \in listed : health[x] = "connected" /\ p \in Listings[x].symbols /\ Takes(x, size)}
      BY <2>1
    <2> QED BY <1>1, <2>1, <2>2 DEF Ranked
  <1>3. Route(p, size) = IF T # {} THEN BestOf(T) ELSE BestOf(R)
    BY Zenon DEF Route
  <1> HIDE DEF R, T
  <1>4. /\ T # {} => BestOf(T) \in T
        /\ R # {} => BestOf(R) \in R
    BY <1>2, BestIsOne
  <1>5. R = {} => BestOf(R) = Nowhere
    BY DEF BestOf
  <1>6. Nowhere \notin Venues
    BY ExchangesAssumption
  <1>7. /\ routed'.to = Nowhere <=> R = {}
        /\ routed'.to # Nowhere => routed'.to \in R
        /\ T # {} => routed'.to \in T
    <2>1. CASE T # {}
      BY <1>1, <1>2, <1>3, <1>4, <1>6, <2>1
    <2>2. CASE T = {} /\ R # {}
      BY <1>1, <1>2, <1>3, <1>4, <1>6, <2>2
    <2>3. CASE R = {}
      BY <1>1, <1>2, <1>3, <1>5, <2>3
    <2> QED BY <2>1, <2>2, <2>3
  <1>8. RoutedWhereItFits'
    BY <1>2, <1>7 DEF RoutedWhereItFits
  <1> QED BY <1>1, <1>8 DEF RoutingInv

\* For any exchanges, metadata, ranking and orders: a route leads to an exchange that is
\* registered, lists the symbol and was connected when last looked at, to one that takes the
\* size when there is any, and nowhere only when no exchange qualifies
\* (adapters/exchange/manager.py, rank_exchanges_for_symbol, route_order).
THEOREM RoutesFit == ExchangesSpec => []RoutedWhereItFits
  <1>1. ExchangesInit => RoutingInv
    BY DEF ExchangesInit, RoutingInv, RoutedWhereItFits, NoRoute
  <1>2. RoutingInv /\ [ExchangesNext]_exchangeVars => RoutingInv'
    <2> SUFFICES ASSUME RoutingInv, [ExchangesNext]_exchangeVars PROVE RoutingInv'
      OBVIOUS
    <2>1. CASE UNCHANGED <<listed, routed>>
      BY <2>1 DEF RoutingInv, RoutedWhereItFits
    <2>2. CASE \E x \in Venues : RegisterExchange(x)
      BY <2>2 DEF RegisterExchange, RoutingInv, RoutedWhereItFits
    <2>3. CASE \E p \in Pairs, size \in OrderSizes : RouteOrder(p, size)
      BY <2>3, RouteOrderFits
    <2>4. ExchangesNext => \/ UNCHANGED <<listed, routed>>
                           \/ \E x \in Venues : RegisterExchange(x)
                           \/ \E p \in Pairs, size \in OrderSizes : RouteOrder(p, size)
      BY Zenon DEF ExchangesNext, RoutingNext, ArbitrageNext, PortfolioNext, CheckHealth, VenueChanges,
                   UpdatePrice, Detect, VenueTrades, SyncPositions, PlanPosition, RecordFill
    <2>5. exchangeVars' = exchangeVars => UNCHANGED <<listed, routed>>
      BY DEF exchangeVars
    <2> QED BY <2>1, <2>2, <2>3, <2>4, <2>5
  <1>3. RoutingInv => RoutedWhereItFits
    BY DEF RoutingInv
  <1> QED BY <1>1, <1>2, <1>3, PTL DEF ExchangesSpec
=============================================================================
