-------------------------- MODULE LiveAudit_proofs --------------------------
(***************************************************************************)
(* The theorem about LiveAudit, for any number of engine threads and bots, *)
(* any symbols, sizes, prices and limits, and any failures of the trade    *)
(* table: no order that moved cash is lost without a word.                 *)
(*                                                                         *)
(* The argument needs no types of money or shares, only how far each       *)
(* handler and its call of place_order have come, so the invariant asks of *)
(* the other state no more than that it has its shape.                     *)
(***************************************************************************)
EXTENDS LiveAudit, Sums_proofs

IsSequence(s) == \E S : s \in Seq(S)

IsCall(c) == c = [at |-> c.at, order |-> c.order, position |-> c.position, result |-> c.result]

WorkOf(U) ==
  [at : U, symbol : U, side : U, price : U, quantity : U, position : U, entry : U,
   held : U, portfolio : U, pnl : U]
IsWork(w) == \E U : w \in WorkOf(U)

Shape ==
  /\ calls = [t \in Threads |-> calls[t]] /\ \A t \in Threads : IsCall(calls[t])
  /\ work = [t \in Threads |-> work[t]] /\ \A t \in Threads : IsWork(work[t])
  /\ IsSequence(tradeLog) /\ IsSequence(failed) /\ IsSequence(rows)
  /\ alerts \in Nat

\* A call of place_order belongs to a handler that waits for it, and has no result yet.
CallsAreAwaited ==
  \A t \in Threads :
    calls[t].at # "idle" => work[t].at = "placed" /\ calls[t].result = "none"

AuditInv == Shape /\ CallsAreAwaited /\ NoSilentLoss

LEMMA AppendAny ==
  ASSUME NEW s, NEW e, IsSequence(s)
  PROVE  /\ IsSequence(Append(s, e))
         /\ Len(s) \in Nat /\ Len(Append(s, e)) = Len(s) + 1
  <1>1. PICK S : s \in Seq(S)
    BY DEF IsSequence
  <1>2. s \in Seq(S \cup {e}) /\ e \in S \cup {e}
    BY <1>1
  <1>3. Append(s, e) \in Seq(S \cup {e}) /\ Len(Append(s, e)) = Len(s) + 1 /\ Len(s) \in Nat
    BY <1>2
  <1> QED BY <1>3 DEF IsSequence

\* Whether a handler awaits the recording of its order.
IsAwaiting(w, c) == w.at = "placed" /\ c.at = "idle" /\ c.result \in {"FILLED", "ERROR"}

LEMMA AwaitingIs == Awaiting = {t \in Threads : IsAwaiting(work[t], calls[t])}
  BY DEF Awaiting, Returned, IsAwaiting, Broker!Busy

LEMMA AwaitingFinite ==
  /\ IsFiniteSet(Threads) /\ IsFiniteSet(Awaiting) /\ Cardinality(Awaiting) \in Nat
  /\ Cardinality(Awaiting') \in Nat
  <1>1. IsFiniteSet(Threads)
    BY LiveAssumption, FS_Union DEF Threads
  <1>2. Awaiting \subseteq Threads /\ Awaiting' \subseteq Threads
    BY DEF Awaiting
  <1> QED BY <1>1, <1>2, FS_Subset, FS_CardinalityType

\* The handlers awaiting, counted after one thread's step.
OnlyThread(t) ==
  \A u \in Threads \ {t} : work'[u] = work[u] /\ calls'[u] = calls[u]

LEMMA NoneMore ==
  ASSUME NEW t \in Threads, OnlyThread(t),
         IsAwaiting(work[t], calls[t]) <=> IsAwaiting(work'[t], calls'[t])
  PROVE  Cardinality(Awaiting') = Cardinality(Awaiting)
  <1>1. Awaiting' = Awaiting
    BY AwaitingIs DEF OnlyThread, IsAwaiting, Awaiting, Returned, Broker!Busy
  <1> QED BY <1>1

LEMMA OneMore ==
  ASSUME NEW t \in Threads, OnlyThread(t),
         ~IsAwaiting(work[t], calls[t]), IsAwaiting(work'[t], calls'[t])
  PROVE  Cardinality(Awaiting') = Cardinality(Awaiting) + 1
  <1>1. Awaiting' = Awaiting \cup {t} /\ t \notin Awaiting
    BY DEF OnlyThread, IsAwaiting, Awaiting, Returned, Broker!Busy
  <1>2. Cardinality(Awaiting \cup {t}) = Cardinality(Awaiting) + 1
    BY <1>1, AwaitingFinite, FS_AddElement
  <1> QED BY <1>1, <1>2

LEMMA OneFewer ==
  ASSUME NEW t \in Threads, OnlyThread(t),
         IsAwaiting(work[t], calls[t]), ~IsAwaiting(work'[t], calls'[t])
  PROVE  Cardinality(Awaiting) = Cardinality(Awaiting') + 1
  <1>1. Awaiting' = Awaiting \ {t} /\ t \in Awaiting
    BY DEF OnlyThread, IsAwaiting, Awaiting, Returned, Broker!Busy
  <1>2. Cardinality(Awaiting \ {t}) = Cardinality(Awaiting) - 1 /\ Cardinality(Awaiting) \in Nat
    BY <1>1, AwaitingFinite, FS_RemoveElement
  <1>3. Cardinality(Awaiting') = Cardinality(Awaiting) - 1
    BY <1>1, <1>2
  <1> QED BY <1>2, <1>3

\* What a step makes of its thread's handler and call.
WorkStep(t, stage) ==
  /\ work' = [u \in Threads |-> work'[u]] /\ \A u \in Threads : IsWork(work'[u])
  /\ work'[t].at = stage /\ \A u \in Threads \ {t} : work'[u] = work[u]
CallStep(t, stage, result) ==
  /\ calls' = [u \in Threads |-> calls'[u]] /\ \A u \in Threads : IsCall(calls'[u])
  /\ calls'[t].at = stage /\ calls'[t].result = result
  /\ \A u \in Threads \ {t} : calls'[u] = calls[u]

LEMMA WorkSet ==
  ASSUME Shape, NEW t \in Threads, NEW w, IsWork(w), work' = [work EXCEPT ![t] = w]
  PROVE  WorkStep(t, w.at)
  BY DEF Shape, WorkStep

LEMMA CallSet ==
  ASSUME Shape, NEW t \in Threads, NEW c, IsCall(c), calls' = [calls EXCEPT ![t] = c]
  PROVE  CallStep(t, c.at, c.result)
  BY DEF Shape, CallStep

LEMMA MemberExcept ==
  ASSUME NEW old, NEW at, NEW order, NEW position, NEW result, NEW stage, NEW obj,
         old \in [at : {at}, order : {order}, position : {position}, result : {result}]
  PROVE  [old EXCEPT !.at = stage, !.position = obj]
           \in [at : {stage}, order : {order}, position : {obj}, result : {result}]
  OBVIOUS

LEMMA MemberIs ==
  ASSUME NEW c, NEW at, NEW order, NEW position, NEW result,
         c \in [at : {at}, order : {order}, position : {position}, result : {result}]
  PROVE  IsCall(c) /\ c.at = at /\ c.order = order /\ c.result = result
  BY DEF IsCall

LEMMA CallIsMember ==
  ASSUME NEW c, IsCall(c)
  PROVE  c \in [at : {c.at}, order : {c.order}, position : {c.position}, result : {c.result}]
  BY DEF IsCall

LEMMA AdvanceSets ==
  ASSUME Shape, NEW t \in Threads, NEW stage, NEW obj, Broker!Advance(t, stage, obj)
  PROVE  CallStep(t, stage, calls[t].result)
  <1> DEFINE c == [calls[t] EXCEPT !.at = stage, !.position = obj]
  <1>1. calls[t] \in [at : {calls[t].at}, order : {calls[t].order},
                      position : {calls[t].position}, result : {calls[t].result}]
    BY CallIsMember DEF Shape
  <1>2. c \in [at : {stage}, order : {calls[t].order}, position : {obj}, result : {calls[t].result}]
    BY <1>1, MemberExcept
  <1>3. calls' = [calls EXCEPT ![t] = c]
    BY DEF Broker!Advance
  <1> HIDE DEF c
  <1>4. IsCall(c) /\ c.at = stage /\ c.result = calls[t].result
    BY <1>2, MemberIs
  <1> QED BY <1>3, <1>4, CallSet

LEMMA ReturnSets ==
  ASSUME Shape, NEW t \in Threads, NEW r, Broker!Return(t, r)
  PROVE  CallStep(t, "idle", r)
  <1> DEFINE c == [Broker!NoCall EXCEPT !.result = r]
  <1>1. IsCall(c) /\ c.at = "idle" /\ c.result = r
    <2>1. PICK o : Broker!NoCall = [at |-> "idle", order |-> o, position |-> 0, result |-> "none"]
      BY DEF Broker!NoCall
    <2>2. c = [at |-> "idle", order |-> o, position |-> 0, result |-> r]
      BY <2>1
    <2> HIDE DEF c
    <2> QED BY <2>2 DEF IsCall
  <1> HIDE DEF c
  <1>2. calls' = [calls EXCEPT ![t] = c]
    BY DEF Broker!Return, c
  <1> QED BY <1>1, <1>2, CallSet

LEMMA PlaceSets ==
  ASSUME Shape, NEW t \in Threads, NEW o, Broker!PlaceOrder(t, o)
  PROVE  /\ CallStep(t, "check", "none")
         /\ tradeLog' = tradeLog /\ failed' = failed
  <1> DEFINE c == [at |-> "check", order |-> o, position |-> 0, result |-> "none"]
  <1>1. IsCall(c) /\ c.at = "check" /\ c.result = "none"
    BY DEF IsCall
  <1>2. calls' = [calls EXCEPT ![t] = c] /\ tradeLog' = tradeLog /\ failed' = failed
    BY DEF Broker!PlaceOrder
  <1> HIDE DEF c
  <1> QED BY <1>1, <1>2, CallSet

\* A step of one thread that keeps the shape and its call awaited, and with it the balance
\* of orders, rows and alerts.
Entries == Len(tradeLog) + Len(failed)
Accounted == Len(rows) + alerts

LEMMA StepKeepsInv ==
  ASSUME AuditInv, Shape', NEW t \in Threads, OnlyThread(t),
         calls'[t].at # "idle" => work'[t].at = "placed" /\ calls'[t].result = "none",
         \/ /\ IsAwaiting(work[t], calls[t]) <=> IsAwaiting(work'[t], calls'[t])
            /\ Entries' = Entries /\ Accounted' = Accounted
         \/ /\ ~IsAwaiting(work[t], calls[t]) /\ IsAwaiting(work'[t], calls'[t])
            /\ Entries' = Entries + 1 /\ Accounted' = Accounted
         \/ /\ IsAwaiting(work[t], calls[t]) /\ ~IsAwaiting(work'[t], calls'[t])
            /\ Entries' = Entries /\ Accounted' = Accounted + 1
  PROVE  AuditInv'
  <1> DEFINE n == Cardinality(Awaiting)
  <1>1. CallsAreAwaited'
    BY DEF AuditInv, CallsAreAwaited, OnlyThread
  <1>2. n \in Nat
    BY AwaitingFinite
  <1>3. Len(tradeLog) \in Nat /\ Len(failed) \in Nat /\ Len(rows) \in Nat /\ alerts \in Nat
    BY DEF AuditInv, Shape, IsSequence
  <1>4. Len(tradeLog)' \in Nat /\ Len(failed)' \in Nat /\ Len(rows)' \in Nat /\ alerts' \in Nat
    BY DEF Shape, IsSequence
  <1>5. Entries = Accounted + n
    BY <1>2, <1>3 DEF AuditInv, NoSilentLoss, Entries, Accounted
  <1>6. Entries \in Nat /\ Accounted \in Nat /\ Entries' \in Nat /\ Accounted' \in Nat
    BY <1>3, <1>4 DEF Entries, Accounted
  <1>7. Entries' = Accounted' + n'
    <2>1. CASE (IsAwaiting(work[t], calls[t]) <=> IsAwaiting(work'[t], calls'[t]))
               /\ Entries' = Entries /\ Accounted' = Accounted
      <3>1. n' = n
        BY <2>1, NoneMore
      <3> QED BY <2>1, <3>1, <1>5
    <2>2. CASE ~IsAwaiting(work[t], calls[t]) /\ IsAwaiting(work'[t], calls'[t])
               /\ Entries' = Entries + 1 /\ Accounted' = Accounted
      <3>1. n' = n + 1
        BY <2>2, OneMore
      <3> HIDE DEF n
      <3> QED BY <2>2, <3>1, <1>2, <1>5, <1>6
    <2>3. CASE IsAwaiting(work[t], calls[t]) /\ ~IsAwaiting(work'[t], calls'[t])
               /\ Entries' = Entries /\ Accounted' = Accounted + 1
      <3>1. n = n' + 1
        BY <2>3, OneFewer
      <3>2. n' \in Nat
        BY AwaitingFinite
      <3> HIDE DEF n
      <3> QED BY <2>3, <3>1, <3>2, <1>2, <1>5, <1>6
    <2> QED BY <2>1, <2>2, <2>3
  <1>8. n' \in Nat
    BY AwaitingFinite
  <1>9. NoSilentLoss'
    BY <1>4, <1>7, <1>8 DEF NoSilentLoss, Entries, Accounted
  <1> QED BY <1>1, <1>9 DEF AuditInv
-----------------------------------------------------------------------------
\* The handlers' records, updated.
LEMMA WorkGrows ==
  ASSUME NEW U, NEW V, U \subseteq V
  PROVE  WorkOf(U) \subseteq WorkOf(V)
  BY DEF WorkOf

LEMMA WorkAt ==
  ASSUME NEW w, IsWork(w), NEW a
  PROVE  IsWork([w EXCEPT !.at = a]) /\ [w EXCEPT !.at = a].at = a
  <1>1. PICK U : w \in WorkOf(U)
    BY DEF IsWork
  <1>2. w \in WorkOf(U \cup {a})
    BY <1>1, WorkGrows
  <1>3. [w EXCEPT !.at = a] \in WorkOf(U \cup {a}) /\ [w EXCEPT !.at = a].at = a
    BY <1>2 DEF WorkOf
  <1> QED BY <1>3 DEF IsWork

LEMMA WorkField ==
  ASSUME NEW w, IsWork(w), NEW x
  PROVE  /\ IsWork([w EXCEPT !.held = x]) /\ [w EXCEPT !.held = x].at = w.at
         /\ IsWork([w EXCEPT !.portfolio = x]) /\ [w EXCEPT !.portfolio = x].at = w.at
         /\ IsWork([w EXCEPT !.quantity = x]) /\ [w EXCEPT !.quantity = x].at = w.at
         /\ IsWork([w EXCEPT !.pnl = x]) /\ [w EXCEPT !.pnl = x].at = w.at
         /\ IsWork([w EXCEPT !.symbol = x]) /\ [w EXCEPT !.symbol = x].at = w.at
         /\ IsWork([w EXCEPT !.side = x]) /\ [w EXCEPT !.side = x].at = w.at
         /\ IsWork([w EXCEPT !.price = x]) /\ [w EXCEPT !.price = x].at = w.at
         /\ IsWork([w EXCEPT !.position = x]) /\ [w EXCEPT !.position = x].at = w.at
         /\ IsWork([w EXCEPT !.entry = x]) /\ [w EXCEPT !.entry = x].at = w.at
  <1>1. PICK U : w \in WorkOf(U)
    BY DEF IsWork
  <1>2. w \in WorkOf(U \cup {x})
    BY <1>1, WorkGrows
  <1>3. [w EXCEPT !.held = x] \in WorkOf(U \cup {x}) /\ [w EXCEPT !.held = x].at = w.at
    BY <1>2 DEF WorkOf
  <1>4. [w EXCEPT !.portfolio = x] \in WorkOf(U \cup {x}) /\ [w EXCEPT !.portfolio = x].at = w.at
    BY <1>2 DEF WorkOf
  <1>5. [w EXCEPT !.quantity = x] \in WorkOf(U \cup {x}) /\ [w EXCEPT !.quantity = x].at = w.at
    BY <1>2 DEF WorkOf
  <1>6. [w EXCEPT !.pnl = x] \in WorkOf(U \cup {x}) /\ [w EXCEPT !.pnl = x].at = w.at
    BY <1>2 DEF WorkOf
  <1>7. [w EXCEPT !.symbol = x] \in WorkOf(U \cup {x}) /\ [w EXCEPT !.symbol = x].at = w.at
    BY <1>2 DEF WorkOf
  <1>8. [w EXCEPT !.side = x] \in WorkOf(U \cup {x}) /\ [w EXCEPT !.side = x].at = w.at
    BY <1>2 DEF WorkOf
  <1>9. [w EXCEPT !.price = x] \in WorkOf(U \cup {x}) /\ [w EXCEPT !.price = x].at = w.at
    BY <1>2 DEF WorkOf
  <1>10. [w EXCEPT !.position = x] \in WorkOf(U \cup {x}) /\ [w EXCEPT !.position = x].at = w.at
    BY <1>2 DEF WorkOf
  <1>11. [w EXCEPT !.entry = x] \in WorkOf(U \cup {x}) /\ [w EXCEPT !.entry = x].at = w.at
    BY <1>2 DEF WorkOf
  <1> QED BY <1>3, <1>4, <1>5, <1>6, <1>7, <1>8, <1>9, <1>10, <1>11 DEF IsWork

LEMMA NoWorkIs == IsWork(NoWork) /\ NoWork.at = "idle"
  <1> DEFINE s == CHOOSE s \in Symbols : TRUE
             U == {"idle", "BUY", s, 0, {}}
  <1>1. NoWork = [at |-> "idle", symbol |-> s, side |-> "BUY", price |-> 0, quantity |-> 0,
                  position |-> 0, entry |-> 0, held |-> {}, portfolio |-> 0, pnl |-> 0]
    BY DEF NoWork
  <1> HIDE DEF s
  <1>2. NoWork \in WorkOf(U)
    BY <1>1 DEF WorkOf
  <1> QED BY <1>1, <1>2 DEF IsWork

LEMMA DoneSets ==
  ASSUME Shape, NEW t \in Threads, Done(t)
  PROVE  WorkStep(t, "idle")
  BY NoWorkIs, WorkSet DEF Done

\* The signal or the command a handler begins with.
SignalOf(stage, s, side, p, obj) ==
  [NoWork EXCEPT !.at = stage, !.symbol = s, !.side = side, !.price = p, !.position = obj]
CommandOf(s, side, q, p, entry) ==
  [NoWork EXCEPT !.at = "reply", !.symbol = s, !.side = side, !.quantity = q,
                 !.price = p, !.entry = entry]

LEMMA SignalIs ==
  ASSUME NEW stage, NEW s, NEW side, NEW p, NEW obj
  PROVE  /\ IsWork(SignalOf(stage, s, side, p, obj))
         /\ SignalOf(stage, s, side, p, obj).at = stage
  <1> DEFINE w1 == [NoWork EXCEPT !.at = stage]
             w2 == [w1 EXCEPT !.symbol = s]
             w3 == [w2 EXCEPT !.side = side]
             w4 == [w3 EXCEPT !.price = p]
             w5 == [w4 EXCEPT !.position = obj]
  <1>1. IsWork(w1) /\ w1.at = stage
    BY NoWorkIs, WorkAt
  <1> HIDE DEF w1
  <1>2. IsWork(w2) /\ w2.at = stage
    BY <1>1, WorkField
  <1> HIDE DEF w2
  <1>3. IsWork(w3) /\ w3.at = stage
    BY <1>2, WorkField
  <1> HIDE DEF w3
  <1>4. IsWork(w4) /\ w4.at = stage
    BY <1>3, WorkField
  <1> HIDE DEF w4
  <1>5. IsWork(w5) /\ w5.at = stage
    BY <1>4, WorkField
  <1> HIDE DEF w5
  <1> QED BY <1>5, Zenon DEF SignalOf, w1, w2, w3, w4, w5

LEMMA CommandIs ==
  ASSUME NEW s, NEW side, NEW q, NEW p, NEW entry
  PROVE  /\ IsWork(CommandOf(s, side, q, p, entry))
         /\ CommandOf(s, side, q, p, entry).at = "reply"
  <1> DEFINE w1 == [NoWork EXCEPT !.at = "reply"]
             w2 == [w1 EXCEPT !.symbol = s]
             w3 == [w2 EXCEPT !.side = side]
             w4 == [w3 EXCEPT !.quantity = q]
             w5 == [w4 EXCEPT !.price = p]
             w6 == [w5 EXCEPT !.entry = entry]
  <1>1. IsWork(w1) /\ w1.at = "reply"
    BY NoWorkIs, WorkAt
  <1> HIDE DEF w1
  <1>2. IsWork(w2) /\ w2.at = "reply"
    BY <1>1, WorkField
  <1> HIDE DEF w2
  <1>3. IsWork(w3) /\ w3.at = "reply"
    BY <1>2, WorkField
  <1> HIDE DEF w3
  <1>4. IsWork(w4) /\ w4.at = "reply"
    BY <1>3, WorkField
  <1> HIDE DEF w4
  <1>5. IsWork(w5) /\ w5.at = "reply"
    BY <1>4, WorkField
  <1> HIDE DEF w5
  <1>6. IsWork(w6) /\ w6.at = "reply"
    BY <1>5, WorkField
  <1> HIDE DEF w6
  <1> QED BY <1>6, Zenon DEF CommandOf, w1, w2, w3, w4, w5, w6
-----------------------------------------------------------------------------
LEMMA ShapeKept ==
  ASSUME Shape, NEW t \in Threads,
         work' = work \/ \E stage : WorkStep(t, stage),
         calls' = calls \/ \E stage, result : CallStep(t, stage, result),
         IsSequence(tradeLog'), IsSequence(failed'), IsSequence(rows'), alerts' \in Nat
  PROVE  Shape' /\ OnlyThread(t)
  <1>1. /\ work' = [u \in Threads |-> work'[u]] /\ \A u \in Threads : IsWork(work'[u])
        /\ \A u \in Threads \ {t} : work'[u] = work[u]
    <2>1. CASE work' = work
      BY <2>1 DEF Shape
    <2>2. CASE \E stage : WorkStep(t, stage)
      BY <2>2 DEF WorkStep
    <2> QED BY <2>1, <2>2
  <1>2. /\ calls' = [u \in Threads |-> calls'[u]] /\ \A u \in Threads : IsCall(calls'[u])
        /\ \A u \in Threads \ {t} : calls'[u] = calls[u]
    <2>1. CASE calls' = calls
      BY <2>1 DEF Shape
    <2>2. CASE \E stage, result : CallStep(t, stage, result)
      BY <2>2 DEF CallStep
    <2> QED BY <2>1, <2>2
  <1> QED BY <1>1, <1>2 DEF Shape, OnlyThread

\* The steps of place_order: the thread's handler waits.
LEMMA BrokerStepKeeps ==
  ASSUME AuditInv, NEW t \in Threads, BrokerStep(t)
  PROVE  AuditInv'
  <1>1. Shape /\ work' = work /\ rows' = rows /\ alerts' = alerts
    BY DEF BrokerStep, AuditInv, riskVars
  <1>2. IsSequence(tradeLog) /\ IsSequence(failed) /\ IsSequence(rows) /\ alerts \in Nat
    BY <1>1 DEF Shape
  <1>3. Accounted' = Accounted
    BY <1>1 DEF Accounted
  <1>4. Len(tradeLog) \in Nat /\ Len(failed) \in Nat
    BY <1>2 DEF IsSequence
  <1>5. ASSUME calls[t].at # "idle"
        PROVE  work[t].at = "placed" /\ calls[t].result = "none" /\ ~IsAwaiting(work[t], calls[t])
    BY <1>5 DEF AuditInv, CallsAreAwaited, IsAwaiting
  \* The call goes on.
  <1>6. ASSUME NEW stage \in {"book", "record"}, NEW obj, calls[t].at # "idle",
               Broker!Advance(t, stage, obj), tradeLog' = tradeLog, failed' = failed
        PROVE  AuditInv'
    <2>1. CallStep(t, stage, "none")
      BY <1>1, <1>5, <1>6, AdvanceSets
    <2>2. Shape' /\ OnlyThread(t)
      BY <1>1, <1>2, <1>6, <2>1, ShapeKept
    <2>3. calls'[t].at # "idle" /\ calls'[t].result = "none" /\ work'[t].at = "placed"
      BY <1>1, <1>5, <1>6, <2>1 DEF CallStep
    <2>4. ~IsAwaiting(work'[t], calls'[t]) /\ Entries' = Entries
      BY <1>6, <2>3 DEF IsAwaiting, Entries
    <2> QED BY <1>3, <1>5, <1>6, <2>2, <2>3, <2>4, StepKeepsInv
  \* It returns.
  <1>7. ASSUME NEW result, calls[t].at # "idle", Broker!Return(t, result),
               IsSequence(tradeLog'), IsSequence(failed'),
               \/ result = "REJECTED" /\ Entries' = Entries
               \/ result \in {"FILLED", "ERROR"} /\ Entries' = Entries + 1
        PROVE  AuditInv'
    <2>1. CallStep(t, "idle", result)
      BY <1>1, <1>7, ReturnSets
    <2>2. Shape' /\ OnlyThread(t)
      BY <1>1, <1>2, <1>7, <2>1, ShapeKept
    <2>3. calls'[t].at = "idle" /\ calls'[t].result = result /\ work'[t].at = "placed"
      BY <1>1, <1>5, <1>7, <2>1 DEF CallStep
    <2>4. IsAwaiting(work'[t], calls'[t]) <=> result \in {"FILLED", "ERROR"}
      BY <2>3 DEF IsAwaiting
    <2> QED BY <1>3, <1>5, <1>7, <2>2, <2>3, <2>4, StepKeepsInv
  <1>8. CASE Broker!Debit(t) \/ Broker!BookBuy(t) \/ Broker!LookUp(t)
    BY <1>6, <1>8 DEF Broker!Debit, Broker!BookBuy, Broker!LookUp
  <1>9. CASE Broker!RejectBuy(t) \/ Broker!RejectSell(t)
    BY <1>2, <1>7, <1>9 DEF Broker!RejectBuy, Broker!RejectSell, Entries
  <1>10. CASE Broker!BookSell(t)
    <2>1. calls[t].at = "book" /\ tradeLog' = tradeLog
      BY <1>10 DEF Broker!BookSell
    <2>2. CASE Broker!Advance(t, "record", calls[t].position) /\ failed' = failed
      BY <1>6, <2>1, <2>2
    <2>3. CASE Broker!Return(t, "ERROR") /\ failed' = Append(failed, calls[t].order)
      <3>1. IsSequence(failed') /\ Len(failed') = Len(failed) + 1
        BY <1>2, <2>3, AppendAny
      <3>2. Entries' = Entries + 1
        BY <1>4, <2>1, <3>1 DEF Entries
      <3> QED BY <1>2, <1>7, <2>1, <2>3, <3>1, <3>2
    <2> QED BY <1>10, <2>2, <2>3, Zenon DEF Broker!BookSell
  <1>11. CASE Broker!Record(t)
    <2>1. calls[t].at = "record" /\ failed' = failed /\ Broker!Return(t, "FILLED")
      BY <1>11 DEF Broker!Record
    <2>2. PICK e : tradeLog' = Append(tradeLog, e)
      BY <1>11 DEF Broker!Record
    <2>3. IsSequence(tradeLog') /\ Len(tradeLog') = Len(tradeLog) + 1
      BY <1>2, <2>2, AppendAny
    <2>4. Entries' = Entries + 1
      BY <1>4, <2>1, <2>3 DEF Entries
    <2> QED BY <1>2, <1>7, <2>1, <2>3, <2>4
  <1> QED BY <1>8, <1>9, <1>10, <1>11 DEF BrokerStep, Broker!Step

\* A handler's step before its order and after its record: nobody waits, nothing counts.
LEMMA AsideKeeps ==
  ASSUME AuditInv, NEW t \in Threads, work[t].at # "placed",
         NEW stage, WorkStep(t, stage), stage # "placed",
         UNCHANGED <<calls, tradeLog, failed, rows, alerts>>
  PROVE  AuditInv'
  <1>1. calls[t].at = "idle"
    BY DEF AuditInv, CallsAreAwaited
  <1>2. Shape' /\ OnlyThread(t)
    BY ShapeKept DEF AuditInv, Shape
  <1>3. ~IsAwaiting(work[t], calls[t]) /\ ~IsAwaiting(work'[t], calls'[t])
    BY DEF IsAwaiting, WorkStep
  <1>4. Entries' = Entries /\ Accounted' = Accounted
    BY DEF Entries, Accounted
  <1> QED BY <1>1, <1>2, <1>3, <1>4, StepKeepsInv

\* It calls place_order.
LEMMA PlaceKeeps ==
  ASSUME AuditInv, NEW t \in Threads, work[t].at # "placed", WorkStep(t, "placed"),
         NEW o, Broker!PlaceOrder(t, o), UNCHANGED <<rows, alerts>>
  PROVE  AuditInv'
  <1>1. CallStep(t, "check", "none") /\ tradeLog' = tradeLog /\ failed' = failed
    BY PlaceSets DEF AuditInv
  <1>2. Shape' /\ OnlyThread(t)
    BY <1>1, ShapeKept DEF AuditInv, Shape
  <1>3. ~IsAwaiting(work[t], calls[t]) /\ ~IsAwaiting(work'[t], calls'[t])
    BY <1>1 DEF IsAwaiting, CallStep
  <1>4. Entries' = Entries /\ Accounted' = Accounted
    BY <1>1 DEF Entries, Accounted
  <1>5. calls'[t].result = "none" /\ work'[t].at = "placed"
    BY <1>1 DEF CallStep, WorkStep
  <1> QED BY <1>2, <1>3, <1>4, <1>5, StepKeepsInv

\* It takes the result: a row or an alert for an order that moved cash, neither for one
\* that was rejected.
LEMMA ResultKeeps ==
  ASSUME AuditInv, NEW t \in Threads, NEW result, Returned(t, result),
         NEW stage, WorkStep(t, stage), stage # "placed",
         UNCHANGED <<calls, tradeLog, failed>>, IsSequence(rows'), alerts' \in Nat,
         \/ result = "REJECTED" /\ Accounted' = Accounted
         \/ result \in {"FILLED", "ERROR"} /\ Accounted' = Accounted + 1
  PROVE  AuditInv'
  <1>1. work[t].at = "placed" /\ calls[t].at = "idle" /\ calls[t].result = result
    BY DEF Returned, Broker!Busy
  <1>2. Shape' /\ OnlyThread(t)
    BY ShapeKept DEF AuditInv, Shape
  <1>3. IsAwaiting(work[t], calls[t]) <=> result \in {"FILLED", "ERROR"}
    BY <1>1 DEF IsAwaiting
  <1>4. ~IsAwaiting(work'[t], calls'[t]) /\ Entries' = Entries
    BY DEF IsAwaiting, WorkStep, Entries
  <1> QED BY <1>1, <1>2, <1>3, <1>4, StepKeepsInv
-----------------------------------------------------------------------------
\* The engine's steps.
LEMMA TakeSignalKeeps ==
  ASSUME AuditInv, NEW t \in Threads, NEW s, NEW side, NEW p, TakeSignal(t, s, side, p)
  PROVE  AuditInv'
  <1> DEFINE stage == IF side = "BUY" THEN "account" ELSE "decide"
             w == SignalOf(stage, s, side, p, book[s])
  <1>1. work' = [work EXCEPT ![t] = w] /\ work[t].at = "idle"
    BY DEF TakeSignal, SignalOf
  <1>2. stage # "placed"
    OBVIOUS
  <1>3. UNCHANGED <<calls, tradeLog, failed, rows, alerts>>
    BY DEF TakeSignal, brokerVars
  <1> HIDE DEF stage
  <1>4. IsWork(w) /\ w.at = stage
    BY SignalIs
  <1> HIDE DEF w
  <1>5. WorkStep(t, stage)
    BY <1>1, <1>4, WorkSet DEF AuditInv
  <1> QED BY <1>1, <1>2, <1>3, <1>5, AsideKeeps

LEMMA ListPositionsKeeps ==
  ASSUME AuditInv, NEW t \in Threads, ListPositions(t)
  PROVE  AuditInv'
  <1> DEFINE x == {book[s] : s \in Symbols} \ {0}
             w1 == [work[t] EXCEPT !.at = "cash"]
             w2 == [w1 EXCEPT !.held = x]
  <1>1. work' = [work EXCEPT ![t] = w2] /\ work[t].at = "account"
    BY DEF ListPositions
  <1>2. UNCHANGED <<calls, tradeLog, failed, rows, alerts>>
    BY DEF ListPositions, brokerVars
  <1> HIDE DEF x
  <1>3. IsWork(w1) /\ w1.at = "cash"
    BY WorkAt DEF AuditInv, Shape
  <1> HIDE DEF w1
  <1>4. IsWork(w2) /\ w2.at = "cash"
    BY <1>3, WorkField
  <1> HIDE DEF w2
  <1>5. WorkStep(t, "cash")
    BY <1>1, <1>4, WorkSet DEF AuditInv
  <1> QED BY <1>1, <1>2, <1>5, AsideKeeps

LEMMA ReadCashKeeps ==
  ASSUME AuditInv, NEW t \in Threads, ReadCash(t)
  PROVE  AuditInv'
  <1> DEFINE w1 == [work[t] EXCEPT !.at = "sum"]
             w2 == [w1 EXCEPT !.portfolio = cash]
  <1>1. work' = [work EXCEPT ![t] = w2] /\ work[t].at = "cash"
    BY DEF ReadCash
  <1>2. UNCHANGED <<calls, tradeLog, failed, rows, alerts>>
    BY DEF ReadCash, brokerVars
  <1>3. IsWork(w1) /\ w1.at = "sum"
    BY WorkAt DEF AuditInv, Shape
  <1> HIDE DEF w1
  <1>4. IsWork(w2) /\ w2.at = "sum"
    BY <1>3, WorkField
  <1> HIDE DEF w2
  <1>5. WorkStep(t, "sum")
    BY <1>1, <1>4, WorkSet DEF AuditInv
  <1> QED BY <1>1, <1>2, <1>5, AsideKeeps

LEMMA SumPositionsKeeps ==
  ASSUME AuditInv, NEW t \in Threads, SumPositions(t)
  PROVE  AuditInv'
  <1> DEFINE x == work[t].portfolio
                    + SumFunction([obj \in work[t].held |-> Broker!MarketValue(heap[obj])])
             w1 == [work[t] EXCEPT !.at = "decide"]
             w2 == [w1 EXCEPT !.held = {}]
             w3 == [w2 EXCEPT !.portfolio = x]
  <1>1. work' = [work EXCEPT ![t] = w3] /\ work[t].at = "sum"
    BY DEF SumPositions
  <1>2. UNCHANGED <<calls, tradeLog, failed, rows, alerts>>
    BY DEF SumPositions, brokerVars
  <1> HIDE DEF x
  <1>3. IsWork(w1) /\ w1.at = "decide"
    BY WorkAt DEF AuditInv, Shape
  <1> HIDE DEF w1
  <1>4. IsWork(w2) /\ w2.at = "decide"
    BY <1>3, WorkField
  <1> HIDE DEF w2
  <1>5. IsWork(w3) /\ w3.at = "decide"
    BY <1>4, WorkField
  <1> HIDE DEF w3
  <1>6. WorkStep(t, "decide")
    BY <1>1, <1>5, WorkSet DEF AuditInv
  <1> QED BY <1>1, <1>2, <1>6, AsideKeeps

\* An order is placed, with its size noted.
LEMMA PlacedWith ==
  ASSUME Shape, NEW t \in Threads, NEW q,
         work' = [work EXCEPT ![t].at = "placed", ![t].quantity = q]
  PROVE  WorkStep(t, "placed")
  <1> DEFINE w1 == [work[t] EXCEPT !.at = "placed"]
             w2 == [w1 EXCEPT !.quantity = q]
  <1>1. work' = [work EXCEPT ![t] = w2]
    OBVIOUS
  <1>2. IsWork(w1) /\ w1.at = "placed"
    BY WorkAt DEF Shape
  <1> HIDE DEF w1
  <1>3. IsWork(w2) /\ w2.at = "placed"
    BY <1>2, WorkField
  <1> HIDE DEF w2
  <1> QED BY <1>1, <1>3, WorkSet

LEMMA EngineBuyKeeps ==
  ASSUME AuditInv, NEW t \in Threads, EngineBuy(t)
  PROVE  AuditInv'
  <1> DEFINE q == PositionSize(work[t].price, cash)
             o == [symbol |-> work[t].symbol, side |-> "BUY",
                   quantity |-> q, price |-> work[t].price]
  <1>1. work[t].at = "decide" /\ UNCHANGED <<rows, alerts>>
    BY DEF EngineBuy
  <1>2. \/ Done(t) /\ UNCHANGED brokerVars
        \/ /\ Broker!PlaceOrder(t, o)
           /\ work' = [work EXCEPT ![t].at = "placed", ![t].quantity = q]
    BY Zenon DEF EngineBuy
  <1> HIDE DEF q, o
  <1>3. CASE Done(t) /\ UNCHANGED brokerVars
    <2>1. WorkStep(t, "idle") /\ UNCHANGED <<calls, tradeLog, failed>>
      BY <1>3, DoneSets DEF AuditInv, brokerVars
    <2> QED BY <1>1, <2>1, AsideKeeps
  <1>4. CASE /\ Broker!PlaceOrder(t, o)
             /\ work' = [work EXCEPT ![t].at = "placed", ![t].quantity = q]
    <2>1. WorkStep(t, "placed")
      BY <1>4, PlacedWith DEF AuditInv
    <2> QED BY <1>1, <1>4, <2>1, PlaceKeeps
  <1> QED BY <1>2, <1>3, <1>4

LEMMA EngineSellKeeps ==
  ASSUME AuditInv, NEW t \in Threads, EngineSell(t)
  PROVE  AuditInv'
  <1> DEFINE q == heap[work[t].position].quantity
             o == [symbol |-> work[t].symbol, side |-> "SELL",
                   quantity |-> q, price |-> work[t].price]
  <1>1. /\ work[t].at = "decide" /\ UNCHANGED <<rows, alerts>>
        /\ Broker!PlaceOrder(t, o)
        /\ work' = [work EXCEPT ![t].at = "placed", ![t].quantity = q]
    BY Zenon DEF EngineSell
  <1> HIDE DEF q, o
  <1>2. WorkStep(t, "placed")
    BY <1>1, PlacedWith DEF AuditInv
  <1> QED BY <1>1, <1>2, PlaceKeeps

\* A row more in the trade table.
LEMMA InsertAdds ==
  ASSUME AuditInv, NEW t, NEW q, NEW pnl, Insert(t, q, pnl), alerts' = alerts
  PROVE  IsSequence(rows') /\ alerts' \in Nat /\ Accounted' = Accounted + 1
  <1>1. IsSequence(rows) /\ alerts \in Nat
    BY DEF AuditInv, Shape
  <1>2. PICK e : rows' = Append(rows, e)
    BY DEF Insert
  <1>3. IsSequence(rows') /\ Len(rows') = Len(rows) + 1 /\ Len(rows) \in Nat
    BY <1>1, <1>2, AppendAny
  <1> QED BY <1>1, <1>3 DEF Accounted

LEMMA EngineRecordBuyKeeps ==
  ASSUME AuditInv, NEW t \in Threads, EngineRecordBuy(t)
  PROVE  AuditInv'
  <1>1. /\ Returned(t, "FILLED") /\ Insert(t, work[t].quantity, 0)
        /\ UNCHANGED <<calls, tradeLog, failed, alerts>>
    BY DEF EngineRecordBuy, brokerVars
  <1>2. WorkStep(t, "idle")
    BY DoneSets DEF EngineRecordBuy, AuditInv
  <1>3. IsSequence(rows') /\ alerts' \in Nat /\ Accounted' = Accounted + 1
    BY <1>1, InsertAdds
  <1> QED BY <1>1, <1>2, <1>3, ResultKeeps

LEMMA EngineRecordSellKeeps ==
  ASSUME AuditInv, NEW t \in Threads, EngineRecordSell(t)
  PROVE  AuditInv'
  <1> DEFINE q == heap[work[t].position].quantity
             pnl == (work[t].price - heap[work[t].position].avg) * q
             w1 == [work[t] EXCEPT !.at = "risk"]
             w2 == [w1 EXCEPT !.pnl = pnl]
  <1>1. /\ Returned(t, "FILLED") /\ Insert(t, q, pnl)
        /\ work' = [work EXCEPT ![t].at = "risk", ![t].pnl = pnl]
    BY Zenon DEF EngineRecordSell
  <1>2. UNCHANGED <<calls, tradeLog, failed, alerts>>
    BY DEF EngineRecordSell, brokerVars
  <1> HIDE DEF q, pnl
  <1>3. work' = [work EXCEPT ![t] = w2]
    BY <1>1
  <1>4. IsWork(w1) /\ w1.at = "risk"
    BY WorkAt DEF AuditInv, Shape
  <1> HIDE DEF w1
  <1>5. IsWork(w2) /\ w2.at = "risk"
    BY <1>4, WorkField
  <1> HIDE DEF w2
  <1>6. WorkStep(t, "risk")
    BY <1>3, <1>5, WorkSet DEF AuditInv
  <1>7. IsSequence(rows') /\ alerts' \in Nat /\ Accounted' = Accounted + 1
    BY <1>1, <1>2, InsertAdds
  <1> QED BY <1>1, <1>2, <1>6, <1>7, ResultKeeps

LEMMA RecordPnlKeeps ==
  ASSUME AuditInv, NEW t \in Threads, RecordPnl(t)
  PROVE  AuditInv'
  <1>1. work[t].at = "risk" /\ UNCHANGED <<calls, tradeLog, failed, rows, alerts>>
    BY DEF RecordPnl, brokerVars
  <1>2. WorkStep(t, "idle")
    BY DoneSets DEF RecordPnl, AuditInv
  <1> QED BY <1>1, <1>2, AsideKeeps
-----------------------------------------------------------------------------
\* The bot's steps.
LEMMA BotCommandKeeps ==
  ASSUME AuditInv, NEW t \in Threads, NEW s, NEW side, NEW q, BotCommand(t, s, side, q)
  PROVE  AuditInv'
  <1> DEFINE p == LatestPrice(s)
             entry == IF side = "BUY" \/ book[s] = 0 THEN 0 ELSE heap[book[s]].avg
             w == CommandOf(s, side, q, p, entry)
  <1>1. work' = [work EXCEPT ![t] = w] /\ work[t].at = "idle"
    BY DEF BotCommand, CommandOf
  <1>2. UNCHANGED <<calls, tradeLog, failed, rows, alerts>>
    BY DEF BotCommand, brokerVars
  <1> HIDE DEF p, entry
  <1>3. IsWork(w) /\ w.at = "reply"
    BY CommandIs
  <1> HIDE DEF w
  <1>4. WorkStep(t, "reply")
    BY <1>1, <1>3, WorkSet DEF AuditInv
  <1> QED BY <1>1, <1>2, <1>4, AsideKeeps

LEMMA BotPlaceKeeps ==
  ASSUME AuditInv, NEW t \in Threads, BotPlace(t)
  PROVE  AuditInv'
  <1> DEFINE o == [symbol |-> work[t].symbol, side |-> work[t].side,
                   quantity |-> work[t].quantity, price |-> work[t].price]
             w == [work[t] EXCEPT !.at = "placed"]
  <1>1. /\ work[t].at = "reply" /\ UNCHANGED <<rows, alerts>>
        /\ Broker!PlaceOrder(t, o)
    BY Zenon DEF BotPlace
  <1>2. work' = [work EXCEPT ![t] = w]
    BY DEF BotPlace
  <1> HIDE DEF o
  <1>3. IsWork(w) /\ w.at = "placed"
    BY WorkAt DEF AuditInv, Shape
  <1> HIDE DEF w
  <1>4. WorkStep(t, "placed")
    BY <1>2, <1>3, WorkSet DEF AuditInv
  <1> QED BY <1>1, <1>4, PlaceKeeps

LEMMA BotRecordKeeps ==
  ASSUME AuditInv, NEW t \in Threads, BotRecord(t)
  PROVE  AuditInv'
  <1> DEFINE pnl == IF work[t].side = "SELL" /\ work[t].entry # 0
                    THEN (work[t].price - work[t].entry) * work[t].quantity ELSE 0
  <1>1. Returned(t, "FILLED") /\ Insert(t, work[t].quantity, pnl)
    BY Zenon DEF BotRecord
  <1>2. UNCHANGED <<calls, tradeLog, failed, alerts>>
    BY DEF BotRecord, brokerVars
  <1> HIDE DEF pnl
  <1>3. WorkStep(t, "idle")
    BY DoneSets DEF BotRecord, AuditInv
  <1>4. IsSequence(rows') /\ alerts' \in Nat /\ Accounted' = Accounted + 1
    BY <1>1, <1>2, InsertAdds
  <1> QED BY <1>1, <1>2, <1>3, <1>4, ResultKeeps
-----------------------------------------------------------------------------
\* A rejected order, and the failures.
LEMMA RejectedKeeps ==
  ASSUME AuditInv, NEW t \in Threads, Rejected(t)
  PROVE  AuditInv'
  <1>1. Returned(t, "REJECTED") /\ UNCHANGED <<calls, tradeLog, failed, rows, alerts>>
    BY DEF Rejected, brokerVars
  <1>2. WorkStep(t, "idle")
    BY DoneSets DEF Rejected, AuditInv
  <1>3. IsSequence(rows') /\ alerts' \in Nat /\ Accounted' = Accounted
    BY <1>1 DEF AuditInv, Shape, Accounted
  <1> QED BY <1>1, <1>2, <1>3, ResultKeeps

LEMMA FailureKeeps ==
  ASSUME AuditInv, NEW t \in Threads, Raised(t) \/ InsertFails(t)
  PROVE  AuditInv'
  <1>1. PICK r \in {"FILLED", "ERROR"} : Returned(t, r)
    BY DEF Raised, InsertFails
  <1>2. alerts' = alerts + 1 /\ UNCHANGED <<calls, tradeLog, failed, rows>>
    BY DEF Raised, InsertFails, brokerVars
  <1>3. WorkStep(t, "idle")
    BY DoneSets DEF Raised, InsertFails, AuditInv
  <1>4. IsSequence(rows) /\ Len(rows) \in Nat /\ alerts \in Nat
    BY DEF AuditInv, Shape, IsSequence
  <1>5. IsSequence(rows') /\ alerts' \in Nat /\ Accounted' = Accounted + 1
    BY <1>2, <1>4 DEF Accounted
  <1> QED BY <1>1, <1>2, <1>3, <1>5, ResultKeeps

LEMMA ElsewhereKeeps ==
  ASSUME AuditInv, Midnight \/ UNCHANGED vars
  PROVE  AuditInv'
  <1>1. UNCHANGED <<calls, work, tradeLog, failed, rows, alerts>>
    BY DEF Midnight, vars, brokerVars
  <1> QED BY <1>1 DEF AuditInv, Shape, CallsAreAwaited, NoSilentLoss, Awaiting, Returned,
                      Broker!Busy

LEMMA NextAuditInv == AuditInv /\ [Next]_vars => AuditInv'
  <1> SUFFICES ASSUME AuditInv, [Next]_vars PROVE AuditInv'
    OBVIOUS
  <1>1. ASSUME NEW t \in Loops, NEW s \in Symbols, NEW side \in {"BUY", "SELL"},
               NEW p \in SignalPrices, TakeSignal(t, s, side, p)
        PROVE  AuditInv'
    BY <1>1, TakeSignalKeeps DEF Threads
  <1>2. ASSUME NEW t \in Loops, ListPositions(t) \/ ReadCash(t) \/ SumPositions(t)
        PROVE  AuditInv'
    BY <1>2, ListPositionsKeeps, ReadCashKeeps, SumPositionsKeeps DEF Threads
  <1>3. ASSUME NEW t \in Loops, EngineBuy(t) \/ EngineSell(t)
        PROVE  AuditInv'
    BY <1>3, EngineBuyKeeps, EngineSellKeeps DEF Threads
  <1>4. ASSUME NEW t \in Loops, EngineRecordBuy(t) \/ EngineRecordSell(t) \/ RecordPnl(t)
        PROVE  AuditInv'
    BY <1>4, EngineRecordBuyKeeps, EngineRecordSellKeeps, RecordPnlKeeps DEF Threads
  <1>5. ASSUME NEW t \in Bots, NEW s \in Symbols, NEW side \in {"BUY", "SELL"},
               NEW q \in BotQuantities, BotCommand(t, s, side, q)
        PROVE  AuditInv'
    BY <1>5, BotCommandKeeps DEF Threads
  <1>6. ASSUME NEW t \in Bots, BotPlace(t) \/ BotRecord(t)
        PROVE  AuditInv'
    BY <1>6, BotPlaceKeeps, BotRecordKeeps DEF Threads
  <1>7. ASSUME NEW t \in Threads,
               BrokerStep(t) \/ Rejected(t) \/ Raised(t) \/ InsertFails(t)
        PROVE  AuditInv'
    BY <1>7, BrokerStepKeeps, RejectedKeeps, FailureKeeps
  <1>8. CASE Midnight \/ UNCHANGED vars
    BY <1>8, ElsewhereKeeps
  <1> QED BY <1>1, <1>2, <1>3, <1>4, <1>5, <1>6, <1>7, <1>8 DEF Next

LEMMA InitAuditInv == Init => AuditInv
  <1> SUFFICES ASSUME Init PROVE AuditInv
    OBVIOUS
  <1>1. /\ calls = [t \in Threads |-> Broker!NoCall] /\ work = [t \in Threads |-> NoWork]
        /\ tradeLog = <<>> /\ failed = <<>> /\ rows = <<>> /\ alerts = 0
    BY DEF Init, Broker!Init
  <1>2. IsSequence(<<>>) /\ Len(<<>>) = 0
    BY DEF IsSequence
  <1>3. IsCall(Broker!NoCall) /\ Broker!NoCall.at = "idle"
    <2>1. PICK o : Broker!NoCall = [at |-> "idle", order |-> o, position |-> 0, result |-> "none"]
      BY DEF Broker!NoCall
    <2> QED BY <2>1 DEF IsCall
  <1>4. Shape
    BY <1>1, <1>2, <1>3, NoWorkIs DEF Shape
  <1>5. CallsAreAwaited
    BY <1>1, <1>3 DEF CallsAreAwaited
  <1>6. Awaiting = {}
    BY <1>1, NoWorkIs DEF Awaiting, Returned
  <1>7. NoSilentLoss
    BY <1>1, <1>2, <1>6, FS_EmptySet DEF NoSilentLoss
  <1> QED BY <1>4, <1>5, <1>7 DEF AuditInv

\* No order is lost without a word: with any number of engine threads and bots in
\* the middle of their orders, every order that moved cash is one row of the trade
\* table, is about to become one, or has been reported, whichever inserts fail and
\* whichever calls of place_order raise (_execute_signal_direct, _cmd_buy,
\* _cmd_sell, place_order).
THEOREM NothingLostSilently == Spec => []NoSilentLoss
  <1>1. AuditInv => NoSilentLoss
    BY DEF AuditInv
  <1> QED BY <1>1, InitAuditInv, NextAuditInv, PTL DEF Spec
-----------------------------------------------------------------------------
\* A session's broker is PaperBroker's: what is proved there of any threads, sizes and
\* prices holds in a session, whose handlers reach the broker through place_order only.

Proved == INSTANCE PaperLedger_proofs

LEMMA SameOperators ==
  /\ Broker!Orders = Proved!Orders
  /\ \A o : Broker!Cost(o) = Proved!Cost(o)
  /\ \A obj, o : Broker!Covers(obj, o) <=> Proved!Covers(obj, o)
  /\ \A p, o : Broker!Averaged(p, o) = Proved!Averaged(p, o)
  /\ \A t, r : Broker!Return(t, r) <=> Proved!Return(t, r)
  /\ \A t, stage, obj : Broker!Advance(t, stage, obj) <=> Proved!Advance(t, stage, obj)
  /\ \A t : Broker!Busy(t) <=> Proved!Busy(t)
  <1>1. Broker!Orders = Proved!Orders
    BY DEF Broker!Orders, Proved!Orders
  <1>2. \A o : Broker!Cost(o) = Proved!Cost(o)
    BY DEF Broker!Cost, Proved!Cost
  <1>3. \A obj, o : Broker!Covers(obj, o) <=> Proved!Covers(obj, o)
    BY DEF Broker!Covers, Proved!Covers
  <1>4. \A p, o : Broker!Averaged(p, o) = Proved!Averaged(p, o)
    BY Zenon DEF Broker!Cost, Proved!Cost, Broker!Averaged, Proved!Averaged
  <1>5. \A t, r : Broker!Return(t, r) <=> Proved!Return(t, r)
    <2>1. Broker!NoCall = Proved!NoCall
      BY <1>1, Zenon DEF Broker!NoCall, Proved!NoCall
    <2> QED BY <2>1, Zenon DEF Broker!Return, Proved!Return
  <1>6. \A t, stage, obj : Broker!Advance(t, stage, obj) <=> Proved!Advance(t, stage, obj)
    BY DEF Broker!Advance, Proved!Advance
  <1>7. \A t : Broker!Busy(t) <=> Proved!Busy(t)
    BY DEF Broker!Busy, Proved!Busy
  <1> QED BY <1>1, <1>2, <1>3, <1>4, <1>5, <1>6, <1>7

LEMMA SameActions ==
  ASSUME NEW t
  PROVE  /\ Broker!Step(t) => Proved!Step(t)
         /\ \A o : Broker!PlaceOrder(t, o) => Proved!PlaceOrder(t, o)
  <1>1. Broker!Debit(t) => Proved!Debit(t)
    BY SameOperators, Zenon DEF Broker!Debit, Proved!Debit
  <1>2. Broker!RejectBuy(t) => Proved!RejectBuy(t)
    BY SameOperators, Zenon DEF Broker!RejectBuy, Proved!RejectBuy
  <1>3. Broker!BookBuy(t) => Proved!BookBuy(t)
    BY SameOperators, Zenon DEF Broker!BookBuy, Proved!BookBuy
  <1>4. Broker!LookUp(t) => Proved!LookUp(t)
    BY SameOperators, Zenon DEF Broker!LookUp, Proved!LookUp
  <1>5. Broker!RejectSell(t) => Proved!RejectSell(t)
    BY SameOperators, Zenon DEF Broker!RejectSell, Proved!RejectSell
  <1>6. Broker!BookSell(t) => Proved!BookSell(t)
    BY SameOperators, Zenon DEF Broker!BookSell, Proved!BookSell
  <1>7. Broker!Record(t) => Proved!Record(t)
    BY SameOperators, Zenon DEF Broker!Record, Proved!Record
  <1>8. \A o : Broker!PlaceOrder(t, o) => Proved!PlaceOrder(t, o)
    <2>1. \A S : Broker!Cardinality(S) = Proved!Cardinality(S)
      BY Zenon DEF Broker!Cardinality, Proved!Cardinality
    <2> QED BY <2>1, SameOperators, Zenon DEF Broker!PlaceOrder, Proved!PlaceOrder
  <1> QED BY <1>1, <1>2, <1>3, <1>4, <1>5, <1>6, <1>7, <1>8 DEF Broker!Step, Proved!Step

LEMMA SameTypes == Broker!TypeOK <=> Proved!TypeOK
  BY DEF Broker!TypeOK, Proved!TypeOK, Broker!Positions, Proved!Positions, Broker!Orders,
         Proved!Orders, Broker!Stages, Proved!Stages, Broker!Results, Proved!Results

LEMMA SameInit == Broker!Init <=> Proved!Init
  BY DEF Broker!Init, Proved!Init, Broker!NoCall, Proved!NoCall, Broker!Orders, Proved!Orders

\* The sizes and prices a session may come to are the broker's: any at all.
AnySize == Quantities = Nat \ {0} /\ Prices = Nat

LEMMA SessionSetting == AnySize => Proved!BrokerSetting
  <1>1. IsFiniteSet(Threads)
    BY AwaitingFinite
  <1>2. Proved!IsFiniteSet(Threads)
    BY <1>1 DEF IsFiniteSet, Proved!IsFiniteSet
  <1> QED BY <1>2, LiveAssumption DEF Proved!BrokerSetting, AnySize

\* What the broker does in a step: nothing, or one step of PaperBroker.
BrokerIdle == UNCHANGED brokerVars
BrokerActs(t) == Proved!Step(t) \/ \E o \in Proved!Orders : Proved!PlaceOrder(t, o)

LEMMA BrokerKeepsTypes ==
  ASSUME AnySize, Broker!TypeOK, BrokerIdle \/ \E t \in Threads : BrokerActs(t)
  PROVE  Broker!TypeOK'
  <1>1. Proved!TypeOK /\ Proved!BrokerSetting
    BY SameTypes, SessionSetting
  <1>2. [Proved!Next]_Proved!vars
    BY DEF BrokerIdle, BrokerActs, Proved!Next, Proved!vars, brokerVars
  <1>3. Proved!TypeOK'
    BY <1>1, <1>2, Proved!NextTypes
  <1>4. (Broker!TypeOK <=> Proved!TypeOK)'
    BY SameTypes, PTL
  <1> QED BY <1>3, <1>4

-----------------------------------------------------------------------------
\* The types of a session.

Handler(n) ==
  [at : Stages, symbol : Symbols, side : Sides, price : Nat, quantity : Nat, position : 0..n,
   entry : Nat, held : SUBSET (1..n), portfolio : Int, pnl : Int]

Row == [symbol : Symbols, side : Sides, by : Threads, day : 0..MaxDay,
        quantity : Nat, price : Prices, pnl : Int]

LEMMA SessionFields ==
  ASSUME TypeOK
  PROVE  /\ Broker!TypeOK
         /\ day \in 0..MaxDay /\ riskDay \in 0..day /\ dailyPnl \in Int
         /\ rows \in Seq(Row) /\ alerts \in Nat /\ faults \in 0..MaxFaults
         /\ work \in [Threads -> Handler(Len(heap))] /\ Len(heap) \in Nat
  BY DEF TypeOK, Handler, Row, Broker!TypeOK

LEMMA HandlerGrows ==
  ASSUME NEW n \in Nat, NEW m \in Nat, n <= m
  PROVE  Handler(n) \subseteq Handler(m)
  <1>1. 0..n \subseteq 0..m /\ SUBSET (1..n) \subseteq SUBSET (1..m)
    OBVIOUS
  <1> QED BY <1>1 DEF Handler

LEMMA HandlerFields ==
  ASSUME NEW n, NEW w \in Handler(n)
  PROVE  /\ w.at \in Stages /\ w.symbol \in Symbols /\ w.side \in Sides /\ w.price \in Nat
         /\ w.quantity \in Nat /\ w.position \in 0..n /\ w.entry \in Nat
         /\ w.held \in SUBSET (1..n) /\ w.portfolio \in Int /\ w.pnl \in Int
  BY DEF Handler

\* Each field set to a value of its own type.
LEMMA HandlerSet ==
  ASSUME NEW n, NEW w \in Handler(n)
  PROVE  /\ \A x \in Stages : [w EXCEPT !.at = x] \in Handler(n)
         /\ \A x \in Symbols : [w EXCEPT !.symbol = x] \in Handler(n)
         /\ \A x \in Sides : [w EXCEPT !.side = x] \in Handler(n)
         /\ \A x \in Nat : [w EXCEPT !.price = x] \in Handler(n)
         /\ \A x \in Nat : [w EXCEPT !.quantity = x] \in Handler(n)
         /\ \A x \in 0..n : [w EXCEPT !.position = x] \in Handler(n)
         /\ \A x \in Nat : [w EXCEPT !.entry = x] \in Handler(n)
         /\ \A x \in SUBSET (1..n) : [w EXCEPT !.held = x] \in Handler(n)
         /\ \A x \in Int : [w EXCEPT !.portfolio = x] \in Handler(n)
         /\ \A x \in Int : [w EXCEPT !.pnl = x] \in Handler(n)
  <1>1. \A x \in Stages : [w EXCEPT !.at = x] \in Handler(n)
    BY DEF Handler
  <1>2. \A x \in Symbols : [w EXCEPT !.symbol = x] \in Handler(n)
    BY DEF Handler
  <1>3. \A x \in Sides : [w EXCEPT !.side = x] \in Handler(n)
    BY DEF Handler
  <1>4. \A x \in Nat : [w EXCEPT !.price = x] \in Handler(n)
    BY DEF Handler
  <1>5. \A x \in Nat : [w EXCEPT !.quantity = x] \in Handler(n)
    BY DEF Handler
  <1>6. \A x \in 0..n : [w EXCEPT !.position = x] \in Handler(n)
    BY DEF Handler
  <1>7. \A x \in Nat : [w EXCEPT !.entry = x] \in Handler(n)
    BY DEF Handler
  <1>8. \A x \in SUBSET (1..n) : [w EXCEPT !.held = x] \in Handler(n)
    BY DEF Handler
  <1>9. \A x \in Int : [w EXCEPT !.portfolio = x] \in Handler(n)
    BY DEF Handler
  <1>10. \A x \in Int : [w EXCEPT !.pnl = x] \in Handler(n)
    BY DEF Handler
  <1> QED BY <1>1, <1>2, <1>3, <1>4, <1>5, <1>6, <1>7, <1>8, <1>9, <1>10

LEMMA NoWorkType == ASSUME NEW n \in Nat PROVE NoWork \in Handler(n)
  <1> DEFINE s == CHOOSE s \in Symbols : TRUE
  <1>1. s \in Symbols
    BY LiveAssumption
  <1>2. NoWork = [at |-> "idle", symbol |-> s, side |-> "BUY", price |-> 0, quantity |-> 0,
                  position |-> 0, entry |-> 0, held |-> {}, portfolio |-> 0, pnl |-> 0]
    BY DEF NoWork
  <1> HIDE DEF s
  <1> QED BY <1>1, <1>2 DEF Handler, Stages, Sides

LEMMA SignalType ==
  ASSUME NEW n \in Nat, NEW stage \in Stages, NEW s \in Symbols, NEW side \in Sides,
         NEW p \in Nat, NEW obj \in 0..n
  PROVE  SignalOf(stage, s, side, p, obj) \in Handler(n)
  <1> DEFINE w1 == [NoWork EXCEPT !.at = stage]
             w2 == [w1 EXCEPT !.symbol = s]
             w3 == [w2 EXCEPT !.side = side]
             w4 == [w3 EXCEPT !.price = p]
             w5 == [w4 EXCEPT !.position = obj]
  <1>1. w1 \in Handler(n)
    BY NoWorkType, HandlerSet
  <1> HIDE DEF w1
  <1>2. w2 \in Handler(n)
    BY <1>1, HandlerSet
  <1> HIDE DEF w2
  <1>3. w3 \in Handler(n)
    BY <1>2, HandlerSet
  <1> HIDE DEF w3
  <1>4. w4 \in Handler(n)
    BY <1>3, HandlerSet
  <1> HIDE DEF w4
  <1>5. w5 \in Handler(n)
    BY <1>4, HandlerSet
  <1> HIDE DEF w5
  <1> QED BY <1>5, Zenon DEF SignalOf, w1, w2, w3, w4, w5

LEMMA CommandType ==
  ASSUME NEW n \in Nat, NEW s \in Symbols, NEW side \in Sides, NEW q \in Nat, NEW p \in Nat,
         NEW entry \in Nat
  PROVE  CommandOf(s, side, q, p, entry) \in Handler(n)
  <1> DEFINE w1 == [NoWork EXCEPT !.at = "reply"]
             w2 == [w1 EXCEPT !.symbol = s]
             w3 == [w2 EXCEPT !.side = side]
             w4 == [w3 EXCEPT !.quantity = q]
             w5 == [w4 EXCEPT !.price = p]
             w6 == [w5 EXCEPT !.entry = entry]
  <1>1. w1 \in Handler(n)
    BY NoWorkType, HandlerSet DEF Stages
  <1> HIDE DEF w1
  <1>2. w2 \in Handler(n)
    BY <1>1, HandlerSet
  <1> HIDE DEF w2
  <1>3. w3 \in Handler(n)
    BY <1>2, HandlerSet
  <1> HIDE DEF w3
  <1>4. w4 \in Handler(n)
    BY <1>3, HandlerSet
  <1> HIDE DEF w4
  <1>5. w5 \in Handler(n)
    BY <1>4, HandlerSet
  <1> HIDE DEF w5
  <1>6. w6 \in Handler(n)
    BY <1>5, HandlerSet
  <1> HIDE DEF w6
  <1> QED BY <1>6, Zenon DEF CommandOf, w1, w2, w3, w4, w5, w6

\* The objects of the heap stay: it only grows.
LEMMA HeapGrows ==
  ASSUME Broker!TypeOK, NEW t \in Threads, Broker!Step(t)
  PROVE  Len(heap) <= Len(heap')
  <1>1. Len(heap) \in Nat /\ heap \in Seq(Broker!Positions)
    BY DEF Broker!TypeOK
  <1>2. CASE heap' = heap
    BY <1>1, <1>2
  <1>3. CASE Broker!BookBuy(t)
    BY <1>1, <1>3 DEF Broker!BookBuy
  <1>4. CASE Broker!BookSell(t)
    BY <1>1, <1>4 DEF Broker!BookSell
  <1> QED BY <1>2, <1>3, <1>4 DEF Broker!Step, Broker!Debit, Broker!RejectBuy, Broker!LookUp,
             Broker!RejectSell, Broker!Record

\* What is left to check of a handler's step.
LEMMA StepTypes ==
  ASSUME AnySize, TypeOK, NEW t \in Threads, BrokerIdle \/ BrokerActs(t), heap' = heap,
         NEW w \in Handler(Len(heap)), work' = [work EXCEPT ![t] = w],
         day' = day, riskDay' \in 0..day, dailyPnl' \in Int, rows' \in Seq(Row),
         alerts' \in Nat, faults' \in 0..MaxFaults
  PROVE  TypeOK'
  <1>1. Broker!TypeOK'
    BY SessionFields, BrokerKeepsTypes
  <1>2. work' \in [Threads -> Handler(Len(heap'))]
    BY SessionFields
  <1> QED BY <1>1, <1>2, SessionFields DEF TypeOK, Handler, Row

LEMMA RowType ==
  ASSUME TypeOK, AnySize, NEW t \in Threads, NEW q \in Nat, NEW pnl \in Int, Insert(t, q, pnl)
  PROVE  rows' \in Seq(Row)
  <1> DEFINE row == [symbol |-> work[t].symbol, side |-> work[t].side, by |-> t, day |-> day,
                     quantity |-> q, price |-> work[t].price, pnl |-> pnl]
  <1>1. row \in Row
    BY SessionFields, HandlerFields DEF Row, AnySize
  <1>2. rows' = Append(rows, row)
    BY DEF Insert
  <1> HIDE DEF row
  <1> QED BY <1>1, <1>2, SessionFields

\* Each action keeps the types, and does to the broker nothing or one step of its own.
LEMMA TakeSignalTypes ==
  ASSUME AnySize, TypeOK, NEW t \in Loops, NEW s \in Symbols, NEW side \in Sides,
         NEW p \in SignalPrices, TakeSignal(t, s, side, p)
  PROVE  TypeOK' /\ BrokerIdle
  <1> DEFINE stage == IF side = "BUY" THEN "account" ELSE "decide"
  <1>1. p \in Nat /\ stage \in Stages /\ book[s] \in 0..Len(heap) /\ Len(heap) \in Nat
    BY SessionFields, LiveAssumption DEF AnySize, Stages, Broker!TypeOK
  <1>2. work' = [work EXCEPT ![t] = SignalOf(stage, s, side, p, book[s])]
    BY Zenon DEF TakeSignal, SignalOf
  <1> HIDE DEF stage
  <1>3. SignalOf(stage, s, side, p, book[s]) \in Handler(Len(heap))
    BY <1>1, SignalType
  <1>4. UNCHANGED <<brokerVars, day, riskVars, rows, alerts, faults>>
    BY DEF TakeSignal
  <1>5. BrokerIdle /\ heap' = heap
    BY <1>4 DEF BrokerIdle, brokerVars
  <1> QED BY <1>2, <1>3, <1>4, <1>5, SessionFields, StepTypes DEF riskVars, Threads

LEMMA ListPositionsTypes ==
  ASSUME AnySize, TypeOK, NEW t \in Loops, ListPositions(t)
  PROVE  TypeOK' /\ BrokerIdle
  <1> DEFINE held == {book[s] : s \in Symbols} \ {0}
             w1 == [work[t] EXCEPT !.at = "cash"]
             w2 == [w1 EXCEPT !.held = held]
  <1>1. held \in SUBSET (1..Len(heap)) /\ work[t] \in Handler(Len(heap))
    BY SessionFields DEF Broker!TypeOK, Threads
  <1>2. work' = [work EXCEPT ![t] = w2]
    BY DEF ListPositions
  <1> HIDE DEF held
  <1>3. w1 \in Handler(Len(heap))
    BY <1>1, HandlerSet DEF Stages
  <1> HIDE DEF w1
  <1>4. w2 \in Handler(Len(heap))
    BY <1>1, <1>3, HandlerSet
  <1> HIDE DEF w2
  <1>5. UNCHANGED <<brokerVars, day, riskVars, rows, alerts, faults>>
    BY DEF ListPositions
  <1>6. BrokerIdle /\ heap' = heap
    BY <1>5 DEF BrokerIdle, brokerVars
  <1> QED BY <1>2, <1>4, <1>5, <1>6, SessionFields, StepTypes DEF riskVars, Threads

LEMMA ReadCashTypes ==
  ASSUME AnySize, TypeOK, NEW t \in Loops, ReadCash(t)
  PROVE  TypeOK' /\ BrokerIdle
  <1> DEFINE w1 == [work[t] EXCEPT !.at = "sum"]
             w2 == [w1 EXCEPT !.portfolio = cash]
  <1>1. cash \in Int /\ work[t] \in Handler(Len(heap))
    BY SessionFields DEF Broker!TypeOK, Threads
  <1>2. work' = [work EXCEPT ![t] = w2]
    BY DEF ReadCash
  <1>3. w1 \in Handler(Len(heap))
    BY <1>1, HandlerSet DEF Stages
  <1> HIDE DEF w1
  <1>4. w2 \in Handler(Len(heap))
    BY <1>1, <1>3, HandlerSet
  <1> HIDE DEF w2
  <1>5. UNCHANGED <<brokerVars, day, riskVars, rows, alerts, faults>>
    BY DEF ReadCash
  <1>6. BrokerIdle /\ heap' = heap
    BY <1>5 DEF BrokerIdle, brokerVars
  <1> QED BY <1>2, <1>4, <1>5, <1>6, SessionFields, StepTypes DEF riskVars, Threads

LEMMA HeapWorth ==
  ASSUME Broker!TypeOK, NEW H \in SUBSET (1..Len(heap))
  PROVE  SumFunction([obj \in H |-> Broker!MarketValue(heap[obj])]) \in Int
  <1>1. Len(heap) \in Nat /\ heap \in Seq(Broker!Positions)
    BY DEF Broker!TypeOK
  <1>2. IsFiniteSet(H)
    <2>1. Len(heap) \in Int /\ 1 \in Int
      BY <1>1
    <2>2. IsFiniteSet(1..Len(heap))
      BY <2>1, FS_Interval
    <2> QED BY <2>2, FS_Subset
  <1>3. ASSUME NEW obj \in H PROVE Broker!MarketValue(heap[obj]) \in Int
    <2>1. heap[obj] \in Broker!Positions
      BY <1>1
    <2>2. heap[obj].quantity \in Nat /\ heap[obj].price \in Nat
      BY <2>1 DEF Broker!Positions
    <2> QED BY <2>2 DEF Broker!MarketValue
  <1> QED BY <1>2, <1>3, SumIsInt

LEMMA SumPositionsTypes ==
  ASSUME AnySize, TypeOK, NEW t \in Loops, SumPositions(t)
  PROVE  TypeOK' /\ BrokerIdle
  <1> DEFINE worth == SumFunction([obj \in work[t].held |-> Broker!MarketValue(heap[obj])])
             total == work[t].portfolio + worth
             w1 == [work[t] EXCEPT !.at = "decide"]
             w2 == [w1 EXCEPT !.held = {}]
             w3 == [w2 EXCEPT !.portfolio = total]
  <1>1. work[t] \in Handler(Len(heap)) /\ work[t].portfolio \in Int
    BY SessionFields, HandlerFields DEF Threads
  <1>2. worth \in Int
    BY <1>1, SessionFields, HandlerFields, HeapWorth
  <1>3. work' = [work EXCEPT ![t] = w3]
    BY DEF SumPositions
  <1> HIDE DEF worth
  <1>4. total \in Int
    BY <1>1, <1>2
  <1> HIDE DEF total
  <1>5. w1 \in Handler(Len(heap))
    BY <1>1, HandlerSet DEF Stages
  <1> HIDE DEF w1
  <1>6. w2 \in Handler(Len(heap))
    BY <1>5, HandlerSet
  <1> HIDE DEF w2
  <1>7. w3 \in Handler(Len(heap))
    BY <1>4, <1>6, HandlerSet
  <1> HIDE DEF w3
  <1>8. UNCHANGED <<brokerVars, day, riskVars, rows, alerts, faults>>
    BY DEF SumPositions
  <1>9. BrokerIdle /\ heap' = heap
    BY <1>8 DEF BrokerIdle, brokerVars
  <1> QED BY <1>3, <1>7, <1>8, <1>9, SessionFields, StepTypes DEF riskVars, Threads

\* The order an action sends is one of the broker's.
LEMMA OrderSent ==
  ASSUME AnySize, NEW t, NEW s \in Symbols, NEW side \in Sides, NEW q \in Nat, NEW p \in Nat,
         side = "BUY" => q > 0,
         Broker!PlaceOrder(t, [symbol |-> s, side |-> side, quantity |-> q, price |-> p])
  PROVE  BrokerActs(t) /\ heap' = heap
  <1> DEFINE o == [symbol |-> s, side |-> side, quantity |-> q, price |-> p]
  <1>1. o \in Proved!Orders
    <2>1. CASE side = "BUY"
      BY <2>1 DEF Proved!Orders, AnySize
    <2>2. CASE side = "SELL"
      BY <2>2 DEF Proved!Orders, AnySize
    <2> QED BY <2>1, <2>2 DEF Sides
  <1>2. Proved!PlaceOrder(t, o)
    BY SameActions
  <1>3. heap' = heap
    BY DEF Broker!PlaceOrder
  <1> HIDE DEF o
  <1> QED BY <1>1, <1>2, <1>3 DEF BrokerActs

LEMMA PlacedType ==
  ASSUME TypeOK, NEW t \in Threads, NEW q \in Nat
  PROVE  [work[t] EXCEPT !.at = "placed", !.quantity = q] \in Handler(Len(heap))
  <1> DEFINE w1 == [work[t] EXCEPT !.at = "placed"]
             w2 == [w1 EXCEPT !.quantity = q]
  <1>1. w1 \in Handler(Len(heap))
    BY SessionFields, HandlerSet DEF Stages
  <1>2. [work[t] EXCEPT !.at = "placed", !.quantity = q] = w2
    BY Zenon
  <1> HIDE DEF w1
  <1> QED BY <1>1, <1>2, HandlerSet

\* The order the engine sizes costs no more than its share of the cash.
LEMMA SizeWithinShare ==
  ASSUME NEW price \in Nat \ {0}, NEW available \in Nat
  PROVE  /\ PositionSize(price, available) \in Nat
         /\ PositionSize(price, available) * price * 100 <= available * MaxPositionPct
         /\ PositionSize(price, available) * price <= available
  <1> DEFINE share == available * MaxPositionPct
             unit == 100 * price
             q == share \div unit
  <1>1. share \in Nat /\ share <= available * 100 /\ unit \in Nat \ {0}
    BY LiveAssumption
  <1>2. PositionSize(price, available) = q
    BY DEF PositionSize
  <1> HIDE DEF share, unit
  <1>3. q \in Nat /\ q * unit <= share
    BY <1>1
  <1> HIDE DEF q
  <1>4. q * price * 100 = q * unit
    BY <1>3 DEF unit
  <1>5. q * price * 100 <= available * MaxPositionPct
    BY <1>3, <1>4 DEF share
  <1>6. q * price \in Nat
    BY <1>3
  <1>7. (q * price) * 100 <= available * 100
    BY <1>1, <1>3, <1>4
  <1>8. q * price <= available
    <2> DEFINE c == q * price
    <2>1. c \in Nat /\ c * 100 <= available * 100
      BY <1>6, <1>7
    <2> HIDE DEF c
    <2>2. c <= available
      BY <2>1
    <2> QED BY <2>2 DEF c
  <1> QED BY <1>2, <1>3, <1>5, <1>8

\* What an engine's handler has made sure of on its way: a signal carries a price, and a
\* sale a position; a command has a size.
Prepared ==
  \A t \in Loops :
    /\ work[t].at \in {"account", "cash", "sum", "decide"} => work[t].price \in SignalPrices
    /\ work[t].at \in {"account", "cash", "sum"} => work[t].side = "BUY"
    /\ work[t].at \in {"decide", "placed"} /\ work[t].side = "SELL" => work[t].position # 0
CommandsAreSized == \A t \in Bots : work[t].at = "reply" => work[t].quantity # 0

LEMMA PnlType == ASSUME TypeOK PROVE PnlToday \in Int /\ day \in 0..day /\ riskDay \in 0..day
  BY SessionFields DEF PnlToday

LEMMA DoneTypes ==
  ASSUME AnySize, TypeOK, NEW t \in Threads, BrokerIdle, Done(t),
         day' = day, riskDay' \in 0..day, dailyPnl' \in Int, rows' \in Seq(Row),
         alerts' \in Nat, faults' \in 0..MaxFaults
  PROVE  TypeOK'
  <1>1. NoWork \in Handler(Len(heap)) /\ work' = [work EXCEPT ![t] = NoWork]
    BY SessionFields, NoWorkType DEF Done
  <1>2. heap' = heap
    BY DEF BrokerIdle, brokerVars
  <1> QED BY <1>1, <1>2, StepTypes

LEMMA EngineBuyTypes ==
  ASSUME AnySize, TypeOK, Prepared, NEW t \in Loops, EngineBuy(t)
  PROVE  TypeOK' /\ (BrokerIdle \/ BrokerActs(t))
  <1> DEFINE w == work[t]
             q == PositionSize(w.price, cash)
  <1>1. w \in Handler(Len(heap)) /\ cash \in Int /\ w.symbol \in Symbols /\ w.price \in Nat \ {0}
    <2>1. work[t] \in Handler(Len(heap)) /\ cash \in Int /\ w.at = "decide"
      BY SessionFields DEF EngineBuy, Threads, Broker!TypeOK
    <2>2. w.price \in SignalPrices
      BY <2>1 DEF Prepared
    <2> QED BY <2>1, <2>2, HandlerFields, LiveAssumption DEF AnySize
  <1>2. UNCHANGED <<day, rows, alerts, faults>>
    BY DEF EngineBuy
  <1>3. PnlToday \in Int /\ day \in 0..day /\ riskDay \in 0..day /\ t \in Threads
    BY PnlType DEF Threads
  <1>4. CASE Done(t) /\ UNCHANGED <<brokerVars, riskVars>>
    BY <1>2, <1>3, <1>4, SessionFields, DoneTypes DEF BrokerIdle, riskVars
  <1>5. CASE Done(t) /\ UNCHANGED brokerVars /\ riskDay' = day /\ dailyPnl' = PnlToday
    BY <1>2, <1>3, <1>5, SessionFields, DoneTypes DEF BrokerIdle
  <1>6. CASE /\ q > 0 /\ riskDay' = day /\ dailyPnl' = PnlToday
             /\ Broker!PlaceOrder(t, [symbol |-> w.symbol, side |-> "BUY",
                                      quantity |-> q, price |-> w.price])
             /\ work' = [work EXCEPT ![t].at = "placed", ![t].quantity = q]
    <2>1. q \in Nat
      <3>1. q \in Int
        BY <1>1, LiveAssumption DEF PositionSize
      <3> QED BY <3>1, <1>6
    <2> HIDE DEF q
    <2>2. BrokerActs(t) /\ heap' = heap
      BY <1>1, <1>6, <2>1, OrderSent DEF Sides
    <2>3. work' = [work EXCEPT ![t] = [work[t] EXCEPT !.at = "placed", !.quantity = q]]
      BY <1>6
    <2>4. [work[t] EXCEPT !.at = "placed", !.quantity = q] \in Handler(Len(heap))
      BY <1>3, <2>1, PlacedType
    <2>5. TypeOK'
      BY <1>2, <1>3, <1>6, <2>2, <2>3, <2>4, SessionFields, StepTypes
    <2> QED BY <2>2, <2>5
  <1> QED BY <1>4, <1>5, <1>6 DEF EngineBuy, BrokerIdle

LEMMA EngineSellTypes ==
  ASSUME AnySize, TypeOK, Prepared, NEW t \in Loops, EngineSell(t)
  PROVE  TypeOK' /\ BrokerActs(t)
  <1> DEFINE w == work[t]
             q == heap[w.position].quantity
  <1>1. /\ w \in Handler(Len(heap)) /\ w.symbol \in Symbols /\ w.price \in Nat
        /\ w.position \in 1..Len(heap)
    <2>1. work[t] \in Handler(Len(heap)) /\ Len(heap) \in Nat /\ w.at = "decide" /\ w.side = "SELL"
      BY SessionFields DEF EngineSell, Threads
    <2>2. w.position # 0
      BY <2>1 DEF Prepared
    <2> QED BY <2>1, <2>2, HandlerFields
  <1>2. q \in Nat
    <2>1. heap[w.position] \in Broker!Positions
      BY <1>1, SessionFields DEF Broker!TypeOK
    <2> QED BY <2>1 DEF Broker!Positions
  <1>3. /\ Broker!PlaceOrder(t, [symbol |-> w.symbol, side |-> "SELL",
                                 quantity |-> q, price |-> w.price])
        /\ work' = [work EXCEPT ![t] = [work[t] EXCEPT !.at = "placed", !.quantity = q]]
        /\ UNCHANGED <<day, riskVars, rows, alerts, faults>>
    BY DEF EngineSell
  <1> HIDE DEF q
  <1>4. BrokerActs(t) /\ heap' = heap
    BY <1>1, <1>2, <1>3, OrderSent DEF Sides
  <1>5. [work[t] EXCEPT !.at = "placed", !.quantity = q] \in Handler(Len(heap))
    BY <1>2, PlacedType DEF Threads
  <1>6. TypeOK'
    BY <1>3, <1>4, <1>5, SessionFields, StepTypes DEF riskVars, Threads
  <1> QED BY <1>4, <1>6

LEMMA EngineRecordBuyTypes ==
  ASSUME AnySize, TypeOK, NEW t \in Loops, EngineRecordBuy(t)
  PROVE  TypeOK' /\ BrokerIdle
  <1>1. work[t].quantity \in Nat /\ 0 \in Int /\ t \in Threads
    BY SessionFields, HandlerFields DEF Threads
  <1>2. Insert(t, work[t].quantity, 0) /\ Done(t) /\ UNCHANGED <<brokerVars, day, riskVars, alerts, faults>>
    BY DEF EngineRecordBuy
  <1>3. rows' \in Seq(Row)
    BY <1>1, <1>2, RowType
  <1> QED BY <1>1, <1>2, <1>3, SessionFields, DoneTypes DEF BrokerIdle, riskVars

\* What a sale made, of an object that is there.
LEMMA SaleTypes ==
  ASSUME TypeOK, NEW w \in Handler(Len(heap)), w.position # 0
  PROVE  /\ heap[w.position].quantity \in Nat
         /\ (w.price - heap[w.position].avg) * heap[w.position].quantity \in Int
  <1>1. w.position \in 1..Len(heap) /\ w.price \in Nat
    BY SessionFields, HandlerFields
  <1>2. heap[w.position] \in Broker!Positions
    BY <1>1, SessionFields DEF Broker!TypeOK
  <1>3. heap[w.position].quantity \in Nat /\ heap[w.position].avg \in Nat
    BY <1>2 DEF Broker!Positions
  <1> QED BY <1>1, <1>3

LEMMA EngineRecordSellTypes ==
  ASSUME AnySize, TypeOK, Prepared, NEW t \in Loops, EngineRecordSell(t)
  PROVE  TypeOK' /\ BrokerIdle
  <1> DEFINE w == work[t]
             pos == heap[w.position]
             pnl == (w.price - pos.avg) * pos.quantity
             w1 == [work[t] EXCEPT !.at = "risk"]
             w2 == [w1 EXCEPT !.pnl = pnl]
  <1>1. w \in Handler(Len(heap)) /\ w.position # 0 /\ t \in Threads
    BY SessionFields DEF Threads, EngineRecordSell, Returned, Prepared
  <1>2. pos.quantity \in Nat /\ pnl \in Int
    BY <1>1, SaleTypes
  <1>3. /\ Insert(t, pos.quantity, pnl) /\ work' = [work EXCEPT ![t] = w2]
        /\ UNCHANGED <<brokerVars, day, riskVars, alerts, faults>>
    BY DEF EngineRecordSell
  <1> HIDE DEF pnl
  <1>4. rows' \in Seq(Row)
    BY <1>1, <1>2, <1>3, RowType
  <1>5. w1 \in Handler(Len(heap))
    BY <1>1, HandlerSet DEF Stages
  <1> HIDE DEF w1
  <1>6. w2 \in Handler(Len(heap))
    BY <1>2, <1>5, HandlerSet
  <1> HIDE DEF w2
  <1>7. BrokerIdle /\ heap' = heap
    BY <1>3 DEF BrokerIdle, brokerVars
  <1> QED BY <1>1, <1>3, <1>4, <1>6, <1>7, SessionFields, StepTypes DEF riskVars

LEMMA RecordPnlTypes ==
  ASSUME AnySize, TypeOK, NEW t \in Loops, RecordPnl(t)
  PROVE  TypeOK' /\ BrokerIdle
  <1>1. PnlToday \in Int /\ work[t].pnl \in Int /\ day \in 0..day /\ t \in Threads
    BY SessionFields, HandlerFields, PnlType DEF Threads
  <1>2. /\ riskDay' = day /\ dailyPnl' = PnlToday + work[t].pnl /\ Done(t)
        /\ UNCHANGED <<brokerVars, day, rows, alerts, faults>>
    BY DEF RecordPnl
  <1>3. dailyPnl' \in Int
    BY <1>1, <1>2
  <1> QED BY <1>1, <1>2, <1>3, SessionFields, DoneTypes DEF BrokerIdle

LEMMA BotCommandTypes ==
  ASSUME AnySize, TypeOK, NEW t \in Bots, NEW s \in Symbols, NEW side \in Sides,
         NEW q \in BotQuantities, BotCommand(t, s, side, q)
  PROVE  TypeOK' /\ BrokerIdle
  <1> DEFINE entry == IF side = "BUY" \/ book[s] = 0 THEN 0 ELSE heap[book[s]].avg
             price == LatestPrice(s)
  <1>1. q \in Nat /\ Len(heap) \in Nat
    BY SessionFields, LiveAssumption DEF AnySize
  <1>2. entry \in Nat /\ price \in Nat
    <2>1. CASE book[s] = 0
      BY <2>1 DEF LatestPrice
    <2>2. CASE book[s] # 0
      <3>1. heap[book[s]] \in Broker!Positions
        BY <2>2, SessionFields DEF Broker!TypeOK
      <3>2. heap[book[s]].avg \in Nat /\ heap[book[s]].price \in Nat
        BY <3>1 DEF Broker!Positions
      <3> QED BY <2>2, <3>2 DEF LatestPrice
    <2> QED BY <2>1, <2>2
  <1>3. work' = [work EXCEPT ![t] = CommandOf(s, side, q, price, entry)]
    BY Zenon DEF BotCommand, CommandOf
  <1> HIDE DEF entry, price
  <1>4. CommandOf(s, side, q, price, entry) \in Handler(Len(heap))
    BY <1>1, <1>2, CommandType
  <1>5. UNCHANGED <<brokerVars, day, riskVars, rows, alerts, faults>>
    BY DEF BotCommand
  <1>6. BrokerIdle /\ heap' = heap
    BY <1>5 DEF BrokerIdle, brokerVars
  <1> QED BY <1>3, <1>4, <1>5, <1>6, SessionFields, StepTypes DEF riskVars, Threads

LEMMA BotPlaceTypes ==
  ASSUME AnySize, TypeOK, CommandsAreSized, NEW t \in Bots, BotPlace(t)
  PROVE  TypeOK' /\ BrokerActs(t)
  <1> DEFINE w == work[t]
  <1>1. /\ w \in Handler(Len(heap)) /\ w.symbol \in Symbols /\ w.side \in Sides
        /\ w.price \in Nat /\ w.quantity \in Nat /\ w.quantity > 0 /\ t \in Threads
    <2>1. w \in Handler(Len(heap)) /\ w.quantity # 0 /\ t \in Threads
      BY SessionFields DEF BotPlace, CommandsAreSized, Threads
    <2> QED BY <2>1, HandlerFields
  <1>2. /\ Broker!PlaceOrder(t, [symbol |-> w.symbol, side |-> w.side,
                                 quantity |-> w.quantity, price |-> w.price])
        /\ work' = [work EXCEPT ![t] = [work[t] EXCEPT !.at = "placed"]]
        /\ UNCHANGED <<day, riskVars, rows, alerts, faults>>
    BY DEF BotPlace
  <1>3. BrokerActs(t) /\ heap' = heap
    BY <1>1, <1>2, OrderSent
  <1>4. [work[t] EXCEPT !.at = "placed"] \in Handler(Len(heap))
    BY <1>1, HandlerSet DEF Stages
  <1>5. TypeOK'
    BY <1>1, <1>2, <1>3, <1>4, SessionFields, StepTypes DEF riskVars
  <1> QED BY <1>3, <1>5

LEMMA BotRecordTypes ==
  ASSUME AnySize, TypeOK, NEW t \in Bots, BotRecord(t)
  PROVE  TypeOK' /\ BrokerIdle
  <1> DEFINE w == work[t]
             pnl == IF w.side = "SELL" /\ w.entry # 0 THEN (w.price - w.entry) * w.quantity ELSE 0
  <1>1. w.quantity \in Nat /\ w.price \in Nat /\ w.entry \in Nat /\ t \in Threads
    BY SessionFields, HandlerFields DEF Threads
  <1>2. pnl \in Int
    BY <1>1
  <1>3. Insert(t, w.quantity, pnl) /\ Done(t) /\ UNCHANGED <<brokerVars, day, riskVars, alerts, faults>>
    BY DEF BotRecord
  <1> HIDE DEF pnl
  <1>4. rows' \in Seq(Row)
    BY <1>1, <1>2, <1>3, RowType
  <1> QED BY <1>1, <1>3, <1>4, SessionFields, DoneTypes DEF BrokerIdle, riskVars

LEMMA UnfilledTypes ==
  ASSUME AnySize, TypeOK, NEW t \in Threads, Rejected(t) \/ Raised(t) \/ InsertFails(t)
  PROVE  TypeOK' /\ BrokerIdle
  <1>1. Done(t) /\ UNCHANGED <<brokerVars, day, riskVars, rows>>
    BY DEF Rejected, Raised, InsertFails
  <1>2. alerts' \in Nat
    BY SessionFields DEF Rejected, Raised, InsertFails
  <1>3. faults' \in 0..MaxFaults
    <2>1. faults \in 0..MaxFaults /\ MaxFaults \in Nat
      BY SessionFields, LiveAssumption
    <2>2. CASE faults' = faults
      BY <2>1, <2>2
    <2>3. CASE faults' = faults + 1 /\ faults < MaxFaults
      BY <2>1, <2>3
    <2> QED BY <2>2, <2>3 DEF Rejected, Raised, InsertFails
  <1> QED BY <1>1, <1>2, <1>3, SessionFields, DoneTypes DEF BrokerIdle, riskVars

LEMMA BrokerStepTypes ==
  ASSUME AnySize, TypeOK, NEW t \in Threads, BrokerStep(t)
  PROVE  TypeOK' /\ BrokerActs(t)
  <1>1. Broker!Step(t) /\ UNCHANGED <<day, riskVars, rows, alerts, faults, work>>
    BY DEF BrokerStep
  <1>2. BrokerActs(t)
    BY <1>1, SameActions DEF BrokerActs
  <1>3. Broker!TypeOK'
    BY <1>2, SessionFields, BrokerKeepsTypes
  <1>4. Len(heap) <= Len(heap') /\ Len(heap) \in Nat /\ Len(heap') \in Nat
    BY <1>1, <1>3, SessionFields, HeapGrows DEF Broker!TypeOK
  <1>5. work' \in [Threads -> Handler(Len(heap'))]
    BY <1>1, <1>4, SessionFields, HandlerGrows
  <1>6. TypeOK'
    BY <1>1, <1>3, <1>5, SessionFields DEF riskVars, TypeOK, Handler, Row
  <1> QED BY <1>2, <1>6

LEMMA MidnightTypes ==
  ASSUME AnySize, TypeOK, Midnight
  PROVE  TypeOK' /\ BrokerIdle
  <1>1. BrokerIdle /\ UNCHANGED <<brokerVars, riskVars, rows, alerts, faults, work>>
    BY DEF Midnight, BrokerIdle
  <1>2. day' \in 0..MaxDay /\ riskDay' \in 0..day'
    BY <1>1, SessionFields, LiveAssumption DEF Midnight, riskVars
  <1>3. Broker!TypeOK'
    BY <1>1, SessionFields, BrokerKeepsTypes
  <1> QED BY <1>1, <1>2, <1>3, SessionFields DEF riskVars, brokerVars, TypeOK, Handler, Row

\* What a handler's step makes of its stage, side and the rest.
LEMMA FieldsKept ==
  ASSUME NEW n, NEW w \in Handler(n), NEW a, NEW x
  PROVE  /\ [w EXCEPT !.at = a].at = a /\ [w EXCEPT !.at = a].side = w.side
         /\ [w EXCEPT !.at = a].price = w.price /\ [w EXCEPT !.at = a].position = w.position
         /\ [w EXCEPT !.at = a].quantity = w.quantity /\ [w EXCEPT !.at = a].pnl = w.pnl
         /\ [w EXCEPT !.at = a].symbol = w.symbol
         /\ [w EXCEPT !.at = a, !.held = x].at = a /\ [w EXCEPT !.at = a, !.held = x].side = w.side
         /\ [w EXCEPT !.at = a, !.held = x].price = w.price
         /\ [w EXCEPT !.at = a, !.portfolio = x].at = a
         /\ [w EXCEPT !.at = a, !.portfolio = x].side = w.side
         /\ [w EXCEPT !.at = a, !.portfolio = x].price = w.price
         /\ [w EXCEPT !.at = a, !.quantity = x].at = a
         /\ [w EXCEPT !.at = a, !.quantity = x].side = w.side
         /\ [w EXCEPT !.at = a, !.quantity = x].price = w.price
         /\ [w EXCEPT !.at = a, !.quantity = x].symbol = w.symbol
         /\ [w EXCEPT !.at = a, !.quantity = x].quantity = x
         /\ [w EXCEPT !.at = a, !.quantity = x].position = w.position
         /\ [w EXCEPT !.at = a, !.pnl = x].at = a
         /\ [w EXCEPT !.at = a, !.pnl = x].pnl = x
         /\ [w EXCEPT !.at = a, !.held = {}, !.portfolio = x].at = a
         /\ [w EXCEPT !.at = a, !.held = {}, !.portfolio = x].side = w.side
         /\ [w EXCEPT !.at = a, !.held = {}, !.portfolio = x].price = w.price
  BY DEF Handler

LEMMA SignalFields ==
  ASSUME NEW stage, NEW s, NEW side, NEW p, NEW obj
  PROVE  LET w == SignalOf(stage, s, side, p, obj)
         IN  /\ w.at = stage /\ w.symbol = s /\ w.side = side /\ w.price = p /\ w.position = obj
  BY Zenon DEF SignalOf, NoWork

LEMMA CommandFields ==
  ASSUME NEW s, NEW side, NEW q, NEW p, NEW entry
  PROVE  LET w == CommandOf(s, side, q, p, entry)
         IN  /\ w.at = "reply" /\ w.symbol = s /\ w.side = side /\ w.price = p
             /\ w.quantity = q /\ w.entry = entry
  BY Zenon DEF CommandOf, NoWork

Ready(t, w) ==
  /\ t \in Loops =>
       /\ w.at \in {"account", "cash", "sum", "decide"} => w.price \in SignalPrices
       /\ w.at \in {"account", "cash", "sum"} => w.side = "BUY"
       /\ w.at \in {"decide", "placed"} /\ w.side = "SELL" => w.position # 0
  /\ t \in Bots => (w.at = "reply" => w.quantity # 0)

LEMMA ReadyKept ==
  ASSUME TypeOK, Prepared, CommandsAreSized, NEW t \in Threads, NEW w, Ready(t, w),
         work' = [work EXCEPT ![t] = w]
  PROVE  Prepared' /\ CommandsAreSized'
  <1>1. /\ work'[t] = w /\ \A u \in Threads \ {t} : work'[u] = work[u]
        /\ Loops \subseteq Threads /\ Bots \subseteq Threads
    BY SessionFields DEF Threads
  <1>2. ASSUME NEW u \in Threads PROVE Ready(u, work'[u])
    <2>1. CASE u = t
      BY <1>1, <2>1
    <2>2. CASE u # t
      BY <1>1, <2>2 DEF Prepared, CommandsAreSized, Ready
    <2> QED BY <2>1, <2>2
  <1> QED BY <1>1, <1>2 DEF Prepared, CommandsAreSized, Ready

LEMMA NoWorkReady == ASSUME NEW t PROVE Ready(t, NoWork)
  <1>1. NoWork.at = "idle"
    BY NoWorkIs
  <1> QED BY <1>1 DEF Ready

LEMMA NextPrepared ==
  ASSUME AnySize, TypeOK, Prepared, CommandsAreSized, Next
  PROVE  Prepared' /\ CommandsAreSized'
  <1> DEFINE P == Prepared' /\ CommandsAreSized'
  <1>0. Loops \subseteq Threads /\ Bots \subseteq Threads /\ Loops \cap Bots = {}
    BY LiveAssumption DEF Threads
  <1>1. ASSUME NEW t \in Threads, Done(t) PROVE P
    BY <1>1, NoWorkReady, ReadyKept DEF Done
  <1>2. ASSUME NEW t \in Loops, NEW s \in Symbols, NEW side \in Sides, NEW p \in SignalPrices,
               TakeSignal(t, s, side, p)
        PROVE  P
    <2> DEFINE stage == IF side = "BUY" THEN "account" ELSE "decide"
               w == SignalOf(stage, s, side, p, book[s])
    <2>1. work' = [work EXCEPT ![t] = w] /\ (side = "BUY" <=> book[s] = 0)
      BY <1>2, Zenon DEF TakeSignal, SignalOf
    <2>2. w.at = stage /\ w.side = side /\ w.price = p /\ w.position = book[s]
      BY SignalFields
    <2> HIDE DEF w
    <2>3. Ready(t, w)
      BY <1>0, <2>1, <2>2 DEF Ready, Sides
    <2> QED BY <1>0, <2>1, <2>3, ReadyKept
  <1>3. ASSUME NEW t \in Loops, ListPositions(t) PROVE P
    <2> DEFINE held == {book[s] : s \in Symbols} \ {0}
               w == [work[t] EXCEPT !.at = "cash", !.held = held]
    <2>1. work' = [work EXCEPT ![t] = w] /\ work[t].at = "account"
      BY <1>3 DEF ListPositions
    <2> HIDE DEF held
    <2>2. w.at = "cash" /\ w.side = work[t].side /\ w.price = work[t].price
      BY <1>0, SessionFields, FieldsKept
    <2> HIDE DEF w
    <2>3. Ready(t, w)
      BY <1>0, <2>1, <2>2 DEF Ready, Prepared
    <2> QED BY <1>0, <2>1, <2>3, ReadyKept
  <1>4. ASSUME NEW t \in Loops, ReadCash(t) PROVE P
    <2> DEFINE w == [work[t] EXCEPT !.at = "sum", !.portfolio = cash]
    <2>1. work' = [work EXCEPT ![t] = w] /\ work[t].at = "cash"
      BY <1>4 DEF ReadCash
    <2>2. w.at = "sum" /\ w.side = work[t].side /\ w.price = work[t].price
      BY <1>0, SessionFields, FieldsKept
    <2> HIDE DEF w
    <2>3. Ready(t, w)
      BY <1>0, <2>1, <2>2 DEF Ready, Prepared
    <2> QED BY <1>0, <2>1, <2>3, ReadyKept
  <1>5. ASSUME NEW t \in Loops, SumPositions(t) PROVE P
    <2> DEFINE total == work[t].portfolio
                          + SumFunction([obj \in work[t].held |-> Broker!MarketValue(heap[obj])])
               w == [work[t] EXCEPT !.at = "decide", !.held = {}, !.portfolio = total]
    <2>1. work' = [work EXCEPT ![t] = w] /\ work[t].at = "sum"
      BY <1>5 DEF SumPositions
    <2> HIDE DEF total
    <2>2. w.at = "decide" /\ w.side = work[t].side /\ w.price = work[t].price
      BY <1>0, SessionFields, FieldsKept
    <2> HIDE DEF w
    <2>3. Ready(t, w)
      BY <1>0, <2>1, <2>2 DEF Ready, Prepared
    <2> QED BY <1>0, <2>1, <2>3, ReadyKept
  <1>6. ASSUME NEW t \in Loops, NEW q, work[t].at = "decide",
               work' = [work EXCEPT ![t].at = "placed", ![t].quantity = q]
        PROVE  P
    <2> DEFINE w == [work[t] EXCEPT !.at = "placed", !.quantity = q]
    <2>1. work' = [work EXCEPT ![t] = w]
      BY <1>6
    <2>2. w.at = "placed" /\ w.side = work[t].side /\ w.position = work[t].position
      BY <1>0, SessionFields, FieldsKept
    <2> HIDE DEF w
    <2>3. Ready(t, w)
      BY <1>0, <1>6, <2>2 DEF Ready, Prepared
    <2> QED BY <1>0, <2>1, <2>3, ReadyKept
  <1>7. ASSUME NEW t \in Loops, EngineBuy(t) \/ EngineSell(t) PROVE P
    <2>1. Done(t) \/ \E q : work' = [work EXCEPT ![t].at = "placed", ![t].quantity = q]
      BY <1>7 DEF EngineBuy, EngineSell
    <2>2. work[t].at = "decide"
      BY <1>7 DEF EngineBuy, EngineSell
    <2> QED BY <1>0, <1>1, <1>6, <2>1, <2>2
  <1>8. ASSUME NEW t \in Loops, EngineRecordSell(t) PROVE P
    <2> DEFINE pnl == (work[t].price - heap[work[t].position].avg) * heap[work[t].position].quantity
               w == [work[t] EXCEPT !.at = "risk", !.pnl = pnl]
    <2>1. work' = [work EXCEPT ![t] = w]
      BY <1>8 DEF EngineRecordSell
    <2> HIDE DEF pnl
    <2>2. w.at = "risk"
      BY <1>0, SessionFields, FieldsKept
    <2> HIDE DEF w
    <2>3. Ready(t, w)
      BY <1>0, <2>2 DEF Ready
    <2> QED BY <1>0, <2>1, <2>3, ReadyKept
  <1>9. ASSUME NEW t \in Bots, NEW s \in Symbols, NEW side \in Sides, NEW q \in BotQuantities,
               BotCommand(t, s, side, q)
        PROVE  P
    <2> DEFINE entry == IF side = "BUY" \/ book[s] = 0 THEN 0 ELSE heap[book[s]].avg
               w == CommandOf(s, side, q, LatestPrice(s), entry)
    <2>1. work' = [work EXCEPT ![t] = w]
      BY <1>9, Zenon DEF BotCommand, CommandOf
    <2> HIDE DEF entry
    <2>2. w.at = "reply" /\ w.quantity = q /\ q # 0
      BY CommandFields, LiveAssumption DEF AnySize
    <2> HIDE DEF w
    <2>3. Ready(t, w)
      BY <1>0, <2>2 DEF Ready
    <2> QED BY <1>0, <2>1, <2>3, ReadyKept
  <1>10. ASSUME NEW t \in Bots, BotPlace(t) PROVE P
    <2> DEFINE w == [work[t] EXCEPT !.at = "placed"]
    <2>1. work' = [work EXCEPT ![t] = w]
      BY <1>10 DEF BotPlace
    <2>2. w.at = "placed"
      BY <1>0, SessionFields, FieldsKept
    <2> HIDE DEF w
    <2>3. Ready(t, w)
      BY <1>0, <2>2 DEF Ready
    <2> QED BY <1>0, <2>1, <2>3, ReadyKept
  <1>11. CASE work' = work
    BY <1>11 DEF Prepared, CommandsAreSized
  <1>12. ASSUME NEW t \in Loops, EngineRecordBuy(t) \/ RecordPnl(t) PROVE P
    BY <1>0, <1>1, <1>12 DEF EngineRecordBuy, RecordPnl
  <1>13. ASSUME NEW t \in Bots, BotRecord(t) PROVE P
    BY <1>0, <1>1, <1>13 DEF BotRecord
  <1>14. ASSUME NEW t \in Threads, Rejected(t) \/ Raised(t) \/ InsertFails(t) PROVE P
    BY <1>1, <1>14 DEF Rejected, Raised, InsertFails
  <1>15. ASSUME NEW t \in Threads, BrokerStep(t) PROVE P
    BY <1>11, <1>15 DEF BrokerStep
  <1>16. CASE Midnight
    BY <1>11, <1>16 DEF Midnight
  <1> HIDE DEF P
  <1> QED BY <1>2, <1>3, <1>4, <1>5, <1>7, <1>8, <1>9, <1>10, <1>12, <1>13, <1>14, <1>15, <1>16
          DEF Next, Sides, P

\* The session's types, with what its handlers have made sure of.
SessionInv == TypeOK /\ Prepared /\ CommandsAreSized

LEMMA InitSessionInv == AnySize /\ Init => SessionInv
  <1> SUFFICES ASSUME AnySize, Init PROVE SessionInv
    OBVIOUS
  <1>1. Broker!TypeOK
    <2>1. Proved!Init => Proved!TypeOK
      BY SessionSetting, Proved!InitTypes
    <2> QED BY <2>1, SameInit, SameTypes DEF Init
  <1>2. heap = <<>> /\ rows = <<>> /\ rows \in Seq(Row) /\ Len(heap) \in Nat
    BY DEF Init, Broker!Init
  <1>3. work = [t \in Threads |-> NoWork] /\ NoWork \in Handler(Len(heap))
    BY <1>2, NoWorkType DEF Init
  <1>4. day \in 0..MaxDay /\ riskDay \in 0..day /\ dailyPnl \in Int /\ alerts \in Nat
        /\ faults \in 0..MaxFaults
    BY LiveAssumption DEF Init
  <1>5. TypeOK
    BY <1>1, <1>2, <1>3, <1>4 DEF TypeOK, Handler, Row
  <1>6. Prepared /\ CommandsAreSized
    BY <1>3, NoWorkIs DEF Prepared, CommandsAreSized, Threads
  <1> QED BY <1>5, <1>6 DEF SessionInv

\* A step of the session, as its broker sees it.
LEMMA NextSessionInv ==
  ASSUME AnySize, SessionInv, [Next]_vars
  PROVE  SessionInv' /\ (BrokerIdle \/ \E t \in Threads : BrokerActs(t))
  <1> DEFINE Q == TypeOK' /\ (BrokerIdle \/ \E t \in Threads : BrokerActs(t))
  <1>0. TypeOK /\ Prepared /\ CommandsAreSized /\ Loops \subseteq Threads /\ Bots \subseteq Threads
    BY DEF SessionInv, Threads
  <1>1. CASE UNCHANGED vars
    <2>1. TypeOK' /\ BrokerIdle
      <3>1. BrokerIdle /\ UNCHANGED <<day, riskVars, rows, alerts, faults, work>>
        BY <1>1 DEF vars, BrokerIdle
      <3>2. Broker!TypeOK'
        BY <1>0, <3>1, SessionFields, BrokerKeepsTypes
      <3> QED BY <1>0, <3>1, <3>2, SessionFields DEF riskVars, brokerVars, BrokerIdle, TypeOK, Handler, Row
    <2>2. Prepared' /\ CommandsAreSized'
      BY <1>0, <1>1 DEF vars, Prepared, CommandsAreSized
    <2> QED BY <2>1, <2>2 DEF SessionInv
  <1>2. CASE Next
    <2>1. ASSUME NEW t \in Loops, NEW s \in Symbols, NEW side \in Sides, NEW p \in SignalPrices,
                 TakeSignal(t, s, side, p)
          PROVE  Q
      BY <1>0, <2>1, TakeSignalTypes
    <2>2. ASSUME NEW t \in Loops, ListPositions(t) \/ ReadCash(t) \/ SumPositions(t)
          PROVE  Q
      BY <1>0, <2>2, ListPositionsTypes, ReadCashTypes, SumPositionsTypes
    <2>3. ASSUME NEW t \in Loops, EngineBuy(t) \/ EngineSell(t)
          PROVE  Q
      BY <1>0, <2>3, EngineBuyTypes, EngineSellTypes
    <2>4. ASSUME NEW t \in Loops, EngineRecordBuy(t) \/ EngineRecordSell(t) \/ RecordPnl(t)
          PROVE  Q
      BY <1>0, <2>4, EngineRecordBuyTypes, EngineRecordSellTypes, RecordPnlTypes
    <2>5. ASSUME NEW t \in Bots, NEW s \in Symbols, NEW side \in Sides, NEW q \in BotQuantities,
                 BotCommand(t, s, side, q)
          PROVE  Q
      BY <1>0, <2>5, BotCommandTypes
    <2>6. ASSUME NEW t \in Bots, BotPlace(t) \/ BotRecord(t)
          PROVE  Q
      BY <1>0, <2>6, BotPlaceTypes, BotRecordTypes
    <2>7. ASSUME NEW t \in Threads, BrokerStep(t) \/ Rejected(t) \/ Raised(t) \/ InsertFails(t)
          PROVE  Q
      BY <1>0, <2>7, BrokerStepTypes, UnfilledTypes
    <2>8. ASSUME Midnight PROVE Q
      BY <1>0, <2>8, MidnightTypes
    <2> HIDE DEF Q
    <2>9. Q
      BY <1>2, <2>1, <2>2, <2>3, <2>4, <2>5, <2>6, <2>7, <2>8 DEF Next, Sides
    <2>10. Prepared' /\ CommandsAreSized'
      BY <1>0, <1>2, NextPrepared
    <2> QED BY <2>9, <2>10 DEF SessionInv, Q
  <1> QED BY <1>1, <1>2

\* The session's state stays in its type, whatever its threads, sizes and prices: every
\* reference a handler holds points into the heap, every row of the table is a trade's
\* (_execute_signal_direct, _cmd_buy, _cmd_sell).
THEOREM SessionTypes == ASSUME AnySize PROVE Spec => []TypeOK
  <1>1. SessionInv => TypeOK
    BY DEF SessionInv
  <1>2. Init => SessionInv
    BY InitSessionInv
  <1>3. SessionInv /\ [Next]_vars => SessionInv'
    BY NextSessionInv
  <1> QED BY <1>1, <1>2, <1>3, PTL DEF Spec

\* Every session is a session of PaperBroker: the engine's threads and the bot's reach the
\* broker through place_order only, with orders it takes.
THEOREM SessionIsBrokered == ASSUME AnySize PROVE Spec => Proved!Spec
  <1>1. Init => Proved!Init
    BY SameInit DEF Init
  <1>2. SessionInv /\ [Next]_vars => [Proved!Next]_Proved!vars
    <2> SUFFICES ASSUME SessionInv, [Next]_vars PROVE [Proved!Next]_Proved!vars
      OBVIOUS
    <2>1. BrokerIdle \/ \E t \in Threads : BrokerActs(t)
      BY NextSessionInv
    <2> QED BY <2>1 DEF BrokerIdle, BrokerActs, Proved!Next, Proved!vars, brokerVars
  <1>3. Init => SessionInv
    BY InitSessionInv
  <1>4. SessionInv /\ [Next]_vars => SessionInv'
    BY NextSessionInv
  <1> QED BY <1>1, <1>2, <1>3, <1>4, PTL DEF Spec, Proved!Spec

\* So what is proved of the broker holds in every session: its cash never runs negative and
\* is what its trade log says, its dictionary lists held positions, no share is lost.
THEOREM SessionBooks ==
  ASSUME AnySize
  PROVE  Spec => [](/\ Proved!NonNegativeCash /\ Proved!PositionsAreHeld
                    /\ Proved!CashMatchesLog /\ Proved!SharesConserved)
  <1>1. Proved!BrokerSetting
    BY SessionSetting
  <1>2. Proved!Spec => []Proved!NonNegativeCash
    BY <1>1, Proved!NeverOverdrawn
  <1>3. Proved!Spec => []Proved!PositionsAreHeld
    BY <1>1, Proved!PositionsHeld
  <1>4. Proved!Spec => [](Proved!CashMatchesLog /\ Proved!SharesConserved)
    BY <1>1, Proved!BooksBalance
  <1> QED BY <1>2, <1>3, <1>4, SessionIsBrokered, PTL

\* However many loops and bots trade in a session, each of their orders moves its cash and
\* its shares at once, within the funds and the shares there are, or moves nothing.
THEOREM SessionOrdersAreAtomic ==
  ASSUME AnySize
  PROVE  Spec => Proved!OrdersAreAtomic
  <1>1. Proved!BrokerSetting
    BY SessionSetting
  <1>2. Proved!Spec => Proved!OrdersAreAtomic
    BY <1>1, Proved!OrdersMoveAtOnce
  <1> QED BY <1>2, SessionIsBrokered, PTL

\* Alone, the session's account is a ledger of the positions it lists, too: whatever the
\* engine takes into its head to trade, its trade log chains, and the log is the full
\* history of its positions.
THEOREM AloneSessionIsLedger ==
  ASSUME AnySize, NEW t, Threads = {t}
  PROVE  Spec => Proved!ImplementsLedger /\ []Proved!LogIsChained /\ []Proved!FullTradeHistory
  <1>1. Proved!BrokerSetting
    BY SessionSetting
  <1>2. Proved!Spec => Proved!ImplementsLedger
    BY <1>1, Proved!SingleCallerRefinesLedger
  <1>3. Proved!Spec => [](Proved!LogIsChained /\ Proved!SoleBooks)
    BY <1>1, Proved!LogChains
  <1>4. Proved!Spec => []Proved!FullTradeHistory
    BY <1>1, Proved!SoleHistoryIsFull
  <1> QED BY <1>2, <1>3, <1>4, SessionIsBrokered, PTL
-----------------------------------------------------------------------------
\* The purchases in the trade table.

\* An order under way is the one its handler holds.
IsOrderOf(o, w) ==
  o.symbol = w.symbol /\ o.side = w.side /\ o.quantity = w.quantity /\ o.price = w.price
OrdersAreTheirs ==
  \A t \in Threads : calls[t].at # "idle" => IsOrderOf(calls[t].order, work[t])

\* A handler moves on with no call under way; its order is not waiting to be recorded any
\* more, or not yet.
HandlerMoves(t) ==
  /\ UNCHANGED <<cash, book, heap, tradeLog, failed, calls>>
  /\ calls[t].at = "idle" /\ work'[t].at # "placed"
  /\ \A u \in Threads \ {t} : work'[u] = work[u]

LEMMA MovesOn ==
  ASSUME TypeOK, CallsAreAwaited, NEW t \in Threads, NEW w, work' = [work EXCEPT ![t] = w],
         w.at # "placed", UNCHANGED brokerVars,
         work[t].at # "placed" \/ ~Broker!Busy(t)
  PROVE  HandlerMoves(t)
  BY SessionFields DEF HandlerMoves, brokerVars, CallsAreAwaited, Broker!Busy

\* Its order is recorded, or will not be.
LEMMA DoneMoves ==
  ASSUME TypeOK, CallsAreAwaited, NEW t \in Threads, Done(t), UNCHANGED brokerVars,
         work[t].at # "placed" \/ ~Broker!Busy(t)
  PROVE  HandlerMoves(t)
  BY MovesOn, NoWorkIs DEF Done

LEMMA TakingMoves ==
  ASSUME TypeOK, CallsAreAwaited, NEW t \in Loops, NEW s, NEW side, NEW p,
         TakeSignal(t, s, side, p)
  PROVE  HandlerMoves(t)
  <1> DEFINE stage == IF side = "BUY" THEN "account" ELSE "decide"
             w == SignalOf(stage, s, side, p, book[s])
  <1>1. work' = [work EXCEPT ![t] = w] /\ work[t].at = "idle" /\ UNCHANGED brokerVars
    BY Zenon DEF TakeSignal, SignalOf
  <1>2. w.at = stage
    BY SignalFields
  <1> HIDE DEF w
  <1> QED BY <1>1, <1>2, MovesOn DEF Threads

LEMMA ReadingMoves ==
  ASSUME TypeOK, CallsAreAwaited, NEW t \in Loops,
         ListPositions(t) \/ ReadCash(t) \/ SumPositions(t)
  PROVE  HandlerMoves(t)
  <1>0. t \in Threads /\ work[t] \in Handler(Len(heap))
    BY SessionFields DEF Threads
  <1>1. ASSUME NEW a, a \in {"cash", "sum", "decide"}, NEW w, work' = [work EXCEPT ![t] = w],
               w.at = a, work[t].at # "placed", UNCHANGED brokerVars
        PROVE  HandlerMoves(t)
    BY <1>0, <1>1, MovesOn
  <1>2. CASE ListPositions(t)
    <2> DEFINE x == {book[s] : s \in Symbols} \ {0}
               w == [work[t] EXCEPT !.at = "cash", !.held = x]
    <2>1. work' = [work EXCEPT ![t] = w] /\ work[t].at # "placed" /\ UNCHANGED brokerVars
      BY <1>2 DEF ListPositions
    <2> HIDE DEF x
    <2>2. w.at = "cash"
      BY <1>0, FieldsKept
    <2> HIDE DEF w
    <2> QED BY <1>1, <2>1, <2>2
  <1>3. CASE ReadCash(t)
    <2> DEFINE w == [work[t] EXCEPT !.at = "sum", !.portfolio = cash]
    <2>1. work' = [work EXCEPT ![t] = w] /\ work[t].at # "placed" /\ UNCHANGED brokerVars
      BY <1>3 DEF ReadCash
    <2>2. w.at = "sum"
      BY <1>0, FieldsKept
    <2> HIDE DEF w
    <2> QED BY <1>1, <2>1, <2>2
  <1>4. CASE SumPositions(t)
    <2> DEFINE x == work[t].portfolio
                      + SumFunction([obj \in work[t].held |-> Broker!MarketValue(heap[obj])])
               w == [work[t] EXCEPT !.at = "decide", !.held = {}, !.portfolio = x]
    <2>1. work' = [work EXCEPT ![t] = w] /\ work[t].at # "placed" /\ UNCHANGED brokerVars
      BY <1>4 DEF SumPositions
    <2> HIDE DEF x
    <2>2. w.at = "decide"
      BY <1>0, FieldsKept
    <2> HIDE DEF w
    <2> QED BY <1>1, <2>1, <2>2
  <1> QED BY <1>2, <1>3, <1>4

LEMMA CommandMoves ==
  ASSUME TypeOK, CallsAreAwaited, NEW t \in Bots, NEW s, NEW side, NEW q,
         BotCommand(t, s, side, q)
  PROVE  HandlerMoves(t)
  <1> DEFINE entry == IF side = "BUY" \/ book[s] = 0 THEN 0 ELSE heap[book[s]].avg
             w == CommandOf(s, side, q, LatestPrice(s), entry)
  <1>1. work' = [work EXCEPT ![t] = w] /\ work[t].at = "idle" /\ UNCHANGED brokerVars
    BY Zenon DEF BotCommand, CommandOf
  <1> HIDE DEF entry
  <1>2. w.at = "reply"
    BY CommandFields
  <1> HIDE DEF w
  <1> QED BY <1>1, <1>2, MovesOn DEF Threads

LEMMA SaleMoves ==
  ASSUME TypeOK, CallsAreAwaited, NEW t \in Loops, EngineRecordSell(t)
  PROVE  HandlerMoves(t) /\ work'[t].at = "risk"
  <1> DEFINE pnl == (work[t].price - heap[work[t].position].avg) * heap[work[t].position].quantity
             w == [work[t] EXCEPT !.at = "risk", !.pnl = pnl]
  <1>1. work' = [work EXCEPT ![t] = w] /\ ~Broker!Busy(t) /\ UNCHANGED brokerVars /\ t \in Threads
    BY DEF EngineRecordSell, Returned, Threads
  <1> HIDE DEF pnl
  <1>2. w.at = "risk"
    BY <1>1, SessionFields, FieldsKept
  <1> HIDE DEF w
  <1> QED BY <1>1, <1>2, SessionFields, MovesOn

\* An order is placed, with the size its handler holds.
Places(t) ==
  /\ \E o : /\ Broker!PlaceOrder(t, o) /\ IsOrderOf(o, work'[t])
  /\ work[t].at # "placed" /\ work'[t].at = "placed"
  /\ \A u \in Threads \ {t} : work'[u] = work[u]

LEMMA EnginePlaces ==
  ASSUME TypeOK, NEW t \in Loops, NEW side, NEW q, work[t].at = "decide", work[t].side = side,
         Broker!PlaceOrder(t, [symbol |-> work[t].symbol, side |-> side,
                               quantity |-> q, price |-> work[t].price]),
         work' = [work EXCEPT ![t].at = "placed", ![t].quantity = q]
  PROVE  Places(t)
  <1> DEFINE o == [symbol |-> work[t].symbol, side |-> side, quantity |-> q, price |-> work[t].price]
             w == [work[t] EXCEPT !.at = "placed", !.quantity = q]
  <1>1. work'[t] = w /\ (\A u \in Threads \ {t} : work'[u] = work[u]) /\ t \in Threads
    BY SessionFields DEF Threads
  <1>2. /\ w.at = "placed" /\ w.symbol = work[t].symbol /\ w.side = side /\ w.quantity = q
        /\ w.price = work[t].price
    BY <1>1, SessionFields, FieldsKept
  <1> HIDE DEF w
  <1>3. IsOrderOf(o, w)
    BY <1>2 DEF IsOrderOf
  <1> HIDE DEF o
  <1> QED BY <1>1, <1>2, <1>3 DEF Places, o

LEMMA BotPlaces ==
  ASSUME TypeOK, NEW t \in Bots, BotPlace(t)
  PROVE  Places(t)
  <1> DEFINE o == [symbol |-> work[t].symbol, side |-> work[t].side,
                   quantity |-> work[t].quantity, price |-> work[t].price]
             w == [work[t] EXCEPT !.at = "placed"]
  <1>1. work'[t] = w /\ (\A u \in Threads \ {t} : work'[u] = work[u]) /\ t \in Threads
        /\ work[t].at = "reply"
    BY SessionFields DEF Threads, BotPlace
  <1>2. /\ w.at = "placed" /\ w.symbol = work[t].symbol /\ w.side = work[t].side
        /\ w.quantity = work[t].quantity /\ w.price = work[t].price
    BY <1>1, SessionFields, FieldsKept
  <1> HIDE DEF w
  <1>3. IsOrderOf(o, w)
    BY <1>2 DEF IsOrderOf
  <1>4. Broker!PlaceOrder(t, o)
    BY DEF BotPlace
  <1> HIDE DEF o
  <1> QED BY <1>1, <1>2, <1>3, <1>4 DEF Places

\* The steps of a session by what they do to orders.
LEMMA StepKinds ==
  ASSUME TypeOK, CallsAreAwaited, Next
  PROVE  \/ \E t \in Threads :
              \/ Places(t) /\ UNCHANGED <<rows, faults>>
              \/ Broker!Step(t) /\ UNCHANGED <<rows, faults, work>>
              \/ HandlerMoves(t) /\ UNCHANGED <<rows, faults>> /\ ~Returned(t, "FILLED")
              \/ HandlerMoves(t) /\ UNCHANGED rows /\ faults' = faults + 1
              \/ HandlerMoves(t) /\ UNCHANGED faults /\ Returned(t, "FILLED")
                   /\ (EngineRecordBuy(t) \/ EngineRecordSell(t) \/ BotRecord(t))
         \/ UNCHANGED <<cash, book, heap, tradeLog, failed, calls, rows, faults, work>>
  <1> DEFINE P == \/ \E t \in Threads :
                       \/ Places(t) /\ UNCHANGED <<rows, faults>>
                       \/ Broker!Step(t) /\ UNCHANGED <<rows, faults, work>>
                       \/ HandlerMoves(t) /\ UNCHANGED <<rows, faults>> /\ ~Returned(t, "FILLED")
                       \/ HandlerMoves(t) /\ UNCHANGED rows /\ faults' = faults + 1
                       \/ HandlerMoves(t) /\ UNCHANGED faults /\ Returned(t, "FILLED")
                            /\ (EngineRecordBuy(t) \/ EngineRecordSell(t) \/ BotRecord(t))
                  \/ UNCHANGED <<cash, book, heap, tradeLog, failed, calls, rows, faults, work>>
  <1>0. Loops \subseteq Threads /\ Bots \subseteq Threads
    BY DEF Threads
  <1>1. ASSUME NEW t \in Loops, NEW s \in Symbols, NEW side \in Sides, NEW p \in SignalPrices,
               TakeSignal(t, s, side, p)
        PROVE  P
    BY <1>0, <1>1, TakingMoves DEF TakeSignal, Returned
  <1>2. ASSUME NEW t \in Loops, ListPositions(t) \/ ReadCash(t) \/ SumPositions(t)
        PROVE  P
    BY <1>0, <1>2, ReadingMoves DEF ListPositions, ReadCash, SumPositions, Returned
  <1>3. ASSUME NEW t \in Loops, EngineBuy(t)
        PROVE  P
    <2> DEFINE q == PositionSize(work[t].price, cash)
    <2>1. work[t].at = "decide" /\ work[t].side = "BUY" /\ UNCHANGED <<rows, faults>>
      BY <1>3 DEF EngineBuy
    <2>2. CASE Done(t) /\ UNCHANGED brokerVars
      BY <1>0, <2>1, <2>2, DoneMoves DEF Returned
    <2>3. CASE /\ Broker!PlaceOrder(t, [symbol |-> work[t].symbol, side |-> "BUY",
                                        quantity |-> q, price |-> work[t].price])
               /\ work' = [work EXCEPT ![t].at = "placed", ![t].quantity = q]
      <3> HIDE DEF q
      <3>1. Places(t)
        BY <2>1, <2>3, EnginePlaces
      <3> QED BY <1>0, <2>1, <3>1
    <2> QED BY <1>3, <2>2, <2>3 DEF EngineBuy
  <1>4. ASSUME NEW t \in Loops, EngineSell(t)
        PROVE  P
    <2> DEFINE q == heap[work[t].position].quantity
    <2>1. /\ work[t].at = "decide" /\ work[t].side = "SELL" /\ UNCHANGED <<rows, faults>>
          /\ Broker!PlaceOrder(t, [symbol |-> work[t].symbol, side |-> "SELL",
                                   quantity |-> q, price |-> work[t].price])
          /\ work' = [work EXCEPT ![t].at = "placed", ![t].quantity = q]
      BY <1>4 DEF EngineSell
    <2> HIDE DEF q
    <2>2. Places(t)
      BY <2>1, EnginePlaces
    <2> QED BY <1>0, <2>1, <2>2
  <1>5. ASSUME NEW t \in Loops, EngineRecordBuy(t)
        PROVE  P
    BY <1>0, <1>5, DoneMoves DEF EngineRecordBuy, Returned
  <1>6. ASSUME NEW t \in Loops, EngineRecordSell(t)
        PROVE  P
    BY <1>0, <1>6, SaleMoves DEF EngineRecordSell
  <1>7. ASSUME NEW t \in Loops, RecordPnl(t)
        PROVE  P
    BY <1>0, <1>7, DoneMoves DEF RecordPnl, Returned
  <1>8. ASSUME NEW t \in Bots, NEW s \in Symbols, NEW side \in Sides, NEW q \in BotQuantities,
               BotCommand(t, s, side, q)
        PROVE  P
    BY <1>0, <1>8, CommandMoves DEF BotCommand, Returned
  <1>9. ASSUME NEW t \in Bots, BotPlace(t)
        PROVE  P
    BY <1>0, <1>9, BotPlaces DEF BotPlace
  <1>10. ASSUME NEW t \in Bots, BotRecord(t)
         PROVE  P
    BY <1>0, <1>10, DoneMoves DEF BotRecord, Returned
  <1>11. ASSUME NEW t \in Threads, BrokerStep(t)
         PROVE  P
    BY <1>11 DEF BrokerStep
  <1>12. ASSUME NEW t \in Threads, Rejected(t) \/ Raised(t) \/ InsertFails(t)
         PROVE  P
    BY <1>12, DoneMoves DEF Rejected, Raised, InsertFails, Returned
  <1>13. ASSUME Midnight PROVE P
    BY <1>13 DEF Midnight, brokerVars
  <1> HIDE DEF P
  <1>14. P
    BY <1>1, <1>2, <1>3, <1>4, <1>5, <1>6, <1>7, <1>8, <1>9, <1>10, <1>11, <1>12, <1>13
       DEF Next, Sides
  <1> QED BY <1>14 DEF P

\* The shares of s that an entry, of the trade log or of the table, or a handler's order buys.
BoughtBy(s, e) == IF e.symbol = s /\ e.side = "BUY" THEN e.quantity ELSE 0

Logged(s) == Total(LAMBDA e : BoughtBy(s, e), tradeLog)
Listed(s) == Total(LAMBDA e : BoughtBy(s, e), rows)
Awaited(s, t) == IF Returned(t, "FILLED") THEN BoughtBy(s, work[t]) ELSE 0
Coming(s) == SumFunction([t \in Threads |-> Awaited(s, t)])

PurchasesMatch ==
  BuysMatchLog <=> (faults = 0 => \A s \in Symbols : Logged(s) = Listed(s) + Coming(s))

LEMMA PurchasesAre == PurchasesMatch
  BY Zenon DEF PurchasesMatch, BuysMatchLog, Logged, Listed, Coming, Awaited, BoughtBy

LEMMA PurchasesWillBe == PurchasesMatch'
  BY PurchasesAre, PTL

\* One more entry.
LEMMA PurchaseAppended ==
  ASSUME NEW S, NEW seq \in Seq(S), \A e \in S : e.quantity \in Int, NEW x \in S, NEW s
  PROVE  /\ Total(LAMBDA e : BoughtBy(s, e), Append(seq, x))
              = Total(LAMBDA e : BoughtBy(s, e), seq) + BoughtBy(s, x)
         /\ Total(LAMBDA e : BoughtBy(s, e), seq) \in Int
         /\ BoughtBy(s, x) \in Int
  <1> DEFINE n == Len(seq)
             f == [i \in DOMAIN seq |-> BoughtBy(s, seq[i])]
             g == [i \in DOMAIN Append(seq, x) |-> BoughtBy(s, Append(seq, x)[i])]
  <1>1. n \in Nat /\ DOMAIN f = 1..n /\ DOMAIN g = 1..(n + 1)
    OBVIOUS
  <1>2. ASSUME NEW e \in S PROVE BoughtBy(s, e) \in Int
    BY DEF BoughtBy
  <1>3. ASSUME NEW i \in 1..n PROVE f[i] \in Int /\ g[i] = f[i]
    BY <1>2
  <1>4. g[n + 1] = BoughtBy(s, x) /\ BoughtBy(s, x) \in Int
    BY <1>2
  <1>5. /\ Total(LAMBDA e : BoughtBy(s, e), Append(seq, x)) = SumFunction(g)
        /\ Total(LAMBDA e : BoughtBy(s, e), seq) = SumFunction(f)
    BY Zenon DEF Total
  <1> HIDE DEF f, g, n
  <1>6. SumFunction(g) = SumFunction(f) + g[n + 1]
    BY <1>1, <1>3, <1>4, SumAppend
  <1>7. SumFunction(f) \in Int
    BY <1>1, <1>3, SumIsInt, FS_Interval
  <1> QED BY <1>4, <1>5, <1>6, <1>7

LogEntry == [symbol : Symbols, side : {"BUY", "SELL"},
             quantity : Quantities \cup {0}, price : Prices, cashAfter : Int]

LEMMA EntryTypes ==
  ASSUME AnySize, TypeOK
  PROVE  /\ tradeLog \in Seq(LogEntry) /\ \A e \in LogEntry : e.quantity \in Int
         /\ rows \in Seq(Row) /\ \A e \in Row : e.quantity \in Int
         /\ \A t \in Threads : \A s : Awaited(s, t) \in Int
  <1>1. \A t \in Threads : work[t].quantity \in Nat
    BY SessionFields, HandlerFields
  <1>2. \A t \in Threads : \A s : Awaited(s, t) \in Int
    BY <1>1 DEF Awaited, BoughtBy
  <1>3. tradeLog \in Seq(LogEntry) /\ \A e \in LogEntry : e.quantity \in Int
    BY SessionFields DEF Broker!TypeOK, LogEntry, AnySize
  <1> QED BY <1>2, <1>3, SessionFields DEF Row

AwaitedTyped == \A t \in Threads : \A s : Awaited(s, t) \in Int

LEMMA AwaitedNow == AnySize /\ TypeOK => AwaitedTyped
  BY EntryTypes DEF AwaitedTyped

LEMMA AwaitedThen == AnySize /\ TypeOK' => AwaitedTyped'
  <1>1. (AnySize /\ TypeOK => AwaitedTyped)'
    BY AwaitedNow, PTL
  <1> QED BY <1>1 DEF AnySize

LEMMA ComingChanges ==
  ASSUME AwaitedTyped, AwaitedTyped', NEW t \in Threads, NEW s,
         \A u \in Threads \ {t} : Awaited(s, u)' = Awaited(s, u)
  PROVE  Coming(s)' = Coming(s) - Awaited(s, t) + Awaited(s, t)' /\ Coming(s) \in Int
  <1> DEFINE f == [u \in Threads |-> Awaited(s, u)]
             g == [u \in Threads |-> Awaited(s, u)']
  <1>1. DOMAIN f = Threads /\ DOMAIN g = Threads /\ IsFiniteSet(Threads)
    BY AwaitingFinite
  <1>2. \A u \in Threads : f[u] \in Int /\ g[u] \in Int
    BY DEF AwaitedTyped
  <1>3. \A u \in Threads : u # t => f[u] = g[u]
    OBVIOUS
  <1>4. f[t] = Awaited(s, t) /\ g[t] = Awaited(s, t)'
    OBVIOUS
  <1>5. Coming(s) = SumFunction(f) /\ Coming(s)' = SumFunction(g)
    BY DEF Coming
  <1> HIDE DEF f, g
  <1>6. SumFunction(g) = SumFunction(f) - f[t] + g[t]
    BY <1>1, <1>2, <1>3, SumExcept
  <1>7. SumFunction(f) \in Int
    BY <1>1, <1>2, SumIsInt
  <1> QED BY <1>4, <1>5, <1>6, <1>7

\* A step of one thread that adds to the log, the table and what is awaited alike.
Alike(s, t) ==
  Logged(s)' - Logged(s) = Listed(s)' - Listed(s) + (Awaited(s, t)' - Awaited(s, t))

LEMMA AlikeKeepsMatch ==
  ASSUME AwaitedTyped, AwaitedTyped', BuysMatchLog, faults' = faults, NEW t \in Threads,
         \A s \in Symbols : /\ \A u \in Threads \ {t} : Awaited(s, u)' = Awaited(s, u)
                            /\ Alike(s, t)
                            /\ Logged(s) \in Int /\ Logged(s)' \in Int
                            /\ Listed(s) \in Int /\ Listed(s)' \in Int
  PROVE  BuysMatchLog'
  <1> SUFFICES ASSUME faults = 0, NEW s \in Symbols
               PROVE  Logged(s)' = Listed(s)' + Coming(s)'
    BY PurchasesWillBe DEF PurchasesMatch
  <1>1. Logged(s) = Listed(s) + Coming(s)
    BY PurchasesAre DEF PurchasesMatch
  <1>2. Coming(s)' = Coming(s) - Awaited(s, t) + Awaited(s, t)' /\ Coming(s) \in Int
    BY ComingChanges
  <1>3. Awaited(s, t) \in Int /\ Awaited(s, t)' \in Int
    BY DEF AwaitedTyped
  <1>4. /\ Logged(s) \in Int /\ Logged(s)' \in Int
        /\ Listed(s) \in Int /\ Listed(s)' \in Int
    OBVIOUS
  <1> DEFINE l == Logged(s)
             m == Logged(s)'
             r == Listed(s)
             q == Listed(s)'
             a == Awaited(s, t)
             b == Awaited(s, t)'
             c == Coming(s)
             d == Coming(s)'
  <1>5. m - l = q - r + (b - a)
    BY DEF Alike
  <1>6. l = r + c /\ d = c - a + b /\ c \in Int /\ a \in Int /\ b \in Int
        /\ l \in Int /\ m \in Int /\ r \in Int /\ q \in Int
    BY <1>1, <1>2, <1>3, <1>4
  <1> HIDE DEF l, m, r, q, a, b, c, d
  <1>7. m = q + d
    BY <1>5, <1>6
  <1> QED BY <1>7 DEF m, q, d

SumsTyped == \A s \in Symbols : Logged(s) \in Int /\ Listed(s) \in Int

LEMMA SumsNow == AnySize /\ TypeOK => SumsTyped
  <1> SUFFICES ASSUME AnySize, TypeOK, NEW s \in Symbols PROVE Logged(s) \in Int /\ Listed(s) \in Int
    BY DEF SumsTyped
  <1>1. ASSUME NEW S, NEW seq \in Seq(S), \A e \in S : e.quantity \in Int
        PROVE  Total(LAMBDA e : BoughtBy(s, e), seq) \in Int
    <2> DEFINE f == [i \in DOMAIN seq |-> BoughtBy(s, seq[i])]
    <2>1. DOMAIN f = 1..Len(seq) /\ Len(seq) \in Nat
      OBVIOUS
    <2>2. \A i \in DOMAIN f : f[i] \in Int
      BY <1>1 DEF BoughtBy
    <2>3. Total(LAMBDA e : BoughtBy(s, e), seq) = SumFunction(f)
      BY Zenon DEF Total
    <2> HIDE DEF f
    <2>4. IsFiniteSet(DOMAIN f)
      <3>1. 1 \in Int /\ Len(seq) \in Int
        BY <2>1
      <3> QED BY <2>1, <3>1, FS_Interval
    <2>5. SumFunction(f) \in Int
      BY <2>2, <2>4, SumIsInt
    <2> QED BY <2>3, <2>5
  <1> QED BY <1>1, EntryTypes DEF Logged, Listed

LEMMA SumsThen == AnySize /\ TypeOK' => SumsTyped'
  <1>1. (AnySize /\ TypeOK => SumsTyped)'
    BY SumsNow, PTL
  <1> QED BY <1>1 DEF AnySize

\* place_order keeps the order it was given, and logs it when it returns it filled.
LEMMA StepOfOrder ==
  ASSUME TypeOK, Shape, NEW t \in Threads, Broker!Step(t)
  PROVE  /\ \A u \in Threads \ {t} : calls'[u] = calls[u]
         /\ calls[t].at # "idle"
         /\ \/ /\ calls'[t].at # "idle" /\ calls'[t].order = calls[t].order
               /\ tradeLog' = tradeLog
            \/ /\ calls'[t].at = "idle" /\ calls'[t].result \in {"REJECTED", "ERROR"}
               /\ tradeLog' = tradeLog
            \/ /\ calls'[t].at = "idle" /\ calls'[t].result = "FILLED"
               /\ \E c : tradeLog' = Append(tradeLog,
                    [symbol |-> calls[t].order.symbol, side |-> calls[t].order.side,
                     quantity |-> calls[t].order.quantity, price |-> calls[t].order.price,
                     cashAfter |-> c])
  <1>1. ASSUME NEW stage \in {"book", "record"}, NEW obj, Broker!Advance(t, stage, obj)
        PROVE  /\ \A u \in Threads \ {t} : calls'[u] = calls[u]
               /\ calls'[t].at # "idle" /\ calls'[t].order = calls[t].order
    <2> DEFINE c == [calls[t] EXCEPT !.at = stage, !.position = obj]
    <2>1. calls[t] \in [at : {calls[t].at}, order : {calls[t].order},
                        position : {calls[t].position}, result : {calls[t].result}]
      BY CallIsMember DEF Shape
    <2>2. c \in [at : {stage}, order : {calls[t].order}, position : {obj}, result : {calls[t].result}]
      BY <2>1, MemberExcept
    <2>3. calls' = [calls EXCEPT ![t] = c]
      BY <1>1 DEF Broker!Advance
    <2> HIDE DEF c
    <2>4. c.at = stage /\ c.order = calls[t].order
      BY <2>2, MemberIs
    <2> QED BY <2>3, <2>4 DEF Shape
  <1>2. ASSUME NEW r, Broker!Return(t, r)
        PROVE  /\ \A u \in Threads \ {t} : calls'[u] = calls[u]
               /\ calls'[t].at = "idle" /\ calls'[t].result = r
    BY <1>2, ReturnSets DEF CallStep
  <1>3. CASE Broker!Debit(t) \/ Broker!LookUp(t)
    BY <1>1, <1>3 DEF Broker!Debit, Broker!LookUp
  <1>4. CASE Broker!BookBuy(t)
    BY <1>1, <1>4 DEF Broker!BookBuy
  <1>5. CASE Broker!RejectBuy(t) \/ Broker!RejectSell(t)
    BY <1>2, <1>5 DEF Broker!RejectBuy, Broker!RejectSell
  <1>6. CASE Broker!BookSell(t)
    <2>1. calls[t].at = "book" /\ tradeLog' = tradeLog
          /\ (Broker!Advance(t, "record", calls[t].position) \/ Broker!Return(t, "ERROR"))
      BY <1>6 DEF Broker!BookSell
    <2> QED BY <1>1, <1>2, <2>1
  <1>7. CASE Broker!Record(t)
    BY <1>2, <1>7 DEF Broker!Record
  <1> QED BY <1>3, <1>4, <1>5, <1>6, <1>7 DEF Broker!Step

LEMMA PlacedOrder ==
  ASSUME TypeOK, NEW t \in Threads, NEW o, Broker!PlaceOrder(t, o)
  PROVE  /\ \A u \in Threads \ {t} : calls'[u] = calls[u]
         /\ calls'[t].at = "check" /\ calls'[t].order = o /\ tradeLog' = tradeLog
         /\ calls[t].at = "idle"
  BY SessionFields DEF Broker!PlaceOrder, Broker!TypeOK, Broker!Busy

\* Whoever acts, the orders under way are the handlers'.
LEMMA NextOrdersAreTheirs ==
  ASSUME SessionInv, AuditInv, OrdersAreTheirs, [Next]_vars
  PROVE  OrdersAreTheirs'
  <1>0. TypeOK /\ Shape /\ CallsAreAwaited
    BY DEF SessionInv, AuditInv
  <1>1. ASSUME NEW t \in Threads, Places(t) PROVE OrdersAreTheirs'
    BY <1>0, <1>1, PlacedOrder DEF Places, OrdersAreTheirs
  <1>2. ASSUME NEW t \in Threads, Broker!Step(t), work' = work PROVE OrdersAreTheirs'
    BY <1>0, <1>2, StepOfOrder DEF OrdersAreTheirs
  <1>3. ASSUME NEW t \in Threads, HandlerMoves(t) PROVE OrdersAreTheirs'
    BY <1>3 DEF HandlerMoves, OrdersAreTheirs
  <1>4. CASE UNCHANGED <<calls, work>>
    BY <1>4 DEF OrdersAreTheirs
  <1>5. CASE UNCHANGED vars
    BY <1>4, <1>5 DEF vars, brokerVars
  <1>6. CASE Next
    BY <1>0, <1>1, <1>2, <1>3, <1>4, <1>6, StepKinds
  <1> QED BY <1>5, <1>6

LEMMA AwaitedElsewhere ==
  ASSUME NEW u, work'[u] = work[u], calls'[u] = calls[u], NEW s
  PROVE  Awaited(s, u)' = Awaited(s, u)
  BY DEF Awaited, Returned, Broker!Busy, BoughtBy

LEMMA NextBuysMatchLog ==
  ASSUME AnySize, SessionInv, SessionInv', AuditInv, OrdersAreTheirs, BuysMatchLog, [Next]_vars
  PROVE  BuysMatchLog'
  <1>0. /\ TypeOK /\ TypeOK' /\ Shape /\ CallsAreAwaited
        /\ AwaitedTyped /\ AwaitedTyped' /\ SumsTyped /\ SumsTyped'
    BY AwaitedNow, AwaitedThen, SumsNow, SumsThen DEF SessionInv, AuditInv
  <1>1. ASSUME NEW t \in Threads, OnlyThread(t), UNCHANGED <<tradeLog, rows, faults>>,
               ~Returned(t, "FILLED"), ~Returned(t, "FILLED")'
        PROVE  BuysMatchLog'
    <2>1. ASSUME NEW s \in Symbols
          PROVE  /\ \A u \in Threads \ {t} : Awaited(s, u)' = Awaited(s, u)
                 /\ Alike(s, t)
      <3>1. \A u \in Threads \ {t} : Awaited(s, u)' = Awaited(s, u)
        BY <1>1, AwaitedElsewhere DEF OnlyThread
      <3>2. Awaited(s, t) = 0 /\ Awaited(s, t)' = 0
        BY <1>1 DEF Awaited
      <3>3. Logged(s)' = Logged(s) /\ Listed(s)' = Listed(s)
        BY <1>1, Zenon DEF Logged, Listed, Total, BoughtBy
      <3>4. Logged(s) \in Int /\ Listed(s) \in Int
        BY <1>0 DEF SumsTyped
      <3> QED BY <3>1, <3>2, <3>3, <3>4 DEF Alike
    <2> QED BY <1>0, <1>1, <2>1, AlikeKeepsMatch DEF SumsTyped
  <1>2. ASSUME NEW t \in Threads, Places(t), UNCHANGED <<rows, faults>>
        PROVE  BuysMatchLog'
    <2>1. OnlyThread(t) /\ tradeLog' = tradeLog /\ calls'[t].at = "check" /\ work[t].at # "placed"
      BY <1>0, <1>2, PlacedOrder DEF Places, OnlyThread
    <2> QED BY <1>1, <1>2, <2>1 DEF Returned, Broker!Busy
  <1>3. ASSUME NEW t \in Threads, HandlerMoves(t), UNCHANGED <<rows, faults>>, ~Returned(t, "FILLED")
        PROVE  BuysMatchLog'
    <2>1. OnlyThread(t) /\ tradeLog' = tradeLog /\ ~Returned(t, "FILLED")'
      BY <1>3 DEF HandlerMoves, OnlyThread, Returned
    <2> QED BY <1>1, <1>3, <2>1
  <1>4. ASSUME NEW t \in Threads, Broker!Step(t), UNCHANGED <<rows, faults, work>>
        PROVE  BuysMatchLog'
    <2>1. OnlyThread(t) /\ ~Returned(t, "FILLED") /\ work[t].at = "placed"
      BY <1>0, <1>4, StepOfOrder DEF OnlyThread, Returned, Broker!Busy, CallsAreAwaited
    <2>2. CASE tradeLog' = tradeLog /\ ~Returned(t, "FILLED")'
      BY <1>1, <1>4, <2>1, <2>2
    <2>3. CASE /\ calls'[t].at = "idle" /\ calls'[t].result = "FILLED"
               /\ \E c : tradeLog' = Append(tradeLog,
                    [symbol |-> calls[t].order.symbol, side |-> calls[t].order.side,
                     quantity |-> calls[t].order.quantity, price |-> calls[t].order.price,
                     cashAfter |-> c])
      <3>1. PICK c : tradeLog' = Append(tradeLog,
                    [symbol |-> calls[t].order.symbol, side |-> calls[t].order.side,
                     quantity |-> calls[t].order.quantity, price |-> calls[t].order.price,
                     cashAfter |-> c])
        BY <2>3
      <3> DEFINE x == [symbol |-> calls[t].order.symbol, side |-> calls[t].order.side,
                       quantity |-> calls[t].order.quantity, price |-> calls[t].order.price,
                       cashAfter |-> c]
                 S == LogEntry \cup {x}
      <3>2. IsOrderOf(calls[t].order, work[t])
        BY <1>0, <1>4, StepOfOrder DEF OrdersAreTheirs
      <3>3. x.symbol = work[t].symbol /\ x.side = work[t].side /\ x.quantity = work[t].quantity
        BY <3>2 DEF IsOrderOf
      <3>4. tradeLog' = Append(tradeLog, x)
        BY <3>1
      <3> HIDE DEF x
      <3>5. tradeLog \in Seq(S) /\ x \in S /\ \A e \in S : e.quantity \in Int
        <4>1. work[t].quantity \in Int
          BY <1>0, SessionFields, HandlerFields
        <4>2. tradeLog \in Seq(LogEntry) /\ \A e \in LogEntry : e.quantity \in Int
          BY <1>0, EntryTypes
        <4> QED BY <3>3, <4>1, <4>2
      <3> HIDE DEF S
      <3>6. ASSUME NEW s \in Symbols
            PROVE  /\ \A u \in Threads \ {t} : Awaited(s, u)' = Awaited(s, u)
                   /\ Alike(s, t)
        <4>1. \A u \in Threads \ {t} : Awaited(s, u)' = Awaited(s, u)
          BY <2>1, AwaitedElsewhere DEF OnlyThread
        <4>2. BoughtBy(s, x) = BoughtBy(s, work[t])
          BY <3>3 DEF BoughtBy
        <4>3. Awaited(s, t) = 0 /\ Awaited(s, t)' = BoughtBy(s, work[t])
          <5>1. Returned(t, "FILLED")'
            BY <1>4, <2>1, <2>3 DEF Returned, Broker!Busy
          <5> QED BY <1>4, <2>1, <5>1 DEF Awaited, BoughtBy
        <4>4. /\ Total(LAMBDA e : BoughtBy(s, e), Append(tradeLog, x))
                   = Total(LAMBDA e : BoughtBy(s, e), tradeLog) + BoughtBy(s, x)
              /\ BoughtBy(s, x) \in Int
          BY <3>5, PurchaseAppended
        <4>5. Logged(s)' = Total(LAMBDA e : BoughtBy(s, e), Append(tradeLog, x))
          BY <3>4, Zenon DEF Logged, Total, BoughtBy
        <4>6. Logged(s)' = Logged(s) + BoughtBy(s, x)
          BY <4>4, <4>5 DEF Logged
        <4>7. Listed(s)' = Listed(s)
          BY <1>4, Zenon DEF Listed, Total, BoughtBy
        <4>8. Logged(s) \in Int /\ Listed(s) \in Int
          BY <1>0 DEF SumsTyped
        <4> DEFINE l == Logged(s)
                   b == BoughtBy(s, x)
        <4>9. Logged(s)' = l + b /\ Listed(s)' = Listed(s) /\ Awaited(s, t) = 0
              /\ Awaited(s, t)' = b /\ l \in Int /\ b \in Int /\ l = Logged(s) /\ Listed(s) \in Int
          BY <4>2, <4>3, <4>4, <4>6, <4>7, <4>8
        <4> HIDE DEF l, b
        <4>10. Alike(s, t)
          BY <4>9 DEF Alike
        <4> QED BY <4>1, <4>10
      <3> QED BY <1>0, <1>4, <3>6, AlikeKeepsMatch DEF SumsTyped
    <2> QED BY <1>0, <1>4, <2>2, <2>3, StepOfOrder DEF Returned, Broker!Busy
  <1>5. ASSUME NEW t \in Threads, HandlerMoves(t), UNCHANGED faults, Returned(t, "FILLED"),
               EngineRecordBuy(t) \/ EngineRecordSell(t) \/ BotRecord(t)
        PROVE  BuysMatchLog'
    <2>1. OnlyThread(t) /\ tradeLog' = tradeLog /\ ~Returned(t, "FILLED")'
      BY <1>5 DEF HandlerMoves, OnlyThread, Returned
    <2>2. PICK q, pnl : /\ Insert(t, q, pnl)
                        /\ work[t].side = "BUY" => q = work[t].quantity
      BY <1>5, Zenon DEF EngineRecordBuy, EngineRecordSell, BotRecord
    <2> DEFINE row == [symbol |-> work[t].symbol, side |-> work[t].side, by |-> t, day |-> day,
                       quantity |-> q, price |-> work[t].price, pnl |-> pnl]
    <2>3. rows' = Append(rows, row)
      BY <2>2 DEF Insert
    <2>4. row.symbol = work[t].symbol /\ row.side = work[t].side
          /\ (work[t].side = "BUY" => row.quantity = work[t].quantity)
      BY <2>2
    <2> HIDE DEF row
    <2>5. rows \in Seq(Row) /\ row \in Row /\ \A e \in Row : e.quantity \in Int
      <3>1. rows \in Seq(Row) /\ rows' \in Seq(Row)
        BY <1>0, SessionFields DEF TypeOK, Row
      <3>2. rows'[Len(rows) + 1] = row /\ Len(rows) + 1 \in 1..Len(rows')
        BY <2>3, <3>1
      <3>3. row \in Row
        BY <3>1, <3>2
      <3>4. \A e \in Row : e.quantity \in Int
        BY DEF Row
      <3> QED BY <3>1, <3>3, <3>4
    <2>6. ASSUME NEW s \in Symbols
          PROVE  /\ \A u \in Threads \ {t} : Awaited(s, u)' = Awaited(s, u)
                 /\ Alike(s, t)
      <3>1. \A u \in Threads \ {t} : Awaited(s, u)' = Awaited(s, u)
        BY <2>1, AwaitedElsewhere DEF OnlyThread
      <3>2. BoughtBy(s, row) = BoughtBy(s, work[t])
        BY <2>4 DEF BoughtBy
      <3>3. Awaited(s, t)' = 0 /\ Awaited(s, t) = BoughtBy(s, work[t])
        BY <1>5, <2>1 DEF Awaited
      <3>4. /\ Total(LAMBDA e : BoughtBy(s, e), Append(rows, row))
                 = Total(LAMBDA e : BoughtBy(s, e), rows) + BoughtBy(s, row)
            /\ BoughtBy(s, row) \in Int
        BY <2>5, PurchaseAppended
      <3>5. Listed(s)' = Total(LAMBDA e : BoughtBy(s, e), Append(rows, row))
        BY <2>3, Zenon DEF Listed, Total, BoughtBy
      <3>6. Listed(s)' = Listed(s) + BoughtBy(s, row)
        BY <3>4, <3>5 DEF Listed
      <3>7. Logged(s)' = Logged(s)
        BY <2>1, Zenon DEF Logged, Total, BoughtBy
      <3>8. Logged(s) \in Int /\ Listed(s) \in Int
        BY <1>0 DEF SumsTyped
      <3> DEFINE l == Listed(s)
                 b == BoughtBy(s, row)
      <3>9. Listed(s)' = l + b /\ Logged(s)' = Logged(s) /\ Awaited(s, t)' = 0
            /\ Awaited(s, t) = b /\ l \in Int /\ b \in Int /\ l = Listed(s) /\ Logged(s) \in Int
        BY <3>2, <3>3, <3>4, <3>6, <3>7, <3>8
      <3> HIDE DEF l, b
      <3>10. Alike(s, t)
        BY <3>9 DEF Alike
      <3> QED BY <3>1, <3>10
    <2> QED BY <1>0, <1>5, <2>6, AlikeKeepsMatch DEF SumsTyped
  <1>6. CASE faults' = faults + 1
    <2>1. faults' # 0
      BY <1>0, <1>6, SessionFields
    <2> QED BY <2>1, PurchasesWillBe DEF PurchasesMatch
  <1>7. CASE UNCHANGED <<calls, tradeLog, rows, faults, work>>
    BY <1>7 DEF BuysMatchLog, Returned, Broker!Busy, Total
  <1>8. CASE UNCHANGED vars
    BY <1>7, <1>8 DEF vars, brokerVars
  <1>9. CASE Next
    BY <1>0, <1>2, <1>3, <1>4, <1>5, <1>6, <1>7, <1>9, StepKinds
  <1> QED BY <1>8, <1>9

\* Share by share, the purchases in the trade table are those the broker filled, as long as no
\* insert fails, whatever the threads that buy: none is recorded twice, with another size or
\* under another symbol, and the order a handler records is the one it placed
\* (_execute_signal_direct, _cmd_buy, record_buy).
THEOREM PurchasesRecorded == ASSUME AnySize PROVE Spec => []BuysMatchLog
  <1>1. Init => OrdersAreTheirs
    BY DEF Init, Broker!Init, Broker!NoCall, OrdersAreTheirs
  <1>2. Init => BuysMatchLog
    <2> SUFFICES ASSUME Init, NEW s \in Symbols PROVE Logged(s) = Listed(s) + Coming(s)
      BY PurchasesAre DEF PurchasesMatch
    <2>1. tradeLog = <<>> /\ rows = <<>>
      BY DEF Init, Broker!Init
    <2>2. Logged(s) = 0 /\ Listed(s) = 0
      <3>1. Total(LAMBDA e : BoughtBy(s, e), <<>>) = 0
        <4> DEFINE g == [i \in DOMAIN <<>> |-> BoughtBy(s, <<>>[i])]
        <4>1. DOMAIN g = {}
          OBVIOUS
        <4>2. Total(LAMBDA e : BoughtBy(s, e), <<>>) = SumFunction(g)
          BY Zenon DEF Total
        <4> HIDE DEF g
        <4> QED BY <4>1, <4>2, SumIsZero, FS_EmptySet
      <3> QED BY <2>1, <3>1 DEF Logged, Listed
    <2>3. Coming(s) = 0
      <3> DEFINE g == [t \in Threads |-> Awaited(s, t)]
      <3>1. \A t \in Threads : g[t] = 0
        BY NoWorkIs DEF Init, Awaited, Returned
      <3>2. DOMAIN g = Threads /\ IsFiniteSet(Threads) /\ Coming(s) = SumFunction(g)
        BY AwaitingFinite DEF Coming
      <3> HIDE DEF g
      <3> QED BY <3>1, <3>2, SumIsZero
    <2> QED BY <2>2, <2>3
  <1>3. SessionInv /\ AuditInv /\ OrdersAreTheirs /\ BuysMatchLog /\ [Next]_vars
          => OrdersAreTheirs' /\ BuysMatchLog' /\ SessionInv' /\ AuditInv'
    BY NextSessionInv, NextAuditInv, NextOrdersAreTheirs, NextBuysMatchLog
  <1>4. Init => SessionInv
    BY InitSessionInv
  <1> QED BY <1>1, <1>2, <1>3, <1>4, InitAuditInv, PTL DEF Spec

-----------------------------------------------------------------------------
\* The engine alone: one tick thread, no bot.

\* A signal to sell holds the position the dictionary has.
SignalHolds ==
  \A t \in Threads :
    work[t].at = "decide" /\ work[t].side = "SELL"
      => work[t].position # 0 /\ work[t].position = book[work[t].symbol]

\* The engine's order fits: its cost is covered and within the limit on a position until it
\* is paid, and it was when it is; it sells what the symbol's position has.
OrderFits ==
  \A t \in Threads :
    LET o == calls[t].order
        s == calls[t].order.symbol
    IN  /\ calls[t].at = "check" /\ o.side = "BUY" =>
             Broker!Cost(o) <= cash /\ Broker!Cost(o) * 100 <= cash * MaxPositionPct
        /\ calls[t].at = "book" /\ o.side = "BUY" =>
             Broker!Cost(o) * 100 <= (cash + Broker!Cost(o)) * MaxPositionPct
        /\ calls[t].at = "check" /\ o.side = "SELL" =>
             book[s] # 0 /\ heap[book[s]].quantity = o.quantity
        /\ calls[t].at = "book" /\ o.side = "SELL" =>
             /\ calls[t].position # 0 /\ calls[t].position = book[s]
             /\ heap[book[s]].quantity = o.quantity

AloneInv == SignalHolds /\ OrderFits /\ EngineOrdersFill

LEMMA NextSignalHolds ==
  ASSUME NEW e, Loops = {e}, Bots = {}, SessionInv, CallsAreAwaited, SignalHolds, [Next]_vars
  PROVE  SignalHolds'
  <1>0. TypeOK /\ Prepared /\ Threads = {e} /\ e \in Loops
    BY DEF SessionInv, Threads
  <1>1. ASSUME work'[e].at # "decide" PROVE SignalHolds'
    BY <1>0, <1>1 DEF SignalHolds
  <1>2. ASSUME NEW s \in Symbols, NEW side \in Sides, NEW p \in SignalPrices, TakeSignal(e, s, side, p)
        PROVE  SignalHolds'
    <2> DEFINE stage == IF side = "BUY" THEN "account" ELSE "decide"
               w == SignalOf(stage, s, side, p, book[s])
    <2>1. work' = [work EXCEPT ![e] = w] /\ (side = "BUY" <=> book[s] = 0) /\ UNCHANGED brokerVars
      BY <1>2, Zenon DEF TakeSignal, SignalOf
    <2>2. w.at = stage /\ w.symbol = s /\ w.side = side /\ w.position = book[s]
      BY SignalFields
    <2> HIDE DEF w
    <2>3. work'[e] = w /\ book' = book
      BY <1>0, <2>1, SessionFields DEF brokerVars
    <2> QED BY <1>0, <2>1, <2>2, <2>3 DEF SignalHolds, Sides
  <1>3. ASSUME ListPositions(e) \/ ReadCash(e) PROVE SignalHolds'
    <2>1. work'[e].at \in {"cash", "sum"}
      <3>1. work[e] \in Handler(Len(heap))
        BY <1>0, SessionFields
      <3>2. \A x : /\ [work[e] EXCEPT !.at = "cash", !.held = x].at = "cash"
                   /\ [work[e] EXCEPT !.at = "sum", !.portfolio = x].at = "sum"
        BY <3>1, FieldsKept
      <3>3. PICK x : \/ work' = [work EXCEPT ![e] = [work[e] EXCEPT !.at = "cash", !.held = x]]
                     \/ work' = [work EXCEPT ![e] = [work[e] EXCEPT !.at = "sum", !.portfolio = x]]
        <4> DEFINE x == {book[s] : s \in Symbols} \ {0}
        <4>1. CASE ListPositions(e)
          <5>1. work' = [work EXCEPT ![e] = [work[e] EXCEPT !.at = "cash", !.held = x]]
            BY <4>1 DEF ListPositions
          <5> HIDE DEF x
          <5> QED BY <5>1
        <4>2. CASE ReadCash(e)
          BY <4>2 DEF ReadCash
        <4> QED BY <1>3, <4>1, <4>2
      <3>4. \/ work'[e] = [work[e] EXCEPT !.at = "cash", !.held = x]
            \/ work'[e] = [work[e] EXCEPT !.at = "sum", !.portfolio = x]
        BY <1>0, <3>3, SessionFields
      <3> QED BY <3>2, <3>4
    <2> QED BY <1>1, <2>1
  <1>4. ASSUME SumPositions(e) PROVE SignalHolds'
    <2> DEFINE x == work[e].portfolio
                      + SumFunction([obj \in work[e].held |-> Broker!MarketValue(heap[obj])])
               w == [work[e] EXCEPT !.at = "decide", !.held = {}, !.portfolio = x]
    <2>1. work' = [work EXCEPT ![e] = w] /\ work[e].at = "sum"
      BY <1>4 DEF SumPositions
    <2> HIDE DEF x
    <2>2. w.side = work[e].side
      BY <1>0, SessionFields, FieldsKept
    <2> HIDE DEF w
    <2>3. work'[e].side = "BUY"
      BY <1>0, <2>1, <2>2, SessionFields DEF Prepared
    <2> QED BY <1>0, <2>3 DEF SignalHolds
  <1>5. ASSUME Places(e) PROVE SignalHolds'
    BY <1>1, <1>5 DEF Places
  <1>6. ASSUME Done(e) PROVE SignalHolds'
    BY <1>0, <1>1, <1>6, NoWorkIs, SessionFields DEF Done
  <1>7. ASSUME EngineBuy(e) PROVE SignalHolds'
    <2> DEFINE q == PositionSize(work[e].price, cash)
    <2>1. CASE Done(e)
      BY <1>6, <2>1
    <2>2. CASE work' = [work EXCEPT ![e] = [work[e] EXCEPT !.at = "placed", !.quantity = q]]
      <3> HIDE DEF q
      <3>1. work'[e].at = "placed"
        BY <1>0, <2>2, SessionFields, FieldsKept
      <3> QED BY <1>1, <3>1
    <2> QED BY <1>7, <2>1, <2>2 DEF EngineBuy
  <1>8. ASSUME EngineSell(e) PROVE SignalHolds'
    <2> DEFINE q == heap[work[e].position].quantity
    <2>1. work' = [work EXCEPT ![e] = [work[e] EXCEPT !.at = "placed", !.quantity = q]]
      BY <1>8 DEF EngineSell
    <2> HIDE DEF q
    <2>2. work'[e].at = "placed"
      BY <1>0, <2>1, SessionFields, FieldsKept
    <2> QED BY <1>1, <2>2
  <1>9. ASSUME EngineRecordSell(e) PROVE SignalHolds'
    BY <1>0, <1>1, <1>9, SaleMoves
  <1>10. ASSUME EngineRecordBuy(e) \/ RecordPnl(e) \/ Rejected(e) \/ Raised(e) \/ InsertFails(e)
         PROVE  SignalHolds'
    BY <1>6, <1>10 DEF EngineRecordBuy, RecordPnl, Rejected, Raised, InsertFails
  <1>11. ASSUME BrokerStep(e) PROVE SignalHolds'
    <2>1. work'[e].at = "placed"
      BY <1>0, <1>11 DEF BrokerStep, CallsAreAwaited, Broker!Step, Broker!Debit,
         Broker!RejectBuy, Broker!BookBuy, Broker!LookUp, Broker!RejectSell, Broker!BookSell,
         Broker!Record
    <2> QED BY <1>1, <2>1
  <1>12. CASE UNCHANGED <<book, work>>
    BY <1>12 DEF SignalHolds
  <1>13. ASSUME Midnight PROVE SignalHolds'
    BY <1>12, <1>13 DEF Midnight, brokerVars
  <1>14. CASE UNCHANGED vars
    BY <1>12, <1>14 DEF vars, brokerVars
  <1>15. CASE Next
    BY <1>0, <1>2, <1>3, <1>4, <1>7, <1>8, <1>9, <1>10, <1>11, <1>13, <1>15
       DEF Next, Sides
  <1> QED BY <1>14, <1>15

\* What one thread's order costs.
LEMMA OrderCost ==
  ASSUME TypeOK, AnySize, NEW t \in Threads
  PROVE  /\ Broker!Cost(calls[t].order) \in Nat
         /\ calls[t].order.symbol \in Symbols /\ calls[t].order.side \in Sides
         /\ calls[t].order.quantity \in Nat /\ calls[t].order.price \in Nat
  <1>1. calls[t].order \in Broker!Orders
    BY SessionFields DEF Broker!TypeOK
  <1>2. calls[t].order.quantity \in Nat /\ calls[t].order.price \in Nat
        /\ calls[t].order.symbol \in Symbols /\ calls[t].order.side \in Sides
    BY <1>1 DEF Broker!Orders, AnySize, Sides
  <1> QED BY <1>2 DEF Broker!Cost

\* How a call goes on, field by field.
LEMMA Advances ==
  ASSUME Shape, NEW t \in Threads, NEW stage, NEW obj, Broker!Advance(t, stage, obj)
  PROVE  /\ calls'[t].at = stage /\ calls'[t].position = obj
         /\ calls'[t].order = calls[t].order /\ calls'[t].result = calls[t].result
  <1> DEFINE c == [calls[t] EXCEPT !.at = stage, !.position = obj]
  <1>1. calls[t] \in [at : {calls[t].at}, order : {calls[t].order},
                      position : {calls[t].position}, result : {calls[t].result}]
    BY CallIsMember DEF Shape
  <1>2. c \in [at : {stage}, order : {calls[t].order}, position : {obj}, result : {calls[t].result}]
    BY <1>1, MemberExcept
  <1>3. calls' = [calls EXCEPT ![t] = c]
    BY DEF Broker!Advance
  <1> HIDE DEF c
  <1>4. c.at = stage /\ c.order = calls[t].order /\ c.position = obj /\ c.result = calls[t].result
    BY <1>2
  <1> QED BY <1>3, <1>4 DEF Shape

LEMMA NextOrderFits ==
  ASSUME NEW e, Loops = {e}, Bots = {}, AnySize, SessionInv, AuditInv, cash \in Nat,
         AloneInv, [Next]_vars
  PROVE  OrderFits' /\ EngineOrdersFill'
  <1> DEFINE P == OrderFits' /\ EngineOrdersFill'
  <1>0. /\ TypeOK /\ Prepared /\ Threads = {e} /\ e \in Loops /\ e \in Threads
        /\ Shape /\ CallsAreAwaited /\ SignalHolds /\ OrderFits /\ EngineOrdersFill
    BY DEF SessionInv, Threads, AloneInv, AuditInv
  <1>1. CASE UNCHANGED <<cash, book, heap, calls>>
    BY <1>1, <1>0, Zenon DEF OrderFits, EngineOrdersFill, Broker!Cost
  <1>2. CASE calls'[e].at \in {"idle", "record"} /\ calls'[e].result \notin {"REJECTED", "ERROR"}
    BY <1>0, <1>2 DEF OrderFits, EngineOrdersFill
  <1>3. CASE EngineBuy(e)
    <2> DEFINE w == work[e]
               q == PositionSize(w.price, cash)
               o == [symbol |-> w.symbol, side |-> "BUY", quantity |-> q, price |-> w.price]
    <2>1. CASE Broker!PlaceOrder(e, o)
      <3>1. w.price \in Nat \ {0}
        BY <1>0, <1>3, LiveAssumption DEF Prepared, EngineBuy, AnySize
      <3>2. q * w.price * 100 <= cash * MaxPositionPct /\ q * w.price <= cash
        BY <3>1, SizeWithinShare
      <3>3. Broker!Cost(o) = q * w.price /\ o.side = "BUY"
        BY DEF Broker!Cost
      <3> HIDE DEF o
      <3>4. calls' = [calls EXCEPT ![e] = [at |-> "check", order |-> o, position |-> 0, result |-> "none"]]
            /\ cash' = cash
        BY <2>1 DEF Broker!PlaceOrder
      <3>5. calls'[e].at = "check" /\ calls'[e].order = o /\ calls'[e].result = "none"
        BY <1>0, <3>4 DEF Shape
      <3> QED BY <1>0, <3>2, <3>3, <3>4, <3>5 DEF OrderFits, EngineOrdersFill, Broker!Cost
    <2>2. CASE UNCHANGED brokerVars
      BY <1>1, <2>2 DEF brokerVars
    <2> QED BY <1>3, <2>1, <2>2 DEF EngineBuy
  <1>4. CASE EngineSell(e)
    <2> DEFINE w == work[e]
               q == heap[w.position].quantity
               o == [symbol |-> w.symbol, side |-> "SELL", quantity |-> q, price |-> w.price]
    <2>1. w.position # 0 /\ w.position = book[w.symbol] /\ Broker!PlaceOrder(e, o)
      BY <1>0, <1>4 DEF EngineSell, SignalHolds
    <2>2. o.side = "SELL" /\ o.symbol = w.symbol /\ o.quantity = heap[book[w.symbol]].quantity
      BY <2>1
    <2> HIDE DEF o
    <2>3. calls' = [calls EXCEPT ![e] = [at |-> "check", order |-> o, position |-> 0, result |-> "none"]]
          /\ book' = book /\ heap' = heap
      BY <2>1 DEF Broker!PlaceOrder
    <2>4. calls'[e].at = "check" /\ calls'[e].order = o /\ calls'[e].result = "none"
      BY <1>0, <2>3 DEF Shape
    <2> QED BY <1>0, <2>1, <2>2, <2>3, <2>4 DEF OrderFits, EngineOrdersFill
  <1>5. CASE Broker!Step(e)
    <2> DEFINE o == calls[e].order
               c == Broker!Cost(o)
    <2>1. c \in Nat /\ calls[e].result \notin {"REJECTED", "ERROR"}
      BY <1>0, OrderCost DEF EngineOrdersFill
    <2>2. CASE Broker!Debit(e)
      <3>1. /\ calls[e].at = "check" /\ o.side = "BUY" /\ cash' = cash - c
            /\ Broker!Advance(e, "book", book[o.symbol])
        BY <2>2 DEF Broker!Debit
      <3>2. calls'[e].at = "book" /\ calls'[e].order = o /\ calls'[e].result = calls[e].result
        BY <1>0, <3>1, Advances
      <3>3. c * 100 <= cash * MaxPositionPct
        BY <1>0, <3>1 DEF OrderFits
      <3>4. cash' + c = cash
        BY <2>1, <3>1
      <3>5. Broker!Cost(calls'[e].order) = c
        BY <3>2
      <3> HIDE DEF c, o
      <3>6. Broker!Cost(calls'[e].order) * 100 <= (cash' + Broker!Cost(calls'[e].order)) * MaxPositionPct
        BY <3>3, <3>4, <3>5
      <3>7. (Broker!Cost(calls[e].order))' = Broker!Cost(calls'[e].order)
        BY DEF Broker!Cost
      <3> QED BY <1>0, <2>1, <3>1, <3>2, <3>6, <3>7 DEF OrderFits, EngineOrdersFill
    <2>3. CASE Broker!RejectBuy(e)
      <3>1. calls[e].at = "check" /\ o.side = "BUY" /\ c > cash
        BY <2>3 DEF Broker!RejectBuy
      <3>2. c <= cash
        BY <1>0, <3>1 DEF OrderFits
      <3> HIDE DEF c
      <3> QED BY <2>1, <3>1, <3>2
    <2>4. CASE Broker!BookBuy(e)
      <3>1. Broker!Advance(e, "record", calls[e].position)
        BY <2>4 DEF Broker!BookBuy
      <3>2. calls'[e].at = "record" /\ calls'[e].result = calls[e].result
        BY <1>0, <3>1, Advances
      <3> QED BY <1>2, <2>1, <3>2
    <2>5. CASE Broker!LookUp(e)
      <3>1. /\ calls[e].at = "check" /\ o.side = "SELL" /\ Broker!Advance(e, "book", book[o.symbol])
            /\ book' = book /\ heap' = heap
        BY <2>5 DEF Broker!LookUp
      <3>2. /\ calls'[e].at = "book" /\ calls'[e].order = o /\ calls'[e].result = calls[e].result
            /\ calls'[e].position = book[o.symbol]
        BY <1>0, <3>1, Advances
      <3>3. book[o.symbol] # 0 /\ heap[book[o.symbol]].quantity = o.quantity
        BY <1>0, <3>1 DEF OrderFits
      <3> QED BY <1>0, <2>1, <3>1, <3>2, <3>3 DEF OrderFits, EngineOrdersFill
    <2>6. ASSUME calls[e].at = "book", o.side = "SELL"
          PROVE  /\ Broker!Covers(calls[e].position, o) /\ book[o.symbol] # 0
      <3>1. /\ calls[e].position # 0 /\ calls[e].position = book[o.symbol]
            /\ heap[book[o.symbol]].quantity = o.quantity
        BY <1>0, <2>6 DEF OrderFits
      <3>2. o.quantity \in Nat
        BY <1>0, OrderCost
      <3> QED BY <3>1, <3>2 DEF Broker!Covers
    <2>7. CASE Broker!RejectSell(e)
      BY <2>6, <2>7 DEF Broker!RejectSell
    <2>8. CASE Broker!BookSell(e)
      <3>1. calls[e].at = "book" /\ o.side = "SELL"
        BY <2>8 DEF Broker!BookSell
      <3>2. Broker!Advance(e, "record", calls[e].position)
        BY <2>6, <2>8, <3>1 DEF Broker!BookSell
      <3>3. calls'[e].at = "record" /\ calls'[e].result = calls[e].result
        BY <1>0, <3>2, Advances
      <3> QED BY <1>2, <2>1, <3>3
    <2>9. CASE Broker!Record(e)
      <3>1. CallStep(e, "idle", "FILLED")
        BY <1>0, <2>9, ReturnSets DEF Broker!Record
      <3> QED BY <1>2, <3>1 DEF CallStep
    <2> QED BY <1>5, <2>2, <2>3, <2>4, <2>5, <2>7, <2>8, <2>9 DEF Broker!Step
  <1>6. CASE UNCHANGED vars
    BY <1>1, <1>6 DEF vars, brokerVars
  <1>7. CASE Next
    <2>1. \/ EngineBuy(e) \/ EngineSell(e) \/ BrokerStep(e) \/ UNCHANGED brokerVars
      BY <1>0, <1>7 DEF Next, TakeSignal, ListPositions, ReadCash, SumPositions, EngineRecordBuy,
         EngineRecordSell, RecordPnl, Rejected, Raised, InsertFails, Midnight
    <2> QED BY <1>1, <1>3, <1>4, <1>5, <2>1 DEF BrokerStep, brokerVars
  <1> QED BY <1>6, <1>7

LEMMA AloneHolds ==
  ASSUME NEW e, Loops = {e}, Bots = {}, AnySize
  PROVE  Spec => []AloneInv
  <1>1. Init => AloneInv
    BY NoWorkIs DEF Init, Broker!Init, Broker!NoCall, AloneInv, SignalHolds, OrderFits,
       EngineOrdersFill, Threads
  <1>2. TypeOK /\ Proved!NonNegativeCash => cash \in Nat
    BY SessionFields DEF Broker!TypeOK, Proved!NonNegativeCash
  <1>3. SessionInv /\ AuditInv /\ Proved!NonNegativeCash /\ AloneInv /\ [Next]_vars => AloneInv'
    <2> SUFFICES ASSUME SessionInv, AuditInv, Proved!NonNegativeCash, AloneInv, [Next]_vars
                 PROVE  AloneInv'
      OBVIOUS
    <2>1. cash \in Nat
      BY <1>2 DEF SessionInv
    <2>2. SignalHolds'
      BY NextSignalHolds DEF AloneInv, AuditInv
    <2>3. OrderFits' /\ EngineOrdersFill'
      BY <2>1, NextOrderFits
    <2> QED BY <2>2, <2>3 DEF AloneInv
  <1>4. Init => SessionInv
    BY InitSessionInv
  <1>5. SessionInv /\ [Next]_vars => SessionInv'
    BY NextSessionInv
  <1>6. Spec => []Proved!NonNegativeCash
    BY SessionBooks, PTL
  <1> QED BY <1>1, <1>3, <1>4, <1>5, <1>6, InitAuditInv, NextAuditInv, PTL DEF Spec

\* The engine's orders are filled when it trades alone: whatever the signals, their prices and
\* what came before, it can pay for what it buys and holds what it sells, though it sizes an
\* order before place_order tests it (_calculate_position_size, place_order).
THEOREM AloneOrdersFill ==
  ASSUME NEW e, Loops = {e}, Bots = {}, AnySize
  PROVE  Spec => []EngineOrdersFill
  <1>1. AloneInv => EngineOrdersFill
    BY DEF AloneInv
  <1> QED BY <1>1, AloneHolds, PTL

\* A position the engine opens costs no more than its share of the cash it is paid from, on
\* every step: no order is resized or paid from other cash between _calculate_position_size
\* and the debit (place_order).
THEOREM OpensWithinLimit ==
  ASSUME NEW e, Loops = {e}, Bots = {}, AnySize
  PROVE  Spec => NewPositionWithinLimit
  <1> DEFINE A == \A s \in Symbols :
                    book[s] = 0 /\ book'[s] # 0 =>
                      LET cost == heap'[book'[s]].quantity * heap'[book'[s]].avg
                      IN cost * 100 <= (cash + cost) * MaxPositionPct
  <1>1. SessionInv /\ AuditInv /\ AloneInv /\ [Next]_vars => [A]_vars
    <2> SUFFICES ASSUME SessionInv, AuditInv, AloneInv, Next, NEW s \in Symbols,
                        book[s] = 0, book'[s] # 0
                 PROVE  LET cost == heap'[book'[s]].quantity * heap'[book'[s]].avg
                        IN cost * 100 <= (cash + cost) * MaxPositionPct
      OBVIOUS
    <2>0. TypeOK /\ Threads = {e} /\ OrderFits
      BY DEF SessionInv, Threads, AloneInv
    <2>1. Broker!Step(e)
      BY <2>0 DEF Next, TakeSignal, ListPositions, ReadCash, SumPositions, EngineRecordBuy,
         EngineRecordSell, RecordPnl, Rejected, Raised, InsertFails, Midnight, EngineBuy,
         EngineSell, BrokerStep, brokerVars, Broker!PlaceOrder
    <2> DEFINE o == calls[e].order
    <2>2. o.symbol \in Symbols /\ o.quantity \in Nat /\ o.price \in Nat
      BY <2>0, OrderCost
    <2>3. CASE Broker!BookBuy(e)
      <3>1. /\ calls[e].at = "book" /\ o.side = "BUY"
            /\ heap' = Append(heap, [symbol |-> o.symbol, quantity |-> o.quantity,
                                     avg |-> o.price, price |-> o.price])
            /\ book' = [book EXCEPT ![o.symbol] = Len(heap) + 1]
        BY <2>3 DEF Broker!BookBuy
      <3>2. s = o.symbol /\ book'[s] = Len(heap) + 1
        BY <2>0, <2>2, <3>1, SessionFields DEF Broker!TypeOK
      <3>3. heap'[Len(heap) + 1] = [symbol |-> o.symbol, quantity |-> o.quantity,
                                     avg |-> o.price, price |-> o.price]
        BY <2>0, <3>1, SessionFields DEF Broker!TypeOK
      <3>4. heap'[book'[s]].quantity = o.quantity /\ heap'[book'[s]].avg = o.price
        BY <3>2, <3>3
      <3>5. Broker!Cost(o) * 100 <= (cash + Broker!Cost(o)) * MaxPositionPct
        BY <2>0, <3>1 DEF OrderFits
      <3> QED BY <3>4, <3>5 DEF Broker!Cost
    <2>4. CASE Broker!BookSell(e)
      <3>1. book' = book \/ book' = [book EXCEPT ![o.symbol] = 0]
        BY <2>4 DEF Broker!BookSell
      <3>2. FALSE
        BY <2>0, <3>1, SessionFields DEF Broker!TypeOK
      <3> QED BY <3>2
    <2>5. CASE book' = book
      BY <2>5
    <2> QED BY <2>1, <2>3, <2>4, <2>5 DEF Broker!Step, Broker!Debit, Broker!RejectBuy, Broker!LookUp,
               Broker!RejectSell, Broker!Record
  <1>2. Spec => []AloneInv
    BY AloneHolds, PTL
  <1>3. Init => SessionInv
    BY InitSessionInv
  <1>4. SessionInv /\ [Next]_vars => SessionInv'
    BY NextSessionInv
  <1>5. Spec => [][A]_vars
    BY <1>1, <1>2, <1>3, <1>4, InitAuditInv, NextAuditInv, PTL DEF Spec
  <1> QED BY <1>5 DEF NewPositionWithinLimit

\* The table follows the log: what it lacks is the order that waits to be recorded.
Mirrors(r, e) == r.symbol = e.symbol /\ r.side = e.side /\ r.price = e.price

SoleTable(e) ==
  faults = 0 =>
    /\ Len(tradeLog) = Len(rows) + (IF Returned(e, "FILLED") THEN 1 ELSE 0)
    /\ Returned(e, "FILLED") => Mirrors(work[e], tradeLog[Len(tradeLog)])
    /\ \A i \in DOMAIN rows : Mirrors(rows[i], tradeLog[i])

LEMMA NextSoleTable ==
  ASSUME AnySize, NEW e, Loops = {e}, Bots = {}, SessionInv, SessionInv', AuditInv,
         OrdersAreTheirs, SoleTable(e), [Next]_vars
  PROVE  SoleTable(e)'
  <1>a. /\ TypeOK /\ TypeOK' /\ Shape /\ CallsAreAwaited /\ Threads = {e} /\ e \in Threads
    BY DEF SessionInv, AuditInv, Threads
  <1>b. tradeLog \in Seq(LogEntry) /\ rows \in Seq(Row)
    BY <1>a, EntryTypes
  <1>c. rows' \in Seq(Row)
    BY <1>a DEF TypeOK, Row
  <1>0. /\ TypeOK /\ TypeOK' /\ Shape /\ CallsAreAwaited /\ Threads = {e} /\ e \in Threads
        /\ tradeLog \in Seq(LogEntry) /\ rows \in Seq(Row) /\ rows' \in Seq(Row)
        /\ Len(tradeLog) \in Nat /\ Len(rows) \in Nat
    BY <1>a, <1>b, <1>c
  <1>1. CASE UNCHANGED <<tradeLog, rows, faults>> /\ ~Returned(e, "FILLED") /\ ~Returned(e, "FILLED")'
    BY <1>1 DEF SoleTable, Mirrors
  <1>2. CASE Places(e) /\ UNCHANGED <<rows, faults>>
    <2>1. tradeLog' = tradeLog /\ calls'[e].at = "check" /\ work[e].at # "placed"
      BY <1>0, <1>2, PlacedOrder DEF Places
    <2> QED BY <1>1, <1>2, <2>1 DEF Returned, Broker!Busy
  <1>3. CASE Broker!Step(e) /\ UNCHANGED <<rows, faults, work>>
    <2>1. ~Returned(e, "FILLED") /\ work[e].at = "placed" /\ IsOrderOf(calls[e].order, work[e])
      BY <1>0, <1>3, StepOfOrder DEF Returned, Broker!Busy, CallsAreAwaited, OrdersAreTheirs
    <2>2. CASE tradeLog' = tradeLog /\ ~Returned(e, "FILLED")'
      BY <1>1, <1>3, <2>1, <2>2
    <2>3. CASE /\ calls'[e].at = "idle" /\ calls'[e].result = "FILLED"
               /\ \E c : tradeLog' = Append(tradeLog,
                    [symbol |-> calls[e].order.symbol, side |-> calls[e].order.side,
                     quantity |-> calls[e].order.quantity, price |-> calls[e].order.price,
                     cashAfter |-> c])
      <3>1. PICK c : tradeLog' = Append(tradeLog,
                    [symbol |-> calls[e].order.symbol, side |-> calls[e].order.side,
                     quantity |-> calls[e].order.quantity, price |-> calls[e].order.price,
                     cashAfter |-> c])
        BY <2>3
      <3> DEFINE x == [symbol |-> calls[e].order.symbol, side |-> calls[e].order.side,
                       quantity |-> calls[e].order.quantity, price |-> calls[e].order.price,
                       cashAfter |-> c]
                 n == Len(tradeLog)
      <3>2. Mirrors(work[e], x) /\ Returned(e, "FILLED")'
        BY <1>3, <2>1, <2>3 DEF Mirrors, IsOrderOf, Returned, Broker!Busy
      <3>3. tradeLog' = Append(tradeLog, x)
        BY <3>1
      <3> HIDE DEF x
      <3>4. /\ Len(tradeLog') = n + 1 /\ tradeLog'[n + 1] = x
            /\ \A i \in 1..n : tradeLog'[i] = tradeLog[i]
        BY <1>0, <3>3
      <3> SUFFICES ASSUME faults = 0
                   PROVE  /\ Len(tradeLog') = Len(rows) + 1
                          /\ Mirrors(work[e], tradeLog'[Len(tradeLog')])
                          /\ \A i \in DOMAIN rows : Mirrors(rows[i], tradeLog'[i])
        BY <1>3, <3>2 DEF SoleTable, Mirrors
      <3>5. n = Len(rows) /\ \A i \in DOMAIN rows : Mirrors(rows[i], tradeLog[i])
        BY <1>0, <2>1 DEF SoleTable
      <3>6. DOMAIN rows = 1..n
        BY <1>0, <3>5
      <3> HIDE DEF n
      <3> QED BY <3>2, <3>4, <3>5, <3>6
    <2> QED BY <1>0, <1>3, <2>2, <2>3, StepOfOrder DEF Returned, Broker!Busy
  <1>4. CASE HandlerMoves(e) /\ UNCHANGED <<rows, faults>> /\ ~Returned(e, "FILLED")
    BY <1>1, <1>4 DEF HandlerMoves, Returned
  <1>5. CASE faults' = faults + 1
    <2>1. faults' # 0
      BY <1>0, <1>5, SessionFields
    <2> QED BY <2>1 DEF SoleTable
  <1>6. CASE /\ HandlerMoves(e) /\ UNCHANGED faults /\ Returned(e, "FILLED")
             /\ EngineRecordBuy(e) \/ EngineRecordSell(e) \/ BotRecord(e)
    <2>1. tradeLog' = tradeLog /\ ~Returned(e, "FILLED")'
      BY <1>6 DEF HandlerMoves, Returned
    <2>2. PICK q, pnl : Insert(e, q, pnl)
      BY <1>6, Zenon DEF EngineRecordBuy, EngineRecordSell, BotRecord
    <2> DEFINE row == [symbol |-> work[e].symbol, side |-> work[e].side, by |-> e, day |-> day,
                       quantity |-> q, price |-> work[e].price, pnl |-> pnl]
               n == Len(rows)
    <2>3. rows' = Append(rows, row)
      BY <2>2 DEF Insert
    <2>4. row.symbol = work[e].symbol /\ row.side = work[e].side /\ row.price = work[e].price
      OBVIOUS
    <2> HIDE DEF row
    <2>5. /\ Len(rows') = n + 1 /\ rows'[n + 1] = row /\ DOMAIN rows' = 1..(n + 1)
          /\ (\A i \in 1..n : rows'[i] = rows[i]) /\ DOMAIN rows = 1..n
      BY <1>0, <2>3
    <2> SUFFICES ASSUME faults = 0
                 PROVE  /\ Len(tradeLog) = Len(rows')
                        /\ \A i \in DOMAIN rows' : Mirrors(rows'[i], tradeLog[i])
      BY <1>0, <1>6, <2>1 DEF SoleTable, Mirrors
    <2>6. /\ Len(tradeLog) = n + 1 /\ Mirrors(work[e], tradeLog[n + 1])
          /\ \A i \in 1..n : Mirrors(rows[i], tradeLog[i])
      BY <1>6, <2>5 DEF SoleTable
    <2>7. Mirrors(row, tradeLog[n + 1])
      BY <2>4, <2>6 DEF Mirrors
    <2> HIDE DEF n
    <2>8. ASSUME NEW i \in 1..(n + 1) PROVE Mirrors(rows'[i], tradeLog[i])
      <3>1. CASE i = n + 1
        BY <2>5, <2>7, <3>1
      <3>2. CASE i # n + 1
        <4>1. i \in 1..n
          BY <1>0, <3>2 DEF n
        <4> QED BY <2>5, <2>6, <4>1
      <3> QED BY <3>1, <3>2
    <2> QED BY <2>5, <2>6, <2>8
  <1>7. CASE UNCHANGED <<calls, tradeLog, rows, faults, work>>
    BY <1>7 DEF SoleTable, Returned, Broker!Busy, Mirrors
  <1>8. CASE UNCHANGED vars
    BY <1>7, <1>8 DEF vars, brokerVars
  <1>9. CASE Next
    BY <1>0, <1>2, <1>3, <1>4, <1>5, <1>6, <1>7, <1>9, StepKinds
  <1> QED BY <1>8, <1>9

\* The table of an engine that trades alone lists the broker's trades in their order, each with
\* its symbol, side and price, as long as no insert fails (record_buy, record_sell).
THEOREM AloneTableMirrors ==
  ASSUME NEW e, Loops = {e}, Bots = {}, AnySize
  PROVE  Spec => []TableMirrorsLog
  <1>0. Threads = {e}
    BY DEF Threads
  <1>1. Init => SoleTable(e) /\ OrdersAreTheirs
    <2>1. Init => OrdersAreTheirs
      BY DEF Init, Broker!Init, Broker!NoCall, OrdersAreTheirs
    <2>2. Init => SoleTable(e)
      <3> SUFFICES ASSUME Init PROVE SoleTable(e)
        OBVIOUS
      <3>1. tradeLog = <<>> /\ rows = <<>> /\ ~Returned(e, "FILLED")
        BY <1>0, NoWorkIs DEF Init, Broker!Init, Returned
      <3> QED BY <3>1 DEF SoleTable
    <2> QED BY <2>1, <2>2
  <1>2. SessionInv /\ AuditInv /\ OrdersAreTheirs /\ SoleTable(e) /\ [Next]_vars
          => OrdersAreTheirs' /\ SoleTable(e)'
    BY NextSessionInv, NextOrdersAreTheirs, NextSoleTable
  <1>3. Init => SessionInv
    BY InitSessionInv
  <1>4. SessionInv /\ [Next]_vars => SessionInv'
    BY NextSessionInv
  <1>5. SoleTable(e) => TableMirrorsLog
    BY DEF SoleTable, TableMirrorsLog, Mirrors
  <1> QED BY <1>1, <1>2, <1>3, <1>4, <1>5, InitAuditInv, NextAuditInv, PTL DEF Spec
-----------------------------------------------------------------------------
\* The daily P&L of one engine.

\* The last number of a set that has a bound.
LEMMA LastOf ==
  ASSUME NEW n \in Nat, NEW S, S \subseteq 1..n, S # {}
  PROVE  Max(S) \in S /\ \A i \in S : i <= Max(S)
  <1> DEFINE C == {n - i : i \in S}
  <1>1. C \subseteq Nat /\ C # {}
    <2>1. \A i \in S : i \in 1..n
      OBVIOUS
    <2>2. \A i \in 1..n : n - i \in Nat
      OBVIOUS
    <2> QED BY <2>1, <2>2
  <1> HIDE DEF C
  <1>2. PICK m \in C : \A k \in C : m <= k
    BY <1>1, LeastNumber
  <1>3. PICK x \in S : m = n - x
    BY <1>2 DEF C
  <1>4. ASSUME NEW i \in S PROVE x >= i
    <2>1. m <= n - i
      BY <1>2 DEF C
    <2>2. n - x <= n - i /\ i \in Int /\ x \in Int
      BY <1>3, <2>1
    <2> QED BY <2>2
  <1>5. \E y \in S : \A i \in S : y >= i
    BY <1>4
  <1>6. Max(S) \in S /\ \A i \in S : Max(S) >= i
    BY <1>5, Zenon DEF Max
  <1>7. \A i \in S : i \in Int
    OBVIOUS
  <1> QED BY <1>6, <1>7

\* Row i is the last of e's; the last of e's from before today.
IsLast(e, i) ==
  /\ i \in DOMAIN rows /\ rows[i].by = e
  /\ \A j \in DOMAIN rows : rows[j].by = e => j <= i
IsLastBefore(e, i) ==
  /\ i \in DOMAIN rows /\ rows[i].by = e /\ rows[i].day < day
  /\ \A j \in DOMAIN rows : rows[j].by = e /\ rows[j].day < day => j <= i

LEMMA LastRowIs ==
  ASSUME TypeOK, NEW e
  PROVE  /\ \A i : IsLast(e, i) => LastRow(e) = i
         /\ \A i : IsLastBefore(e, i) => LastRowBefore(e, day) = i /\ i # 0
  <1> DEFINE n == Len(rows)
             S == {i \in 1..n : rows[i].by = e}
             B == {i \in 1..n : rows[i].by = e /\ rows[i].day < day}
  <1>1. n \in Nat /\ DOMAIN rows = 1..n
    BY SessionFields
  <1>2. LastRow(e) = IF S # {} THEN Max(S) ELSE 0
    BY Zenon DEF LastRow, SelectLastInSeq
  <1>3. LastRowBefore(e, day) = IF B # {} THEN Max(B) ELSE 0
    BY Zenon DEF LastRowBefore, SelectLastInSeq
  <1>4. ASSUME NEW i, IsLast(e, i) PROVE LastRow(e) = i
    <2>1. i \in S /\ \A j \in S : j <= i
      BY <1>1, <1>4 DEF IsLast
    <2>2. S \subseteq 1..n
      OBVIOUS
    <2> HIDE DEF S, n
    <2>3. Max(S) \in S /\ i <= Max(S) /\ Max(S) <= i
      BY <1>1, <2>1, <2>2, LastOf
    <2>4. Max(S) \in 1..n /\ i \in 1..n
      BY <2>1, <2>2, <2>3, Zenon
    <2>a. Max(S) \in Int /\ i \in Int
      BY <1>1, <2>4
    <2>5. Max(S) = i
      <3> DEFINE m == Max(S)
      <3>1. m \in Int /\ i \in Int /\ i <= m /\ m <= i
        BY <2>3, <2>a
      <3> HIDE DEF m
      <3>2. m = i
        BY <3>1
      <3> QED BY <3>2 DEF m
    <2> QED BY <1>2, <2>1, <2>5
  <1>5. ASSUME NEW i, IsLastBefore(e, i) PROVE LastRowBefore(e, day) = i /\ i # 0
    <2>1. i \in B /\ \A j \in B : j <= i
      BY <1>1, <1>5 DEF IsLastBefore
    <2>2. B \subseteq 1..n
      OBVIOUS
    <2> HIDE DEF B, n
    <2>3. Max(B) \in B /\ i <= Max(B) /\ Max(B) <= i
      BY <1>1, <2>1, <2>2, LastOf
    <2>4. Max(B) \in 1..n /\ i \in 1..n
      BY <2>1, <2>2, <2>3, Zenon
    <2>a. Max(B) \in Int /\ i \in Int /\ i # 0
      BY <1>1, <2>4
    <2>5. Max(B) = i
      <3> DEFINE m == Max(B)
      <3>1. m \in Int /\ i \in Int /\ i <= m /\ m <= i
        BY <2>3, <2>a
      <3> HIDE DEF m
      <3>2. m = i
        BY <3>1
      <3> QED BY <3>2 DEF m
    <2> QED BY <1>3, <2>1, <2>a, <2>5
  <1> QED BY <1>4, <1>5

\* What the rows of today have made, and what is on its way to the RiskManager.
RealisedBy(r) == IF r.by \in Loops /\ r.day = day THEN r.pnl ELSE 0
Today == SumFunction([i \in DOMAIN rows |-> RealisedBy(rows[i])])
Waits(e) == work[e].at = "risk" /\ \E i : IsLast(e, i) /\ rows[i].day = day
OnItsWay(e) == IF Waits(e) THEN work[e].pnl ELSE 0
Late(e, late) == late = 0 \/ \E i : IsLastBefore(e, i) /\ late = rows[i].pnl

DailyInv(e) ==
  /\ \A i \in DOMAIN rows : rows[i].day <= day
  /\ work[e].at = "risk" =>
       \E i : /\ IsLast(e, i) /\ rows[i].pnl = work[e].pnl
              /\ rows[i].day # day =>
                   PnlToday = 0 /\ \A j \in DOMAIN rows : rows[j].by = e => rows[j].day # day
  /\ \E late \in Int : Late(e, late) /\ PnlToday + OnItsWay(e) = Today + late

LEMMA TodayType == TypeOK => Today \in Int
  <1> SUFFICES ASSUME TypeOK PROVE Today \in Int
    OBVIOUS
  <1> DEFINE n == Len(rows)
             f == [i \in DOMAIN rows |-> RealisedBy(rows[i])]
  <1>1. rows \in Seq(Row) /\ n \in Nat /\ DOMAIN rows = 1..n
    BY SessionFields
  <1>2. \A i \in DOMAIN rows : rows[i].pnl \in Int
    <2>1. \A i \in DOMAIN rows : rows[i] \in Row
      BY <1>1
    <2> QED BY <2>1 DEF Row
  <1>3. \A i \in DOMAIN f : f[i] \in Int
    BY <1>2 DEF RealisedBy
  <1>4. IsFiniteSet(DOMAIN f)
    <2>1. 1 \in Int /\ n \in Int
      BY <1>1
    <2>2. IsFiniteSet(1..n)
      BY <2>1, FS_Interval
    <2> QED BY <1>1, <2>2
  <1> HIDE DEF f
  <1>5. SumFunction(f) \in Int
    BY <1>3, <1>4, SumIsInt
  <1> QED BY <1>5 DEF f, Today

LEMMA TodayTypeThen == TypeOK' => Today' \in Int
  <1>1. (TypeOK => Today \in Int)'
    BY TodayType, PTL
  <1> QED BY <1>1

\* One more row.
LEMMA TodayGrows ==
  ASSUME TypeOK, TypeOK', day' = day, NEW r, rows' = Append(rows, r)
  PROVE  Today' = Today + RealisedBy(r)
  <1> DEFINE n == Len(rows)
             f == [i \in DOMAIN rows |-> RealisedBy(rows[i])]
             g == [i \in DOMAIN rows' |-> RealisedBy(rows'[i])]
  <1>1. rows \in Seq(Row) /\ n \in Nat /\ DOMAIN rows = 1..n
    BY SessionFields
  <1>2. rows' \in Seq(Row)
    BY DEF TypeOK, Row
  <1>3. Len(rows') = n + 1 /\ rows'[n + 1] = r /\ \A i \in 1..n : rows'[i] = rows[i]
    BY <1>1, AppendAny
  <1>4. DOMAIN rows' = 1..(n + 1)
    BY <1>2, <1>3
  <1>5. \A i \in 1..(n + 1) : rows'[i].pnl \in Int
    <2>1. \A i \in DOMAIN rows' : rows'[i] \in Row
      BY <1>2
    <2> QED BY <1>4, <2>1 DEF Row
  <1>6. /\ DOMAIN f = 1..n /\ DOMAIN g = 1..(n + 1)
        /\ \A i \in 1..n : f[i] \in Int /\ g[i] = f[i]
        /\ g[n + 1] \in Int /\ g[n + 1] = RealisedBy(r)
    <2>1. \A i \in 1..n : i \in 1..(n + 1)
      BY <1>1
    <2>2. n + 1 \in 1..(n + 1)
      BY <1>1
    <2>3. \A i \in 1..(n + 1) : RealisedBy(rows'[i]) \in Int
      BY <1>5 DEF RealisedBy
    <2> QED BY <1>1, <1>3, <1>4, <2>1, <2>2, <2>3
  <1>7. Today = SumFunction(f)
    BY Zenon DEF Today
  <1>8. Today' = SumFunction(g)
    <2>1. \A i \in DOMAIN rows' : RealisedBy(rows[i])' = RealisedBy(rows[i])'
      OBVIOUS
    <2>2. Today' = SumFunction([i \in DOMAIN rows' |-> IF rows'[i].by \in Loops /\ rows'[i].day = day'
                                                      THEN rows'[i].pnl ELSE 0])
      BY Zenon DEF Today, RealisedBy
    <2> QED BY <2>2, Zenon DEF RealisedBy
  <1> HIDE DEF f, g, n
  <1>9. SumFunction(g) = SumFunction(f) + g[n + 1]
    BY <1>1, <1>6, SumAppend
  <1> QED BY <1>6, <1>7, <1>8, <1>9
\* The steps of a session by what they do to the P&L of its engine: no part in it, a row
\* inserted, the P&L reported, midnight.
Aside(e) ==
  /\ UNCHANGED <<rows, day>> /\ PnlToday' = PnlToday
  /\ work'[e] = work[e] \/ (work[e].at # "risk" /\ work'[e].at # "risk")
Added(r) ==
  /\ rows' = Append(rows, r) /\ r.day = day /\ day' = day /\ PnlToday' = PnlToday
Bought(e) ==
  /\ work[e].at # "risk" /\ work'[e].at # "risk" /\ \E r : Added(r) /\ r.by = e /\ r.pnl = 0
Sold(e) ==
  /\ work[e].at # "risk" /\ work'[e].at = "risk"
  /\ \E r : Added(r) /\ r.by = e /\ r.pnl = work'[e].pnl
Others(e) == work'[e] = work[e] /\ \E r : Added(r) /\ r.by \notin Loops
Reported(e) ==
  /\ work[e].at = "risk" /\ work'[e].at # "risk" /\ UNCHANGED <<rows, day>>
  /\ riskDay' = day /\ dailyPnl' = PnlToday + work[e].pnl
DayEnds(e) == work'[e] = work[e] /\ day' = day + 1 /\ UNCHANGED <<rows, riskVars>>

PnlStep(e) ==
  Aside(e) \/ Bought(e) \/ Sold(e) \/ Others(e) \/ Reported(e) \/ DayEnds(e)

\* A thread's work is replaced; the engine's, or another's.
LEMMA AsideIs ==
  ASSUME TypeOK, NEW e, Loops = {e}, NEW t \in Threads, NEW w, work' = [work EXCEPT ![t] = w],
         work[t].at # "risk", w.at # "risk", UNCHANGED <<rows, day, riskVars>>
  PROVE  Aside(e)
  <1>1. work'[t] = w /\ \A u \in Threads \ {t} : work'[u] = work[u]
    BY SessionFields
  <1>2. e \in Threads /\ PnlToday' = PnlToday
    BY DEF Threads, PnlToday, riskVars
  <1> QED BY <1>1, <1>2 DEF Aside

LEMMA StillAside ==
  ASSUME NEW e, work' = work, UNCHANGED <<rows, day, riskVars>>
  PROVE  Aside(e)
  BY DEF Aside, PnlToday, riskVars

LEMMA AddedIs ==
  ASSUME NEW t, NEW q, NEW pnl, Insert(t, q, pnl), UNCHANGED <<day, riskVars>>
  PROVE  \E r : Added(r) /\ r.by = t /\ r.pnl = pnl
  <1> DEFINE r == [symbol |-> work[t].symbol, side |-> work[t].side, by |-> t, day |-> day,
                   quantity |-> q, price |-> work[t].price, pnl |-> pnl]
  <1>1. rows' = Append(rows, r) /\ PnlToday' = PnlToday /\ day' = day
    BY DEF Insert, PnlToday, riskVars
  <1>2. r.day = day /\ r.by = t /\ r.pnl = pnl
    OBVIOUS
  <1> HIDE DEF r
  <1> QED BY <1>1, <1>2 DEF Added

LEMMA EnginePnlSteps ==
  ASSUME TypeOK, NEW e, Loops = {e}, Bots \cap Loops = {},
         \/ \E s \in Symbols, side \in {"BUY", "SELL"}, p \in SignalPrices :
              TakeSignal(e, s, side, p)
         \/ ListPositions(e) \/ ReadCash(e) \/ SumPositions(e)
         \/ EngineBuy(e) \/ EngineSell(e)
         \/ EngineRecordBuy(e) \/ EngineRecordSell(e) \/ RecordPnl(e)
  PROVE  PnlStep(e)
  <1>0. e \in Threads /\ work[e] \in Handler(Len(heap)) /\ NoWork.at = "idle" /\ e \in Loops
    BY SessionFields, NoWorkIs DEF Threads
  <1>1. ASSUME NEW s, NEW side, NEW p, TakeSignal(e, s, side, p) PROVE PnlStep(e)
    <2> DEFINE stage == IF side = "BUY" THEN "account" ELSE "decide"
               w == SignalOf(stage, s, side, p, book[s])
    <2>1. work' = [work EXCEPT ![e] = w] /\ work[e].at = "idle" /\ UNCHANGED <<rows, day, riskVars>>
      BY <1>1, Zenon DEF TakeSignal, SignalOf
    <2>2. w.at = stage /\ stage # "risk"
      BY SignalFields
    <2> HIDE DEF w, stage
    <2> QED BY <1>0, <2>1, <2>2, AsideIs DEF PnlStep
  <1>2. ASSUME NEW a, a \in {"cash", "sum", "decide", "placed"}, NEW w,
               work' = [work EXCEPT ![e] = w], w.at = a, work[e].at # "risk",
               UNCHANGED <<rows, day, riskVars>>
        PROVE  PnlStep(e)
    BY <1>0, <1>2, AsideIs DEF PnlStep
  <1>3. CASE ListPositions(e)
    <2> DEFINE x == {book[s] : s \in Symbols} \ {0}
               w == [work[e] EXCEPT !.at = "cash", !.held = x]
    <2>1. work' = [work EXCEPT ![e] = w] /\ work[e].at # "risk" /\ UNCHANGED <<rows, day, riskVars>>
      BY <1>3 DEF ListPositions
    <2> HIDE DEF x
    <2>2. w.at = "cash"
      BY <1>0 DEF Handler
    <2> HIDE DEF w
    <2> QED BY <1>2, <2>1, <2>2
  <1>4. CASE ReadCash(e)
    <2> DEFINE w == [work[e] EXCEPT !.at = "sum", !.portfolio = cash]
    <2>1. work' = [work EXCEPT ![e] = w] /\ work[e].at # "risk" /\ UNCHANGED <<rows, day, riskVars>>
      BY <1>4 DEF ReadCash
    <2>2. w.at = "sum"
      BY <1>0 DEF Handler
    <2> HIDE DEF w
    <2> QED BY <1>2, <2>1, <2>2
  <1>5. CASE SumPositions(e)
    <2> DEFINE x == work[e].portfolio + SumFunction([obj \in work[e].held |->
                                                       Broker!MarketValue(heap[obj])])
               w == [work[e] EXCEPT !.at = "decide", !.held = {}, !.portfolio = x]
    <2>1. work' = [work EXCEPT ![e] = w] /\ work[e].at # "risk" /\ UNCHANGED <<rows, day, riskVars>>
      BY <1>5 DEF SumPositions
    <2> HIDE DEF x
    <2>2. w.at = "decide"
      BY <1>0 DEF Handler
    <2> HIDE DEF w
    <2> QED BY <1>2, <2>1, <2>2
  <1>6. ASSUME NEW q, work' = [work EXCEPT ![e].at = "placed", ![e].quantity = q],
               work[e].at = "decide"
        PROVE  \E w : work' = [work EXCEPT ![e] = w] /\ w.at = "placed"
    <2> DEFINE w == [work[e] EXCEPT !.at = "placed", !.quantity = q]
    <2>1. work' = [work EXCEPT ![e] = w]
      BY <1>6
    <2>2. w.at = "placed"
      BY <1>0 DEF Handler
    <2> HIDE DEF w
    <2> QED BY <2>1, <2>2
  <1>7. CASE EngineBuy(e)
    <2> DEFINE q == PositionSize(work[e].price, cash)
    <2>1. work[e].at = "decide" /\ UNCHANGED <<rows, day>>
      BY <1>7 DEF EngineBuy
    <2>2. PnlToday' = PnlToday
      <3>1. UNCHANGED riskVars \/ (riskDay' = day /\ dailyPnl' = PnlToday)
        BY <1>7, Zenon DEF EngineBuy
      <3> QED BY <2>1, <3>1 DEF PnlToday, riskVars
    <2>a. Done(e) \/ work' = [work EXCEPT ![e].at = "placed", ![e].quantity = q]
      BY <1>7, Zenon DEF EngineBuy
    <2> HIDE DEF q
    <2>3. \E w : work' = [work EXCEPT ![e] = w] /\ w.at # "risk"
      BY <1>0, <1>6, <2>1, <2>a DEF Done
    <2>4. work'[e].at # "risk"
      BY <1>0, <2>3, SessionFields
    <2> QED BY <2>1, <2>2, <2>4 DEF PnlStep, Aside
  <1>8. CASE EngineSell(e)
    <2>1. /\ work[e].at = "decide" /\ UNCHANGED <<rows, day, riskVars>>
          /\ \E q : work' = [work EXCEPT ![e].at = "placed", ![e].quantity = q]
      BY <1>8, Zenon DEF EngineSell
    <2> QED BY <1>2, <1>6, <2>1
  <1>9. CASE EngineRecordBuy(e)
    <2>1. /\ \E r : Added(r) /\ r.by = e /\ r.pnl = 0
          /\ work[e].at # "risk" /\ work' = [work EXCEPT ![e] = NoWork]
      BY <1>9, AddedIs DEF EngineRecordBuy, Returned, Done
    <2>2. work'[e].at # "risk"
      BY <1>0, <2>1, SessionFields
    <2> QED BY <2>1, <2>2 DEF PnlStep, Bought
  <1>10. CASE EngineRecordSell(e)
    <2> DEFINE pos == heap[work[e].position]
               pnl == (work[e].price - pos.avg) * pos.quantity
               w == [work[e] EXCEPT !.at = "risk", !.pnl = pnl]
    <2>1. /\ Insert(e, pos.quantity, pnl) /\ work' = [work EXCEPT ![e] = w]
          /\ work[e].at # "risk" /\ UNCHANGED <<day, riskVars>>
      BY <1>10 DEF EngineRecordSell, Returned
    <2> HIDE DEF pnl
    <2>2. w.at = "risk" /\ w.pnl = pnl
      BY <1>0 DEF Handler
    <2> HIDE DEF w
    <2>3. work'[e] = w
      BY <1>0, <2>1, SessionFields
    <2>4. \E r : Added(r) /\ r.by = e /\ r.pnl = pnl
      BY <2>1, AddedIs
    <2> QED BY <2>1, <2>2, <2>3, <2>4 DEF PnlStep, Sold
  <1>11. CASE RecordPnl(e)
    <2>1. work'[e].at # "risk"
      BY <1>0, <1>11, SessionFields DEF RecordPnl, Done
    <2> QED BY <1>11, <2>1 DEF RecordPnl, PnlStep, Reported
  <1> QED BY <1>1, <1>3, <1>4, <1>5, <1>7, <1>8, <1>9, <1>10, <1>11

LEMMA PnlSteps ==
  ASSUME TypeOK, NEW e, Loops = {e}, Next
  PROVE  PnlStep(e)
  <1>0. /\ e \in Loops /\ e \in Threads /\ e \notin Bots /\ Loops \cap Bots = {}
        /\ NoWork.at = "idle"
    BY LiveAssumption, NoWorkIs DEF Threads
  <1>1. ASSUME NEW t \in Bots, NEW w, work' = [work EXCEPT ![t] = w]
        PROVE  work'[e] = work[e]
    BY <1>0, <1>1, SessionFields
  <1>2. ASSUME NEW t \in Bots, NEW s, NEW side, NEW q, BotCommand(t, s, side, q)
        PROVE  PnlStep(e)
    <2>1. \E w : work' = [work EXCEPT ![t] = w]
      BY <1>2, Zenon DEF BotCommand
    <2>2. work'[e] = work[e] /\ UNCHANGED <<rows, day, riskVars>>
      BY <1>1, <1>2, <2>1 DEF BotCommand
    <2> QED BY <2>2 DEF PnlStep, Aside, PnlToday, riskVars
  <1>3. ASSUME NEW t \in Bots, BotPlace(t) PROVE PnlStep(e)
    <2>1. \E w : work' = [work EXCEPT ![t] = w]
      BY <1>3 DEF BotPlace
    <2>2. work'[e] = work[e] /\ UNCHANGED <<rows, day, riskVars>>
      BY <1>1, <1>3, <2>1 DEF BotPlace
    <2> QED BY <2>2 DEF PnlStep, Aside, PnlToday, riskVars
  <1>4. ASSUME NEW t \in Bots, BotRecord(t) PROVE PnlStep(e)
    <2>1. PICK q, pnl : Insert(t, q, pnl)
      BY <1>4, Zenon DEF BotRecord
    <2>2. work'[e] = work[e] /\ UNCHANGED <<day, riskVars>>
      BY <1>1, <1>4 DEF BotRecord, Done
    <2>3. \E r : Added(r) /\ r.by = t
      BY <2>1, <2>2, AddedIs
    <2>4. t \notin Loops
      BY <1>0
    <2> QED BY <2>2, <2>3, <2>4 DEF PnlStep, Others
  <1>5. ASSUME NEW t \in Threads, BrokerStep(t) PROVE PnlStep(e)
    BY <1>5, StillAside DEF BrokerStep, PnlStep
  <1>6. ASSUME NEW t \in Threads, Rejected(t) \/ Raised(t) \/ InsertFails(t) PROVE PnlStep(e)
    <2>1. /\ work' = [work EXCEPT ![t] = NoWork] /\ work[t].at # "risk"
          /\ UNCHANGED <<rows, day, riskVars>>
      BY <1>6 DEF Rejected, Raised, InsertFails, Returned, Done
    <2> QED BY <1>0, <2>1, AsideIs DEF PnlStep
  <1>7. ASSUME Midnight PROVE PnlStep(e)
    BY <1>7 DEF Midnight, PnlStep, DayEnds
  <1>8. CASE \E t \in Loops :
               \/ \E s \in Symbols, side \in {"BUY", "SELL"}, p \in SignalPrices :
                    TakeSignal(t, s, side, p)
               \/ ListPositions(t) \/ ReadCash(t) \/ SumPositions(t)
               \/ EngineBuy(t) \/ EngineSell(t)
               \/ EngineRecordBuy(t) \/ EngineRecordSell(t) \/ RecordPnl(t)
    BY <1>0, <1>8, EnginePnlSteps
  <1> QED BY <1>2, <1>3, <1>4, <1>5, <1>6, <1>7, <1>8 DEF Next
LEMMA LastRowsKept ==
  ASSUME NEW e, UNCHANGED <<rows, day>>
  PROVE  /\ \A i : IsLast(e, i)' <=> IsLast(e, i)
         /\ \A late : Late(e, late)' <=> Late(e, late)
         /\ Today' = Today
  <1>1. \A i : (IsLast(e, i)' <=> IsLast(e, i)) /\ (IsLastBefore(e, i)' <=> IsLastBefore(e, i))
    BY DEF IsLast, IsLastBefore
  <1>2. \A late : Late(e, late)' <=> Late(e, late)
    BY <1>1 DEF Late
  <1>3. Today' = Today
    <2>1. \A i : RealisedBy(rows[i])' = RealisedBy(rows[i])
      BY DEF RealisedBy
    <2> QED BY Zenon DEF Today, RealisedBy
  <1> QED BY <1>1, <1>2, <1>3

\* A row of today leaves the rows of before today as they are.
LEMMA AddedKeeps ==
  ASSUME TypeOK, TypeOK', NEW e, NEW r, Added(r)
  PROVE  /\ \A late : Late(e, late) => Late(e, late)'
         /\ (\A i \in DOMAIN rows : rows[i].day <= day)
              => \A i \in DOMAIN rows' : rows'[i].day <= day'
         /\ r.by # e => \A i : IsLast(e, i) => IsLast(e, i)' /\ rows'[i] = rows[i]
         /\ r.by = e => \E i : IsLast(e, i)' /\ rows'[i] = r
         /\ \A j \in DOMAIN rows' : j \notin DOMAIN rows => rows'[j] = r
         /\ \A j \in DOMAIN rows : rows'[j] = rows[j]
         /\ Today' = Today + RealisedBy(r)
  <1> DEFINE n == Len(rows)
  <1>1. rows \in Seq(Row) /\ n \in Nat /\ DOMAIN rows = 1..n /\ day \in 0..MaxDay
    BY SessionFields
  <1>2. rows' = Append(rows, r) /\ r.day = day /\ day' = day
    BY DEF Added
  <1>3. rows' \in Seq(Row)
    BY DEF TypeOK, Row
  <1>4. /\ rows'[n + 1] = r /\ \A i \in 1..n : rows'[i] = rows[i]
        /\ DOMAIN rows' = 1..(n + 1)
    <2>1. Len(rows') = n + 1 /\ rows'[n + 1] = r /\ \A i \in 1..n : rows'[i] = rows[i]
      BY <1>1, <1>2, AppendAny
    <2>2. DOMAIN rows' = 1..Len(rows')
      BY <1>3
    <2> QED BY <2>1, <2>2
  <1> HIDE DEF n
  <1>5. /\ \A j \in 1..(n + 1) : j = n + 1 \/ j \in 1..n
        /\ \A j \in 1..n : j \in 1..(n + 1) /\ j <= n + 1 /\ j # n + 1
        /\ n + 1 \in 1..(n + 1) /\ n + 1 <= n + 1
    BY <1>1
  <1>6. day \in Int /\ day <= day /\ ~(day < day)
    BY <1>1
  <1>7. ASSUME NEW i, IsLastBefore(e, i) PROVE IsLastBefore(e, i)' /\ rows'[i] = rows[i]
    <2>1. i \in 1..n /\ rows'[i] = rows[i] /\ i \in DOMAIN rows'
      BY <1>1, <1>4, <1>5, <1>7 DEF IsLastBefore
    <2>2. ASSUME NEW j \in DOMAIN rows', rows'[j].by = e, rows'[j].day < day PROVE j <= i
      <3>1. j # n + 1
        BY <1>2, <1>4, <1>6, <2>2
      <3>2. j \in 1..n /\ rows'[j] = rows[j]
        BY <1>4, <1>5, <2>2, <3>1
      <3> QED BY <1>1, <1>7, <2>2, <3>2 DEF IsLastBefore
    <2> QED BY <1>2, <1>7, <2>1, <2>2 DEF IsLastBefore
  <1>8. \A late : Late(e, late) => Late(e, late)'
    BY <1>7 DEF Late
  <1>9. ASSUME r.by # e, NEW i, IsLast(e, i) PROVE IsLast(e, i)' /\ rows'[i] = rows[i]
    <2>1. i \in 1..n /\ rows'[i] = rows[i] /\ i \in DOMAIN rows'
      BY <1>1, <1>4, <1>5, <1>9 DEF IsLast
    <2>2. ASSUME NEW j \in DOMAIN rows', rows'[j].by = e PROVE j <= i
      <3>1. j # n + 1
        BY <1>4, <1>9, <2>2
      <3>2. j \in 1..n /\ rows'[j] = rows[j]
        BY <1>4, <1>5, <2>2, <3>1
      <3> QED BY <1>1, <1>9, <2>2, <3>2 DEF IsLast
    <2> QED BY <1>9, <2>1, <2>2 DEF IsLast
  <1>10. r.by = e => \E i : IsLast(e, i)' /\ rows'[i] = r
    <2>1. PICK i : i = n + 1
      OBVIOUS
    <2>2. i \in DOMAIN rows' /\ rows'[i] = r /\ \A j \in DOMAIN rows' : j <= i
      BY <1>4, <1>5, <2>1
    <2>3. r.by = e => IsLast(e, i)'
      BY <2>2 DEF IsLast
    <2> QED BY <2>2, <2>3
  <1>11. (\A i \in DOMAIN rows : rows[i].day <= day) => \A i \in DOMAIN rows' : rows'[i].day <= day'
    BY <1>1, <1>2, <1>4, <1>5, <1>6
  <1>12. /\ \A j \in DOMAIN rows' : j \notin DOMAIN rows => rows'[j] = r
         /\ \A j \in DOMAIN rows : rows'[j] = rows[j]
    BY <1>1, <1>4, <1>5
  <1>13. Today' = Today + RealisedBy(r)
    BY <1>2, TodayGrows
  <1> QED BY <1>8, <1>9, <1>10, <1>11, <1>12, <1>13

\* No row is of a day still to come.
LEMMA NothingYet ==
  ASSUME TypeOK, TypeOK', day' = day + 1, UNCHANGED rows,
         \A i \in DOMAIN rows : rows[i].day <= day
  PROVE  Today' = 0 /\ \A i \in DOMAIN rows : rows[i].day < day' /\ rows[i].day # day'
  <1>1. rows \in Seq(Row) /\ Len(rows) \in Nat /\ DOMAIN rows = 1..Len(rows) /\ day \in 0..MaxDay
    BY SessionFields
  <1>2. \A i \in DOMAIN rows : rows[i] \in Row
    BY <1>1
  <1>3. \A i \in DOMAIN rows : rows[i].day < day' /\ rows[i].day # day'
    <2>1. \A i \in DOMAIN rows : rows[i].day \in Int
      BY <1>2 DEF Row
    <2>2. day \in Int
      BY <1>1
    <2> QED BY <2>1, <2>2
  <1> DEFINE g == [i \in DOMAIN rows' |-> IF rows'[i].by \in Loops /\ rows'[i].day = day'
                                          THEN rows'[i].pnl ELSE 0]
  <1>4. Today' = SumFunction(g)
    BY Zenon DEF Today, RealisedBy
  <1>5. \A i \in DOMAIN g : g[i] = 0
    BY <1>3
  <1>6. IsFiniteSet(DOMAIN g)
    <2>1. 1 \in Int /\ Len(rows) \in Int
      BY <1>1
    <2>2. IsFiniteSet(1..Len(rows))
      BY <2>1, FS_Interval
    <2>3. DOMAIN g = 1..Len(rows)
      BY <1>1
    <2> QED BY <2>2, <2>3
  <1> HIDE DEF g
  <1> QED BY <1>3, <1>4, <1>5, <1>6, SumIsZero

\* With nothing of today realised, the sum is zero.
LEMMA NothingToday ==
  ASSUME TypeOK, NEW e, Loops = {e},
         \A j \in DOMAIN rows : rows[j].by = e => rows[j].day # day
  PROVE  Today = 0
  <1>1. rows \in Seq(Row) /\ Len(rows) \in Nat /\ DOMAIN rows = 1..Len(rows)
    BY SessionFields
  <1> DEFINE g == [i \in DOMAIN rows |-> RealisedBy(rows[i])]
  <1>2. \A i \in DOMAIN g : g[i] = 0
    BY DEF RealisedBy
  <1>3. IsFiniteSet(DOMAIN g)
    <2>1. 1 \in Int /\ Len(rows) \in Int
      BY <1>1
    <2>2. IsFiniteSet(1..Len(rows))
      BY <2>1, FS_Interval
    <2> QED BY <1>1, <2>2
  <1>4. Today = SumFunction(g)
    BY Zenon DEF Today
  <1> HIDE DEF g
  <1> QED BY <1>2, <1>3, <1>4, SumIsZero

\* One row is the last: there are no two.
LEMMA OneIsLast ==
  ASSUME TypeOK, NEW e, NEW i, IsLast(e, i)
  PROVE  \A j : IsLast(e, j) => j = i
  <1>1. Len(rows) \in Nat /\ DOMAIN rows = 1..Len(rows)
    BY SessionFields
  <1>2. ASSUME NEW j, IsLast(e, j) PROVE j = i
    <2>1. j \in DOMAIN rows /\ i \in DOMAIN rows /\ j <= i /\ i <= j
      BY <1>2 DEF IsLast
    <2>2. j \in Int /\ i \in Int
      BY <1>1, <2>1
    <2> QED BY <2>1, <2>2
  <1> QED BY <1>2
LEMMA NextDailyInv ==
  ASSUME TypeOK, TypeOK', NEW e, Loops = {e}, DailyInv(e), [Next]_vars
  PROVE  DailyInv(e)'
  <1> DEFINE Risky == \E i : /\ IsLast(e, i) /\ rows[i].pnl = work[e].pnl
                             /\ rows[i].day # day =>
                                  /\ PnlToday = 0
                                  /\ \A j \in DOMAIN rows : rows[j].by = e => rows[j].day # day
             Adds == \E late \in Int : Late(e, late) /\ PnlToday + OnItsWay(e) = Today + late
             Dated == \A i \in DOMAIN rows : rows[i].day <= day
  <1>0. /\ Dated /\ (work[e].at = "risk" => Risky) /\ Adds
        /\ Today \in Int /\ Today' \in Int /\ PnlToday \in Int /\ e \in Threads
        /\ day \in 0..MaxDay
    BY TodayType, TodayTypeThen, PnlType, SessionFields DEF DailyInv, Threads
  <1>a. work[e].pnl \in Int
    BY <1>0, SessionFields, HandlerFields
  <1>b. OnItsWay(e) \in Int
    BY <1>a DEF OnItsWay
  <1>c. work[e].at # "risk" => OnItsWay(e) = 0
    BY DEF OnItsWay, Waits
  <1>d. work'[e].at # "risk" => OnItsWay(e)' = 0
    BY DEF OnItsWay, Waits
  <1>1. Dated' /\ (work'[e].at = "risk" => Risky') /\ Adds' => DailyInv(e)'
    BY DEF DailyInv
  <1>2. CASE Aside(e)
    <2>1. /\ UNCHANGED <<rows, day>> /\ PnlToday' = PnlToday
          /\ \A i : IsLast(e, i)' <=> IsLast(e, i)
          /\ \A late : Late(e, late)' <=> Late(e, late)
          /\ Today' = Today
      BY <1>2, LastRowsKept DEF Aside
    <2>2. Dated'
      BY <1>0, <2>1
    <2>3. work'[e].at = "risk" => work'[e] = work[e]
      BY <1>2 DEF Aside
    <2>4. work'[e].at = "risk" => Risky'
      BY <1>0, <2>1, <2>3
    <2>5. OnItsWay(e)' = OnItsWay(e)
      <3>1. CASE work'[e] = work[e]
        BY <2>1, <3>1 DEF OnItsWay, Waits
      <3>2. CASE work[e].at # "risk" /\ work'[e].at # "risk"
        BY <1>c, <1>d, <3>2
      <3> QED BY <1>2, <3>1, <3>2 DEF Aside
    <2>6. Adds'
      BY <1>0, <2>1, <2>5
    <2> QED BY <1>1, <2>2, <2>4, <2>6
  <1>3. CASE Bought(e) \/ Sold(e) \/ Others(e)
    <2>1. PICK r : Added(r) /\ \/ r.by = e /\ r.pnl = 0 /\ Bought(e)
                               \/ r.by = e /\ r.pnl = work'[e].pnl /\ Sold(e)
                               \/ r.by \notin Loops /\ Others(e)
      BY <1>3 DEF Bought, Sold, Others
    <2>2. /\ \A late : Late(e, late) => Late(e, late)'
          /\ Dated => Dated'
          /\ r.by # e => \A i : IsLast(e, i) => IsLast(e, i)' /\ rows'[i] = rows[i]
          /\ r.by = e => \E i : IsLast(e, i)' /\ rows'[i] = r
          /\ \A j \in DOMAIN rows' : j \notin DOMAIN rows => rows'[j] = r
          /\ \A j \in DOMAIN rows : rows'[j] = rows[j]
          /\ Today' = Today + RealisedBy(r)
      BY <2>1, AddedKeeps
    <2>3. r.day = day /\ day' = day /\ PnlToday' = PnlToday
      BY <2>1 DEF Added
    <2> HIDE DEF Dated
    <2>4. PICK late \in Int : Late(e, late) /\ PnlToday + OnItsWay(e) = Today + late
      BY <1>0
    <2>5. Late(e, late)'
      BY <2>2, <2>4
    <2>6. CASE r.by = e /\ r.pnl = 0 /\ Bought(e)
      <3>1. work[e].at # "risk" /\ work'[e].at # "risk"
        BY <2>6 DEF Bought
      <3>2. RealisedBy(r) = 0
        BY <2>3, <2>6 DEF RealisedBy
      <3>3. PnlToday' + OnItsWay(e)' = Today' + late
        BY <1>0, <1>c, <1>d, <2>2, <2>3, <2>4, <3>1, <3>2
      <3> QED BY <1>0, <1>1, <2>2, <2>5, <3>1, <3>3
    <2>7. CASE r.by = e /\ r.pnl = work'[e].pnl /\ Sold(e)
      <3>1. work[e].at # "risk" /\ work'[e].at = "risk"
        BY <2>7 DEF Sold
      <3>2. RealisedBy(r) = r.pnl
        BY <2>3, <2>7 DEF RealisedBy
      <3>3. PICK i : IsLast(e, i)' /\ rows'[i] = r
        BY <2>2, <2>7
      <3>4. OnItsWay(e)' = r.pnl
        BY <2>3, <2>7, <3>1, <3>3 DEF OnItsWay, Waits
      <3>5. Risky'
        BY <2>3, <2>7, <3>3
      <3>6. work'[e].pnl \in Int
        <4>1. work' \in [Threads -> Handler(Len(heap'))]
          BY DEF TypeOK, Handler
        <4> QED BY <1>0, <4>1, HandlerFields
      <3>7. PnlToday' + OnItsWay(e)' = Today' + late
        BY <1>0, <1>c, <2>2, <2>3, <2>4, <2>7, <3>1, <3>2, <3>4, <3>6
      <3> QED BY <1>0, <1>1, <2>2, <2>5, <3>5, <3>7
    <2>8. CASE r.by \notin Loops /\ Others(e)
      <3>1. work'[e] = work[e] /\ r.by # e
        BY <2>8 DEF Others
      <3>2. RealisedBy(r) = 0
        BY <2>8 DEF RealisedBy
      <3>3. work'[e].at = "risk" => Risky' /\ OnItsWay(e)' = OnItsWay(e)
        <4> SUFFICES ASSUME work[e].at = "risk" PROVE Risky' /\ OnItsWay(e)' = OnItsWay(e)
          BY <3>1
        <4>1. PICK i : /\ IsLast(e, i) /\ rows[i].pnl = work[e].pnl
                       /\ rows[i].day # day =>
                            /\ PnlToday = 0
                            /\ \A j \in DOMAIN rows : rows[j].by = e => rows[j].day # day
          BY <1>0
        <4>2. IsLast(e, i)' /\ rows'[i] = rows[i]
          BY <2>2, <3>1, <4>1
        <4>3. ASSUME NEW j \in DOMAIN rows', rows'[j].by = e
              PROVE  j \in DOMAIN rows /\ rows'[j] = rows[j]
          BY <2>2, <3>1, <4>3
        <4>4. Risky'
          BY <2>3, <3>1, <4>1, <4>2, <4>3
        <4>5. \A k : (IsLast(e, k) => k = i) /\ (IsLast(e, k)' => k = i)
          <5>1. \A k : IsLast(e, k) => k = i
            BY <4>1, OneIsLast
          <5>2. (TypeOK /\ IsLast(e, i) => \A k : IsLast(e, k) => k = i)'
            <6>1. TypeOK /\ IsLast(e, i) => \A k : IsLast(e, k) => k = i
              BY OneIsLast
            <6>2. ASSUME TypeOK', IsLast(e, i)', NEW k, IsLast(e, k)' PROVE k = i
              <7>1. rows' \in Seq(Row)
                BY DEF TypeOK, Row
              <7>2. DOMAIN rows' = 1..Len(rows') /\ Len(rows') \in Nat
                BY <7>1
              <7>3. k \in DOMAIN rows' /\ i \in DOMAIN rows' /\ k <= i /\ i <= k
                BY <6>2 DEF IsLast
              <7>4. k \in Int /\ i \in Int
                BY <7>2, <7>3
              <7> QED BY <7>3, <7>4
            <6> QED BY <6>2
          <5> QED BY <4>2, <5>1, <5>2
        <4>6. Waits(e)' <=> Waits(e)
          BY <2>3, <3>1, <4>1, <4>2, <4>5 DEF Waits
        <4>7. OnItsWay(e)' = OnItsWay(e)
          BY <3>1, <4>6 DEF OnItsWay
        <4> QED BY <4>4, <4>7
      <3>4. OnItsWay(e)' = OnItsWay(e)
        BY <1>c, <1>d, <3>1, <3>3
      <3>5. PnlToday' + OnItsWay(e)' = Today' + late
        BY <1>0, <2>2, <2>3, <2>4, <3>2, <3>4
      <3> QED BY <1>0, <1>1, <2>2, <2>5, <3>3, <3>5
    <2> QED BY <2>1, <2>6, <2>7, <2>8
  <1>4. CASE Reported(e)
    <2>1. /\ UNCHANGED <<rows, day>>
          /\ \A i : IsLast(e, i)' <=> IsLast(e, i)
          /\ \A late : Late(e, late)' <=> Late(e, late)
          /\ Today' = Today
      BY <1>4, LastRowsKept DEF Reported
    <2>2. /\ PnlToday' = PnlToday + work[e].pnl /\ OnItsWay(e)' = 0
          /\ work[e].at = "risk" /\ work'[e].at # "risk"
      BY <1>4, <1>d, <2>1 DEF Reported, PnlToday
    <2>3. PICK i : /\ IsLast(e, i) /\ rows[i].pnl = work[e].pnl
                   /\ rows[i].day # day =>
                        /\ PnlToday = 0
                        /\ \A j \in DOMAIN rows : rows[j].by = e => rows[j].day # day
      BY <1>0, <2>2
    <2>4. PICK late \in Int : Late(e, late) /\ PnlToday + OnItsWay(e) = Today + late
      BY <1>0
    <2>5. Dated'
      BY <1>0, <2>1
    <2>6. CASE rows[i].day = day
      <3>1. OnItsWay(e) = work[e].pnl
        BY <2>2, <2>3, <2>6 DEF OnItsWay, Waits
      <3>2. PnlToday' + OnItsWay(e)' = Today' + late
        BY <1>0, <1>a, <2>1, <2>2, <2>4, <3>1
      <3> QED BY <1>1, <2>1, <2>2, <2>4, <2>5, <3>2
    <2>7. CASE rows[i].day # day
      <3>1. PnlToday = 0 /\ Today = 0
        BY <2>3, <2>7, NothingToday
      <3>2. rows[i].day < day
        <4>1. i \in DOMAIN rows /\ rows[i].day <= day
          BY <1>0, <2>3 DEF IsLast
        <4>2. rows[i].day \in 0..MaxDay
          <5>1. rows[i] \in Row
            BY <4>1, SessionFields
          <5> QED BY <5>1 DEF Row
        <4> QED BY <1>0, <2>7, <4>1, <4>2
      <3>3. IsLastBefore(e, i)
        BY <2>3, <3>2 DEF IsLast, IsLastBefore
      <3>4. Late(e, work[e].pnl)
        BY <2>3, <3>3 DEF Late
      <3>5. PnlToday' + OnItsWay(e)' = Today' + work[e].pnl
        BY <1>a, <2>1, <2>2, <3>1
      <3>6. PICK p \in Int : p = work[e].pnl
        BY <1>a
      <3>7. Late(e, p)' /\ PnlToday' + OnItsWay(e)' = Today' + p
        BY <2>1, <3>4, <3>5, <3>6
      <3> QED BY <1>1, <2>2, <2>5, <3>7
    <2> QED BY <2>6, <2>7
  <1>5. CASE DayEnds(e)
    <2>1. /\ Today' = 0 /\ rows' = rows /\ day' = day + 1 /\ work'[e] = work[e]
          /\ \A i \in DOMAIN rows : rows[i].day < day' /\ rows[i].day # day'
      BY <1>0, <1>5, NothingYet DEF DayEnds
    <2>2. PnlToday' = 0
      <3>1. riskDay' = riskDay /\ riskDay \in 0..day
        BY <1>5, SessionFields DEF DayEnds, riskVars
      <3>2. riskDay # day'
        BY <1>0, <2>1, <3>1
      <3> QED BY <3>1, <3>2 DEF PnlToday
    <2>3. \A i : IsLast(e, i)' <=> IsLast(e, i)
      BY <2>1 DEF IsLast
    <2>4. Dated'
      <3>1. \A i \in DOMAIN rows : rows[i].day <= day'
        <4>1. \A i \in DOMAIN rows : rows[i].day \in Int
          <5>1. \A i \in DOMAIN rows : rows[i] \in Row
            BY SessionFields
          <5> QED BY <5>1 DEF Row
        <4>2. day' \in Int
          BY <1>0, <2>1
        <4> QED BY <2>1, <4>1, <4>2
      <3> QED BY <2>1, <3>1
    <2>5. work'[e].at = "risk" => Risky'
      BY <1>0, <2>1, <2>2, <2>3
    <2>6. OnItsWay(e)' = 0
      <3>1. ~Waits(e)'
        BY <2>1, <2>3 DEF Waits, IsLast
      <3> QED BY <3>1 DEF OnItsWay
    <2>7. Late(e, 0)'
      BY DEF Late
    <2>8. PnlToday' + OnItsWay(e)' = Today' + 0
      BY <2>1, <2>2, <2>6
    <2> QED BY <1>1, <2>4, <2>5, <2>7, <2>8
  <1>6. CASE UNCHANGED vars
    BY <1>2, <1>6, StillAside DEF vars
  <1>7. CASE Next
    BY <1>2, <1>3, <1>4, <1>5, <1>7, PnlSteps DEF PnlStep
  <1> QED BY <1>6, <1>7
LEMMA DailyInvSuffices ==
  ASSUME TypeOK, NEW e, Loops = {e}, DailyInv(e)
  PROVE  DailyPnlIsTodays
  <1> DEFINE f == [t \in Loops |-> IF work[t].at = "risk" /\ rows[LastRow(t)].day = day
                                   THEN work[t].pnl ELSE 0]
             earlier == {LastRowBefore(t, day) : t \in Loops} \ {0}
  <1>1. PICK late \in Int : Late(e, late) /\ PnlToday + OnItsWay(e) = Today + late
    BY DEF DailyInv
  <1>2. e \in Threads /\ e \in Loops /\ DOMAIN f = {e}
    BY DEF Threads
  <1>3. f[e] = OnItsWay(e)
    <2>1. CASE work[e].at = "risk"
      <3>1. PICK i : IsLast(e, i)
        BY <2>1 DEF DailyInv
      <3>2. LastRow(e) = i /\ \A j : IsLast(e, j) => j = i
        BY <3>1, LastRowIs, OneIsLast
      <3> QED BY <1>2, <2>1, <3>1, <3>2 DEF OnItsWay, Waits
    <2>2. CASE work[e].at # "risk"
      BY <1>2, <2>2 DEF OnItsWay, Waits
    <2> QED BY <2>1, <2>2
  <1>4. work[e].pnl \in Int
    BY <1>2, SessionFields, HandlerFields
  <1>5. f[e] \in Int
    BY <1>3, <1>4 DEF OnItsWay
  <1>6. SumFunction(f) = f[e]
    <2>1. SumFunction(f) = SumFunctionOnSet(f, {e})
      BY <1>2, Zenon DEF SumFunction
    <2> HIDE DEF f
    <2>2. IsFiniteSet({e}) /\ \A x \in {e} : f[x] \in Int
      BY <1>5, FS_Singleton
    <2>3. SumFunctionOnSet(f, {e}) = f[e] + SumFunctionOnSet(f, {e} \ {e})
      BY <2>2, SumRemove
    <2>4. {e} \ {e} = {}
      OBVIOUS
    <2>5. SumFunctionOnSet(f, {e} \ {e}) = 0
      BY <2>4, SumEmpty
    <2> QED BY <1>5, <2>1, <2>3, <2>5
  <1>7. late \in {0} \cup {rows[i].pnl : i \in earlier}
    <2>1. CASE late = 0
      BY <2>1
    <2>2. CASE \E i : IsLastBefore(e, i) /\ late = rows[i].pnl
      <3>1. PICK i : IsLastBefore(e, i) /\ late = rows[i].pnl
        BY <2>2
      <3>2. LastRowBefore(e, day) = i /\ i # 0
        BY <3>1, LastRowIs
      <3>3. i \in earlier
        BY <1>2, <3>2
      <3> QED BY <3>1, <3>3
    <2> QED BY <1>1, <2>1, <2>2 DEF Late
  <1>8. PnlToday + SumFunction(f) = Today + late
    BY <1>1, <1>3, <1>6
  <1> HIDE DEF f, earlier
  <1>9. \E l \in {0} \cup {rows[i].pnl : i \in earlier} : PnlToday + SumFunction(f) = Today + l
    BY <1>7, <1>8
  <1>10. Today = SumFunction([i \in DOMAIN rows |->
                                IF rows[i].by \in Loops /\ rows[i].day = day THEN rows[i].pnl ELSE 0])
    BY Zenon DEF Today, RealisedBy
  <1> QED BY <1>9, <1>10, Zenon DEF DailyPnlIsTodays, f, earlier, Total

\* Whatever the signals, the commands, the prices and the days, and whatever inserts fail:
\* the P&L the one engine's RiskManager holds against today's limit is that of its rows of
\* today, and of at most one of before (record_pnl, _reset_daily_if_needed).
THEOREM DailyPnlKept ==
  ASSUME NEW e, Loops = {e}, AnySize
  PROVE  Spec => []DailyPnlIsTodays
  <1>1. Init => DailyInv(e)
    <2> SUFFICES ASSUME Init PROVE DailyInv(e)
      OBVIOUS
    <2>1. rows = <<>> /\ PnlToday = 0 /\ work[e].at = "idle"
      BY NoWorkIs DEF Init, PnlToday, Threads
    <2>2. DOMAIN rows = {}
      BY <2>1
    <2> DEFINE f == [i \in DOMAIN rows |-> RealisedBy(rows[i])]
    <2>3. IsFiniteSet(DOMAIN f) /\ \A i \in DOMAIN f : f[i] = 0
      BY <2>2, FS_EmptySet
    <2>4. Today = SumFunction(f)
      BY Zenon DEF Today
    <2> HIDE DEF f
    <2>5. Today = 0
      BY <2>3, <2>4, SumIsZero
    <2>6. OnItsWay(e) = 0 /\ Late(e, 0) /\ 0 \in Int /\ 0 + 0 = 0
      BY <2>1 DEF OnItsWay, Waits, Late
    <2> QED BY <2>1, <2>2, <2>5, <2>6 DEF DailyInv
  <1>2. TypeOK /\ TypeOK' /\ DailyInv(e) /\ [Next]_vars => DailyInv(e)'
    BY NextDailyInv
  <1>3. TypeOK /\ DailyInv(e) => DailyPnlIsTodays
    BY DailyInvSuffices
  <1>4. Spec => []TypeOK
    BY SessionTypes
  <1> QED BY <1>1, <1>2, <1>3, <1>4, PTL DEF Spec
=============================================================================
