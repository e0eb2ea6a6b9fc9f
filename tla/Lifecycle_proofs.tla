-------------------------- MODULE Lifecycle_proofs --------------------------
(***************************************************************************)
(* Theorems about Lifecycle, for any finite number of /startbot threads:   *)
(* its types, which bound the hooks registered by the loops there are, the *)
(* winding down of a stopped scheduler, and the alternation of the hooks.  *)
(***************************************************************************)
EXTENDS Lifecycle, FiniteSetTheorems, TLAPS

\* The loops that have been through register: a loop that is back may or may not have.
Registered == {l \in Loops : at[l] \notin {"unborn", "connect", "register"}}

\* Types, with what bounds the hooks and the walk over them.
TypeInv ==
  /\ running \in BOOLEAN /\ connected \in BOOLEAN /\ stopping \in BOOLEAN
  /\ interrupted \in BOOLEAN /\ exited \in BOOLEAN
  /\ session \in Sessions /\ lastSession \in Sessions
  /\ at \in [Loops -> Stages]
  /\ current \in [Loops -> Sessions]
  /\ next \in [Loops -> Nat \ {0}]
  /\ lastHook \in {"none", "open", "close"}
  /\ late \in [Loops -> 0..MaxLate]
  /\ callbacks \in Nat
  /\ callbacks <= Cardinality(Registered)
  /\ \A l \in Loops : next[l] <= callbacks + 1

\* Nobody is late while the scheduler runs, nor inside the iteration of which it has
\* seen it run.
LateInv ==
  /\ running => \A l \in Loops : late[l] = 0
  /\ \A l \in Loops : at[l] \in {"transition", "remember"} => late[l] = 0
  /\ \A l \in Loops : late[l] <= 1

\* Between the hook and the session it is about, the session is the iteration's.
HookInv ==
  (\A l \in Starts : at[l] = "unborn") =>
    /\ at[Main] = "remember" => (lastHook = "open" <=> current[Main] = "REGULAR")
    /\ at[Main] # "remember" => (lastHook = "open" <=> lastSession = "REGULAR")

IInv == TypeInv /\ LateInv /\ HookInv

LEMMA LoopsFinite == IsFiniteSet(Loops) /\ Main \in Loops /\ Starts \subseteq Loops
  BY LifecycleAssumption, FS_Singleton, FS_Union DEF Loops

\* Where a loop may be counts for the bound: more loops past register, no fewer hooks.
LEMMA RegisteredGrows ==
  ASSUME NEW S, NEW T, IsFiniteSet(T), S \subseteq T
  PROVE  Cardinality(S) \in Nat /\ Cardinality(T) \in Nat /\ Cardinality(S) <= Cardinality(T)
  BY FS_Subset, FS_CardinalityType

LEMMA RegisteredFinite ==
  /\ IsFiniteSet(Registered) /\ Cardinality(Registered) \in Nat
  /\ Cardinality(Registered) <= Cardinality(Loops) /\ Cardinality(Loops) \in Nat
  <1>1. Registered \subseteq Loops
    BY DEF Registered
  <1> QED BY <1>1, LoopsFinite, FS_Subset, RegisteredGrows

\* The bound survives a step that registers nothing and takes no loop back.
LEMMA BoundKept ==
  ASSUME callbacks \in Nat, callbacks <= Cardinality(Registered),
         callbacks' = callbacks, Registered \subseteq Registered'
  PROVE  callbacks' \in Nat /\ callbacks' <= Cardinality(Registered)'
  <1>1. Registered' \subseteq Loops /\ IsFiniteSet(Registered')
    BY LoopsFinite, FS_Subset DEF Registered
  <1>2. Cardinality(Registered) <= Cardinality(Registered')
        /\ Cardinality(Registered) \in Nat /\ Cardinality(Registered') \in Nat
    BY <1>1, RegisteredGrows
  <1> QED BY <1>2

LEMMA InitIInv == Init => IInv
  <1> SUFFICES ASSUME Init PROVE IInv
    OBVIOUS
  <1>1. TypeInv
    <2>1. 0 <= Cardinality(Registered)
      BY RegisteredFinite
    <2>2. /\ at \in [Loops -> Stages] /\ current \in [Loops -> Sessions]
          /\ next \in [Loops -> Nat \ {0}] /\ late \in [Loops -> 0..MaxLate]
      BY DEF Init, Stages, Sessions, MaxLate
    <2>3. \A l \in Loops : next[l] <= callbacks + 1
      BY DEF Init
    <2> QED BY <2>1, <2>2, <2>3 DEF Init, TypeInv, Sessions
  <1>2. LateInv
    BY LoopsFinite DEF Init, LateInv
  <1>3. HookInv
    BY LoopsFinite DEF Init, HookInv
  <1> QED BY <1>1, <1>2, <1>3 DEF IInv

\* What a step of one loop does to the sets a proof speaks of.
LEMMA GotoStage ==
  ASSUME NEW l \in Loops, NEW stage \in Stages, at \in [Loops -> Stages], Goto(l, stage)
  PROVE  /\ at' \in [Loops -> Stages]
         /\ at'[l] = stage
         /\ \A k \in Loops \ {l} : at'[k] = at[k]
  BY DEF Goto

\* Only Connect's and Register's loops can add to the loops past register, and no step
\* takes one away.
LEMMA RegisteredStays ==
  ASSUME NEW l \in Loops, NEW stage \in Stages, at \in [Loops -> Stages], Goto(l, stage),
         stage \notin {"unborn", "connect", "register"}
         \/ at[l] \in {"unborn", "connect", "register"}
  PROVE  Registered \subseteq Registered'
  BY GotoStage DEF Registered

LEMMA RegisterCounts ==
  ASSUME TypeInv, NEW l \in Loops, Register(l)
  PROVE  callbacks' \in Nat /\ callbacks' <= Cardinality(Registered)'
  <1> DEFINE S == Registered
  <1>1. at' = [at EXCEPT ![l] = "enter"] /\ at[l] = "register" /\ callbacks' = callbacks + 1
    BY DEF Register, Goto
  <1>2. S' = S \cup {l} /\ l \notin S
    BY <1>1 DEF Registered, TypeInv, Stages
  <1>3. IsFiniteSet(S) /\ Cardinality(S) \in Nat
    BY RegisteredFinite
  <1>4. Cardinality(S \cup {l}) = Cardinality(S) + 1
    BY <1>2, <1>3, FS_AddElement
  <1>5. callbacks \in Nat /\ callbacks <= Cardinality(S)
    BY DEF TypeInv
  <1>6. Cardinality(S)' = Cardinality(S) + 1
    BY <1>2, <1>4
  <1> QED BY <1>1, <1>3, <1>5, <1>6

LEMMA NextTypeInv == TypeInv /\ [Next]_vars => TypeInv'
  <1> SUFFICES ASSUME TypeInv, [Next]_vars PROVE TypeInv'
    OBVIOUS
  <1> USE LoopsFinite DEF flags, locals, outside, history
  <1>1. ASSUME NEW l \in Loops, Connect(l) PROVE TypeInv'
    <2>1. at[l] = "connect" /\ Goto(l, "register") /\ "register" \in Stages
      BY <1>1 DEF Connect, Stages
    <2>2. Registered \subseteq Registered'
      BY <2>1, RegisteredStays DEF TypeInv
    <2>3. callbacks' \in Nat /\ callbacks' <= Cardinality(Registered)'
      BY <1>1, <2>2, BoundKept DEF Connect, TypeInv
    <2> QED BY <1>1, <2>1, <2>3, GotoStage DEF Connect, TypeInv
  <1>2. ASSUME NEW l \in Loops, ConnectFails(l) PROVE TypeInv'
    <2>1. Goto(l, "returned") /\ "returned" \in Stages
      BY <1>2 DEF ConnectFails, Stages
    <2>2. Registered \subseteq Registered'
      BY <2>1, RegisteredStays DEF TypeInv
    <2>3. callbacks' \in Nat /\ callbacks' <= Cardinality(Registered)'
      BY <1>2, <2>2, BoundKept DEF ConnectFails, TypeInv
    <2> QED BY <1>2, <2>1, <2>3, GotoStage DEF ConnectFails, TypeInv
  <1>3. ASSUME NEW l \in Loops, Register(l) PROVE TypeInv'
    <2>1. Goto(l, "enter") /\ "enter" \in Stages
      BY <1>3 DEF Register, Stages
    <2>2. callbacks' \in Nat /\ callbacks' <= Cardinality(Registered)'
      BY <1>3, RegisterCounts
    <2>3. \A k \in Loops : next'[k] <= callbacks' + 1
      BY <1>3 DEF Register, TypeInv
    <2> QED BY <1>3, <2>1, <2>2, <2>3, GotoStage DEF Register, TypeInv
  <1>4. ASSUME NEW l \in Loops, Enter(l) PROVE TypeInv'
    <2>1. Goto(l, "while") /\ "while" \in Stages
      BY <1>4 DEF Enter, Stages
    <2>2. Registered \subseteq Registered'
      BY <2>1, RegisteredStays DEF TypeInv
    <2>3. callbacks' \in Nat /\ callbacks' <= Cardinality(Registered)'
      BY <1>4, <2>2, BoundKept DEF Enter, TypeInv
    <2>4. late' \in [Loops -> 0..MaxLate]
      BY <1>4 DEF Enter, MaxLate
    <2> QED BY <1>4, <2>1, <2>3, <2>4, GotoStage DEF Enter, TypeInv
  <1>5. ASSUME NEW l \in Loops, While(l) PROVE TypeInv'
    <2>1. PICK stage \in {"transition", "returned"} : Goto(l, stage)
      BY <1>5 DEF While
    <2>2. stage \in Stages /\ stage \notin {"unborn", "connect", "register"}
      BY DEF Stages
    <2>3. Registered \subseteq Registered'
      BY <2>1, <2>2, RegisteredStays DEF TypeInv
    <2>4. callbacks' \in Nat /\ callbacks' <= Cardinality(Registered)'
      BY <1>5, <2>3, BoundKept DEF While, TypeInv
    <2>5. current' \in [Loops -> Sessions]
      BY <1>5 DEF While, TypeInv
    <2> QED BY <1>5, <2>1, <2>2, <2>4, <2>5, GotoStage DEF While, TypeInv
  <1>6. ASSUME NEW l \in Loops, Transition(l) PROVE TypeInv'
    <2>1. Goto(l, "remember") /\ "remember" \in Stages
      BY <1>6 DEF Transition, Stages
    <2>2. Registered \subseteq Registered'
      BY <2>1, RegisteredStays DEF TypeInv
    <2>3. callbacks' \in Nat /\ callbacks' <= Cardinality(Registered)'
      BY <1>6, <2>2, BoundKept DEF Transition, TypeInv
    <2>4. lastHook' \in {"none", "open", "close"}
      BY <1>6 DEF Transition, TypeInv
    <2> QED BY <1>6, <2>1, <2>3, <2>4, GotoStage DEF Transition, TypeInv
  <1>7. ASSUME NEW l \in Loops, Remember(l) PROVE TypeInv'
    <2>1. PICK stage \in {"tick", "sleep"} : Goto(l, stage)
      BY <1>7 DEF Remember
    <2>2. stage \in Stages /\ stage \notin {"unborn", "connect", "register"}
      BY DEF Stages
    <2>3. Registered \subseteq Registered'
      BY <2>1, <2>2, RegisteredStays DEF TypeInv
    <2>4. callbacks' \in Nat /\ callbacks' <= Cardinality(Registered)'
      BY <1>7, <2>3, BoundKept DEF Remember, TypeInv
    <2>5. current' \in [Loops -> Sessions] /\ lastSession' \in Sessions
      BY <1>7 DEF Remember, TypeInv, Sessions
    <2>6. late' \in [Loops -> 0..MaxLate]
      BY <1>7 DEF Remember, TypeInv, LateTick, MaxLate
    <2> QED BY <1>7, <2>1, <2>2, <2>4, <2>5, <2>6, GotoStage DEF Remember, TypeInv
  <1>8. ASSUME NEW l \in Loops, Tick(l) PROVE TypeInv'
    <2>1. at' = at \/ Goto(l, "sleep")
      BY <1>8 DEF Tick
    <2>2. "sleep" \in Stages
      BY DEF Stages
    <2>3. Registered \subseteq Registered'
      BY <2>1, <2>2, RegisteredStays DEF TypeInv, Registered
    <2>4. callbacks' \in Nat /\ callbacks' <= Cardinality(Registered)'
      BY <1>8, <2>3, BoundKept DEF Tick, TypeInv
    <2>5. next' \in [Loops -> Nat \ {0}] /\ \A k \in Loops : next'[k] <= callbacks' + 1
      BY <1>8 DEF Tick, TypeInv
    <2> QED BY <1>8, <2>1, <2>2, <2>4, <2>5, GotoStage DEF Tick, TypeInv
  <1>9. ASSUME NEW l \in Loops, Sleep(l) PROVE TypeInv'
    <2>1. Goto(l, "while") /\ "while" \in Stages
      BY <1>9 DEF Sleep, Stages
    <2>2. Registered \subseteq Registered'
      BY <2>1, RegisteredStays DEF TypeInv
    <2>3. callbacks' \in Nat /\ callbacks' <= Cardinality(Registered)'
      BY <1>9, <2>2, BoundKept DEF Sleep, TypeInv
    <2> QED BY <1>9, <2>1, <2>3, GotoStage DEF Sleep, TypeInv
  <1>10. ASSUME NEW l \in Loops, StartBot(l) PROVE TypeInv'
    <2>1. at[l] = "unborn" /\ Goto(l, "connect") /\ "connect" \in Stages
      BY <1>10 DEF StartBot, Stages
    <2>2. Registered \subseteq Registered'
      BY <2>1, RegisteredStays DEF TypeInv
    <2>3. callbacks' \in Nat /\ callbacks' <= Cardinality(Registered)'
      BY <1>10, <2>2, BoundKept DEF StartBot, TypeInv
    <2> QED BY <1>10, <2>1, <2>3, GotoStage DEF StartBot, TypeInv
  <1>11. ASSUME Interrupt PROVE TypeInv'
    <2>1. at' = at \/ Goto(Main, "returned")
      BY <1>11 DEF Interrupt
    <2>2. "returned" \in Stages
      BY DEF Stages
    <2>3. Registered \subseteq Registered'
      BY <2>1, <2>2, RegisteredStays DEF TypeInv, Registered
    <2>4. callbacks' \in Nat /\ callbacks' <= Cardinality(Registered)'
      BY <1>11, <2>3, BoundKept DEF Interrupt, TypeInv
    <2> QED BY <1>11, <2>1, <2>2, <2>4, GotoStage DEF Interrupt, TypeInv
  <1>12. ASSUME at' = at, callbacks' = callbacks, UNCHANGED <<lastSession, locals, history>>,
                session' \in Sessions, running' \in BOOLEAN, connected' \in BOOLEAN,
                stopping' \in BOOLEAN, interrupted' \in BOOLEAN, exited' \in BOOLEAN
         PROVE  TypeInv'
    <2>1. Registered \subseteq Registered'
      BY <1>12 DEF Registered
    <2>2. callbacks' \in Nat /\ callbacks' <= Cardinality(Registered)'
      BY <1>12, <2>1, BoundKept DEF TypeInv
    <2> QED BY <1>12, <2>2 DEF TypeInv
  <1>13. CASE StopBot \/ Disconnect \/ Exit \/ MarketMoves \/ UNCHANGED vars
    BY <1>12, <1>13 DEF StopBot, Disconnect, Exit, MarketMoves, vars, TypeInv
  <1> QED
    BY <1>1, <1>2, <1>3, <1>4, <1>5, <1>6, <1>7, <1>8, <1>9, <1>10, <1>11, <1>13
    DEF Next, LoopStep

LEMMA NextLateInv == TypeInv /\ LateInv /\ [Next]_vars => LateInv'
  <1> SUFFICES ASSUME TypeInv, LateInv, [Next]_vars PROVE LateInv'
    OBVIOUS
  <1> USE DEF flags, locals, outside, history
  <1>1. ASSUME NEW l \in Loops, Enter(l) PROVE LateInv'
    BY <1>1 DEF Enter, LateInv
  <1>2. ASSUME NEW l \in Loops, While(l) PROVE LateInv'
    BY <1>2 DEF While, Goto, LateInv, TypeInv
  <1>3. ASSUME NEW l \in Loops, Transition(l) PROVE LateInv'
    BY <1>3 DEF Transition, Goto, LateInv, TypeInv
  <1>4. ASSUME NEW l \in Loops, Remember(l) PROVE LateInv'
    <2>1. at[l] = "remember" /\ late[l] = 0
      BY <1>4 DEF Remember, LateInv
    <2>2. late' = late \/ (~running /\ late' = [late EXCEPT ![l] = 1])
      BY <1>4, <2>1 DEF Remember, LateTick, TypeInv, MaxLate
    <2>3. at'[l] \in {"tick", "sleep"} /\ \A k \in Loops \ {l} : at'[k] = at[k]
      BY <1>4 DEF Remember, Goto, TypeInv
    <2> QED BY <1>4, <2>1, <2>2, <2>3 DEF Remember, LateInv, TypeInv
  <1>5. ASSUME NEW l \in Loops, UNCHANGED <<running, late>>,
               at' = at \/ \E stage \in Stages \ {"transition", "remember"} : Goto(l, stage)
        PROVE  LateInv'
    BY <1>5 DEF Goto, LateInv, TypeInv
  <1>6. ASSUME NEW l \in Loops,
               Connect(l) \/ ConnectFails(l) \/ Register(l) \/ Tick(l) \/ Sleep(l) \/ StartBot(l)
        PROVE  LateInv'
    BY <1>5, <1>6 DEF Connect, ConnectFails, Register, Tick, Sleep, StartBot, Stages
  <1>7. CASE StopBot
    BY <1>7 DEF StopBot, LateInv
  <1>8. CASE Interrupt
    BY <1>8, LoopsFinite DEF Interrupt, Goto, LateInv, TypeInv
  <1>9. CASE Disconnect \/ Exit \/ MarketMoves \/ UNCHANGED vars
    BY <1>9 DEF Disconnect, Exit, MarketMoves, vars, LateInv
  <1> QED BY <1>1, <1>2, <1>3, <1>4, <1>6, <1>7, <1>8, <1>9 DEF Next, LoopStep

\* With no second loop born before or after the step, the step is the main loop's or no
\* loop's.
LEMMA NextHookInv == TypeInv /\ HookInv /\ [Next]_vars => HookInv'
  <1> SUFFICES ASSUME TypeInv, HookInv, [Next]_vars, \A l \in Starts : at'[l] = "unborn"
               PROVE  /\ at'[Main] = "remember" => (lastHook' = "open" <=> current'[Main] = "REGULAR")
                      /\ at'[Main] # "remember" => (lastHook' = "open" <=> lastSession' = "REGULAR")
    BY DEF HookInv
  <1> USE LoopsFinite DEF flags, locals, outside, history
  <1> DEFINE Goal == /\ at'[Main] = "remember" => (lastHook' = "open" <=> current'[Main] = "REGULAR")
                     /\ at'[Main] # "remember" => (lastHook' = "open" <=> lastSession' = "REGULAR")
  <1>1. ASSUME NEW l \in Loops, NEW stage \in Stages \ {"unborn"}, Goto(l, stage)
        PROVE  l = Main
    BY <1>1 DEF Goto, TypeInv, Loops
  <1>2. ASSUME NEW l \in Loops, NEW stage \in Stages \ {"unborn"}, Goto(l, stage)
        PROVE  /\ at[Main] = "remember" => (lastHook = "open" <=> current[Main] = "REGULAR")
               /\ at[Main] # "remember" => (lastHook = "open" <=> lastSession = "REGULAR")
               /\ at'[Main] = stage
    <2>1. \A k \in Starts : at'[k] = at[k]
      BY <1>1, <1>2, LifecycleAssumption DEF Goto, TypeInv
    <2> QED BY <1>1, <1>2, <2>1 DEF HookInv, Goto, TypeInv
  <1>3. ASSUME NEW l \in Loops, Transition(l) PROVE Goal
    <2>1. at[l] = "transition" /\ Goto(l, "remember") /\ "remember" \in Stages \ {"unborn"}
      BY <1>3 DEF Transition, Stages
    <2>2. l = Main /\ at'[Main] = "remember" /\ (lastHook = "open" <=> lastSession = "REGULAR")
      BY <1>1, <1>2, <2>1
    <2>3. lastHook' = "open" <=> current[Main] = "REGULAR"
      BY <1>3, <2>2 DEF Transition
    <2> QED BY <1>3, <2>2, <2>3 DEF Transition
  <1>4. ASSUME NEW l \in Loops, Remember(l) PROVE Goal
    <2>1. PICK stage \in {"tick", "sleep"} : Goto(l, stage)
      BY <1>4 DEF Remember
    <2>2. stage \in Stages \ {"unborn"} /\ at[l] = "remember"
      BY <1>4 DEF Stages, Remember
    <2>3. l = Main /\ at'[Main] = stage /\ (lastHook = "open" <=> current[Main] = "REGULAR")
      BY <1>1, <1>2, <2>1, <2>2
    <2> QED BY <1>4, <2>3 DEF Remember
  <1>5. ASSUME NEW l \in Loops, NEW stage \in Stages \ {"unborn", "remember"}, Goto(l, stage),
               at[l] # "remember", UNCHANGED <<lastHook, lastSession>>
        PROVE  Goal
    BY <1>1, <1>2, <1>5
  <1>6. ASSUME NEW l \in Loops,
               Connect(l) \/ ConnectFails(l) \/ Register(l) \/ Enter(l) \/ Sleep(l) \/ StartBot(l)
        PROVE  Goal
    BY <1>5, <1>6 DEF Connect, ConnectFails, Register, Enter, Sleep, StartBot, Stages
  <1>7. ASSUME NEW l \in Loops, While(l) PROVE Goal
    <2>1. PICK stage \in {"transition", "returned"} : Goto(l, stage)
      BY <1>7 DEF While
    <2> QED BY <1>5, <1>7, <2>1 DEF While, Stages
  <1>8. ASSUME at' = at, UNCHANGED <<lastHook, lastSession, current>> PROVE Goal
    BY <1>8 DEF HookInv
  <1>9. ASSUME NEW l \in Loops, Tick(l) PROVE Goal
    BY <1>5, <1>8, <1>9 DEF Tick, Stages
  <1>10. CASE Interrupt
    BY <1>5, <1>8, <1>10 DEF Interrupt, Stages
  <1>11. CASE StopBot \/ Disconnect \/ Exit \/ MarketMoves \/ UNCHANGED vars
    BY <1>8, <1>11 DEF StopBot, Disconnect, Exit, MarketMoves, vars
  <1> QED
    BY <1>3, <1>4, <1>6, <1>7, <1>9, <1>10, <1>11 DEF Next, LoopStep

LEMMA Invariance == Spec => []IInv
  <1>1. Init => IInv
    BY InitIInv
  <1>2. IInv /\ [Next]_vars => IInv'
    BY NextTypeInv, NextLateInv, NextHookInv DEF IInv
  <1> QED BY <1>1, <1>2, PTL DEF Spec
-----------------------------------------------------------------------------
\* The variables keep their types: in particular no start can register hooks more than once,
\* whatever is started, stopped and interrupted meanwhile (LiveTradingEngine.start,
\* TradingScheduler._execute_tick).
THEOREM TypeCorrect == Spec => []TypeOK
  <1>1. IInv => TypeOK
    <2> SUFFICES ASSUME TypeInv PROVE TypeOK
      BY DEF IInv
    <2>1. callbacks \in 0..Cardinality(Loops)
      BY RegisteredFinite DEF TypeInv
    <2>2. next \in [Loops -> 1..Cardinality(Loops) + 1]
      BY RegisteredFinite, <2>1 DEF TypeInv
    <2> QED BY <2>1, <2>2 DEF TypeInv, TypeOK
  <1> QED BY <1>1, Invariance, PTL

\* However many loops run, after stop() each begins at most the one tick whose iteration had
\* passed the test of _running (TradingScheduler.start, stop).
THEOREM AtMostOneLateTick == Spec => []OneLateTick
  <1>1. IInv => OneLateTick
    BY DEF IInv, LateInv, OneLateTick
  <1> QED BY <1>1, Invariance, PTL

\* With one loop, market_open and market_close alternate and neither is missed
\* (TradingScheduler._check_session_transitions).
THEOREM OneLoopAlternates == Spec => []HooksAlternate
  <1>1. IInv => HooksAlternate
    BY DEF IInv, HookInv, HooksAlternate
  <1> QED BY <1>1, Invariance, PTL
=============================================================================
