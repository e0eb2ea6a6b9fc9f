----------------------------- MODULE Lifecycle -----------------------------
(***************************************************************************)
(* Who runs the trading loop, and how it ends: scheduler/                  *)
(* trading_scheduler.py driven by live/trading_engine.py (start, stop), by *)
(* the main thread of run.py and by /startbot and /stopbot of              *)
(* interfaces/telegram/controller.py.                                      *)
(*                                                                         *)
(* One TradingScheduler is shared by every thread that runs its start():   *)
(* the main thread and one daemon thread for each /startbot.  The process  *)
(* exits with the main thread, and the daemon threads with it.             *)
(*                                                                         *)
(* The clock is the market session it makes get_session return; a sleep    *)
(* lasts until its thread is scheduled again.                              *)
(***************************************************************************)
EXTENDS Integers, FiniteSets

CONSTANTS
  Main,       \* the main thread
  Starts      \* the threads /startbot may create: a bound on its use

ASSUME LifecycleAssumption == Main \notin Starts /\ IsFiniteSet(Starts)

VARIABLES
  running,       \* TradingScheduler._running
  callbacks,     \* tick, open and close hooks registered: one of each per engine.start
  lastSession,   \* TradingScheduler._last_session
  connected,     \* broker._connected
  session,       \* what MarketHours.get_session returns now
  at,            \* where each thread is
  current,       \* the session a thread's iteration works with
  next,          \* the callback a thread's tick calls next
  stopping,      \* the bot is inside engine.stop()
  interrupted,   \* SIGINT has been delivered
  exited,        \* the process has ended
  lastHook,      \* history: the last hook fired, "open" or "close"
  late           \* history: the ticks each thread began since _running became False

flags == <<running, callbacks, lastSession, connected>>
locals == <<current, next>>
outside == <<session, stopping, interrupted, exited>>
history == <<lastHook, late>>
vars == <<flags, outside, at, locals, history>>

Loops == {Main} \cup Starts
Sessions == {"CLOSED", "PRE_MARKET", "REGULAR", "AFTER_HOURS"}

\* The sessions of a trading day, in their order; a weekend or a holiday is a long
\* CLOSED, a short day goes from REGULAR to CLOSED.
Follows == {<<"CLOSED", "PRE_MARKET">>, <<"PRE_MARKET", "REGULAR">>,
            <<"REGULAR", "AFTER_HOURS">>, <<"AFTER_HOURS", "CLOSED">>}

Init ==
  /\ running = FALSE
  /\ callbacks = 0
  /\ lastSession = "CLOSED"
  /\ connected = TRUE       \* run.py connects the broker before it starts the engine
  /\ session \in Sessions
  /\ at = [l \in Loops |-> IF l = Main THEN "connect" ELSE "unborn"]
  /\ current = [l \in Loops |-> "CLOSED"]
  /\ next = [l \in Loops |-> 1]
  /\ stopping = FALSE
  /\ interrupted = FALSE
  /\ exited = FALSE
  /\ lastHook = "none"
  /\ late = [l \in Loops |-> 0]

\* Counted as far as MaxLate.
MaxLate == 2
LateTick(l) == [late EXCEPT ![l] = IF @ < MaxLate THEN @ + 1 ELSE @]

Goto(l, stage) == at' = [at EXCEPT ![l] = stage]
-----------------------------------------------------------------------------
\* LiveTradingEngine.start

Connect(l) ==
  /\ at[l] = "connect"
  /\ connected' = TRUE
  /\ Goto(l, "register")
  /\ UNCHANGED <<running, callbacks, lastSession, outside, locals, history>>

\* The broker refuses: start() returns.
ConnectFails(l) ==
  /\ at[l] = "connect"
  /\ Goto(l, "returned")
  /\ UNCHANGED <<flags, outside, locals, history>>

\* Slip: a hook is appended twice.
RegisterTwice(l) ==
  /\ at[l] = "register"
  /\ callbacks' = callbacks + 2
  /\ Goto(l, "enter")
  /\ UNCHANGED <<running, lastSession, connected, outside, locals, history>>

\* Every start appends the engine's hooks again.
Register(l) ==
  /\ at[l] = "register"
  /\ callbacks' = callbacks + 1
  /\ Goto(l, "enter")
  /\ UNCHANGED <<running, lastSession, connected, outside, locals, history>>
-----------------------------------------------------------------------------
\* TradingScheduler.start

Enter(l) ==
  /\ at[l] = "enter"
  /\ running' = TRUE
  /\ late' = [k \in Loops |-> 0]
  /\ Goto(l, "while")
  /\ UNCHANGED <<callbacks, lastSession, connected, outside, locals, lastHook>>

\* Slip: the loop goes on for as long as the market is open.
WhileOpen(l) ==
  /\ at[l] = "while"
  /\ IF running \/ session = "REGULAR"
     THEN current' = [current EXCEPT ![l] = session] /\ Goto(l, "transition")
     ELSE current' = current /\ Goto(l, "returned")
  /\ UNCHANGED <<flags, outside, next, history>>

\* Slip: the session is the one remembered, not the one of now.
WhileStale(l) ==
  /\ at[l] = "while"
  /\ IF running
     THEN current' = [current EXCEPT ![l] = lastSession] /\ Goto(l, "transition")
     ELSE current' = current /\ Goto(l, "returned")
  /\ UNCHANGED <<flags, outside, next, history>>

\* The loop's condition, and the session of this iteration.
While(l) ==
  /\ at[l] = "while"
  /\ \/ /\ running
        /\ current' = [current EXCEPT ![l] = session]
        /\ Goto(l, "transition")
     \/ /\ ~running
        /\ current' = current
        /\ Goto(l, "returned")
  /\ UNCHANGED <<flags, outside, next, history>>

\* _check_session_transitions
Transition(l) ==
  /\ at[l] = "transition"
  /\ lastHook' = CASE current[l] = "REGULAR" /\ lastSession # "REGULAR" -> "open"
                   [] current[l] # "REGULAR" /\ lastSession = "REGULAR" -> "close"
                   [] OTHER -> lastHook
  /\ Goto(l, "remember")
  /\ UNCHANGED <<flags, outside, locals, late>>

\* Slip: only the sessions that tick are remembered.
RememberTicking(l) ==
  /\ at[l] = "remember"
  /\ IF current[l] = "REGULAR"
     THEN /\ lastSession' = current[l]
          /\ Goto(l, "tick")
          /\ late' = IF running THEN late ELSE LateTick(l)
     ELSE Goto(l, "sleep") /\ UNCHANGED <<lastSession, late>>
  /\ current' = [current EXCEPT ![l] = "CLOSED"]
  /\ UNCHANGED <<running, callbacks, connected, outside, next, lastHook>>

\* _last_session is set; stocks tick in the REGULAR session only, and crypto's
\* session is always REGULAR.
Remember(l) ==
  /\ at[l] = "remember"
  /\ lastSession' = current[l]
  /\ IF current[l] = "REGULAR"
     THEN /\ Goto(l, "tick")
          /\ late' = IF running THEN late ELSE LateTick(l)
     ELSE Goto(l, "sleep") /\ late' = late
  /\ current' = [current EXCEPT ![l] = "CLOSED"]     \* not used again
  /\ UNCHANGED <<running, callbacks, connected, outside, next, lastHook>>

\* _execute_tick: the list is walked as it is, with what another start appends
\* meanwhile; a callback's exception is caught.
Tick(l) ==
  /\ at[l] = "tick"
  /\ IF next[l] <= callbacks
     THEN next' = [next EXCEPT ![l] = @ + 1] /\ at' = at
     ELSE next' = [next EXCEPT ![l] = 1] /\ Goto(l, "sleep")
  /\ UNCHANGED <<flags, outside, current, history>>

Sleep(l) ==
  /\ at[l] = "sleep"
  /\ Goto(l, "while")
  /\ UNCHANGED <<flags, outside, locals, history>>

LoopStep(l) ==
  /\ ~exited
  /\ \/ Connect(l) \/ Register(l) \/ Enter(l) \/ While(l)
     \/ Transition(l) \/ Remember(l) \/ Tick(l) \/ Sleep(l)
-----------------------------------------------------------------------------
\* The bot's thread: it runs from before the engine starts.

\* _cmd_startbot: whether a loop is running is not asked.
StartBot(l) ==
  /\ ~exited /\ ~stopping
  /\ l \in Starts
  /\ at[l] = "unborn"
  /\ Goto(l, "connect")
  /\ UNCHANGED <<flags, outside, locals, history>>

\* _cmd_stopbot: engine.stop() stops the scheduler, then disconnects the broker.
StopBot ==
  /\ ~exited /\ ~stopping
  /\ stopping' = TRUE
  /\ running' = FALSE
  /\ UNCHANGED <<callbacks, lastSession, connected, session, interrupted, exited,
                 at, locals, history>>

Disconnect ==
  /\ ~exited /\ stopping
  /\ stopping' = FALSE
  /\ connected' = FALSE
  /\ UNCHANGED <<running, callbacks, lastSession, session, interrupted, exited,
                 at, locals, history>>
-----------------------------------------------------------------------------
\* run.py: Ctrl+C.  Once scheduler.start() has installed its handler the signal
\* only stops the scheduler; before, KeyboardInterrupt reaches the handler of
\* main(), which stops the engine.
Interrupt ==
  /\ ~exited /\ ~interrupted /\ at[Main] # "returned"
  /\ interrupted' = TRUE
  /\ running' = FALSE
  /\ IF at[Main] \in {"connect", "register", "enter"}
     THEN connected' = FALSE /\ Goto(Main, "returned")
     ELSE connected' = connected /\ at' = at
  /\ UNCHANGED <<callbacks, lastSession, session, stopping, exited, locals, history>>

\* engine.start() has returned and main() with it; the other threads are daemons.
Exit ==
  /\ ~exited /\ at[Main] = "returned"
  /\ exited' = TRUE
  /\ UNCHANGED <<flags, session, stopping, interrupted, at, locals, history>>

MarketMoves ==
  /\ \E s \in Sessions : <<session, s>> \in Follows /\ session' = s
  /\ UNCHANGED <<flags, stopping, interrupted, exited, at, locals, history>>

Next ==
  \/ \E l \in Loops : LoopStep(l) \/ (~exited /\ ConnectFails(l)) \/ StartBot(l)
  \/ StopBot \/ Disconnect
  \/ Interrupt \/ Exit
  \/ MarketMoves

\* The operating system schedules every thread again and again, sleeps end and
\* ticks return; nothing is promised of users, signals or the market.
Fairness ==
  /\ \A l \in Loops : WF_vars(LoopStep(l))
  /\ WF_vars(Exit)

Spec == Init /\ [][Next]_vars /\ Fairness
-----------------------------------------------------------------------------
Stages == {"unborn", "connect", "register", "enter", "while", "transition",
           "remember", "tick", "sleep", "returned"}

\* The type invariant.
TypeOK ==
  /\ {running, connected, stopping, interrupted, exited} \subseteq BOOLEAN
  /\ callbacks \in 0..Cardinality(Loops)
  /\ {session, lastSession} \subseteq Sessions
  /\ at \in [Loops -> Stages]
  /\ current \in [Loops -> Sessions]
  /\ next \in [Loops -> 1..Cardinality(Loops) + 1]
  /\ lastHook \in {"none", "open", "close"}
  /\ late \in [Loops -> 0..MaxLate]

\* A stopped scheduler winds down: each thread begins at most the one tick whose
\* iteration had passed the test of _running (start, stop).
OneLateTick == ~running => \A l \in Loops : late[l] <= 1

\* While the main thread runs the only loop, the hooks alternate and none is
\* missed: the last one fired was market_open exactly if the last session seen was
\* REGULAR, however long the loop slept and however often it was stopped
\* (_check_session_transitions).
HooksAlternate ==
  (\A l \in Starts : at[l] = "unborn") /\ at[Main] # "remember"
    => (lastHook = "open" <=> lastSession = "REGULAR")

Starting == {l \in Loops : at[l] \in {"connect", "register", "enter"}}
Looping == {l \in Loops : at[l] \in {"while", "transition", "remember", "tick", "sleep"}}

\* stop() ends the loops: with no start under way, every loop returns or a new
\* start makes the scheduler run again ("Blocks until stop() is called", start).
StopEndsLoops ==
  ~running /\ Starting = {} ~> Looping = {} \/ running \/ exited

\* An open market is noticed: if it stays open and the scheduler keeps running,
\* some loop sees it (start, the polling of get_session).
OpenIsNoticed ==
  running /\ session = "REGULAR"
    ~> lastSession = "REGULAR" \/ session # "REGULAR" \/ ~running \/ exited

\* "Graceful shutdown on SIGINT/SIGTERM": a process that ends on a signal has
\* stopped its engine, which disconnects the broker.
GracefulShutdown == exited /\ interrupted => ~connected
=============================================================================
