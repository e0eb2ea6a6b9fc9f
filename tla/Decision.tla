------------------------------ MODULE Decision -------------------------------
(***************************************************************************)
(* UnifiedDecisionEngine (core/decision_engine) over the layers of ml_ai:  *)
(* technical signals, a price model, and the Ollama advisor.               *)
(*                                                                         *)
(* A day's indicators are the number of the five technical signals that    *)
(* are bullish.  Scores are percentages, times 50 to stay whole.  What the *)
(* model learns and what the advisor writes is any of what they may.       *)
(***************************************************************************)
EXTENDS Integers, Sequences

CONSTANTS
  WarmUp,          \* days before every indicator is there: 50
  FutureWindow,    \* days the training target looks ahead
  MinSamples,      \* 50
  MaxDays          \* bound on the days

ASSUME DecisionAssumption == WarmUp \in Nat /\ FutureWindow \in Nat /\ MinSamples \in Nat

VARIABLES
  readings,      \* per day, how many technical signals are bullish: 0 .. 5
  predictor,     \* ml_predictor: none, untrained, or trained on one or two classes
  advisor,       \* ai_advisor.connected, set once, when the engine is made
  ollama,        \* external: whether the server answers
  decision       \* the newest decision, with what it was made of

decisionVars == <<readings, predictor, advisor, ollama, decision>>

NoDecision == [decision |-> "HOLD", bullish |-> 0, ml |-> "none", ai |-> "none", day |-> 0]

\* OllamaAdvisor tests the connection when it is made, once; without use_ai there is none.
Connections == {FALSE, ollama}

\* __init__, with use_ai or without.
DecisionInit ==
  /\ readings = <<>>
  /\ predictor = "none"
  /\ ollama \in BOOLEAN
  /\ advisor \in Connections
  /\ decision = NoDecision
-----------------------------------------------------------------------------
\* engineer_features drops the days whose indicators are missing, and the newest ones,
\* whose targets are.
FeatureDays == (WarmUp + 1) .. (Len(readings) - FutureWindow)

\* MLPredictor.train: prices that only rise or fall give a model of one class, or raise
\* and leave an untrained one.
TrainedModels == {"untrained", "one_class", "two_classes"}

\* train_ml_model: too few samples leave the model there is.
TrainMlModel ==
  /\ Len(readings) - FutureWindow - WarmUp >= MinSamples
  /\ predictor' \in TrainedModels
  /\ UNCHANGED <<readings, advisor, ollama, decision>>

\* _extract_ml_signals: a model of one class has no second probability, and raises.
MlSignals ==
  IF predictor = "two_classes" THEN {"up", "down"} ELSE {"none"}

\* _extract_ai_signals and _query_ollama: what the answer mentions, "down" and "bearish"
\* before "up" and "bullish"; an error's text counts as an answer.
AiSignals ==
  IF ~advisor THEN {"none"} ELSE IF ollama THEN {"bearish", "bullish", "neither"} ELSE {"neither"}

\* generate_decision: 35 % technical, 40 % the model's prediction or a half, and a tenth
\* less or more for the advisor.
FinalScore(bullish, ml, ai) ==
  (7 * bullish + (CASE ml = "up" -> 40 [] ml = "none" -> 20 [] OTHER -> 0))
  * (CASE ai = "bearish" -> 45 [] ai = "bullish" -> 55 [] OTHER -> 50)
\* Slip: a score on the line buys.
ActionAtLine(score) == CASE score >= 55 * 50 -> "BUY" [] score < 45 * 50 -> "SELL" [] OTHER -> "HOLD"
ActionFor(score) == CASE score > 55 * 50 -> "BUY" [] score < 45 * 50 -> "SELL" [] OTHER -> "HOLD"

\* process_price_data and generate_decision, on all the days there are: the newest one
\* with features decides.
Decide ==
  /\ FeatureDays # {} /\ predictor # "one_class"
  /\ \E ml \in MlSignals, ai \in AiSignals :
       LET day == Len(readings) - FutureWindow IN
       decision' = [decision |-> ActionFor(FinalScore(readings[day], ml, ai)),
                    bullish |-> readings[day], ml |-> ml, ai |-> ai, day |-> day]
  /\ UNCHANGED <<readings, predictor, advisor, ollama>>

\* A day passes; bullish is how many of its signals _extract_technical_signals finds above
\* a half.
DayPasses(bullish) ==
  /\ Len(readings) < MaxDays
  /\ readings' = Append(readings, bullish)
  /\ UNCHANGED <<predictor, advisor, ollama, decision>>
\* External: the server comes or goes.
OllamaChanges ==
  /\ ollama' = ~ollama
  /\ UNCHANGED <<readings, predictor, advisor, decision>>

DecisionNext ==
  \/ \E n \in 0 .. 5 : DayPasses(n)
  \/ TrainMlModel \/ Decide \/ OllamaChanges

DecisionSpec == DecisionInit /\ [][DecisionNext]_decisionVars
-----------------------------------------------------------------------------
\* "Three-layer decision making" (decision_engine.py): nothing is bought on one layer's
\* word.  A purchase has two of: most technical signals bullish, a model that predicts a
\* rise, a bullish advisor.
BuyNeedsTwoLayers ==
  decision.decision = "BUY" =>
    \/ decision.bullish >= 3 /\ decision.ml = "up"
    \/ decision.bullish >= 3 /\ decision.ai = "bullish"
    \/ decision.ml = "up" /\ decision.ai = "bullish"
=============================================================================
