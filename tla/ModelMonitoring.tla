--------------------------- MODULE ModelMonitoring ---------------------------
(***************************************************************************)
(* What watches a served model: DriftDetector (mlops/drift_detector), the  *)
(* AlertManager (monitoring/alerts) and the sliding window of ModelMetrics *)
(* (monitoring/metrics).  Sending an alert is asynchronous: other alerts   *)
(* are sent while it is on its way.                                        *)
(***************************************************************************)
EXTENDS Integers, Sequences, FiniteSets, FiniteSetsExt, SequencesExt

CONSTANTS
  MaxFeatures,   \* bound on the features compared
  MaxChecks,     \* bound on the drift checks
  AlertKeys,     \* model_name:alert_type
  Channels,      \* of webhook, telegram, discord, those configured
  Severities,    \* severity levels of the alerts raised
  MinSeverity,   \* min_severity
  Throttle,      \* throttle_period_minutes, in units of the clock
  MaxMinutes,    \* bound on the clock
  Window         \* window_size of ModelMetrics

ASSUME MonitoringAssumption == Throttle \in Nat /\ Window \in Nat \ {0}

VARIABLES
  minute,
  baselineSet,   \* set_baseline has been called: "none", "features", "features and metrics"
  reports,       \* drift_history: the reports that detected drift, and those that did not
  lastAlert,     \* _last_alert_times: 0 for none
  alertHistory,  \* _alert_history: [key, at]
  scheduled,     \* tasks of send_custom_alert that have not begun
  sending,       \* <<key, at, channel>> not answered for
  window         \* predictions: [prediction, actual], actual 2 for None

monitoringVars == <<minute, baselineSet, reports, lastAlert, alertHistory, scheduled, sending, window>>

Unknown == 2

MonitoringInit ==
  /\ minute = 1
  /\ baselineSet = "none"
  /\ reports = [drift |-> 0, steady |-> 0]
  /\ lastAlert = [k \in AlertKeys |-> 0]
  /\ alertHistory = <<>>
  /\ scheduled = {}
  /\ sending = {}
  /\ window = <<>>
-----------------------------------------------------------------------------
SetBaseline(withMetrics) ==
  /\ baselineSet' = IF withMetrics THEN "features and metrics" ELSE "features"
  /\ UNCHANGED <<minute, reports, lastAlert, alertHistory, scheduled, sending, window>>

\* DriftReport: the features compared (those the baseline has too, with data), how many
\* of them drifted (PSI or KS test), and the concepts that drifted.
Report(total, drifted, concepts) ==
  [total |-> total, drifted |-> drifted,
   concepts |-> IF baselineSet = "features and metrics" THEN concepts ELSE {}]

\* summarize sets overall_drift_detected.
OverallDrift(report) == report.drifted > 0 \/ report.concepts # {}

\* should_trigger_retraining: more than 30 % of the features, or the accuracy.
TriggersRetraining(report) ==
  /\ OverallDrift(report)
  /\ \/ report.drifted * 10 > report.total * 3
     \/ "accuracy" \in report.concepts

\* send_alert: the time is noted and the alert kept before any channel is called, so no
\* other coroutine comes between the test and the note.
AlertPasses(key, severity) ==
  /\ severity >= MinSeverity
  /\ lastAlert[key] # 0 => minute - lastAlert[key] >= Throttle

HandedOver(key) == sending \cup ({key} \X {minute} \X Channels)

\* Slip: the time is noted when the channels have answered.
SendAlertLate(key, severity) ==
  /\ AlertPasses(key, severity)
  /\ alertHistory' = Append(alertHistory, [key |-> key, at |-> minute])
  /\ sending' = HandedOver(key)
  /\ UNCHANGED <<minute, baselineSet, reports, lastAlert, window>>

SendAlert(key, severity) ==
  /\ AlertPasses(key, severity)
  /\ lastAlert' = [lastAlert EXCEPT ![key] = minute]
  /\ alertHistory' = Append(alertHistory, [key |-> key, at |-> minute])
  /\ sending' = HandedOver(key)
  /\ UNCHANGED <<minute, baselineSet, reports, window>>

\* send_custom_alert: a task for later, whose alert may be suppressed or throttled then.
SendCustomAlert(key, severity) ==
  /\ scheduled' = scheduled \cup {<<key, severity>>}
  /\ UNCHANGED <<minute, baselineSet, reports, lastAlert, alertHistory, sending, window>>
TaskBegins(task) ==
  /\ scheduled' = scheduled \ {task}
  /\ IF AlertPasses(task[1], task[2]) THEN SendAlert(task[1], task[2])
     ELSE UNCHANGED <<minute, baselineSet, reports, lastAlert, alertHistory, sending, window>>

\* _send_webhook, _send_telegram, _send_discord answer or raise; gather keeps exceptions
\* as results, so that nothing more happens: a failed alert is throttled like another.
ChannelAnswers(sent) ==
  /\ sending' = sending \ {sent}
  /\ UNCHANGED <<minute, baselineSet, reports, lastAlert, alertHistory, scheduled, window>>

\* get_alert_history
AlertsSince(key, time) == SelectSeq(alertHistory, LAMBDA a : a.key = key /\ a.at >= time)

\* detect_drift
DetectDrift(total, drifted, concepts) ==
  /\ baselineSet # "none"
  /\ LET report == Report(total, drifted, concepts) IN
     reports' = IF OverallDrift(report) THEN [reports EXCEPT !.drift = @ + 1]
                                        ELSE [reports EXCEPT !.steady = @ + 1]
  /\ UNCHANGED <<minute, baselineSet, lastAlert, alertHistory, scheduled, sending, window>>

\* get_drift_summary's drift_rate
DriftEvents == reports.drift
TotalChecks == reports.drift + reports.steady
-----------------------------------------------------------------------------
\* record_prediction: a deque of maxlen window_size
RecordPrediction(prediction, actual) ==
  /\ window' = IF Len(window) < Window THEN Append(window, [prediction |-> prediction, actual |-> actual])
               ELSE Append(Tail(window), [prediction |-> prediction, actual |-> actual])
  /\ UNCHANGED <<minute, baselineSet, reports, lastAlert, alertHistory, scheduled, sending>>

\* _update_metrics: actuals leaves out what is None, preds does not, and precision and
\* recall pair them by position.
Known == SelectSeq(window, LAMBDA p : p.actual # Unknown)
Paired == [i \in DOMAIN Known |-> [prediction |-> window[i].prediction, actual |-> Known[i].actual]]
Count(pairs, prediction, actual) ==
  Cardinality({i \in DOMAIN pairs : pairs[i] = [prediction |-> prediction, actual |-> actual]})
Correct == Cardinality({i \in DOMAIN Known : Known[i].prediction = Known[i].actual})
TruePositives == Count(Paired, 1, 1)
FalsePositives == Count(Paired, 1, 0)
FalseNegatives == Count(Paired, 0, 1)

\* get_trend: first and last of the values of a metric, and the sign of the slope of
\* the line fitted to them.
SlopeSign(values) ==
  LET n == Len(values)
      slope == FoldFunction(+, 0, [i \in 1 .. n |-> (2 * i - n - 1) * values[i]])
  IN IF slope > 0 THEN "improving" ELSE IF slope < 0 THEN "degrading" ELSE "stable"
Trend(values) ==
  CASE values = <<>> -> [current |-> 0, baseline |-> 0, direction |-> "unknown"]
    [] Len(values) = 1 -> [current |-> values[1], baseline |-> values[1],
                           direction |-> "insufficient_data"]
    [] OTHER -> [current |-> Last(values), baseline |-> Head(values),
                 direction |-> SlopeSign(values)]

\* check_thresholds: metrics below their minimum or above their maximum; a metric that
\* is not measured violates nothing.
CheckThresholds(current, bounds) ==
  {<<m, "below_min">> : m \in {k \in DOMAIN bounds \cap DOMAIN current : current[k] < bounds[k].min}}
  \cup
  {<<m, "above_max">> : m \in {k \in DOMAIN bounds \cap DOMAIN current : current[k] > bounds[k].max}}

MinutePasses ==
  /\ minute < MaxMinutes
  /\ minute' = minute + 1
  /\ UNCHANGED <<baselineSet, reports, lastAlert, alertHistory, scheduled, sending, window>>

DriftNext ==
  \/ \E b \in BOOLEAN : SetBaseline(b)
  \/ /\ TotalChecks < MaxChecks
     /\ \E n \in 0 .. MaxFeatures, c \in SUBSET {"accuracy", "confidence"} :
          \E d \in 0 .. n : DetectDrift(n, d, c)

AlertNext ==
  \/ \E k \in AlertKeys, s \in Severities :
       \/ SendAlert(k, s) /\ UNCHANGED scheduled
       \/ SendCustomAlert(k, s)
  \/ \E t \in scheduled : TaskBegins(t)
  \/ \E sent \in sending : ChannelAnswers(sent)
  \/ MinutePasses

WindowNext == \E p \in 0 .. 1, a \in 0 .. 2 : RecordPrediction(p, a)

MonitoringNext == DriftNext \/ AlertNext \/ WindowNext

MonitoringSpec == MonitoringInit /\ [][MonitoringNext]_monitoringVars
-----------------------------------------------------------------------------
\* Two alerts with one key are kept at least the throttle period apart, however many are
\* raised while the first is still on its way to its channels or has failed to arrive
\* (alerts.py, send_alert).
AlertsSpaced ==
  \A i, j \in DOMAIN alertHistory :
    i < j /\ alertHistory[i].key = alertHistory[j].key =>
      alertHistory[j].at - alertHistory[i].at >= Throttle
=============================================================================
