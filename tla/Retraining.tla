----------------------------- MODULE Retraining -----------------------------
(***************************************************************************)
(* RetrainingPipeline with its ModelValidator (mlops/pipeline, validator). *)
(* The scheduler's thread and callers of trigger_manual_retrain run the    *)
(* same pipeline on the same registry without a lock; an action is what a  *)
(* run does up to its next call to the registry.                           *)
(***************************************************************************)
EXTENDS ModelRegistry

CONSTANTS
  Runs,            \* "scheduled" and the manual runs
  Threshold,       \* performance_threshold, and the validator's min_accuracy
  Improvement,     \* improvement_threshold
  MaxDrop,         \* the validator's max_accuracy_drop
  MaxLoops         \* bound on the scheduler loops alive

ASSUME RetrainingAssumption == Threshold \in Nat /\ Improvement \in Nat /\ MaxDrop \in Nat

VARIABLES
  runs,        \* per run: step, accuracy, version, its last result; blind is history:
               \* get_latest_model failed
  scheduler,   \* loops alive, each with its job in the schedule, and _stop_scheduler
  raced        \* history: runs since whose baseline production has changed

retrainingVars == <<registryVars, runs, scheduler, raced>>

NoBaseline == -1   \* None
NotRunning == [step |-> "idle", accuracy |-> 0, blind |-> FALSE, version |-> 0,
               promoted |-> FALSE]

RetrainingInit ==
  /\ RegistryInit
  /\ runs = [r \in Runs |-> NotRunning]
  /\ scheduler = [loops |-> 0, stopped |-> FALSE]
  /\ raced = {}

\* The run returns; of the statuses only whether it has promoted is kept.
Ends(r, promoted) == runs' = [runs EXCEPT ![r] = [NotRunning EXCEPT !.promoted = promoted]]
Goes(r, step) == runs' = [runs EXCEPT ![r].step = step]

\* A run past its comparison is raced once production is another version.
SeeRaces ==
  raced' = {r \in Runs : /\ runs'[r].step \in {"register", "stage", "promote"}
                         /\ \/ r \in raced
                            \/ GetLatestModel(versions', "Production") #
                                 GetLatestModel(versions, "Production")}

\* What the data turns out to be: too few rows, missing columns or fewer than 100
\* rows (_validate_data only warns of NaNs), or good.
DataQualities == {"few", "bad", "good"}

\* run_pipeline up to the trained model; force is not looked at.  The scheduled run
\* is the loop's own.
Train(r, data, accuracy) ==
  /\ runs[r].step = "idle"
  /\ r = "scheduled" => scheduler.loops > 0 /\ ~scheduler.stopped
  /\ IF data = "good" /\ accuracy >= Threshold
     THEN runs' = [runs EXCEPT ![r] = [NotRunning EXCEPT !.step = "compare",
                                                         !.accuracy = accuracy]]
     ELSE Ends(r, FALSE)
  /\ UNCHANGED <<registryVars, scheduler>>

\* Slip: any improvement on the baseline will do.
ImprovesAtAll(accuracy, baseline) == baseline >= 0 => accuracy >= baseline

ImprovesEnough(accuracy, baseline) == baseline >= 0 => accuracy - baseline >= Improvement

\* _check_absolute_thresholds; _default_backtester's answer passes them all.
ThresholdErrors(accuracy) == IF accuracy >= Threshold THEN {} ELSE {"min_accuracy"}
\* _check_improvement, when there is a baseline
DropErrors(accuracy, baseline) ==
  IF baseline > 0 /\ accuracy - baseline < -MaxDrop THEN {"improvement_vs_baseline"} ELSE {}
\* _check_backtest: which of its limits the backtest misses
BacktestErrors(missed) == missed \cap {"max_drawdown", "min_trades"}
\* ModelValidator.validate: no warning is ever added, so it passes or fails.
Validates(accuracy, baseline, missed) ==
  ThresholdErrors(accuracy) \cup DropErrors(accuracy, baseline) \cup BacktestErrors(missed) = {}

\* The baseline is the latest production version.  get_latest_model turns an error
\* of MLflow into None, which the pipeline takes for "no production model".
Compare(r, answered, missed) ==
  LET current == IF answered THEN GetLatestModel(versions, "Production") ELSE 0
      baseline == IF current = 0 THEN NoBaseline ELSE versions[current].accuracy
  IN /\ runs[r].step = "compare"
     /\ IF /\ ImprovesEnough(runs[r].accuracy, baseline)
           /\ Validates(runs[r].accuracy, baseline, missed)
        THEN runs' = [runs EXCEPT ![r].step = "register", ![r].blind = ~answered]
        ELSE Ends(r, FALSE)
     /\ UNCHANGED <<registryVars, scheduler>>

RunRegisters(r) ==
  /\ runs[r].step = "register"
  /\ RegisterModel(runs[r].accuracy)
  /\ runs' = [runs EXCEPT ![r].step = "stage", ![r].version = Len(versions) + 1]
  /\ UNCHANGED <<operator, scheduler>>

RunStages(r) ==
  /\ runs[r].step = "stage"
  /\ PromoteModel(runs[r].version, "Staging")
  /\ Goes(r, "promote")
  /\ UNCHANGED <<operator, scheduler>>

\* With and without requires_canary_pass: _run_canary waits for nothing and passes.
RunPromotes(r) ==
  /\ runs[r].step = "promote"
  /\ PromoteModel(runs[r].version, "Production")
  /\ Ends(r, TRUE)
  /\ UNCHANGED <<operator, scheduler>>

\* An exception anywhere: what has been registered or staged stays.
RunFails(r) ==
  /\ runs[r].step # "idle"
  /\ Ends(r, FALSE)
  /\ UNCHANGED <<registryVars, scheduler>>
-----------------------------------------------------------------------------
\* run_scheduled: one more job in the process-wide schedule, one more loop.
RunScheduled ==
  /\ scheduler.loops < MaxLoops
  /\ scheduler' = [scheduler EXCEPT !.loops = @ + 1]
  /\ UNCHANGED <<registryVars, runs>>

\* stop_scheduler: a flag, and a join of at most 5 s that a run outlives.
StopScheduler ==
  /\ scheduler' = [scheduler EXCEPT !.stopped = TRUE]
  /\ UNCHANGED <<registryVars, runs>>

\* _scheduler_loop sees the flag once it is not running the pipeline.  The flag is
\* never cleared, so the loop of a later run_scheduled ends here too.
LoopEnds ==
  /\ scheduler.stopped /\ scheduler.loops > 0 /\ runs["scheduled"].step = "idle"
  /\ scheduler' = [scheduler EXCEPT !.loops = @ - 1]
  /\ UNCHANGED <<registryVars, runs>>

RunNext(r) ==
  \/ \E d \in DataQualities, a \in Accuracies : Train(r, d, a)
  \/ \E answered \in BOOLEAN, missed \in SUBSET {"max_drawdown", "min_trades"} :
       Compare(r, answered, missed)
  \/ RunRegisters(r) \/ RunStages(r) \/ RunPromotes(r) \/ RunFails(r)

RetrainingNext ==
  /\ \/ RegistryNext /\ UNCHANGED <<runs, scheduler>>
     \/ \E r \in Runs : RunNext(r)
     \/ RunScheduled \/ StopScheduler \/ LoopEnds
  /\ SeeRaces

RetrainingSpec == RetrainingInit /\ [][RetrainingNext]_retrainingVars
-----------------------------------------------------------------------------
PromotesNow(r) ==
  /\ runs[r].step = "promote"
  /\ runs'[r].promoted

\* A pipeline run that puts a version in production improves on the one in production
\* by the threshold, and its version is then the latest: unless MLflow did not answer
\* when the run looked for its baseline, or another run, a rollback or a promotion has
\* changed production since (pipeline.py, run_pipeline).
ImprovesUnlessRaced ==
  [][\A r \in Runs \ raced : PromotesNow(r) /\ ~runs[r].blind =>
       LET current == GetLatestModel(versions, "Production") IN
       /\ current # 0 => runs[r].accuracy >= versions[current].accuracy + Improvement
       /\ GetLatestModel(versions', "Production") = runs[r].version]_retrainingVars
=============================================================================
