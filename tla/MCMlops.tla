------------------------------- MODULE MCMlops -------------------------------
(***************************************************************************)
(* The model operations for TLC.  Registry and pipeline are one system;    *)
(* rollout, monitoring, serving and the feature store keep state of their  *)
(* own, so a behaviour exercises one of them and the others stand still.   *)
(***************************************************************************)
EXTENDS Retraining, CanaryRollout, ModelMonitoring, ModelServing, FeatureStore

VARIABLE part   \* which of them this behaviour exercises

mlopsVars == <<part, retrainingVars, canaryVars, monitoringVars, servingVars, storeVars>>

MCDurations == <<1, 3, 7>>
MCAllocations == <<1, 5, 25, 100>>

MlopsInit ==
  /\ part \in {"retraining", "canary", "drift", "alerts", "window", "serving", "tests",
              "features", "online"}
  /\ RetrainingInit /\ CanaryInit /\ MonitoringInit /\ ServingInit /\ StoreInit
  /\ part # "serving" => ttl = 2

MlopsNext ==
  /\ UNCHANGED part
  /\ \/ /\ part = "retraining" /\ RetrainingNext
        /\ UNCHANGED <<canaryVars, monitoringVars, servingVars, storeVars>>
     \/ /\ part = "canary" /\ CanaryNext
        /\ UNCHANGED <<retrainingVars, monitoringVars, servingVars, storeVars>>
     \/ /\ \/ part = "drift" /\ DriftNext
           \/ part = "alerts" /\ AlertNext
           \/ part = "window" /\ WindowNext
        /\ UNCHANGED <<retrainingVars, canaryVars, servingVars, storeVars>>
     \/ /\ \/ part = "serving" /\ PredictorNext
           \/ part = "tests" /\ AbNext
        /\ UNCHANGED <<retrainingVars, canaryVars, monitoringVars, storeVars>>
     \/ /\ \/ part = "features" /\ RegistrationNext
           \/ part = "online" /\ OnlineNext
        /\ UNCHANGED <<retrainingVars, canaryVars, monitoringVars, servingVars>>

MlopsSpec == MlopsInit /\ [][MlopsNext]_mlopsVars
=============================================================================
