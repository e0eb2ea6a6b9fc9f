---------------------------- MODULE ModelRegistry ----------------------------
(***************************************************************************)
(* ModelRegistry (mlops/registry) over MLflow: the versions of one model,  *)
(* their stages, and the calls that change them.  Each action is one call  *)
(* to MLflow, so rollback_model and delete_model, which make several, can  *)
(* be overtaken between any two of them, and can fail there.               *)
(***************************************************************************)
EXTENDS Integers, Sequences, FiniteSets, FiniteSetsExt, SequencesExt

CONSTANTS
  Accuracies,    \* accuracies a trained model can have, in percent
  MaxVersions    \* bound on the versions registered

ASSUME RegistryAssumption == Accuracies \subseteq Nat /\ MaxVersions \in Nat

VARIABLES
  versions,   \* MLflow's registered versions: version number -> [stage, accuracy]
  operator    \* the call of the operator under way: [doing, version, todo]

registryVars == <<versions, operator>>

Stages == {"None", "Staging", "Production", "Archived"}
\* What callers send as a stage: the serving API documents the lower-case names.
StageNames == Stages \cup {"staging", "production", "archived"}

NoCall == [doing |-> "nothing", version |-> 0, todo |-> {}]

RegistryInit ==
  /\ versions = <<>>
  /\ operator = NoCall

InStage(vs, stage) == {v \in DOMAIN vs : vs[v].stage = stage}

\* Slip: the versions are sorted the wrong way round.
EarliestModel(vs, stage) == IF InStage(vs, stage) = {} THEN 0 ELSE Min(InStage(vs, stage))

\* get_latest_model: the highest version number in the stage; 0 for None.
GetLatestModel(vs, stage) == IF InStage(vs, stage) = {} THEN 0 ELSE Max(InStage(vs, stage))

\* promote_model: no other version of the stage is archived.
PromoteModel(v, stage) ==
  /\ v \in DOMAIN versions /\ stage \in Stages
  /\ versions' = [versions EXCEPT ![v].stage = stage]

\* ModelVersion, with the metric that promotions and comparisons look at.
ModelVersion(accuracy) == [stage |-> "None", accuracy |-> accuracy]

\* register_model; ExperimentTracker.register_model does the same from a finished run.
RegisterModel(accuracy) ==
  /\ Len(versions) < MaxVersions
  /\ versions' = Append(versions, ModelVersion(accuracy))

\* load_model: a stage MLflow does not know, None among them, has no version.
CanLoad(stage) == GetLatestModel(versions, stage) # 0

\* compare_versions: the second wins only if it is better.
CompareVersions(v1, v2) == IF versions[v2].accuracy > versions[v1].accuracy THEN v2 ELSE v1
-----------------------------------------------------------------------------
\* POST .../promote: any version to any stage; an invalid name is an error 500.
OperatorPromotes(v, stage) ==
  /\ operator = NoCall
  /\ PromoteModel(v, stage)
  /\ UNCHANGED operator

\* ModelInfo.get_latest_version: the first of the stage in the order MLflow lists them
\* (external), which need not be GetLatestModel's.
LatestListed(listing, stage) ==
  LET i == SelectInSeq(listing, LAMBDA v : versions[v].stage = stage) IN
  IF i = 0 THEN 0 ELSE listing[i]

\* rollback_model: the production version to archive is looked up (an error of MLflow
\* there reads as "none") ...
RollbackModel(v, answered) ==
  /\ operator = NoCall
  /\ v \in DOMAIN versions
  /\ LET current == IF answered THEN GetLatestModel(versions, "Production") ELSE 0 IN
     operator' = [doing |-> "rollback", version |-> v, todo |-> {current} \ {0, v}]
  /\ UNCHANGED versions

\* delete_model: ... or all versions not archived are listed (likewise), ...
DeleteModel(answered) ==
  /\ operator = NoCall
  /\ versions # <<>>
  /\ operator' = [doing |-> "delete", version |-> 0,
                  todo |-> IF answered THEN DOMAIN versions \ InStage(versions, "Archived")
                                       ELSE {}]
  /\ UNCHANGED versions

\* ... what was listed is archived one by one, ...
ArchiveListed ==
  /\ operator.todo # {}
  /\ LET v == Min(operator.todo) IN
     /\ PromoteModel(v, "Archived")
     /\ operator' = [operator EXCEPT !.todo = @ \ {v}]

\* ... and the target is promoted ...
FinishRollback ==
  /\ operator.doing = "rollback" /\ operator.todo = {}
  /\ PromoteModel(operator.version, "Production")
  /\ operator' = NoCall

\* ... or the model is deleted, whatever has been registered since.
FinishDelete ==
  /\ operator.doing = "delete" /\ operator.todo = {}
  /\ versions' = <<>>
  /\ operator' = NoCall

\* MLflow does not answer: the call is given up where it stands.
OperatorFails ==
  /\ operator # NoCall
  /\ operator' = NoCall
  /\ UNCHANGED versions

OperatorRegisters(accuracy) ==
  /\ operator = NoCall
  /\ RegisterModel(accuracy)
  /\ UNCHANGED operator

RegistryNext ==
  \/ \E v \in DOMAIN versions :
       \/ \E s \in StageNames : OperatorPromotes(v, s)
       \/ \E answered \in BOOLEAN : RollbackModel(v, answered)
  \/ \E answered \in BOOLEAN : DeleteModel(answered)
  \/ ArchiveListed \/ FinishRollback \/ FinishDelete \/ OperatorFails
  \/ \E a \in Accuracies : OperatorRegisters(a)
=============================================================================
