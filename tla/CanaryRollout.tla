---------------------------- MODULE CanaryRollout ----------------------------
(***************************************************************************)
(* CanaryDeployer (mlops/validator): the capital of a new model grows in   *)
(* phases, a poll at a time.  Time is counted in days.                     *)
(***************************************************************************)
EXTENDS Integers, Sequences, FiniteSetsExt, SequencesExt

CONSTANTS
  Durations,    \* of the phases but the last, which has none
  Allocations,  \* per phase, in percent
  Candidates,   \* model versions
  Degradations, \* (baseline - current) / baseline of the accuracy, in percent
  MaxDays       \* bound on the days

\* PHASES
ASSUME CanaryAssumption ==
  Durations \in Seq(Nat) /\ Len(Allocations) = Len(Durations) + 1

VARIABLES
  today,
  canary    \* current_model_version, phase_start_time, current_phase (from 1), rollback_triggered

canaryVars == <<today, canary>>

NotStarted == [model |-> "none", started |-> 0, phase |-> 1, rollback |-> FALSE]

CanaryInit == today = 0 /\ canary = NotStarted

\* start_deployment
StartDeployment(model) ==
  /\ canary' = [model |-> model, started |-> today, phase |-> 1, rollback |-> FALSE]
  /\ UNCHANGED today

Elapsed == today - canary.started
LastPhase == Len(Allocations)

\* Slip: one phase per poll.
PhaseStep(phase, elapsed) ==
  IF phase < LastPhase /\ elapsed >= Durations[phase] THEN phase + 1 ELSE phase

\* get_allocation goes on from phase to phase; each is compared with the time since
\* the start of the deployment.
PhaseAt(phase, elapsed) ==
  Min({k \in phase .. LastPhase : k = LastPhase \/ elapsed < Durations[k]})

\* get_allocation; rollback_triggered is not looked at.
GetAllocation ==
  /\ canary # NotStarted
  /\ canary' = [canary EXCEPT !.phase = PhaseAt(@, Elapsed)]
  /\ UNCHANGED today

\* should_rollback: a drop of more than 5 %.
ShouldRollback(degradation) ==
  /\ degradation > 5
  /\ canary' = [canary EXCEPT !.rollback = TRUE]
  /\ UNCHANGED today

Tick == today < MaxDays /\ today' = today + 1 /\ UNCHANGED canary

CanaryNext ==
  \/ \E m \in Candidates : StartDeployment(m)
  \/ GetAllocation
  \/ \E d \in Degradations : ShouldRollback(d)
  \/ Tick

CanarySpec == CanaryInit /\ [][CanaryNext]_canaryVars
-----------------------------------------------------------------------------
\* _get_phase_index: here the durations add up.
PhaseEnds(k) == SumFunctionOnSet(Durations, 1 .. k)
GetPhaseIndex ==
  IF canary = NotStarted THEN 1
  ELSE Min({k \in 1 .. LastPhase : k = LastPhase \/ Elapsed < PhaseEnds(k)})
IsComplete == GetPhaseIndex = LastPhase

\* get_status: the phase of the last poll
Status ==
  CASE canary = NotStarted -> "not_started"
    [] canary # NotStarted /\ canary.rollback -> "rollback"
    [] OTHER -> "active"
StatusAllocation == Allocations[canary.phase]

\* A rollout's capital keeps up with what is said of it: the phase _get_phase_index works
\* out from the added-up durations is never ahead of the one get_allocation gives, however
\* late and seldom it was polled, so that a rollout is_complete reports complete has all the
\* capital at its next poll (validator.py, get_allocation, _get_phase_index, is_complete).
CapitalKeepsUp == GetPhaseIndex <= PhaseAt(canary.phase, Elapsed)
=============================================================================
