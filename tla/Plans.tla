------------------------------- MODULE Plans --------------------------------
(***************************************************************************)
(* Drift detection plans: model.Plan (internal/model/model.go), and how a  *)
(* Terraform Cloud run is mapped to one (internal/storage/tfe/tfe.go).     *)
(*                                                                         *)
(* A run is [createdAt, status, hasChanges], status being the string the   *)
(* TFE API answers; a plan is [id, createdAt, status, hasChanges], status  *)
(* being one of the four PlanStatus values.  Message, URL and the original *)
(* object are text carried along, and no decision reads them; FinishedAt   *)
(* and PlanRunDuration are only printed.                                   *)
(***************************************************************************)
EXTENDS Naturals

CONSTANT NoPlan   \* LastDriftPlan == nil

\* The zero time.Time, earlier than any run: what a nil plan sorts as.
ZeroTime == 0

PlanStatus == {"Unknown", "Waiting", "FinishedOK", "FinishedNotOK"}

Plan == [id : Nat, createdAt : Nat, status : PlanStatus, hasChanges : BOOLEAN]

ASSUME NoPlanAssumption == NoPlan \notin Plan

\* The statuses the switch of mapTFEStatus2Model lists.
RunsFinishedOK == {"planned_and_finished"}
RunsFinishedNotOK == {"canceled", "discarded", "errored"}
RunsStarted ==   \* a variant of RunsWaiting that forgets "pending"
  {"fetching", "fetching_completed", "planned", "planning", "plan_queued",
   "pre_plan_completed", "pre_plan_running", "queuing"}
RunsWaiting ==
  {"fetching", "fetching_completed", "pending", "planned", "planning",
   "plan_queued", "pre_plan_completed", "pre_plan_running", "queuing"}

\* Every other status of the API (policy checks, cost estimation, post-plan
\* tasks, ...) falls in the default case.
mapTFEStatus2Model(s) ==
  CASE s \in RunsFinishedOK    -> "FinishedOK"
    [] s \in RunsFinishedNotOK -> "FinishedNotOK"
    [] s \in RunsWaiting       -> "Waiting"
    [] OTHER                   -> "Unknown"

mapPlanTFE2Model(n, run) ==
  [id         |-> n,
   createdAt  |-> run.createdAt,
   status     |-> mapTFEStatus2Model(run.status),
   hasChanges |-> run.hasChanges]

LastAt(plan) == IF plan = NoPlan THEN ZeroTime ELSE plan.createdAt
=============================================================================
