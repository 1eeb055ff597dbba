-------------------------------- MODULE Runs --------------------------------
(***************************************************************************)
(* Terraform Cloud as tfe-drift sees it through                            *)
(* internal/storage/tfe/client.go: for every workspace the runs this       *)
(* application has created (they carry its detector ID in their message),  *)
(* oldest first, and a clock.  It is external to the repository: what is   *)
(* here is what the repository asks of it.                                 *)
(***************************************************************************)
EXTENDS Plans, Sequences

CONSTANTS Workspaces,   \* workspace IDs
          RunStatuses,  \* what a run may become after "pending"
          MaxClock      \* bound on time

VARIABLES clock,  \* time, from 1: run timestamps differ from the zero time
          runs    \* runs[w]: the runs of w

rvars == <<clock, runs>>

Statuses == {"pending"} \cup RunStatuses

Run == [createdAt : Nat, status : Statuses, hasChanges : BOOLEAN]

NewRun == [createdAt |-> clock, status |-> "pending", hasChanges |-> FALSE]

Ended(run) == run.status \in RunsFinishedOK \cup RunsFinishedNotOK

RunsInit ==
  /\ clock = 1
  /\ runs = [w \in Workspaces |-> << >>]

CreateRun(w) == runs' = [runs EXCEPT ![w] = Append(@, NewRun)]

\* What ListRuns with PageSize 1 answers first: the newest run.
LatestPlan(w) ==
  IF runs[w] = << >> THEN NoPlan
  ELSE mapPlanTFE2Model(Len(runs[w]), runs[w][Len(runs[w])])

\* A run advances, and learns at some point that its plan has changes.
RunProgress(w) ==
  /\ \E n \in DOMAIN runs[w], s \in RunStatuses, changes \in BOOLEAN :
       /\ ~Ended(runs[w][n])
       /\ runs[w][n].hasChanges => changes
       /\ runs' = [runs EXCEPT ![w][n] =
            [createdAt |-> @.createdAt, status |-> s, hasChanges |-> changes]]
  /\ UNCHANGED clock

Tick ==
  /\ clock < MaxClock
  /\ clock' = clock + 1
  /\ UNCHANGED runs

RunsTypeOK ==
  /\ clock \in Nat \ {0}
  /\ runs \in [Workspaces -> Seq(Run)]
  /\ \A w \in Workspaces : \A n \in DOMAIN runs[w] :
       /\ runs[w][n].createdAt \in 1..clock
       /\ \A m \in 1..n : runs[w][m].createdAt <= runs[w][n].createdAt
=============================================================================
