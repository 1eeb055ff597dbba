---------------------------- MODULE DriftChecks -----------------------------
(***************************************************************************)
(* What the scheduling of drift detections promises the Terraform Cloud    *)
(* organisation it works for, whatever fails on the way (README.md, "How   *)
(* does tfe-drift schedule drift detections?"): a workspace gets a new     *)
(* drift detection run only when none of its runs is queued or running,    *)
(* and not within NotBefore of the last one.                               *)
(***************************************************************************)
EXTENDS Runs

CONSTANT NotBefore   \* --not-before

\* No run is queued or running, in Terraform Cloud's own terms.
Idle(w) == \A n \in DOMAIN runs[w] : Ended(runs[w][n])

Due(w) == \A n \in DOMAIN runs[w] : clock - runs[w][n].createdAt >= NotBefore

Detect(w) ==
  /\ Idle(w)
  /\ Due(w)
  /\ CreateRun(w)
  /\ UNCHANGED clock

Next == Tick \/ \E w \in Workspaces : Detect(w) \/ RunProgress(w)

Spec == RunsInit /\ [][Next]_rvars
=============================================================================
