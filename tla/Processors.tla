----------------------------- MODULE Processors -----------------------------
(***************************************************************************)
(* The sequential workspace processors                                     *)
(* (internal/workspace/process/{filter,sort,result}.go) as operators on    *)
(* lists of workspaces.  A workspace is [id, plan]: its name, organisation *)
(* and tags follow from its ID, and plan is LastDriftPlan.                 *)
(*                                                                         *)
(* Filters keep some positions of a list and sorting permutes them all;    *)
(* both are Arrange: the positions of S in the order of the relation R.    *)
(* It is written without recursion, so that the prover can reason on it.   *)
(***************************************************************************)
EXTENDS Plans, Sequences, FiniteSets

\* The k-th position of S is the one that k-1 positions of S precede.
Arrange(S, R) ==
  [k \in 1..Cardinality(S) |->
     CHOOSE i \in S : Cardinality({j \in S : <<j, i>> \in R}) = k - 1]

InOrder(S) == {p \in S \X S : p[1] < p[2]}

\* The workspaces at the positions S of wks, in their order in wks.
Keep(wks, S) ==
  [k \in 1..Cardinality(S) |-> wks[Arrange(S, InOrder(S))[k]]]

(***************************************************************************)
(* Filters.  A regular expression is the set of workspaces whose names it  *)
(* matches.                                                                *)
(***************************************************************************)
matchStringRegexes(rxs, wk) == \E rx \in rxs : wk.id \in rx

IncludeName(wks, rxs) ==
  IF rxs = {} THEN wks
  ELSE Keep(wks, {i \in DOMAIN wks : matchStringRegexes(rxs, wks[i])})

ExcludeName(wks, rxs) ==
  Keep(wks, {i \in DOMAIN wks : ~matchStringRegexes(rxs, wks[i])})

Queued(wk) == wk.plan # NoPlan /\ wk.plan.status = "Waiting"

FilterQueued(wks) == Keep(wks, {i \in DOMAIN wks : ~Queued(wks[i])})

TooOld(wk, now, notBefore) ==   \* a variant of TooRecent, the wrong way round
  wk.plan # NoPlan /\ now - wk.plan.createdAt > notBefore

TooRecent(wk, now, notBefore) ==
  wk.plan # NoPlan /\ now - wk.plan.createdAt < notBefore

FilterDriftDetectionsBefore(wks, now, notBefore) ==
  IF notBefore = 0 THEN wks
  ELSE Keep(wks, {i \in DOMAIN wks : ~TooRecent(wks[i], now, notBefore)})

LimitMax(wks, max) ==
  IF max = 0 \/ max >= Len(wks) THEN wks ELSE SubSeq(wks, 1, max)

(***************************************************************************)
(* sort.SliceStable by creation time of the last plan, a nil plan being    *)
(* the oldest; equal times keep their order.                               *)
(***************************************************************************)
Oldest(wks) ==
  {p \in (DOMAIN wks) \X (DOMAIN wks) :
     LET t(i) == LastAt(wks[i].plan)
     IN  t(p[1]) < t(p[2]) \/ (t(p[1]) = t(p[2]) /\ p[1] < p[2])}

SortByOldest(wks) ==
  [k \in DOMAIN wks |-> wks[Arrange(DOMAIN wks, Oldest(wks))[k]]]

(***************************************************************************)
(* Results.  A nil plan is the zero model.Plan: no changes, status         *)
(* Unknown.  Changes are looked at first, so a failed run that has changes *)
(* is drift and not a failure.                                             *)
(***************************************************************************)
Drifted(wk) == wk.plan # NoPlan /\ wk.plan.hasChanges
PlanNotOK(wk) ==   \* a variant of PlanFailed: whatever is not FinishedOK
  wk.plan # NoPlan /\ wk.plan.status # "FinishedOK"
PlanFailed(wk) == wk.plan # NoPlan /\ wk.plan.status = "FinishedNotOK"

FailuresFirst(wks, noErrorDriftPlans) ==   \* a variant of ExitCode
  IF noErrorDriftPlans THEN 0
  ELSE IF \E i \in DOMAIN wks : PlanFailed(wks[i]) THEN 3
  ELSE IF \E i \in DOMAIN wks : Drifted(wks[i]) THEN 2
  ELSE 0

\* The exit code main.go gives to the error of the result processor.
ExitCode(wks, noErrorDriftPlans) ==
  LET hasChanges == \E i \in DOMAIN wks : Drifted(wks[i])
      hasErrors == \E i \in DOMAIN wks :
                     ~Drifted(wks[i]) /\ PlanFailed(wks[i])
  IN  IF noErrorDriftPlans THEN 0
      ELSE IF hasChanges THEN 2
      ELSE IF hasErrors THEN 3
      ELSE 0

\* "ok" at the root of the JSON result.
JSONOK(wks) ==
  \A i \in DOMAIN wks : ~Drifted(wks[i]) /\ ~PlanFailed(wks[i])
=============================================================================
