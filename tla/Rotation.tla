------------------------------ MODULE Rotation ------------------------------
(***************************************************************************)
(* The scheduling of drift detections over many cycles: the filters, the   *)
(* sort and the limit of the chain (commands/run.go, controller.go), again *)
(* and again.  "Limit per execution and schedule multiple tfe-drift runs   *)
(* over the day. [...] At the end of the day, all your workspaces have     *)
(* been checked" (README.md:180).                                          *)
(*                                                                         *)
(* One step of Choose is everything a cycle does up to the creations, with *)
(* the operators of Processors; Create is a turn of its creating loop.     *)
(* How long the cycle waits then decides nothing here: the next Choose     *)
(* comes at any time.                                                      *)
(*                                                                         *)
(* Time is kept as the AGE of every workspace's last run, and only what    *)
(* the processors can tell apart of it: ages of NotBefore or more are      *)
(* renumbered without gaps, in their order (Quotient), so that behaviours  *)
(* that never end have finitely many states.                               *)
(***************************************************************************)
EXTENDS Processors, Integers

CONSTANTS Workspaces,
          Broken,     \* those whose requests may fail for ever
          Listings,   \* what ListWorkspaces may answer: all, in some order
          NotBefore,  \* --not-before
          MaxPlans    \* --limit-max-plans

ASSUME WorkspacesAssumption == IsFiniteSet(Workspaces) /\ Broken \subseteq Workspaces
ASSUME ListingsAssumption ==
  /\ Listings # {} /\ Listings \subseteq Seq(Workspaces)
  /\ \A list \in Listings :
       /\ \A w \in Workspaces : \E i \in DOMAIN list : list[i] = w
       /\ \A i, j \in DOMAIN list : list[i] = list[j] => i = j
ASSUME FlagsAssumption == NotBefore \in Nat /\ MaxPlans \in Nat

VARIABLES age,       \* age[w]: the age of w's last run
          queued,    \* the workspaces whose last run is queued or running
          turn,      \* what the cycle still has to create, in order
          overtaken  \* history: overtaken[v]: the workspaces that got a run
                     \* while v was free, due and had no turn

vars == <<age, queued, turn, overtaken>>

\* The present, and the age of a workspace without a run: its time is zero.
Now == NotBefore + Cardinality(Workspaces) + 1
Never == Now

PlanOf(w) ==
  IF age[w] = Never THEN NoPlan
  ELSE [id |-> 1, createdAt |-> Now - age[w], hasChanges |-> FALSE,
        status |-> IF w \in queued THEN "Waiting" ELSE "FinishedOK"]

\* What a cycle knows: the plan of every listed workspace, but nil for those
\* whose fetch failed.
Hydrated(list, failing) ==
  [i \in DOMAIN list |->
     [id |-> list[i], plan |-> IF list[i] \in failing THEN NoPlan ELSE PlanOf(list[i])]]

\* Variants of Chosen: the limit before the sort; no limit; no sort.
LimitThenSort(due) == SortByOldest(LimitMax(due, MaxPlans))
Unlimited(due) == SortByOldest(due)
Unsorted(due) == LimitMax(due, MaxPlans)

Chosen(due) == LimitMax(SortByOldest(due), MaxPlans)

\* A workspace a cycle that starts now would look at.
Free(w) == w \notin queued /\ age[w] >= NotBefore

\* The ages as the processors see them.
Quotient(ages) ==
  [w \in Workspaces |->
     IF ages[w] >= Never THEN Never
     ELSE IF ages[w] < NotBefore THEN ages[w]
     ELSE NotBefore + Cardinality({ages[v] : v \in
            {u \in Workspaces : NotBefore <= ages[u] /\ ages[u] < ages[w]}})]

Init ==
  /\ age = [w \in Workspaces |-> Never]
  /\ queued = {}
  /\ turn = << >>
  /\ overtaken = [w \in Workspaces |-> {}]

\* A cycle lists, hydrates, filters, sorts and limits.
Choose ==
  /\ turn = << >>
  /\ \E list \in Listings, failing \in SUBSET Broken :
       \E idle \in {FilterQueued(Hydrated(list, failing))} :
         \E due \in {FilterDriftDetectionsBefore(idle, Now, NotBefore)} :
           \E chosen \in {Chosen(due)} :
             turn' = [i \in DOMAIN chosen |-> chosen[i].id]
  /\ UNCHANGED <<age, queued, overtaken>>

\* The turn of w is over; whoever was passed over remembers w if it got a run.
TurnOf(w, created) ==
  /\ turn # << >>
  /\ w = Head(turn)
  /\ turn' = Tail(turn)
  /\ overtaken' = [v \in Workspaces |->
       IF v = w \/ ~Free(v) THEN {}
       ELSE IF created THEN overtaken[v] \cup {w} ELSE overtaken[v]]

Create(w) ==
  /\ TurnOf(w, TRUE)
  /\ age' = Quotient([age EXCEPT ![w] = 0])
  /\ queued' = queued \cup {w}

\* The error is logged and the loop goes on.
CreateFails(w) ==
  /\ TurnOf(w, FALSE)
  /\ UNCHANGED <<age, queued>>

RunEnds(w) ==
  /\ w \in queued
  /\ queued' = queued \ {w}
  /\ UNCHANGED <<age, turn, overtaken>>

Tick ==
  /\ age' = Quotient([w \in Workspaces |-> IF age[w] = Never THEN Never ELSE age[w] + 1])
  /\ UNCHANGED <<queued, turn, overtaken>>

Next ==
  \/ Choose
  \/ \E w \in Workspaces : Create(w) \/ CreateFails(w) \/ RunEnds(w)
  \/ Tick

Spec == Init /\ [][Next]_vars

(***************************************************************************)
(* Cycles are started again and again (cron, --detect-interval), and each  *)
(* does its turns; time passes.  For a workspace that is not broken: a run *)
(* ends, and of creations tried for ever one succeeds.                     *)
(***************************************************************************)
Fairness ==
  /\ WF_vars(Choose)
  /\ WF_vars(\E w \in Workspaces : Create(w) \/ CreateFails(w))
  /\ WF_vars(Tick)
  /\ \A w \in Workspaces \ Broken : WF_vars(RunEnds(w)) /\ SF_vars(Create(w))

FairSpec == Spec /\ Fairness

-----------------------------------------------------------------------------
TypeOK ==
  /\ age \in [Workspaces -> 0..Never]
  /\ queued \subseteq Workspaces
  /\ overtaken \in [Workspaces -> SUBSET Workspaces]
  /\ turn \in Seq(Workspaces)
  \* A cycle's turns are within the limit, and each workspace has one.
  /\ MaxPlans = 0 \/ Len(turn) <= MaxPlans
  /\ \A i, j \in DOMAIN turn : turn[i] = turn[j] => i = j

(***************************************************************************)
(* "All your workspaces have been checked" (README.md:180): each workspace *)
(* whose requests do not fail for ever gets runs for ever, as long as the  *)
(* workspaces whose requests do are fewer than the limit.                  *)
(***************************************************************************)
AllChecked ==
  (MaxPlans = 0 \/ Cardinality(Broken) < MaxPlans) =>
    \A w \in Workspaces \ Broken : []<><<Create(w)>>_vars

(***************************************************************************)
(* Why: the places of a cycle only go to workspaces that are broken or     *)
(* older.  A workspace that is due has a turn in the next cycle as soon as *)
(* the broken ones, and those that are due and no younger, are together    *)
(* fewer than the limit.                                                   *)
(***************************************************************************)
NoYounger(v) ==
  {u \in Workspaces \ Broken : u # v /\ Free(u) /\ age[u] >= age[v]}

OldestChosen ==
  [][\A v \in Workspaces \ Broken :
       (Choose /\ Free(v)) =>
         \/ \E j \in DOMAIN turn' : turn'[j] = v
         \/ MaxPlans # 0 /\ Cardinality(Broken \cup NoYounger(v)) >= MaxPlans]_vars

(***************************************************************************)
(* "Prioritizing the workspaces with oldest drift detections" (README.md:  *)
(* 188), over several cycles: while a workspace is free and due and has    *)
(* not had its turn, no other one gets two runs, unless a failed fetch has *)
(* put it at the front.                                                    *)
(***************************************************************************)
NoOvertaking ==
  [][\A v \in Workspaces, w \in Workspaces \ Broken :
       v # w /\ Free(v) /\ w \in overtaken[v] => ~Create(w)]_vars
=============================================================================
