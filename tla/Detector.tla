------------------------------ MODULE Detector ------------------------------
(***************************************************************************)
(* A drift detection cycle: RunCommand.Run (cmd/tfe-drift/commands/run.go) *)
(* and DriftDetector.run (internal/controller/controller.go), with the     *)
(* chain of processors both build.                                         *)
(*                                                                         *)
(*   list - include - exclude - HYDRATE - filter queued - filter recent -  *)
(*   sort by oldest - limit - CREATE - WAIT - result                       *)
(*                                                                         *)
(* Only the steps in capitals talk to Terraform Cloud for one workspace at *)
(* a time; between two of their requests other detectors, the runs and the *)
(* clock move.  Hydrating and waiting are concurrent (Hydrate.tla and      *)
(* Wait.tla, seen here through what they promise in FanOut.tla: each       *)
(* position gets its own workspace's answer, in any order, and the next    *)
(* processor starts when all have one); creating is one loop, in order.    *)
(*                                                                         *)
(* A detector is an installation: the cron entry or the controller that    *)
(* starts one cycle after another with the same detector ID.               *)
(***************************************************************************)
EXTENDS Processors, Runs

CONSTANTS Detectors,
          Controllers,   \* those that run as a controller: their chain has
                         \* no result processor
          Quiet,         \* those with --disable-drift-plan-exitcodes
          DryRun,        \* those with --dry-run
          Listings,      \* what ListWorkspaces may answer
          IncludeNames,  \* --include-name
          ExcludeNames,  \* --exclude-name
          NotBefore,     \* --not-before
          MaxPlans,      \* --limit-max-plans
          MaxCycles,     \* bound on the cycles started
          Faults         \* what fails: a subset of AllFaults

(***************************************************************************)
(* list, fetch, create and read: the request fails and nothing happened.   *)
(* lost: the run is created but the answer is lost.  late: the wait        *)
(* timeout passes.  output: the JSON result cannot be written.  crash: the *)
(* process is killed.                                                      *)
(***************************************************************************)
AllFaults == {"list", "fetch", "create", "lost", "read", "late", "output", "crash"}

ASSUME DetectorsAssumption ==
  DryRun \subseteq Detectors /\ Controllers \subseteq Detectors
\* No workspace is listed twice (Hydrate.tla and Wait.tla say what such a list
\* would do to the processors that index by ID).
ASSUME ListingsAssumption ==
  /\ Listings \subseteq Seq(Workspaces)
  /\ \A list \in Listings : \A i, j \in DOMAIN list : list[i] = list[j] => i = j
ASSUME FlagsAssumption == NotBefore \in Nat /\ MaxPlans \in Nat
ASSUME BoundAssumption == MaxCycles \in Nat
ASSUME NamesAssumption == IncludeNames = {} \/ ExcludeNames = {}
ASSUME FaultsAssumption == Faults \subseteq AllFaults

VARIABLES pc,       \* pc[d]: idle, hydrate, create or wait
          wks,      \* wks[d]: the list the current processor works on
          todo,     \* todo[d]: its positions not yet done
          eligible, \* eligible[d]: the workspaces this cycle found not eligible,
                    \* before the limit chose among them (history)
          trouble,  \* trouble[d]: an error was logged in this cycle (history)
          exit,     \* exit[d]: how the last cycle ended
          cycles    \* cycles started so far

dvars == <<pc, wks, todo, eligible, trouble, exit, cycles>>
vars == <<clock, runs, pc, wks, todo, eligible, trouble, exit, cycles>>

NoExit == 4   \* no cycle has ended since the detector (re)started

Init ==
  /\ RunsInit
  /\ pc = [d \in Detectors |-> "idle"]
  /\ wks = [d \in Detectors |-> << >>]
  /\ todo = [d \in Detectors |-> {}]
  /\ eligible = [d \in Detectors |-> {}]
  /\ trouble = [d \in Detectors |-> FALSE]
  /\ exit = [d \in Detectors |-> NoExit]
  /\ cycles = 0

\* A listed workspace has no plan yet.
Listed(list) == [i \in DOMAIN list |-> [id |-> list[i], plan |-> NoPlan]]

Named(list) == ExcludeName(IncludeName(Listed(list), IncludeNames), ExcludeNames)

\* The processors between hydrating and creating: which workspaces are due,
\* and which of those the cycle plans, oldest first.
DueEvenIfQueued(list) ==   \* a variant: the queue filter is not in the chain
  FilterDriftDetectionsBefore(list, clock, NotBefore)

Due(list) == FilterDriftDetectionsBefore(FilterQueued(list), clock, NotBefore)

LimitThenSort(due) == SortByOldest(LimitMax(due, MaxPlans))   \* a variant

Chosen(due) == LimitMax(SortByOldest(due), MaxPlans)

\* Detector d enters phase p with this list, all of it to do.
Enter(d, p, list) ==
  /\ pc' = [pc EXCEPT ![d] = p]
  /\ wks' = [wks EXCEPT ![d] = list]
  /\ todo' = [todo EXCEPT ![d] = DOMAIN list]

\* Position i of the current processor is done, with this plan.
Done(d, i, plan, error) ==
  /\ wks' = [wks EXCEPT ![d][i].plan = plan]
  /\ todo' = [todo EXCEPT ![d] = @ \ {i}]
  /\ trouble' = [trouble EXCEPT ![d] = @ \/ error]
  /\ UNCHANGED <<pc, eligible, exit, cycles>>

\* The cycle is over with this exit code, and its memory is gone.
Over(d, code) ==
  /\ Enter(d, "idle", << >>)
  /\ eligible' = [eligible EXCEPT ![d] = {}]
  /\ trouble' = [trouble EXCEPT ![d] = FALSE]
  /\ exit' = [exit EXCEPT ![d] = code]

\* A cycle without a list: a run command returns an error, a controller logs
\* it and waits for the next tick.
OverUnlisted(d) == Over(d, IF d \in Controllers THEN 0 ELSE 1)

-----------------------------------------------------------------------------
(***************************************************************************)
(* ListWorkspaces, and the name filters.  No workspace at all ends the     *)
(* cycle; names that leave no workspace do not.                            *)
(***************************************************************************)
Start(d) ==
  /\ pc[d] = "idle"
  /\ cycles < MaxCycles
  /\ cycles' = cycles + 1
  /\ \E list \in Listings :
       \/ /\ list = << >>
          /\ OverUnlisted(d)
       \/ /\ list # << >>
          /\ Enter(d, "hydrate", Named(list))
          /\ UNCHANGED <<eligible, trouble, exit>>
  /\ UNCHANGED rvars

ListFails(d) ==
  /\ "list" \in Faults
  /\ pc[d] = "idle"
  /\ cycles < MaxCycles
  /\ cycles' = cycles + 1
  /\ OverUnlisted(d)
  /\ UNCHANGED rvars

\* The result of a fetch is put on the workspace at position i.
HydrateWith(d, i, plan, error) ==
  /\ pc[d] = "hydrate"
  /\ i \in todo[d]
  /\ Done(d, i, plan, error)
  /\ UNCHANGED rvars

\* Variants: every worker asks about the first workspace; a failure is not
\* logged.
HydrateFromFirst(d, i) == HydrateWith(d, i, LatestPlan(wks[d][1].id), FALSE)
HydrateFailsSilently(d, i) == "fetch" \in Faults /\ HydrateWith(d, i, NoPlan, FALSE)

\* A worker gets the latest plan of the workspace.
Hydrate(d, i) == HydrateWith(d, i, LatestPlan(wks[d][i].id), FALSE)

\* Its request fails: the error is logged, the plan is nil.
HydrateFails(d, i) == "fetch" \in Faults /\ HydrateWith(d, i, NoPlan, TRUE)

Schedule(d) ==
  /\ pc[d] = "hydrate"
  /\ todo[d] = {}
  /\ \E due \in {Due(wks[d])} : \E list \in {Chosen(due)} : Enter(d, "create", list)
  /\ eligible' = [eligible EXCEPT ![d] =
       {wks[d][i].id : i \in {j \in DOMAIN wks[d] : ~Queued(wks[d][j])}}]
  /\ UNCHANGED <<trouble, exit, cycles, clock, runs>>

\* The loop of run.go is at position i.
Creating(d, i) ==
  /\ pc[d] = "create"
  /\ i \in todo[d]
  /\ \A j \in todo[d] : i <= j

Create(d, i) ==
  /\ Creating(d, i)
  /\ d \notin DryRun
  /\ CreateRun(wks[d][i].id)
  /\ \/ Done(d, i, mapPlanTFE2Model(Len(runs[wks[d][i].id]) + 1, NewRun), FALSE)
     \/ /\ "lost" \in Faults
        /\ Done(d, i, wks[d][i].plan, TRUE)
  /\ UNCHANGED clock

\* No run is created, and the workspace keeps the plan it was hydrated with.
CreateFails(d, i) ==
  /\ "create" \in Faults
  /\ Creating(d, i)
  /\ Done(d, i, wks[d][i].plan, TRUE)
  /\ UNCHANGED rvars

\* dryRunRepository: the latest plan instead of a new one, or ErrNotExist.
DryRunCreate(d, i) ==
  /\ Creating(d, i)
  /\ d \in DryRun
  /\ LET latest == LatestPlan(wks[d][i].id)
     IN  IF latest = NoPlan
         THEN Done(d, i, wks[d][i].plan, TRUE)
         ELSE Done(d, i, latest, FALSE)
  /\ UNCHANGED rvars

CreatedIf(d, ready) ==
  /\ pc[d] = "create"
  /\ todo[d] = {}
  /\ ready
  /\ Enter(d, "wait", wks[d])
  /\ UNCHANGED <<eligible, trouble, exit, cycles, clock, runs>>

\* A variant: an empty list never leaves the processor.
CreatedSome(d) == CreatedIf(d, wks[d] # << >>)

Created(d) == CreatedIf(d, TRUE)

\* GetCheckPlan: the run position i waits for, as it is now.
ReadPlan(d, i) ==
  LET wk == wks[d][i] IN mapPlanTFE2Model(wk.plan.id, runs[wk.id][wk.plan.id])

WaitEndsOn(d, i, statuses) ==
  /\ pc[d] = "wait"
  /\ i \in todo[d]
  /\ IF wks[d][i].plan = NoPlan
     THEN Done(d, i, NoPlan, FALSE)
     ELSE ReadPlan(d, i).status \in statuses /\ Done(d, i, ReadPlan(d, i), FALSE)
  /\ UNCHANGED rvars

\* A variant: the first read ends the wait.
WaitEndsAtOnce(d, i) == WaitEndsOn(d, i, PlanStatus)

\* A waiter sees its run not waiting any more, or has no plan to wait for.
WaitEnds(d, i) == WaitEndsOn(d, i, PlanStatus \ {"Waiting"})

\* The wait timeout, or an error of a read: the plan stays as it was.
WaitFails(d, i) ==
  /\ {"read", "late"} \cap Faults # {}
  /\ pc[d] = "wait"
  /\ i \in todo[d]
  /\ wks[d][i].plan # NoPlan
  /\ Done(d, i, wks[d][i].plan, TRUE)
  /\ UNCHANGED rvars

\* The result processors.  The JSON one, if any, comes first: when it cannot
\* write, the verdict is never reached.
Report(d) ==
  /\ pc[d] = "wait"
  /\ todo[d] = {}
  /\ \/ Over(d, ExitCode(wks[d], d \in Controllers \cup Quiet))
     \/ "output" \in Faults /\ d \notin Controllers /\ Over(d, 1)
  /\ UNCHANGED <<cycles, clock, runs>>

\* The process is killed; Terraform Cloud keeps its runs.
Crash(d) ==
  /\ "crash" \in Faults
  /\ pc[d] # "idle"
  /\ Over(d, NoExit)
  /\ UNCHANGED <<cycles, clock, runs>>

DetectorStep(d) ==
  \/ Schedule(d)
  \/ Created(d)
  \/ Report(d)
  \/ \E i \in todo[d] :
       \/ Hydrate(d, i) \/ HydrateFails(d, i)
       \/ Create(d, i) \/ CreateFails(d, i) \/ DryRunCreate(d, i)
       \/ WaitEnds(d, i) \/ WaitFails(d, i)

Next ==
  \/ \E d \in Detectors : Start(d) \/ ListFails(d) \/ DetectorStep(d) \/ Crash(d)
  \/ \E w \in Workspaces : RunProgress(w) /\ UNCHANGED dvars
  \/ Tick /\ UNCHANGED dvars

Spec == Init /\ [][Next]_vars

(***************************************************************************)
(* A cycle that has work does it.  A request ends by an answer or an error *)
(* and a wait by --wait-timeout; nobody owes a cycle, a run's progress or  *)
(* a crash.                                                                *)
(***************************************************************************)
Fairness == \A d \in Detectors : WF_vars(DetectorStep(d))

FairSpec == Spec /\ Fairness
-----------------------------------------------------------------------------
Working == [id : Workspaces, plan : Plan \cup {NoPlan}]

TypeOK ==
  /\ RunsTypeOK
  /\ pc \in [Detectors -> {"idle", "hydrate", "create", "wait"}]
  /\ wks \in [Detectors -> Seq(Working)]
  /\ todo \in [Detectors -> SUBSET Nat]
  /\ eligible \in [Detectors -> SUBSET Workspaces]
  /\ trouble \in [Detectors -> BOOLEAN]
  /\ exit \in [Detectors -> 0..NoExit]
  /\ cycles \in 0..MaxCycles
  /\ \A d \in Detectors :
       /\ todo[d] \subseteq DOMAIN wks[d]
       /\ pc[d] = "idle" => wks[d] = << >> /\ ~trouble[d]
       \* A plan in the hands of a cycle is a run of its own workspace.
       /\ \A i \in DOMAIN wks[d] :
            wks[d][i].plan # NoPlan =>
              wks[d][i].plan.id \in DOMAIN runs[wks[d][i].id]

(***************************************************************************)
(* "Don't run already running/queued drift detection runs" (README.md:186) *)
(* and not within the last T of time (README.md:187): the runs of Terraform*)
(* Cloud, with everything that may happen between hydrating a workspace    *)
(* and creating its run, behave as DriftChecks says.                       *)
(***************************************************************************)
Checks == INSTANCE DriftChecks

DriftChecksSpec == Checks!Spec

(***************************************************************************)
(* Why it holds while fetches succeed, statuses are listed and no more     *)
(* than one detector creates runs (the inductive invariant of              *)
(* DetectorProofs).  A cycle's knowledge of a workspace stays good: a      *)
(* hydrated position tells of the newest run, and every position still to  *)
(* create is idle and due, because nothing but its own turn, which comes   *)
(* once, starts a run for it.                                              *)
(***************************************************************************)
OlderRunsEnded ==
  \A w \in Workspaces : \A n \in DOMAIN runs[w] :
    n < Len(runs[w]) => Ended(runs[w][n])

Reflects(wk) ==
  LET last == runs[wk.id][Len(runs[wk.id])]
  IN  IF runs[wk.id] = << >> THEN wk.plan = NoPlan
      ELSE /\ wk.plan # NoPlan
           /\ wk.plan.createdAt = last.createdAt
           /\ wk.plan.status # "Waiting" => Ended(last)

KnowledgeInv ==
  /\ OlderRunsEnded
  /\ \A d \in Detectors : \A i, j \in DOMAIN wks[d] :
       wks[d][i].id = wks[d][j].id => i = j
  /\ \A d \in Detectors \ DryRun :
       /\ pc[d] = "hydrate" =>
            \A i \in DOMAIN wks[d] \ todo[d] : Reflects(wks[d][i])
       /\ pc[d] = "create" =>
            \A i \in todo[d] : Checks!Idle(wks[d][i].id) /\ Checks!Due(wks[d][i].id)

(***************************************************************************)
(* The first half of it, as an action property: no step creates a run for  *)
(* a workspace one of whose runs is queued or running.                     *)
(***************************************************************************)
NoSecondQueuedRun ==
  [][\A w \in Workspaces :
       Len(runs'[w]) > Len(runs[w]) => Checks!Idle(w)]_vars

(***************************************************************************)
(* What is left of it when fetches may fail: a cycle that has logged no    *)
(* error so far never adds a run on top of one that is queued or running.  *)
(***************************************************************************)
Creates(d, w) ==
  pc[d] = "create" /\ todo'[d] # todo[d] /\ Len(runs'[w]) > Len(runs[w])

LastEnded(w) == runs[w] = << >> \/ Ended(runs[w][Len(runs[w])])

NoErrorNoSecondRun ==
  [][\A d \in Detectors, w \in Workspaces :
       (Creates(d, w) /\ ~trouble[d]) => LastEnded(w)]_vars

(***************************************************************************)
(* Why.  A failed fetch looks like a workspace without runs, so a cycle    *)
(* may be wrong about it, and later cycles about the older runs; but the   *)
(* failure is logged.  A cycle that has logged no error, of a detector     *)
(* beside which no other creates runs, is right about the newest run: what *)
(* it hydrated tells of it, what it is still to create comes after one     *)
(* that has ended, what it created is the newest, and what it waited for   *)
(* is that run as it ended.                                                *)
(***************************************************************************)
Alone(d) == Detectors \ {d} \subseteq DryRun

IsNewest(wk) == wk.plan # NoPlan /\ wk.plan.id = Len(runs[wk.id])

IsFinal(wk) ==
  LET last == runs[wk.id][Len(runs[wk.id])]
  IN  Ended(last) /\ wk.plan = mapPlanTFE2Model(Len(runs[wk.id]), last)

\* In phase p, of a position that is done or not.
Sure(p, done, wk) ==
  /\ p = "hydrate" /\ done => Reflects(wk)
  /\ p = "create" => IF done THEN IsNewest(wk) ELSE LastEnded(wk.id)
  /\ p = "wait" => IsNewest(wk) /\ (done => IsFinal(wk))

SureInv ==
  \A d \in Detectors :
    Alone(d) /\ ~trouble[d] =>
      \A i \in DOMAIN wks[d] : Sure(pc[d], i \notin todo[d], wks[d][i])

(***************************************************************************)
(* "Prioritizing the workspaces with oldest drift detections or without    *)
(* previous ones" (README.md:188): when a cycle creates a run for w, every *)
(* workspace it found not queued has had its turn earlier in the cycle, or *)
(* its last run is, at that moment, no older than that of w.               *)
(***************************************************************************)
HadTurn(d, v) == \E j \in DOMAIN wks[d] \ todo[d] : wks[d][j].id = v

OldestFirst ==
  [][\A d \in Detectors, w \in Workspaces :
       Creates(d, w) =>
          \A v \in eligible[d] :
             HadTurn(d, v) \/ LastAt(LatestPlan(v)) >= LastAt(LatestPlan(w))]_vars

(***************************************************************************)
(* "0: If everything is as it should.  2: If there was any drift.  3: If   *)
(* there was any error on a drift detection plan" (README.md:232): when a  *)
(* cycle that logged no error reports, the code speaks of what the runs    *)
(* are in Terraform Cloud at that moment, the latest of each workspace it  *)
(* planned - or is 1, if the JSON result could not be written.             *)
(***************************************************************************)
Verdict(rs) ==
  IF \E r \in rs : r.hasChanges THEN 2
  ELSE IF \E r \in rs : r.status # "planned_and_finished" THEN 3
  ELSE 0

Planned(d) == {i \in DOMAIN wks[d] : wks[d][i].plan # NoPlan}

LastRuns(d) == {runs[wks[d][i].id][Len(runs[wks[d][i].id])] : i \in Planned(d)}

Reports(d) == pc[d] = "wait" /\ pc'[d] = "idle" /\ exit'[d] # NoExit

CleanVerdict ==
  [][\A d \in Detectors \ (Controllers \cup Quiet) :
       (Reports(d) /\ ~trouble[d]) =>
          \/ exit'[d] = Verdict(LastRuns(d))
          \/ "output" \in Faults /\ exit'[d] = 1]_vars

(***************************************************************************)
(* What is left of it when errors were logged: no false alarm.  Whatever   *)
(* has failed or timed out, a 2 is said of a run that has changes, and a 3 *)
(* of one that ended badly: runs of workspaces the cycle planned, perhaps  *)
(* older ones where the new one could not be created.                      *)
(***************************************************************************)
RunsOf(d) == UNION {{runs[wks[d][i].id][n] : n \in DOMAIN runs[wks[d][i].id]} :
                      i \in Planned(d)}

AlarmIsReal ==
  [][\A d \in Detectors :
       Reports(d) =>
          /\ exit'[d] = 2 => \E r \in RunsOf(d) : r.hasChanges
          /\ exit'[d] = 3 => \E r \in RunsOf(d) : r.status \in RunsFinishedNotOK]_vars

(***************************************************************************)
(* A cycle ends, even if the runs it waits for never do.                   *)
(***************************************************************************)
CycleEnds == \A d \in Detectors : pc[d] # "idle" ~> pc[d] = "idle"
=============================================================================
