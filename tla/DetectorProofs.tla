--------------------------- MODULE DetectorProofs ---------------------------
(***************************************************************************)
(* Theorems about Detector: its type invariant, for any number of          *)
(* detectors and any faults, and, under Reliable, that it schedules drift  *)
(* detections as DriftChecks promises.                                     *)
(***************************************************************************)
EXTENDS Detector, ProcessorsProofs, RunsProofs

LEMMA PlanTimes == \A x \in Working : LastAt(x.plan) \in Nat
  BY DEF Working, Plan, LastAt, ZeroTime

-----------------------------------------------------------------------------
(* Type correctness.                                                        *)

\* A plan in the hands of a cycle is a run of its own workspace.
OwnRun(wk) == wk.plan # NoPlan => wk.plan.id \in DOMAIN runs[wk.id]

\* A list a cycle may work on.
GoodList(list) ==
  list \in Seq(Working) /\ \A i \in DOMAIN list : OwnRun(list[i])

CycleType ==
  /\ pc \in [Detectors -> {"idle", "hydrate", "create", "wait"}]
  /\ wks \in [Detectors -> Seq(Working)]
  /\ todo \in [Detectors -> SUBSET Nat]
  /\ eligible \in [Detectors -> SUBSET Workspaces]
  /\ trouble \in [Detectors -> BOOLEAN]
  /\ exit \in [Detectors -> 0..NoExit]
  /\ cycles \in 0..MaxCycles
  /\ \A d \in Detectors :
       /\ todo[d] \subseteq DOMAIN wks[d]
       /\ pc[d] = "idle" => wks[d] = << >> /\ ~trouble[d]
       /\ GoodList(wks[d])

LEMMA TypeParts == TypeOK <=> RunsTypeOK /\ CycleType
  BY DEF TypeOK, CycleType, GoodList, OwnRun

LEMMA SelectionGood ==
  ASSUME NEW a \in Seq(Working), NEW b, Selection(a, b), GoodList(b)
  PROVE  GoodList(a)
  BY SelectionMembers DEF GoodList

\* Nothing a cycle holds changes.
LEMMA CycleStill ==
  ASSUME CycleType, Advance, UNCHANGED dvars PROVE CycleType'
<1>1. /\ pc' = pc /\ wks' = wks /\ todo' = todo /\ eligible' = eligible
      /\ trouble' = trouble /\ exit' = exit /\ cycles' = cycles
  BY DEF dvars
<1>2. \A d \in Detectors : GoodList(wks[d])'
  <2> TAKE d \in Detectors
  <2>1. \A i \in DOMAIN wks[d] : wks[d][i] \in Working /\ OwnRun(wks[d][i])
    BY DEF CycleType, GoodList
  <2>2. \A i \in DOMAIN wks[d] : OwnRun(wks[d][i])'
    <3> TAKE i \in DOMAIN wks[d]
    <3>1. wks[d][i] \in Working /\ OwnRun(wks[d][i])
      BY <2>1
    <3>2. OwnRun(wks[d][i])' <=>
            (wks[d][i].plan # NoPlan => wks[d][i].plan.id \in DOMAIN runs'[wks[d][i].id])
      BY <1>1 DEF OwnRun
    <3>. QED
      BY <3>1, <3>2 DEF Advance, OwnRun, Working
  <2>. QED
    BY <1>1, <2>2 DEF CycleType, GoodList
<1>. QED
  BY <1>1, <1>2 DEF CycleType

\* A detector enters a phase with a new list, or ends its cycle.
LEMMA EnterType ==
  ASSUME CycleType, RunsTypeOK, UNCHANGED rvars, NEW d \in Detectors,
         NEW p \in {"idle", "hydrate", "create", "wait"}, NEW list, GoodList(list),
         Enter(d, p, list),
         eligible' \in [Detectors -> SUBSET Workspaces],
         trouble' \in [Detectors -> BOOLEAN],
         exit' \in [Detectors -> 0..NoExit],
         cycles' \in 0..MaxCycles,
         \A e \in Detectors : e # d => trouble'[e] = trouble[e],
         p = "idle" => list = << >> /\ ~trouble'[d]
  PROVE  CycleType'
<1>1. runs' = runs
  BY DEF rvars
<1>2. list \in Seq(Working) /\ DOMAIN list \in SUBSET Nat
  BY DEF GoodList
<1>3. /\ pc' \in [Detectors -> {"idle", "hydrate", "create", "wait"}]
      /\ wks' \in [Detectors -> Seq(Working)]
      /\ todo' \in [Detectors -> SUBSET Nat]
      /\ pc'[d] = p /\ wks'[d] = list /\ todo'[d] = DOMAIN list
      /\ \A e \in Detectors : e # d =>
           pc'[e] = pc[e] /\ wks'[e] = wks[e] /\ todo'[e] = todo[e]
  BY <1>2 DEF CycleType, Enter
<1>4. \A e \in Detectors : GoodList(wks[e])'
  BY <1>1, <1>3 DEF CycleType, GoodList, OwnRun
<1>. QED
  BY <1>3, <1>4 DEF CycleType

LEMMA EmptyList == GoodList(<< >>)
  BY DEF GoodList

LEMMA OverType ==
  ASSUME CycleType, RunsTypeOK, UNCHANGED rvars, NEW d \in Detectors,
         NEW code \in 0..NoExit, Over(d, code), cycles' \in 0..MaxCycles
  PROVE  CycleType'
<1>1. Enter(d, "idle", << >>)
  BY DEF Over
<1>2. /\ eligible' \in [Detectors -> SUBSET Workspaces]
      /\ trouble' \in [Detectors -> BOOLEAN]
      /\ exit' \in [Detectors -> 0..NoExit]
      /\ \A e \in Detectors : e # d => trouble'[e] = trouble[e]
      /\ ~trouble'[d]
  BY DEF Over, CycleType
<1>. QED
  BY <1>1, <1>2, EnterType, EmptyList

LEMMA UnlistedType ==
  ASSUME CycleType, RunsTypeOK, UNCHANGED rvars, NEW d \in Detectors,
         OverUnlisted(d), cycles' \in 0..MaxCycles
  PROVE  CycleType'
<1>1. (IF d \in Controllers THEN 0 ELSE 1) \in 0..NoExit
  BY DEF NoExit
<1>. QED
  BY <1>1, OverType DEF OverUnlisted

\* One position of the list gets a plan, and everything else stays.
PositionDone(d, i, plan) ==
  /\ wks' \in [Detectors -> Seq(Working)]
  /\ DOMAIN wks'[d] = DOMAIN wks[d]
  /\ wks'[d][i].plan = plan
  /\ \A j \in DOMAIN wks[d] :
       /\ wks'[d][j].id = wks[d][j].id
       /\ j # i => wks'[d][j] = wks[d][j]
  /\ \A e \in Detectors : e # d => wks'[e] = wks[e]
  /\ pc' = pc /\ todo' = [todo EXCEPT ![d] = @ \ {i}]
  /\ eligible' = eligible /\ exit' = exit /\ cycles' = cycles
  /\ trouble' \in [Detectors -> BOOLEAN]
  /\ \A e \in Detectors : e # d => trouble'[e] = trouble[e]

LEMMA DoneEffect ==
  ASSUME CycleType, NEW d \in Detectors, NEW i \in todo[d],
         NEW plan \in Plan \cup {NoPlan}, NEW error \in BOOLEAN,
         Done(d, i, plan, error)
  PROVE  PositionDone(d, i, plan)
<1> DEFINE wk == [wks[d][i] EXCEPT !.plan = plan]
<1>1. i \in DOMAIN wks[d] /\ wks[d] \in Seq(Working) /\ wks[d][i] \in Working
  BY DEF CycleType
<1>2. wk \in Working /\ wk.plan = plan /\ wk.id = wks[d][i].id
  BY <1>1 DEF Working
<1>3. wks' = [wks EXCEPT ![d] = [wks[d] EXCEPT ![i] = wk]]
  BY DEF Done, CycleType
<1> HIDE DEF wk
<1>4. /\ wks'[d] = [wks[d] EXCEPT ![i] = wk]
      /\ \A e \in Detectors : e # d => wks'[e] = wks[e]
  BY <1>3 DEF CycleType
<1>5. /\ wks'[d] \in Seq(Working) /\ DOMAIN wks'[d] = DOMAIN wks[d]
      /\ wks'[d][i] = wk
      /\ \A j \in DOMAIN wks[d] : j # i => wks'[d][j] = wks[d][j]
  BY <1>1, <1>2, <1>4
<1>6. wks' \in [Detectors -> Seq(Working)]
  BY <1>3, <1>4, <1>5 DEF CycleType
<1>7. /\ pc' = pc /\ eligible' = eligible /\ exit' = exit /\ cycles' = cycles
      /\ todo' = [todo EXCEPT ![d] = @ \ {i}]
      /\ trouble' \in [Detectors -> BOOLEAN]
      /\ \A e \in Detectors : e # d => trouble'[e] = trouble[e]
  BY DEF Done, CycleType
<1>8. wks'[d][i].plan = plan /\ wks'[d][i].id = wks[d][i].id
  BY <1>2, <1>5
<1>. QED
  BY <1>4, <1>5, <1>6, <1>7, <1>8 DEF PositionDone

LEMMA DoneType ==
  ASSUME CycleType, RunsTypeOK, Advance, NEW d \in Detectors, NEW i \in todo[d],
         NEW plan \in Plan \cup {NoPlan}, NEW error \in BOOLEAN,
         Done(d, i, plan, error),
         plan # NoPlan => plan.id \in DOMAIN runs'[wks[d][i].id],
         pc[d] # "idle"
  PROVE  CycleType'
<1>1. PositionDone(d, i, plan)
  BY DoneEffect
<1>2. i \in DOMAIN wks[d]
  BY DEF CycleType
<1>3. ASSUME NEW e \in Detectors, NEW j \in DOMAIN wks'[e] PROVE OwnRun(wks[e][j])'
  <2>1. CASE e = d /\ j = i
    BY <1>1, <1>2, <2>1 DEF OwnRun, PositionDone
  <2>2. CASE ~(e = d /\ j = i)
    <3>1. j \in DOMAIN wks[e] /\ wks'[e][j] = wks[e][j] /\ wks[e][j] \in Working
      BY <1>1, <1>3, <2>2 DEF CycleType, PositionDone
    <3>2. OwnRun(wks[e][j])
      BY <3>1 DEF CycleType, GoodList
    <3>. QED
      BY <3>1, <3>2 DEF Advance, OwnRun, Working
  <2>. QED
    BY <2>1, <2>2
<1>4. \A e \in Detectors : GoodList(wks[e])'
  BY <1>1, <1>3 DEF GoodList, PositionDone
<1>5. /\ todo' \in [Detectors -> SUBSET Nat]
      /\ \A e \in Detectors : todo'[e] \subseteq todo[e]
  BY <1>1 DEF CycleType, PositionDone
<1>6. \A e \in Detectors : DOMAIN wks'[e] = DOMAIN wks[e]
  BY <1>1 DEF PositionDone
<1>. QED
  BY <1>1, <1>4, <1>5, <1>6 DEF CycleType, PositionDone

\* What ListWorkspaces answers, filtered by name.
LEMMA NamedList ==
  ASSUME NEW list \in Listings
  PROVE  /\ GoodList(Named(list)) /\ DifferentIDs(Named(list))
         /\ \A i \in DOMAIN Named(list) : Named(list)[i].plan = NoPlan
<1> DEFINE all == Listed(list)
           included == IncludeName(all, IncludeNames)
<1>1. list \in Seq(Workspaces) /\ \A i, j \in DOMAIN list : list[i] = list[j] => i = j
  BY ListingsAssumption
<1>2. all \in Seq(Working)
  <2>1. \A i \in DOMAIN list : [id |-> list[i], plan |-> NoPlan] \in Working
    BY <1>1 DEF Working
  <2>2. DOMAIN list = 1..Len(list) /\ Len(list) \in Nat
    BY <1>1
  <2>3. all = [i \in 1..Len(list) |-> [id |-> list[i], plan |-> NoPlan]]
    BY <2>2 DEF Listed
  <2>4. DOMAIN all = 1..Len(list) /\ \A i \in 1..Len(list) : all[i] \in Working
    BY <2>1, <2>2, <2>3
  <2>5. all = [i \in 1..Len(list) |-> all[i]]
    BY <2>3, <2>4
  <2> HIDE DEF all
  <2>. QED
    BY <2>2, <2>4, <2>5
<1>3. GoodList(all)
  BY <1>2 DEF GoodList, OwnRun, Listed
<1>4. DifferentIDs(all) /\ \A i \in DOMAIN all : all[i].plan = NoPlan
  BY <1>1 DEF DifferentIDs, Listed
<1> HIDE DEF all
<1>5. included \in Seq(Working) /\ Selection(included, all)
  BY <1>2, NamesSelect
<1> HIDE DEF included
<1>6. /\ ExcludeName(included, ExcludeNames) \in Seq(Working)
      /\ Selection(ExcludeName(included, ExcludeNames), included)
  BY <1>5, NamesSelect
<1>7. Named(list) = ExcludeName(included, ExcludeNames)
  BY DEF Named, all, included
<1>8. Selection(Named(list), all)
  BY <1>5, <1>6, <1>7, SelectionOfSelection
<1>9. \A i \in DOMAIN Named(list) : Named(list)[i].plan = NoPlan
  BY <1>4, <1>8, SelectionMembers
<1>. QED
  BY <1>3, <1>4, <1>6, <1>7, <1>8, <1>9, SelectionGood, SelectionIDs

\* What a cycle chooses of its hydrated list.
LEMMA ChosenList ==
  ASSUME NEW list \in Seq(Working)
  PROVE  LET chosen == Chosen(Due(list))
         IN  /\ chosen \in Seq(Working)
             /\ Selection(chosen, list)
             /\ \A k \in DOMAIN chosen :
                  /\ ~Queued(chosen[k])
                  /\ NotBefore # 0 => ~TooRecent(chosen[k], clock, NotBefore)
<1> DEFINE idle == FilterQueued(list)
           due == Due(list)
           sorted == SortByOldest(due)
           chosen == Chosen(due)
<1>1. /\ idle \in Seq(Working) /\ Selection(idle, list)
      /\ \A k \in DOMAIN idle : ~Queued(idle[k])
  BY FilterQueuedSelects
<1>2. due = FilterDriftDetectionsBefore(idle, clock, NotBefore)
  BY DEF Due
<1> HIDE DEF idle
<1>3. /\ due \in Seq(Working) /\ Selection(due, idle)
      /\ NotBefore # 0 => \A k \in DOMAIN due : ~TooRecent(due[k], clock, NotBefore)
  <2> HIDE DEF due
  <2>. QED
    BY <1>1, <1>2, FilterRecentSelects
<1> HIDE DEF due
<1>4. sorted \in Seq(Working) /\ Selection(sorted, due)
  BY <1>3, PlanTimes, SortByOldestSorts
<1>5. chosen = LimitMax(sorted, MaxPlans)
  BY DEF Chosen
<1> HIDE DEF sorted
<1>6. chosen \in Seq(Working) /\ Selection(chosen, sorted)
  <2> HIDE DEF chosen
  <2>. QED
    BY <1>4, <1>5, LimitSelects, FlagsAssumption
<1> HIDE DEF chosen
<1>7. Selection(chosen, due)
  BY <1>4, <1>6, SelectionOfSelection
<1>8. Selection(chosen, idle)
  BY <1>3, <1>7, SelectionOfSelection
<1>9. Selection(chosen, list)
  BY <1>1, <1>8, SelectionOfSelection
<1>10. ASSUME NEW k \in DOMAIN chosen
       PROVE  /\ ~Queued(chosen[k])
              /\ NotBefore # 0 => ~TooRecent(chosen[k], clock, NotBefore)
  <2>1. PICK i \in DOMAIN idle : chosen[k] = idle[i]
    BY <1>8, SelectionMembers
  <2>2. PICK j \in DOMAIN due : chosen[k] = due[j]
    BY <1>7, SelectionMembers
  <2>. QED
    BY <1>1, <1>3, <2>1, <2>2
<1>. QED
  BY <1>6, <1>9, <1>10 DEF chosen, due

LEMMA TypeInit == Init => RunsTypeOK /\ CycleType
<1> SUFFICES ASSUME Init PROVE RunsTypeOK /\ CycleType
  OBVIOUS
<1>1. /\ clock = 1 /\ runs \in [Workspaces -> Seq(Run)]
      /\ \A w \in Workspaces : DOMAIN runs[w] = {}
  <2>1. << >> \in Seq(Run) /\ DOMAIN << >> = {}
    OBVIOUS
  <2>. QED
    BY <2>1 DEF Init, RunsInit
<1>2. RunsTypeOK
  BY <1>1 DEF RunsTypeOK
<1>3. \A d \in Detectors : GoodList(wks[d])
  BY EmptyList DEF Init
<1>. QED
  BY <1>2, <1>3, BoundAssumption DEF Init, CycleType, NoExit, GoodList

LEMMA ExitCodes == ASSUME NEW list, NEW quiet PROVE ExitCode(list, quiet) \in 0..NoExit
  BY DEF ExitCode, NoExit

LEMMA HydrateWithType ==
  ASSUME CycleType, RunsTypeOK, NEW d \in Detectors, NEW i \in todo[d],
         NEW plan \in Plan \cup {NoPlan}, NEW error \in BOOLEAN,
         plan # NoPlan => plan.id \in DOMAIN runs[wks[d][i].id],
         HydrateWith(d, i, plan, error)
  PROVE  CycleType'
<1>1. runs' = runs /\ Advance
  BY StandStill DEF HydrateWith, rvars
<1>. QED
  BY <1>1, DoneType DEF HydrateWith

\* The workspace and the plan at a position.
LEMMA Position ==
  ASSUME CycleType, NEW d \in Detectors, NEW i \in todo[d]
  PROVE  /\ i \in DOMAIN wks[d] /\ wks[d][i] \in Working
         /\ wks[d][i].id \in Workspaces
         /\ wks[d][i].plan \in Plan \cup {NoPlan}
         /\ wks[d][i].plan # NoPlan =>
              wks[d][i].plan.id \in DOMAIN runs[wks[d][i].id]
<1>1. i \in DOMAIN wks[d] /\ wks[d] \in Seq(Working) /\ GoodList(wks[d])
  BY DEF CycleType
<1>2. wks[d][i] \in Working /\ OwnRun(wks[d][i])
  BY <1>1 DEF GoodList
<1>. QED
  BY <1>1, <1>2 DEF OwnRun, Working

LEMMA CreateType ==
  ASSUME CycleType, RunsTypeOK, NEW d \in Detectors, NEW i \in todo[d], Create(d, i)
  PROVE  RunsTypeOK' /\ CycleType'
<1> DEFINE w == wks[d][i].id
           n == Len(runs[w]) + 1
<1>1. /\ w \in Workspaces /\ wks[d][i].plan \in Plan \cup {NoPlan}
      /\ wks[d][i].plan # NoPlan => wks[d][i].plan.id \in DOMAIN runs[w]
  BY Position
<1>2. CreateRun(w) /\ clock' = clock /\ pc[d] # "idle"
  BY DEF Create, Creating
<1>3. /\ RunsTypeOK' /\ Advance /\ Len(runs'[w]) = n
  BY <1>1, <1>2, CreateRunEffect
<1>4. runs[w] \in Seq(Run) /\ runs'[w] \in Seq(Run) /\ NewRun \in Run
  BY <1>1, <1>3, NewRunIsRun DEF RunsTypeOK
<1>5. n \in Nat /\ n \in DOMAIN runs'[w]
  BY <1>3, <1>4
<1>6. CASE Done(d, i, mapPlanTFE2Model(n, NewRun), FALSE)
  <2>1. mapPlanTFE2Model(n, NewRun) \in Plan /\ mapPlanTFE2Model(n, NewRun).id = n
    BY <1>4, <1>5, PlanMapped
  <2> HIDE DEF w, n
  <2>2. mapPlanTFE2Model(n, NewRun).id \in DOMAIN runs'[wks[d][i].id]
    BY <1>5, <2>1 DEF w
  <2>. QED
    BY <1>2, <1>3, <1>6, <2>1, <2>2, DoneType
<1>7. CASE Done(d, i, wks[d][i].plan, TRUE)
  <2>1. wks[d][i].plan # NoPlan => wks[d][i].plan.id \in DOMAIN runs'[w]
    BY <1>1, <1>3 DEF Advance
  <2>. QED
    BY <1>1, <1>2, <1>3, <1>7, <2>1, DoneType
<1>. QED
  BY <1>3, <1>6, <1>7 DEF Create

\* A step of position i that leaves Terraform Cloud alone puts one of the
\* workspace's own plans on it.
LEMMA ReadPlans ==
  ASSUME CycleType, RunsTypeOK, NEW d \in Detectors, NEW i \in todo[d],
         \/ CreateFails(d, i) \/ DryRunCreate(d, i)
         \/ WaitEnds(d, i) \/ WaitFails(d, i)
  PROVE  \E plan \in Plan \cup {NoPlan}, error \in BOOLEAN :
           /\ Done(d, i, plan, error)
           /\ plan # NoPlan => plan.id \in DOMAIN runs[wks[d][i].id]
<1> DEFINE w == wks[d][i].id
           old == wks[d][i].plan
<1>1. /\ w \in Workspaces /\ old \in Plan \cup {NoPlan}
      /\ old # NoPlan => old.id \in DOMAIN runs[w]
  BY Position
<1>2. /\ LatestPlan(w) \in Plan \cup {NoPlan}
      /\ LatestPlan(w) # NoPlan => LatestPlan(w).id \in DOMAIN runs[w]
  BY <1>1, LatestPlanType
<1>3. old # NoPlan => ReadPlan(d, i) \in Plan /\ ReadPlan(d, i).id \in DOMAIN runs[w]
  <2>1. HAVE old # NoPlan
  <2>2. runs[w] \in Seq(Run) /\ old.id \in Nat /\ runs[w][old.id] \in Run
    BY <1>1, <2>1 DEF RunsTypeOK, Plan
  <2>. QED
    BY <1>1, <2>1, <2>2, PlanMapped DEF ReadPlan
<1>4. CASE CreateFails(d, i) \/ WaitFails(d, i)
  BY <1>1, <1>4 DEF CreateFails, WaitFails
<1>5. CASE DryRunCreate(d, i)
  BY <1>1, <1>2, <1>5 DEF DryRunCreate
<1>6. CASE WaitEnds(d, i)
  BY <1>3, <1>6 DEF WaitEnds, WaitEndsOn
<1>. QED
  BY <1>4, <1>5, <1>6

LEMMA ReadType ==
  ASSUME CycleType, RunsTypeOK, NEW d \in Detectors, NEW i \in todo[d],
         \/ CreateFails(d, i) \/ DryRunCreate(d, i)
         \/ WaitEnds(d, i) \/ WaitFails(d, i)
  PROVE  RunsTypeOK' /\ CycleType'
<1>1. UNCHANGED rvars /\ pc[d] # "idle"
  BY DEF CreateFails, DryRunCreate, WaitEnds, WaitEndsOn, WaitFails, Creating
<1>2. RunsTypeOK' /\ Advance /\ runs' = runs
  BY <1>1, StandStill DEF rvars
<1>3. PICK plan \in Plan \cup {NoPlan}, error \in BOOLEAN :
        /\ Done(d, i, plan, error)
        /\ plan # NoPlan => plan.id \in DOMAIN runs[wks[d][i].id]
  BY ReadPlans
<1>. QED
  BY <1>1, <1>2, <1>3, DoneType

LEMMA TypeNext ==
  ASSUME RunsTypeOK, CycleType, [Next]_vars PROVE RunsTypeOK' /\ CycleType'
<1>1. ASSUME NEW d \in Detectors, Start(d) PROVE RunsTypeOK' /\ CycleType'
  <2>1. /\ UNCHANGED rvars /\ cycles' = cycles + 1 /\ cycles < MaxCycles
        /\ cycles' \in 0..MaxCycles /\ RunsTypeOK'
    BY <1>1, StandStill, BoundAssumption DEF Start, CycleType
  <2>2. PICK list \in Listings :
          \/ list = << >> /\ OverUnlisted(d)
          \/ /\ list # << >>
             /\ Enter(d, "hydrate", Named(list))
             /\ UNCHANGED <<eligible, trouble, exit>>
    BY <1>1 DEF Start
  <2>3. CASE OverUnlisted(d)
    BY <2>1, <2>3, UnlistedType
  <2>4. CASE Enter(d, "hydrate", Named(list)) /\ UNCHANGED <<eligible, trouble, exit>>
    <3>1. GoodList(Named(list))
      BY NamedList
    <3>2. /\ eligible' \in [Detectors -> SUBSET Workspaces]
          /\ trouble' \in [Detectors -> BOOLEAN]
          /\ exit' \in [Detectors -> 0..NoExit]
          /\ trouble' = trouble
      BY <2>4 DEF CycleType
    <3>. QED
      BY <2>1, <2>4, <3>1, <3>2, EnterType
  <2>. QED
    BY <2>1, <2>2, <2>3, <2>4
<1>2. ASSUME NEW d \in Detectors, ListFails(d) PROVE RunsTypeOK' /\ CycleType'
  <2>1. UNCHANGED rvars /\ cycles' \in 0..MaxCycles /\ OverUnlisted(d)
    BY <1>2, BoundAssumption DEF ListFails, CycleType
  <2>. QED
    BY <2>1, UnlistedType, StandStill
<1>3. ASSUME NEW d \in Detectors, Schedule(d) PROVE RunsTypeOK' /\ CycleType'
  <2> DEFINE list == Chosen(Due(wks[d]))
  <2>1. UNCHANGED rvars /\ Enter(d, "create", list) /\ UNCHANGED <<trouble, exit, cycles>>
    BY <1>3 DEF Schedule, rvars
  <2>2. wks[d] \in Seq(Working) /\ GoodList(wks[d])
    BY DEF CycleType
  <2>3. list \in Seq(Working) /\ Selection(list, wks[d])
    BY <2>2, ChosenList
  <2> HIDE DEF list
  <2>4. GoodList(list)
    BY <2>2, <2>3, SelectionGood
  <2>5. eligible' \in [Detectors -> SUBSET Workspaces]
    <3>1. {wks[d][i].id : i \in {j \in DOMAIN wks[d] : ~Queued(wks[d][j])}}
            \in SUBSET Workspaces
      <4>1. \A i \in DOMAIN wks[d] : wks[d][i].id \in Workspaces
        <5>1. \A i \in DOMAIN wks[d] : wks[d][i] \in Working
          BY <2>2
        <5>. QED
          BY <5>1 DEF Working
      <4>. QED
        BY <4>1, Zenon
    <3>. QED
      BY <1>3, <3>1 DEF Schedule, CycleType
  <2>6. /\ trouble' \in [Detectors -> BOOLEAN] /\ trouble' = trouble
        /\ exit' \in [Detectors -> 0..NoExit] /\ cycles' \in 0..MaxCycles
    BY <2>1 DEF CycleType
  <2>. QED
    BY <2>1, <2>4, <2>5, <2>6, EnterType, StandStill
<1>4. ASSUME NEW d \in Detectors, Created(d) PROVE RunsTypeOK' /\ CycleType'
  <2>1. UNCHANGED rvars /\ Enter(d, "wait", wks[d]) /\ UNCHANGED <<eligible, trouble, exit, cycles>>
    BY <1>4 DEF Created, CreatedIf, rvars
  <2>2. GoodList(wks[d])
    BY DEF CycleType
  <2>3. /\ eligible' \in [Detectors -> SUBSET Workspaces]
        /\ trouble' \in [Detectors -> BOOLEAN] /\ trouble' = trouble
        /\ exit' \in [Detectors -> 0..NoExit] /\ cycles' \in 0..MaxCycles
    BY <2>1 DEF CycleType
  <2>. QED
    BY <2>1, <2>2, <2>3, EnterType, StandStill
<1>5. ASSUME NEW d \in Detectors, Report(d) PROVE RunsTypeOK' /\ CycleType'
  <2>1. /\ UNCHANGED rvars /\ cycles' \in 0..MaxCycles
        /\ \/ Over(d, ExitCode(wks[d], d \in Controllers \cup Quiet))
           \/ Over(d, 1)
    BY <1>5 DEF Report, CycleType, rvars
  <2>2. /\ ExitCode(wks[d], d \in Controllers \cup Quiet) \in 0..NoExit
        /\ 1 \in 0..NoExit
    BY ExitCodes DEF NoExit
  <2>. QED
    BY <2>1, <2>2, OverType, StandStill
<1>6. ASSUME NEW d \in Detectors, Crash(d) PROVE RunsTypeOK' /\ CycleType'
  <2>1. UNCHANGED rvars /\ cycles' \in 0..MaxCycles /\ NoExit \in 0..NoExit /\ Over(d, NoExit)
    BY <1>6 DEF Crash, CycleType, NoExit, rvars
  <2>. QED
    BY <2>1, OverType, StandStill
<1>7. ASSUME NEW d \in Detectors, NEW i \in todo[d], Hydrate(d, i) \/ HydrateFails(d, i)
      PROVE  RunsTypeOK' /\ CycleType'
  <2>1. UNCHANGED rvars
    BY <1>7 DEF Hydrate, HydrateFails, HydrateWith
  <2>2. /\ LatestPlan(wks[d][i].id) \in Plan \cup {NoPlan}
        /\ LatestPlan(wks[d][i].id) # NoPlan =>
             LatestPlan(wks[d][i].id).id \in DOMAIN runs[wks[d][i].id]
    BY Position, LatestPlanType
  <2>. QED
    BY <1>7, <2>1, <2>2, HydrateWithType, StandStill DEF Hydrate, HydrateFails
<1>8. ASSUME NEW d \in Detectors, NEW i \in todo[d], Create(d, i)
      PROVE  RunsTypeOK' /\ CycleType'
  BY <1>8, CreateType
<1>9. ASSUME NEW d \in Detectors, NEW i \in todo[d],
             \/ CreateFails(d, i) \/ DryRunCreate(d, i)
             \/ WaitEnds(d, i) \/ WaitFails(d, i)
      PROVE  RunsTypeOK' /\ CycleType'
  BY <1>9, ReadType
<1>10. ASSUME NEW w \in Workspaces, RunProgress(w), UNCHANGED dvars
       PROVE  RunsTypeOK' /\ CycleType'
  BY <1>10, RunProgressEffect, CycleStill
<1>11. ASSUME Tick, UNCHANGED dvars PROVE RunsTypeOK' /\ CycleType'
  BY <1>11, TickAdvances, CycleStill
<1>12. CASE UNCHANGED vars
  <2>1. UNCHANGED rvars /\ UNCHANGED dvars
    BY <1>12 DEF vars, rvars, dvars
  <2>. QED
    BY <2>1, StandStill, CycleStill
<1>. QED
  BY <1>1, <1>2, <1>3, <1>4, <1>5, <1>6, <1>7, <1>8, <1>9, <1>10, <1>11, <1>12
     DEF Next, DetectorStep

(***************************************************************************)
(* Whatever fails and however many detectors run: a cycle works on lists   *)
(* of workspaces, each with no plan or with one of its own runs.           *)
(***************************************************************************)
THEOREM TypeCorrect == Spec => []TypeOK
<1>1. Init => TypeOK
  BY TypeInit, TypeParts
<1>2. TypeOK /\ [Next]_vars => TypeOK'
  <2> SUFFICES ASSUME TypeOK, [Next]_vars PROVE TypeOK'
    OBVIOUS
  <2>1. RunsTypeOK' /\ CycleType'
    BY TypeNext, TypeParts
  <2>. QED
    BY <2>1 DEF RunsTypeOK, TypeOK, CycleType, GoodList, OwnRun
<1>. QED
  BY <1>1, <1>2, PTL DEF Spec
-----------------------------------------------------------------------------
(* The scheduling promise.                                                  *)

(***************************************************************************)
(* What the promise takes: latest plans can be fetched, runs are only in   *)
(* statuses that mapTFEStatus2Model lists, and no two detectors create     *)
(* runs (any number may look on, with --dry-run).  Requests that list,     *)
(* create or read may fail, answers be lost, waits time out, and           *)
(* detectors crash.                                                        *)
(***************************************************************************)
ListedStatuses == RunStatuses \subseteq RunsFinishedOK \cup RunsFinishedNotOK \cup RunsWaiting

Reliable ==
  /\ "fetch" \notin Faults
  /\ ListedStatuses
  /\ \A d \in Detectors \ DryRun : Alone(d)

Free(w) == Checks!Idle(w) /\ Checks!Due(w)

LEMMA FreeMeans ==
  ASSUME NEW w
  PROVE  Free(w) <=>
           \A n \in DOMAIN runs[w] :
             Ended(runs[w][n]) /\ clock - runs[w][n].createdAt >= NotBefore
  BY DEF Free, Checks!Idle, Checks!Due, Checks!Ended, Ended,
         Checks!RunsFinishedOK, Checks!RunsFinishedNotOK, RunsFinishedOK, RunsFinishedNotOK

LEMMA NotWaitingEnded ==
  ASSUME ListedStatuses, NEW run \in Run, mapTFEStatus2Model(run.status) # "Waiting"
  PROVE  Ended(run)
<1>1. run.status \in RunsFinishedOK \cup RunsFinishedNotOK \cup RunsWaiting
  BY DEF ListedStatuses, Run, Statuses, RunsWaiting
<1>2. ASSUME run.status \in RunsWaiting PROVE mapTFEStatus2Model(run.status) = "Waiting"
  BY <1>2 DEF mapTFEStatus2Model, RunsFinishedOK, RunsFinishedNotOK, RunsWaiting
<1>. QED
  BY <1>1, <1>2 DEF Ended

\* A fetch that succeeds tells of the newest run.
LEMMA LatestReflects ==
  ASSUME ListedStatuses, RunsTypeOK, NEW wk, wk.id \in Workspaces,
         wk.plan = LatestPlan(wk.id)
  PROVE  Reflects(wk)
<1>1. CASE runs[wk.id] = << >>
  BY <1>1 DEF Reflects, LatestPlan
<1>2. CASE runs[wk.id] # << >>
  <2> DEFINE n == Len(runs[wk.id])
             last == runs[wk.id][n]
  <2>1. runs[wk.id] \in Seq(Run)
    BY DEF RunsTypeOK
  <2>2. n \in Nat /\ last \in Run
    BY <1>2, <2>1
  <2>3. wk.plan = mapPlanTFE2Model(n, last)
    BY <1>2 DEF LatestPlan
  <2> HIDE DEF n, last
  <2>4. /\ wk.plan # NoPlan /\ wk.plan.createdAt = last.createdAt
        /\ wk.plan.status = mapTFEStatus2Model(last.status)
    BY <2>2, <2>3, PlanMapped
  <2>5. wk.plan.status # "Waiting" => Ended(last)
    BY <2>2, <2>4, NotWaitingEnded
  <2>. QED
    BY <1>2, <2>4, <2>5 DEF Reflects, n, last
<1>. QED
  BY <1>1, <1>2

\* The two filters look at the newest run, which speaks for the others.
LEMMA ReflectsFree ==
  ASSUME RunsTypeOK, OlderRunsEnded, NEW wk \in Working, Reflects(wk), ~Queued(wk),
         NotBefore # 0 => ~TooRecent(wk, clock, NotBefore)
  PROVE  Free(wk.id)
<1> DEFINE w == wk.id
           r == runs[w]
<1>1. w \in Workspaces /\ r \in Seq(Run) /\ clock \in Nat /\ NotBefore \in Nat
  BY FlagsAssumption DEF Working, RunsTypeOK
<1>2. CASE r = << >>
  BY <1>2, FreeMeans
<1>3. CASE r # << >>
  <2> DEFINE last == r[Len(r)]
  <2>1. /\ wk.plan # NoPlan /\ wk.plan.createdAt = last.createdAt
        /\ wk.plan.status # "Waiting" => Ended(last)
    BY <1>3 DEF Reflects
  <2>2. wk.plan.status # "Waiting"
    BY <2>1 DEF Queued
  <2>3. Len(r) \in DOMAIN r /\ DOMAIN r = 1..Len(r) /\ Len(r) \in Nat
    BY <1>1, <1>3
  <2>4. last.createdAt \in 1..clock
    BY <1>1, <2>3 DEF RunsTypeOK
  <2>5. clock - last.createdAt >= NotBefore
    <3>1. CASE NotBefore = 0
      BY <1>1, <2>4, <3>1
    <3>2. CASE NotBefore # 0
      <4>1. ~(clock - last.createdAt < NotBefore)
        BY <2>1, <3>2 DEF TooRecent
      <4>. QED
        BY <1>1, <2>4, <4>1
    <3>. QED
      BY <3>1, <3>2
  <2>6. ASSUME NEW n \in DOMAIN r
        PROVE  Ended(r[n]) /\ clock - r[n].createdAt >= NotBefore
    <3>1. Ended(r[n])
      BY <1>1, <2>1, <2>2, <2>3 DEF OlderRunsEnded
    <3>2. r[n].createdAt \in 1..clock /\ r[n].createdAt <= last.createdAt
      BY <1>1, <2>3 DEF RunsTypeOK
    <3>. QED
      BY <1>1, <2>4, <2>5, <3>1, <3>2
  <2>. QED
    BY <2>6, FreeMeans
<1>. QED
  BY <1>2, <1>3

\* What a cycle of d knows: the part of KnowledgeInv about one detector.
Knows(d) ==
  /\ DifferentIDs(wks[d])
  /\ d \notin DryRun =>
       /\ pc[d] = "hydrate" =>
            \A i \in DOMAIN wks[d] \ todo[d] : Reflects(wks[d][i])
       /\ pc[d] = "create" => \A i \in todo[d] : Free(wks[d][i].id)

LEMMA KnowledgeParts ==
  KnowledgeInv <=> OlderRunsEnded /\ \A d \in Detectors : Knows(d)
  BY DEF KnowledgeInv, Knows, DifferentIDs, Free

\* What no step undoes, as long as w gets no new run.
LEMMA NewestStays ==
  ASSUME RunsTypeOK, RunsTypeOK', Advance,
         NEW w \in Workspaces, Len(runs'[w]) = Len(runs[w])
  PROVE  /\ runs[w] = << >> <=> runs'[w] = << >>
         /\ runs[w] # << >> =>
              /\ runs'[w][Len(runs'[w])].createdAt = runs[w][Len(runs[w])].createdAt
              /\ Ended(runs[w][Len(runs[w])]) =>
                   runs'[w][Len(runs'[w])] = runs[w][Len(runs[w])]
<1> DEFINE r == runs[w]
           s == runs'[w]
<1>1. r \in Seq(Run) /\ s \in Seq(Run) /\ Len(s) = Len(r)
  BY DEF RunsTypeOK
<1>2. (r = << >> <=> s = << >>) /\ (r # << >> => Len(r) \in DOMAIN r)
  <2> HIDE DEF r, s
  <2>. QED
    BY <1>1
<1>. QED
  BY <1>1, <1>2 DEF Advance

LEMMA ReflectsStays ==
  ASSUME RunsTypeOK, RunsTypeOK', Advance, NEW wk, wk.id \in Workspaces,
         Len(runs'[wk.id]) = Len(runs[wk.id]), Reflects(wk)
  PROVE  Reflects(wk)'
<1> DEFINE w == wk.id
<1>1. /\ runs[w] = << >> <=> runs'[w] = << >>
      /\ runs[w] # << >> =>
           /\ runs'[w][Len(runs'[w])].createdAt = runs[w][Len(runs[w])].createdAt
           /\ Ended(runs[w][Len(runs[w])]) =>
                runs'[w][Len(runs'[w])] = runs[w][Len(runs[w])]
  BY NewestStays
<1>. QED
  BY <1>1 DEF Reflects, Ended

\* Time passes and runs progress, and what is known of them stays true.
LEMMA TruthsStay ==
  ASSUME RunsTypeOK, RunsTypeOK', Advance,
         \A w \in Workspaces : Len(runs'[w]) = Len(runs[w])
  PROVE  /\ OlderRunsEnded => OlderRunsEnded'
         /\ \A wk \in Working : Reflects(wk) => Reflects(wk)'
         /\ \A w \in Workspaces : Free(w) => Free(w)'
<1>1. \A w \in Workspaces : /\ runs[w] \in Seq(Run) /\ runs'[w] \in Seq(Run)
                            /\ DOMAIN runs'[w] = DOMAIN runs[w]
                            /\ Len(runs[w]) \in Nat
  <2> TAKE w \in Workspaces
  <2>1. runs[w] \in Seq(Run) /\ runs'[w] \in Seq(Run)
    BY DEF RunsTypeOK
  <2>. QED
    BY <2>1
<1>2. \A w \in Workspaces : \A n \in DOMAIN runs[w] :
        /\ runs'[w][n].createdAt = runs[w][n].createdAt
        /\ Ended(runs[w][n]) => Ended(runs'[w][n])
  BY DEF Advance
<1>3. ASSUME OlderRunsEnded PROVE OlderRunsEnded'
  BY <1>1, <1>2, <1>3 DEF OlderRunsEnded, Ended
<1>4. ASSUME NEW wk \in Working, Reflects(wk) PROVE Reflects(wk)'
  BY <1>4, ReflectsStays DEF Working
<1>5. ASSUME NEW w \in Workspaces, Free(w) PROVE Free(w)'
  <2>1. \A n \in DOMAIN runs[w] :
          Ended(runs[w][n]) /\ clock - runs[w][n].createdAt >= NotBefore
    BY <1>5, FreeMeans
  <2>2. clock \in Nat /\ clock' \in Nat /\ clock <= clock' /\ NotBefore \in Nat
    BY FlagsAssumption DEF RunsTypeOK, Advance
  <2>3. \A n \in DOMAIN runs[w] : runs[w][n].createdAt \in Nat
    BY <2>2 DEF RunsTypeOK
  <2>4. \A n \in DOMAIN runs'[w] :
          Ended(runs'[w][n]) /\ clock' - runs'[w][n].createdAt >= NotBefore
    BY <1>1, <1>2, <2>1, <2>2, <2>3
  <2>. QED
    BY <2>4 DEF Free, Checks!Idle, Checks!Due, Checks!Ended, Ended,
         Checks!RunsFinishedOK, Checks!RunsFinishedNotOK, RunsFinishedOK, RunsFinishedNotOK
<1>. QED
  BY <1>3, <1>4, <1>5

\* The same for a detector that does nothing in the step.
LEMMA KnowsStill ==
  ASSUME CycleType, RunsTypeOK, RunsTypeOK', Advance,
         \A w \in Workspaces : Len(runs'[w]) = Len(runs[w]),
         NEW d \in Detectors, Knows(d),
         pc'[d] = pc[d], wks'[d] = wks[d], todo'[d] = todo[d]
  PROVE  Knows(d)'
<1>1. /\ \A wk \in Working : Reflects(wk) => Reflects(wk)'
      /\ \A w \in Workspaces : Free(w) => Free(w)'
  BY TruthsStay
<1>2. \A i \in DOMAIN wks[d] : wks[d][i] \in Working /\ wks[d][i].id \in Workspaces
  <2>1. wks[d] \in Seq(Working)
    BY DEF CycleType
  <2>2. \A i \in DOMAIN wks[d] : wks[d][i] \in Working
    BY <2>1
  <2>. QED
    BY <2>2 DEF Working
<1>3. todo[d] \subseteq DOMAIN wks[d]
  BY DEF CycleType
<1>4. DifferentIDs(wks[d])'
  BY DEF Knows, DifferentIDs
<1>5. ASSUME d \notin DryRun, pc[d] = "hydrate", NEW i \in DOMAIN wks[d] \ todo[d]
      PROVE  Reflects(wks[d][i])'
  <2>1. Reflects(wks[d][i])
    BY <1>5 DEF Knows
  <2>. QED
    BY <1>1, <1>2, <2>1 DEF Reflects
<1>6. ASSUME d \notin DryRun, pc[d] = "create", NEW i \in todo[d]
      PROVE  Free(wks[d][i].id)'
  <2>1. Free(wks[d][i].id)
    BY <1>6 DEF Knows
  <2>. QED
    BY <1>1, <1>2, <1>3, <2>1 DEF Free, Checks!Idle, Checks!Due
<1>. QED
  BY <1>4, <1>5, <1>6 DEF Knows

LEMMA RunsStillLengths == ASSUME UNCHANGED rvars
                          PROVE  \A w \in Workspaces : Len(runs'[w]) = Len(runs[w])
  BY DEF rvars

\* Detector d enters another phase: the others know what they knew.
LEMMA EnterKnows ==
  ASSUME CycleType, RunsTypeOK, UNCHANGED rvars, KnowledgeInv,
         NEW d \in Detectors, NEW p, NEW list, Enter(d, p, list),
         DifferentIDs(list),
         d \notin DryRun /\ p = "create" => \A i \in DOMAIN list : Free(list[i].id)
  PROVE  KnowledgeInv'
<1>1. RunsTypeOK' /\ Advance /\ \A w \in Workspaces : Len(runs'[w]) = Len(runs[w])
  BY StandStill, RunsStillLengths
<1>2. /\ pc'[d] = p /\ wks'[d] = list /\ todo'[d] = DOMAIN list
      /\ \A e \in Detectors : e # d =>
           pc'[e] = pc[e] /\ wks'[e] = wks[e] /\ todo'[e] = todo[e]
  BY DEF Enter, CycleType
<1>3. OlderRunsEnded'
  BY <1>1, TruthsStay DEF KnowledgeInv
<1>4. ASSUME NEW e \in Detectors, e # d PROVE Knows(e)'
  BY <1>1, <1>2, <1>4, KnowsStill, KnowledgeParts
<1>5. Knows(d)'
  <2>1. DifferentIDs(wks[d])'
    BY <1>2 DEF DifferentIDs
  <2>2. ASSUME d \notin DryRun, p = "create", NEW i \in DOMAIN list
        PROVE  Free(wks[d][i].id)'
    <3>1. Free(list[i].id) /\ runs' = runs /\ clock' = clock
      BY <2>2 DEF rvars
    <3>. QED
      BY <1>2, <3>1 DEF Free, Checks!Idle, Checks!Due
  <2>. QED
    BY <1>2, <2>1, <2>2 DEF Knows
<1>. QED
  BY <1>3, <1>4, <1>5 DEF KnowledgeInv, Knows, DifferentIDs, Free

LEMMA OverKnows ==
  ASSUME CycleType, RunsTypeOK, UNCHANGED rvars, KnowledgeInv,
         NEW d \in Detectors, NEW code, Over(d, code)
  PROVE  KnowledgeInv'
<1>1. Enter(d, "idle", << >>)
  BY DEF Over
<1>2. DifferentIDs(<< >>)
  BY DEF DifferentIDs
<1>. QED
  BY <1>1, <1>2, EnterKnows

\* Position i of detector d is done, and Terraform Cloud is left alone.
LEMMA DoneKnows ==
  ASSUME CycleType, RunsTypeOK, UNCHANGED rvars, KnowledgeInv,
         NEW d \in Detectors, NEW i \in todo[d],
         NEW plan \in Plan \cup {NoPlan}, NEW error \in BOOLEAN,
         Done(d, i, plan, error),
         pc[d] = "hydrate" =>
           \A wk : wk.id = wks[d][i].id /\ wk.plan = plan => Reflects(wk)
  PROVE  KnowledgeInv'
<1>1. RunsTypeOK' /\ Advance /\ \A w \in Workspaces : Len(runs'[w]) = Len(runs[w])
  BY StandStill, RunsStillLengths
<1>2. PositionDone(d, i, plan)
  BY DoneEffect
<1>3. runs' = runs /\ clock' = clock /\ pc' = pc
  BY <1>2 DEF rvars, PositionDone
<1>4. todo'[d] = todo[d] \ {i} /\ i \in DOMAIN wks[d] /\ todo[d] \subseteq DOMAIN wks[d]
  BY <1>2 DEF PositionDone, CycleType
<1>5. OlderRunsEnded'
  BY <1>1, TruthsStay DEF KnowledgeInv
<1>6. ASSUME NEW e \in Detectors, e # d PROVE Knows(e)'
  <2>1. pc'[e] = pc[e] /\ wks'[e] = wks[e] /\ todo'[e] = todo[e]
    BY <1>2, <1>6 DEF PositionDone, CycleType
  <2>. QED
    BY <1>1, <2>1, KnowsStill, KnowledgeParts
<1>7. Knows(d)
  BY KnowledgeParts
<1>8. DifferentIDs(wks[d])'
  BY <1>2, <1>7 DEF Knows, DifferentIDs, PositionDone
<1>9. ASSUME d \notin DryRun, pc[d] = "hydrate", NEW j \in DOMAIN wks'[d] \ todo'[d]
      PROVE  Reflects(wks[d][j])'
  <2>1. CASE j = i
    <3>1. wks'[d][i].id = wks[d][i].id /\ wks'[d][i].plan = plan
      BY <1>2, <1>4 DEF PositionDone
    <3>2. Reflects(wks'[d][i])
      BY <1>9, <3>1
    <3>. QED
      BY <1>3, <2>1, <3>2 DEF Reflects, Ended
  <2>2. CASE j # i
    <3>1. j \in DOMAIN wks[d] \ todo[d] /\ wks'[d][j] = wks[d][j]
      BY <1>2, <1>4, <1>9, <2>2 DEF PositionDone
    <3>2. Reflects(wks[d][j])
      BY <1>7, <1>9, <3>1 DEF Knows
    <3>. QED
      BY <1>3, <3>1, <3>2 DEF Reflects, Ended
  <2>. QED
    BY <2>1, <2>2
<1>10. ASSUME d \notin DryRun, pc[d] = "create", NEW j \in todo'[d]
       PROVE  Free(wks[d][j].id)'
  <2>1. j \in todo[d] /\ j \in DOMAIN wks[d] /\ wks'[d][j].id = wks[d][j].id
    BY <1>2, <1>4, <1>10 DEF PositionDone
  <2>2. Free(wks[d][j].id)
    BY <1>7, <1>10, <2>1 DEF Knows
  <2>. QED
    BY <1>3, <2>1, <2>2 DEF Free, Checks!Idle, Checks!Due
<1>11. Knows(d)'
  BY <1>3, <1>8, <1>9, <1>10 DEF Knows
<1>. QED
  BY <1>5, <1>6, <1>11 DEF KnowledgeInv, Knows, DifferentIDs, Free

\* The turn of position i: its workspace is free, still.
LEMMA CreateIsFree ==
  ASSUME KnowledgeInv, NEW d \in Detectors, NEW i \in todo[d], Create(d, i)
  PROVE  Free(wks[d][i].id)
  BY KnowledgeParts DEF Knows, Create, Creating

LEMMA CreateKnows ==
  ASSUME Reliable, CycleType, RunsTypeOK, KnowledgeInv,
         NEW d \in Detectors, NEW i \in todo[d], Create(d, i)
  PROVE  KnowledgeInv'
<1> DEFINE w == wks[d][i].id
           n == Len(runs[w])
<1>1. w \in Workspaces /\ wks[d][i].plan \in Plan \cup {NoPlan}
  BY Position
<1>2. CreateRun(w) /\ clock' = clock /\ pc[d] = "create" /\ d \notin DryRun
  BY DEF Create, Creating
<1>3. /\ Advance /\ Len(runs'[w]) = n + 1
      /\ \A m \in DOMAIN runs[w] : runs'[w][m] = runs[w][m]
      /\ \A v \in Workspaces : v # w => runs'[v] = runs[v]
      /\ RunsTypeOK'
  BY <1>1, <1>2, CreateRunEffect
<1>4. runs[w] \in Seq(Run) /\ runs'[w] \in Seq(Run) /\ NewRun \in Run /\ n \in Nat
  BY <1>1, <1>3, NewRunIsRun DEF RunsTypeOK
<1>5. \E plan : PositionDone(d, i, plan)
  <2>1. mapPlanTFE2Model(n + 1, NewRun) \in Plan
    <3>1. n + 1 \in Nat
      BY <1>4
    <3>. QED
      BY <1>4, <3>1, PlanMapped, Zenon
  <2>2. \/ Done(d, i, mapPlanTFE2Model(n + 1, NewRun), FALSE)
        \/ Done(d, i, wks[d][i].plan, TRUE)
    BY DEF Create
  <2>. QED
    BY <1>1, <2>1, <2>2, DoneEffect
<1>6. Free(w)
  BY CreateIsFree
<1>7. OlderRunsEnded'
  <2>1. ASSUME NEW v \in Workspaces, NEW m \in DOMAIN runs'[v], m < Len(runs'[v])
        PROVE  Ended(runs'[v][m])
    <3>1. CASE v = w
      <4>1. m \in DOMAIN runs[w]
        BY <1>3, <1>4, <2>1, <3>1
      <4>2. Ended(runs[w][m])
        BY <1>6, <4>1, FreeMeans
      <4>. QED
        BY <1>3, <3>1, <4>1, <4>2
    <3>2. CASE v # w
      BY <1>3, <2>1, <3>2 DEF KnowledgeInv, OlderRunsEnded
    <3>. QED
      BY <3>1, <3>2
  <2>. QED
    BY <2>1 DEF OlderRunsEnded, Ended
<1>8. \A e \in Detectors : DifferentIDs(wks[e])'
  <2> TAKE e \in Detectors
  <2>1. DifferentIDs(wks[e])
    BY KnowledgeParts DEF Knows
  <2>2. \/ e # d /\ wks'[e] = wks[e]
        \/ /\ DOMAIN wks'[e] = DOMAIN wks[e]
           /\ \A j \in DOMAIN wks[e] : wks'[e][j].id = wks[e][j].id
    BY <1>5 DEF PositionDone
  <2>. QED
    BY <2>1, <2>2 DEF DifferentIDs
<1>9. ASSUME NEW j \in todo'[d] PROVE Free(wks[d][j].id)'
  <2>1. j \in todo[d] /\ j # i /\ j \in DOMAIN wks[d] /\ i \in DOMAIN wks[d]
    BY <1>5, <1>9 DEF PositionDone, CycleType
  <2>2. wks'[d][j].id = wks[d][j].id
    BY <1>5, <2>1 DEF PositionDone
  <2>3. wks[d][j].id \in Workspaces /\ wks[d][j].id # w /\ Free(wks[d][j].id)
    BY <1>2, <2>1, Position, KnowledgeParts DEF Knows, DifferentIDs
  <2>. QED
    BY <1>2, <1>3, <2>2, <2>3 DEF Free, Checks!Idle, Checks!Due
<1>10. \A e \in Detectors : Knows(e)'
  <2> TAKE e \in Detectors
  <2>1. CASE e = d
    BY <1>2, <1>5, <1>8, <1>9, <2>1 DEF Knows, PositionDone
  <2>2. CASE e # d
    <3>1. e \in DryRun
      BY <1>2, <2>2 DEF Reliable, Alone
    <3>. QED
      BY <1>8, <3>1 DEF Knows
  <2>. QED
    BY <2>1, <2>2
<1>. QED
  BY <1>7, <1>10 DEF KnowledgeInv, Knows, DifferentIDs, Free

LEMMA StillKnows ==
  ASSUME CycleType, RunsTypeOK, RunsTypeOK', Advance, KnowledgeInv, UNCHANGED dvars,
         \A w \in Workspaces : Len(runs'[w]) = Len(runs[w])
  PROVE  KnowledgeInv'
<1>1. pc' = pc /\ wks' = wks /\ todo' = todo
  BY DEF dvars
<1>2. \A d \in Detectors : Knows(d)'
  BY <1>1, KnowsStill, KnowledgeParts
<1>3. OlderRunsEnded'
  BY TruthsStay DEF KnowledgeInv
<1>. QED
  BY <1>2, <1>3 DEF KnowledgeInv, Knows, DifferentIDs, Free

LEMMA KnowledgeInit == ASSUME Init PROVE KnowledgeInv
<1>1. \A w \in Workspaces : runs[w] = << >> /\ DOMAIN runs[w] = {}
  BY DEF Init, RunsInit
<1>2. \A d \in Detectors : wks[d] = << >> /\ DOMAIN wks[d] = {} /\ pc[d] = "idle"
  BY DEF Init
<1>. QED
  BY <1>1, <1>2 DEF KnowledgeInv, OlderRunsEnded

\* The positions a cycle hydrated and chose are free: none of them is queued or
\* recent, and what it read of them is still the newest.
LEMMA ScheduleKnows ==
  ASSUME CycleType, RunsTypeOK, KnowledgeInv, NEW d \in Detectors, Schedule(d)
  PROVE  KnowledgeInv'
<1> DEFINE list == Chosen(Due(wks[d]))
<1>1. UNCHANGED rvars /\ Enter(d, "create", list) /\ pc[d] = "hydrate" /\ todo[d] = {}
  BY DEF Schedule, rvars
<1>2. wks[d] \in Seq(Working) /\ OlderRunsEnded /\ Knows(d)
  BY KnowledgeParts DEF CycleType
<1>3. /\ list \in Seq(Working) /\ Selection(list, wks[d])
      /\ \A k \in DOMAIN list :
           /\ ~Queued(list[k])
           /\ NotBefore # 0 => ~TooRecent(list[k], clock, NotBefore)
  BY <1>2, ChosenList
<1> HIDE DEF list
<1>4. DifferentIDs(list)
  BY <1>2, <1>3, SelectionIDs DEF Knows
<1>5. ASSUME d \notin DryRun, NEW k \in DOMAIN list PROVE Free(list[k].id)
  <2>1. list[k] \in Working
    BY <1>3
  <2>2. PICK i \in DOMAIN wks[d] : list[k] = wks[d][i]
    BY <1>3, SelectionMembers
  <2>3. Reflects(list[k])
    BY <1>1, <1>2, <1>5, <2>2 DEF Knows
  <2>. QED
    BY <1>2, <1>3, <2>1, <2>3, ReflectsFree
<1>. QED
  BY <1>1, <1>4, <1>5, EnterKnows

LEMMA HydrateKnows ==
  ASSUME Reliable, CycleType, RunsTypeOK, KnowledgeInv,
         NEW d \in Detectors, NEW i \in todo[d], Hydrate(d, i)
  PROVE  KnowledgeInv'
<1> DEFINE plan == LatestPlan(wks[d][i].id)
<1>1. UNCHANGED rvars /\ Done(d, i, plan, FALSE)
  BY DEF Hydrate, HydrateWith
<1>2. wks[d][i].id \in Workspaces /\ plan \in Plan \cup {NoPlan}
  BY Position, LatestPlanType
<1>3. \A wk : wk.id = wks[d][i].id /\ wk.plan = plan => Reflects(wk)
  BY <1>2, LatestReflects DEF Reliable
<1> HIDE DEF plan
<1>. QED
  BY <1>1, <1>2, <1>3, DoneKnows

LEMMA ReadKnows ==
  ASSUME CycleType, RunsTypeOK, KnowledgeInv, NEW d \in Detectors, NEW i \in todo[d],
         \/ CreateFails(d, i) \/ DryRunCreate(d, i)
         \/ WaitEnds(d, i) \/ WaitFails(d, i)
  PROVE  KnowledgeInv'
<1>1. UNCHANGED rvars /\ pc[d] # "hydrate"
  BY DEF CreateFails, DryRunCreate, WaitEnds, WaitEndsOn, WaitFails, Creating
<1>2. PICK plan \in Plan \cup {NoPlan}, error \in BOOLEAN : Done(d, i, plan, error)
  BY ReadPlans
<1>. QED
  BY <1>1, <1>2, DoneKnows

LEMMA KnowledgeNext ==
  ASSUME Reliable, CycleType, RunsTypeOK, KnowledgeInv, [Next]_vars
  PROVE  KnowledgeInv'
<1>1. ASSUME NEW d \in Detectors, Start(d) PROVE KnowledgeInv'
  <2>1. PICK list \in Listings : \/ OverUnlisted(d)
                                 \/ Enter(d, "hydrate", Named(list))
    BY <1>1 DEF Start
  <2>2. DifferentIDs(Named(list)) /\ UNCHANGED rvars
    BY <1>1, NamedList DEF Start
  <2>. QED
    BY <2>1, <2>2, OverKnows, EnterKnows DEF OverUnlisted
<1>2. ASSUME NEW d \in Detectors, ListFails(d) \/ Report(d) \/ Crash(d)
      PROVE  KnowledgeInv'
  <2>1. UNCHANGED rvars /\ \E code : Over(d, code)
    BY <1>2 DEF ListFails, OverUnlisted, Report, Crash, rvars
  <2>. QED
    BY <2>1, OverKnows
<1>3. ASSUME NEW d \in Detectors, Schedule(d) PROVE KnowledgeInv'
  BY <1>3, ScheduleKnows
<1>4. ASSUME NEW d \in Detectors, Created(d) PROVE KnowledgeInv'
  <2>1. UNCHANGED rvars /\ Enter(d, "wait", wks[d])
    BY <1>4 DEF Created, CreatedIf, rvars
  <2>2. DifferentIDs(wks[d])
    BY KnowledgeParts DEF Knows
  <2>. QED
    BY <2>1, <2>2, EnterKnows
<1>5. ASSUME NEW d \in Detectors, NEW i \in todo[d], Hydrate(d, i) PROVE KnowledgeInv'
  BY <1>5, HydrateKnows
<1>6. ASSUME NEW d \in Detectors, NEW i \in todo[d], HydrateFails(d, i) PROVE FALSE
  BY <1>6 DEF HydrateFails, Reliable
<1>7. ASSUME NEW d \in Detectors, NEW i \in todo[d], Create(d, i) PROVE KnowledgeInv'
  BY <1>7, CreateKnows
<1>8. ASSUME NEW d \in Detectors, NEW i \in todo[d],
             \/ CreateFails(d, i) \/ DryRunCreate(d, i)
             \/ WaitEnds(d, i) \/ WaitFails(d, i)
      PROVE  KnowledgeInv'
  BY <1>8, ReadKnows
<1>9. ASSUME NEW w \in Workspaces, RunProgress(w), UNCHANGED dvars PROVE KnowledgeInv'
  BY <1>9, RunProgressEffect, StillKnows
<1>10. ASSUME Tick, UNCHANGED dvars PROVE KnowledgeInv'
  <2>1. \A w \in Workspaces : Len(runs'[w]) = Len(runs[w])
    BY <1>10 DEF Tick
  <2>. QED
    BY <1>10, <2>1, TickAdvances, StillKnows
<1>11. CASE UNCHANGED vars
  <2>1. UNCHANGED rvars /\ UNCHANGED dvars
    BY <1>11 DEF vars, rvars, dvars
  <2>. QED
    BY <2>1, StandStill, RunsStillLengths, StillKnows
<1>. QED
  BY <1>1, <1>2, <1>3, <1>4, <1>5, <1>6, <1>7, <1>8, <1>9, <1>10, <1>11
     DEF Next, DetectorStep

\* Every step is one of DriftChecks, or leaves Terraform Cloud as it is.
LEMMA StepChecks ==
  ASSUME KnowledgeInv, CycleType, [Next]_vars PROVE [Checks!Next]_(Checks!rvars)
<1>1. ASSUME NEW d \in Detectors, NEW i \in todo[d], Create(d, i) PROVE Checks!Next
  <2> DEFINE w == wks[d][i].id
  <2>1. w \in Workspaces /\ Free(w)
    BY <1>1, Position, CreateIsFree
  <2>2. CreateRun(w) /\ UNCHANGED clock
    BY <1>1 DEF Create
  <2>3. Checks!CreateRun(w)
    BY <2>2 DEF CreateRun, NewRun, Checks!CreateRun, Checks!NewRun
  <2>. QED
    BY <2>1, <2>2, <2>3 DEF Free, Checks!Detect, Checks!Next
<1>2. ASSUME NEW d \in Detectors, NEW i \in todo[d],
             \/ Hydrate(d, i) \/ HydrateFails(d, i) \/ CreateFails(d, i)
             \/ DryRunCreate(d, i) \/ WaitEnds(d, i) \/ WaitFails(d, i)
      PROVE  UNCHANGED rvars
  BY <1>2 DEF Hydrate, HydrateFails, HydrateWith, CreateFails, DryRunCreate,
              WaitEnds, WaitEndsOn, WaitFails
<1>3. ASSUME NEW d \in Detectors,
             \/ Start(d) \/ ListFails(d) \/ Schedule(d) \/ Created(d)
             \/ Report(d) \/ Crash(d)
      PROVE  UNCHANGED rvars
  BY <1>3 DEF Start, ListFails, OverUnlisted, Schedule, Created, CreatedIf, Report, Crash, rvars
<1>4. ASSUME NEW w \in Workspaces, RunProgress(w) PROVE Checks!Next
  <2>1. Checks!RunProgress(w)
    BY <1>4 DEF RunProgress, Ended, RunsFinishedOK, RunsFinishedNotOK, Checks!RunProgress,
                Checks!Ended, Checks!RunsFinishedOK, Checks!RunsFinishedNotOK
  <2>. QED
    BY <2>1 DEF Checks!Next
<1>5. ASSUME Tick PROVE Checks!Next
  BY <1>5 DEF Tick, Checks!Tick, Checks!Next
<1>6. CASE UNCHANGED vars
  BY <1>6 DEF vars, Checks!rvars
<1>. QED
  BY <1>1, <1>2, <1>3, <1>4, <1>5, <1>6
     DEF Next, DetectorStep, rvars, Checks!rvars

\* The invariant both theorems rest on.
LEMMA Knowledge == ASSUME Reliable PROVE Spec => [](TypeOK /\ KnowledgeInv)
<1>1. Init => TypeOK /\ KnowledgeInv
  BY TypeInit, TypeParts, KnowledgeInit
<1>2. TypeOK /\ KnowledgeInv /\ [Next]_vars => (TypeOK /\ KnowledgeInv)'
  <2> SUFFICES ASSUME TypeOK, KnowledgeInv, [Next]_vars
               PROVE  TypeOK' /\ KnowledgeInv'
    OBVIOUS
  <2>1. RunsTypeOK' /\ CycleType' /\ KnowledgeInv'
    BY TypeNext, TypeParts, KnowledgeNext
  <2>. QED
    BY <2>1 DEF RunsTypeOK, TypeOK, CycleType, GoodList, OwnRun
<1>. QED
  BY <1>1, <1>2, PTL DEF Spec

(***************************************************************************)
(* What a cycle knows of a workspace stays good from the moment it fetched *)
(* the latest plan to the moment it creates the run, whatever the runs,    *)
(* the clock, the lost answers and the crashes do in between.              *)
(***************************************************************************)
THEOREM KnowledgeStays == ASSUME Reliable PROVE Spec => []KnowledgeInv
  BY Knowledge, PTL

(***************************************************************************)
(* README.md:186-187: seen from Terraform Cloud, the detectors only start  *)
(* a run for a workspace none of whose runs is queued or running, and      *)
(* --not-before after the last one.                                        *)
(***************************************************************************)
THEOREM DetectorImplementsDriftChecks == ASSUME Reliable PROVE Spec => DriftChecksSpec
<1>1. Init => Checks!RunsInit
  BY DEF Init, RunsInit, Checks!RunsInit
<1>2. TypeOK /\ KnowledgeInv /\ [Next]_vars => [Checks!Next]_(Checks!rvars)
  BY TypeParts, StepChecks
<1>. QED
  BY <1>1, <1>2, Knowledge, PTL DEF Spec, DriftChecksSpec, Checks!Spec

(***************************************************************************)
(* "Don't run already running/queued drift detection runs" (README.md:186) *)
(* as a property of every step.                                            *)
(***************************************************************************)
THEOREM NoSecondRun == ASSUME Reliable PROVE Spec => NoSecondQueuedRun
<1> DEFINE NoSecond == \A w \in Workspaces : Len(runs'[w]) > Len(runs[w]) => Checks!Idle(w)
<1>1. TypeOK /\ KnowledgeInv /\ [Next]_vars => [NoSecond]_vars
  <2> SUFFICES ASSUME TypeOK, KnowledgeInv, [Next]_vars,
                      NEW w \in Workspaces, Len(runs'[w]) > Len(runs[w])
               PROVE  Checks!Idle(w)
    OBVIOUS
  <2>1. RunsTypeOK /\ CycleType /\ [Checks!Next]_(Checks!rvars)
    BY TypeParts, StepChecks
  <2>2. runs[w] \in Seq(Run) /\ Len(runs[w]) \in Nat
    BY <2>1 DEF RunsTypeOK
  <2>3. ASSUME NEW v \in Workspaces, Checks!Detect(v) PROVE Checks!Idle(w)
    <3>1. v # w => runs'[w] = runs[w]
      BY <2>1, <2>3 DEF Checks!Detect, Checks!CreateRun, RunsTypeOK
    <3>. QED
      BY <2>2, <2>3, <3>1 DEF Checks!Detect
  <2>4. ASSUME NEW v \in Workspaces, Checks!RunProgress(v) PROVE FALSE
    <3>1. RunProgress(v)
      BY <2>4 DEF RunProgress, Ended, RunsFinishedOK, RunsFinishedNotOK, Checks!RunProgress,
                  Checks!Ended, Checks!RunsFinishedOK, Checks!RunsFinishedNotOK
    <3>. QED
      BY <2>1, <2>2, <3>1, RunProgressEffect
  <2>5. runs' # runs
    BY <2>2
  <2>. QED
    BY <2>1, <2>3, <2>4, <2>5 DEF Checks!Next, Checks!Tick, Checks!rvars
<1>. QED
  BY <1>1, Knowledge, PTL DEF Spec, NoSecondQueuedRun

-----------------------------------------------------------------------------
(* Oldest first.                                                            *)

\* The time of the newest run of w, 0 without one.
LastTime(w) == LastAt(LatestPlan(w))

LEMMA LastTimeIs ==
  ASSUME RunsTypeOK, NEW w \in Workspaces
  PROVE  /\ LastTime(w) \in Nat
         /\ runs[w] = << >> => LastTime(w) = 0
         /\ runs[w] # << >> => LastTime(w) = runs[w][Len(runs[w])].createdAt
<1>1. CASE runs[w] = << >>
  BY <1>1 DEF LastTime, LatestPlan, LastAt, ZeroTime
<1>2. CASE runs[w] # << >>
  <2>1. runs[w] \in Seq(Run)
    BY DEF RunsTypeOK
  <2>2. Len(runs[w]) \in Nat /\ runs[w][Len(runs[w])] \in Run
    BY <1>2, <2>1
  <2>3. /\ LatestPlan(w) = mapPlanTFE2Model(Len(runs[w]), runs[w][Len(runs[w])])
        /\ LatestPlan(w) # NoPlan /\ LatestPlan(w) \in Plan
        /\ LatestPlan(w).createdAt = runs[w][Len(runs[w])].createdAt
    BY <1>2, <2>2, PlanMapped DEF LatestPlan
  <2>. QED
    BY <1>2, <2>3 DEF LastTime, LastAt, Plan
<1>. QED
  BY <1>1, <1>2

\* A plan that reflects the runs of its workspace has the time of the newest.
LEMMA ReflectsTime ==
  ASSUME RunsTypeOK, NEW wk, wk.id \in Workspaces, Reflects(wk)
  PROVE  LastAt(wk.plan) = LastTime(wk.id)
<1>1. CASE runs[wk.id] = << >>
  BY <1>1, LastTimeIs DEF Reflects, LastAt, ZeroTime
<1>2. CASE runs[wk.id] # << >>
  BY <1>2, LastTimeIs DEF Reflects, LastAt
<1>. QED
  BY <1>1, <1>2

LEMMA TimesStand ==
  ASSUME RunsTypeOK, RunsTypeOK', Advance, NEW w \in Workspaces,
         Len(runs'[w]) = Len(runs[w])
  PROVE  LastTime(w)' = LastTime(w)
<1>1. runs[w] \in Seq(Run) /\ runs'[w] \in Seq(Run)
  BY DEF RunsTypeOK
<1>2. (runs[w] = << >>) <=> (runs'[w] = << >>)
  BY <1>1
<1>3. CASE runs[w] = << >>
  BY <1>2, <1>3 DEF LastTime, LatestPlan, LastAt, ZeroTime
<1>4. CASE runs[w] # << >>
  <2>1. Len(runs[w]) \in DOMAIN runs[w] /\ Len(runs[w]) \in Nat
        /\ runs[w][Len(runs[w])] \in Run /\ runs'[w][Len(runs[w])] \in Run
    BY <1>1, <1>2, <1>4
  <2>2. runs'[w][Len(runs[w])].createdAt = runs[w][Len(runs[w])].createdAt
    BY <2>1 DEF Advance
  <2>3. /\ LatestPlan(w) # NoPlan
        /\ LatestPlan(w).createdAt = runs[w][Len(runs[w])].createdAt
    BY <1>4, <2>1, PlanMapped DEF LatestPlan
  <2>4. /\ LatestPlan(w)' # NoPlan
        /\ LatestPlan(w)'.createdAt = runs'[w][Len(runs[w])].createdAt
    BY <1>2, <1>4, <2>1, PlanMapped DEF LatestPlan
  <2>. QED
    BY <2>2, <2>3, <2>4 DEF LastTime, LastAt
<1>. QED
  BY <1>3, <1>4

\* A new run is not older than the runs there are.
LEMMA TimesRise ==
  ASSUME RunsTypeOK, NEW w \in Workspaces, CreateRun(w), UNCHANGED clock
  PROVE  /\ LastTime(w)' >= LastTime(w)
         /\ \A v \in Workspaces : v # w => LastTime(v)' = LastTime(v)
<1>1. /\ RunsTypeOK' /\ Advance
      /\ Len(runs'[w]) = Len(runs[w]) + 1
      /\ runs'[w][Len(runs[w]) + 1] = NewRun
      /\ \A v \in Workspaces : v # w => runs'[v] = runs[v]
  BY CreateRunEffect
<1>2. clock \in Nat /\ NewRun \in Run /\ NewRun.createdAt = clock
  BY NewRunIsRun DEF RunsTypeOK
<1>3. runs[w] \in Seq(Run) /\ runs'[w] \in Seq(Run) /\ Len(runs[w]) \in Nat
  BY <1>1 DEF RunsTypeOK
<1>4. LastTime(w)' = clock
  <2>1. runs'[w] # << >>
    BY <1>1, <1>3
  <2>2. Len(runs'[w]) \in Nat /\ runs'[w][Len(runs'[w])] = NewRun
    BY <1>1, <1>3
  <2>3. /\ LatestPlan(w)' = mapPlanTFE2Model(Len(runs'[w]), NewRun)
    BY <2>1, <2>2 DEF LatestPlan
  <2>4. LatestPlan(w)' # NoPlan /\ LatestPlan(w)'.createdAt = clock
    BY <1>2, <2>2, <2>3, PlanMapped
  <2>. QED
    BY <2>4 DEF LastTime, LastAt
<1>5. LastTime(w) <= clock /\ LastTime(w) \in Nat
  <2>1. CASE runs[w] = << >>
    BY <1>2, <2>1, LastTimeIs
  <2>2. CASE runs[w] # << >>
    <3>1. Len(runs[w]) \in DOMAIN runs[w]
      BY <1>3, <2>2
    <3>2. runs[w][Len(runs[w])].createdAt \in 1..clock
      BY <3>1 DEF RunsTypeOK
    <3>. QED
      BY <1>2, <2>2, <3>2, LastTimeIs
  <2>. QED
    BY <2>1, <2>2
<1>6. ASSUME NEW v \in Workspaces, v # w PROVE LastTime(v)' = LastTime(v)
  BY <1>1, <1>6 DEF LastTime, LatestPlan
<1>. QED
  BY <1>2, <1>4, <1>5, <1>6

\* v has a place before i in the list of d.
PlacedBefore(d, v, i) == \E j \in DOMAIN wks[d] : j < i /\ wks[d][j].id = v

(***************************************************************************)
(* What the turns of a creating detector still to come rest on: the plan   *)
(* of each has the time of its newest run, and every workspace found not   *)
(* queued has a place before it, or a newest run that is no older.         *)
(***************************************************************************)
InTurn(d) ==
  d \notin DryRun /\ pc[d] = "create" =>
    \A i \in todo[d] :
      /\ LastTime(wks[d][i].id) = LastAt(wks[d][i].plan)
      /\ \A v \in eligible[d] :
           PlacedBefore(d, v, i) \/ LastTime(v) >= LastAt(wks[d][i].plan)

TurnsInv == \A d \in Detectors : InTurn(d)

LEMMA TurnsInit == ASSUME Init PROVE TurnsInv
  BY DEF Init, TurnsInv, InTurn

LEMMA TimesUnchanged ==
  ASSUME runs' = runs, NEW w PROVE LastTime(w)' = LastTime(w)
  BY DEF LastTime, LatestPlan

\* A detector that does nothing in a step that creates no run.
LEMMA InTurnStill ==
  ASSUME CycleType, RunsTypeOK, RunsTypeOK', Advance,
         \A w \in Workspaces : Len(runs'[w]) = Len(runs[w]),
         NEW d \in Detectors, InTurn(d),
         pc'[d] = pc[d], wks'[d] = wks[d], todo'[d] = todo[d], eligible'[d] = eligible[d]
  PROVE  InTurn(d)'
<1>1. \A w \in Workspaces : LastTime(w)' = LastTime(w)
  BY TimesStand
<1>2. eligible[d] \subseteq Workspaces
  BY DEF CycleType
<1>3. ASSUME d \notin DryRun, pc[d] = "create", NEW i \in todo[d]
      PROVE  /\ LastTime(wks[d][i].id)' = LastAt(wks[d][i].plan)
             /\ \A v \in eligible[d] :
                  PlacedBefore(d, v, i)' \/ LastTime(v)' >= LastAt(wks[d][i].plan)
  <2>1. wks[d][i].id \in Workspaces
    BY Position
  <2>2. LastTime(wks[d][i].id)' = LastTime(wks[d][i].id)
    <3>1. PICK u \in Workspaces : u = wks[d][i].id
      BY <2>1
    <3>2. wks'[d][i].id = u
      BY <3>1
    <3>3. LastTime(wks[d][i].id)' = LastTime(u)'
      BY <3>2 DEF LastTime, LatestPlan
    <3>4. LastTime(u)' = LastTime(u)
      BY <1>1
    <3>. QED
      BY <3>1, <3>3, <3>4
  <2>3. \A v : PlacedBefore(d, v, i) => PlacedBefore(d, v, i)'
    BY DEF PlacedBefore
  <2>4. \A v \in eligible[d] : LastTime(v)' = LastTime(v)
    BY <1>1, <1>2
  <2>. QED
    BY <1>3, <2>2, <2>3, <2>4 DEF InTurn
<1>. QED
  BY <1>3 DEF InTurn

\* Detector d enters a phase that creates nothing.
LEMMA EnterTurns ==
  ASSUME CycleType, RunsTypeOK, UNCHANGED rvars, TurnsInv,
         NEW d \in Detectors, NEW p, p # "create", NEW list, Enter(d, p, list),
         \A e \in Detectors : e # d => eligible'[e] = eligible[e]
  PROVE  TurnsInv'
<1>1. /\ pc'[d] = p
      /\ \A e \in Detectors : e # d =>
           pc'[e] = pc[e] /\ wks'[e] = wks[e] /\ todo'[e] = todo[e]
  BY DEF Enter, CycleType
<1>2. RunsTypeOK' /\ Advance /\ \A w \in Workspaces : Len(runs'[w]) = Len(runs[w])
  BY StandStill, RunsStillLengths
<1>3. ASSUME NEW e \in Detectors, e # d PROVE InTurn(e)'
  BY <1>1, <1>2, <1>3, InTurnStill DEF TurnsInv
<1>4. InTurn(d)'
  BY <1>1 DEF InTurn
<1>. QED
  BY <1>3, <1>4 DEF TurnsInv

\* The list that is chosen serves the oldest first.
LEMMA ScheduleTurns ==
  ASSUME CycleType, RunsTypeOK, KnowledgeInv, TurnsInv, NEW d \in Detectors, Schedule(d)
  PROVE  TurnsInv'
<1> DEFINE all == wks[d]
           idle == FilterQueued(all)
           due == Due(all)
           list == Chosen(due)
<1>1. /\ UNCHANGED rvars /\ Enter(d, "create", list) /\ pc[d] = "hydrate" /\ todo[d] = {}
      /\ eligible' = [eligible EXCEPT ![d] =
           {all[i].id : i \in {j \in DOMAIN all : ~Queued(all[j])}}]
  BY DEF Schedule, rvars
<1>2. /\ wks'[d] = list /\ todo'[d] = DOMAIN list /\ runs' = runs
      /\ eligible'[d] = {all[i].id : i \in {j \in DOMAIN all : ~Queued(all[j])}}
      /\ \A e \in Detectors : e # d =>
           /\ pc'[e] = pc[e] /\ wks'[e] = wks[e] /\ todo'[e] = todo[e]
           /\ eligible'[e] = eligible[e]
  BY <1>1 DEF Enter, CycleType, rvars
<1>3. all \in Seq(Working) /\ Knows(d) /\ clock \in Nat /\ NotBefore \in Nat /\ MaxPlans \in Nat
  BY KnowledgeParts, FlagsAssumption DEF CycleType, RunsTypeOK
<1>4. /\ list \in Seq(Working) /\ Selection(list, all)
      /\ \A k \in DOMAIN list :
           /\ ~Queued(list[k])
           /\ NotBefore # 0 => ~TooRecent(list[k], clock, NotBefore)
  BY <1>3, ChosenList
<1>5. \A x \in Working : LastAt(x.plan) \in Nat
  BY DEF Working, LastAt, ZeroTime, Plan
<1> HIDE DEF all
<1>6. idle \in Seq(Working)
  BY <1>3, FilterQueuedSelects, Zenon
<1>7. due = FilterDriftDetectionsBefore(idle, clock, NotBefore)
  BY DEF Due
<1>8. due \in Seq(Working)
  <2> HIDE DEF idle, due
  <2>. QED
    BY <1>6, <1>7, FilterRecentSelects
<1>9. \A i \in DOMAIN all :
        ~Queued(all[i]) /\ (NotBefore # 0 => ~TooRecent(all[i], clock, NotBefore)) =>
          \E m \in DOMAIN due : due[m] = all[i]
  BY <1>3, FiltersReach DEF Due
<1> HIDE DEF idle, due
<1>10. \A m \in DOMAIN due, k \in DOMAIN list :
         \/ \E j \in DOMAIN list : j < k /\ list[j] = due[m]
         \/ LastAt(due[m].plan) >= LastAt(list[k].plan)
  BY <1>3, <1>5, <1>8, LimitKeepsOldest DEF Chosen
<1> HIDE DEF list
<1>11. ASSUME d \notin DryRun, NEW i \in DOMAIN all
       PROVE  all[i] \in Working /\ all[i].id \in Workspaces
              /\ LastTime(all[i].id) = LastAt(all[i].plan) /\ LastAt(all[i].plan) \in Nat
  <2>1. all[i] \in Working /\ all[i].id \in Workspaces
    <3>1. all[i] \in Working
      BY <1>3
    <3>. QED
      BY <3>1 DEF Working
  <2>2. Reflects(all[i])
    BY <1>1, <1>3, <1>11 DEF Knows, all
  <2>. QED
    BY <1>5, <2>1, <2>2, ReflectsTime
<1>12. ASSUME d \notin DryRun, NEW k \in DOMAIN list
       PROVE  /\ LastTime(list[k].id) = LastAt(list[k].plan)
              /\ LastAt(list[k].plan) \in Nat
  BY <1>4, <1>11, <1>12, SelectionMembers
<1>13. ASSUME d \notin DryRun, NEW k \in DOMAIN list, NEW v \in eligible'[d]
       PROVE  \/ \E j \in DOMAIN list : j < k /\ list[j].id = v
              \/ LastTime(v) >= LastAt(list[k].plan)
  <2>1. PICK i \in DOMAIN all : all[i].id = v /\ ~Queued(all[i])
    BY <1>2, <1>13
  <2>2. LastTime(v) = LastAt(all[i].plan) /\ LastTime(v) \in Nat /\ all[i] \in Working
    BY <1>11, <1>13, <2>1
  <2>3. CASE NotBefore # 0 => ~TooRecent(all[i], clock, NotBefore)
    BY <1>9, <1>10, <2>1, <2>2, <2>3
  <2>4. CASE NotBefore # 0 /\ TooRecent(all[i], clock, NotBefore)
    <3>1. /\ all[i].plan # NoPlan /\ clock - all[i].plan.createdAt < NotBefore
          /\ LastTime(v) = all[i].plan.createdAt
      BY <2>2, <2>4 DEF TooRecent, LastAt
    <3>2. list[k].plan = NoPlan \/ ~(clock - list[k].plan.createdAt < NotBefore)
      BY <1>4, <2>4 DEF TooRecent
    <3>3. CASE list[k].plan = NoPlan
      BY <2>2, <3>3 DEF LastAt, ZeroTime
    <3>4. CASE list[k].plan # NoPlan
      <4>1. LastAt(list[k].plan) = list[k].plan.createdAt /\ LastAt(list[k].plan) \in Nat
        BY <1>12, <1>13, <3>4 DEF LastAt
      <4>. QED
        BY <1>3, <2>2, <3>1, <3>2, <3>4, <4>1
    <3>. QED
      BY <3>3, <3>4
  <2>. QED
    BY <2>3, <2>4
<1>14. InTurn(d)'
  <2>1. ASSUME d \notin DryRun, NEW k \in DOMAIN list
        PROVE  LastTime(wks[d][k].id)' = LastAt(list[k].plan)
    <3>1. PICK u : u = list[k].id
      OBVIOUS
    <3>2. wks'[d][k].id = u
      BY <1>2, <3>1
    <3>3. LastTime(wks[d][k].id)' = LastTime(u)'
      BY <3>2 DEF LastTime, LatestPlan
    <3>4. LastTime(u)' = LastTime(u)
      BY <1>2, TimesUnchanged
    <3>. QED
      BY <1>12, <2>1, <3>1, <3>3, <3>4
  <2>2. ASSUME d \notin DryRun, NEW k \in DOMAIN list, NEW v \in eligible'[d]
        PROVE  PlacedBefore(d, v, k)' \/ LastTime(v)' >= LastAt(list[k].plan)
    <3>1. LastTime(v)' = LastTime(v)
      BY <1>2 DEF LastTime, LatestPlan
    <3>. QED
      BY <1>2, <1>13, <2>2, <3>1 DEF PlacedBefore
  <2>. QED
    BY <1>2, <2>1, <2>2 DEF InTurn
<1>15. RunsTypeOK' /\ Advance /\ \A w \in Workspaces : Len(runs'[w]) = Len(runs[w])
  BY <1>1, StandStill, RunsStillLengths
<1>16. ASSUME NEW e \in Detectors, e # d PROVE InTurn(e)'
  BY <1>2, <1>15, <1>16, InTurnStill DEF TurnsInv
<1>. QED
  BY <1>14, <1>16 DEF TurnsInv

\* Position i is done: the turns after it keep their plans and their places.
LEMMA DoneInTurn ==
  ASSUME CycleType, NEW d \in Detectors, NEW i \in todo[d], NEW plan,
         PositionDone(d, i, plan), InTurn(d), NEW j \in todo'[d],
         d \notin DryRun, pc[d] = "create"
  PROVE  /\ j \in todo[d] /\ j # i
         /\ wks'[d][j] = wks[d][j]
         /\ LastTime(wks[d][j].id) = LastAt(wks[d][j].plan)
         /\ \A v \in eligible'[d] :
              PlacedBefore(d, v, j)' \/ LastTime(v) >= LastAt(wks[d][j].plan)
<1>1. j \in todo[d] /\ j # i /\ i \in DOMAIN wks[d] /\ j \in DOMAIN wks[d]
  BY DEF PositionDone, CycleType
<1>2. wks'[d][j] = wks[d][j] /\ eligible' = eligible
  BY <1>1 DEF PositionDone
<1>3. \A v : PlacedBefore(d, v, j) => PlacedBefore(d, v, j)'
  BY DEF PlacedBefore, PositionDone
<1>. QED
  BY <1>1, <1>2, <1>3 DEF InTurn

LEMMA OthersInTurn ==
  ASSUME CycleType, RunsTypeOK, UNCHANGED rvars, TurnsInv,
         NEW d \in Detectors, NEW i \in todo[d], NEW plan, PositionDone(d, i, plan)
  PROVE  TurnsInv'
<1>1. RunsTypeOK' /\ Advance /\ \A w \in Workspaces : Len(runs'[w]) = Len(runs[w])
  BY StandStill, RunsStillLengths
<1>2. ASSUME NEW e \in Detectors, e # d PROVE InTurn(e)'
  <2>1. pc'[e] = pc[e] /\ wks'[e] = wks[e] /\ todo'[e] = todo[e] /\ eligible'[e] = eligible[e]
    BY <1>2 DEF PositionDone, CycleType
  <2>. QED
    BY <1>1, <2>1, InTurnStill DEF TurnsInv
<1>3. InTurn(d)'
  <2>1. runs' = runs /\ pc' = pc
    BY DEF rvars, PositionDone
  <2>2. ASSUME d \notin DryRun, pc[d] = "create", NEW j \in todo'[d]
        PROVE  /\ LastTime(wks[d][j].id)' = LastAt(wks'[d][j].plan)
               /\ \A v \in eligible'[d] :
                    PlacedBefore(d, v, j)' \/ LastTime(v)' >= LastAt(wks'[d][j].plan)
    <3>1. /\ wks'[d][j] = wks[d][j]
          /\ LastTime(wks[d][j].id) = LastAt(wks[d][j].plan)
          /\ \A v \in eligible'[d] :
               PlacedBefore(d, v, j)' \/ LastTime(v) >= LastAt(wks[d][j].plan)
      BY <2>2, DoneInTurn DEF TurnsInv
    <3>. QED
      BY <2>1, <3>1 DEF LastTime, LatestPlan
  <2>. QED
    BY <2>1, <2>2 DEF InTurn
<1>. QED
  BY <1>2, <1>3 DEF TurnsInv

\* A run that is created makes its workspace the youngest.
LEMMA CreateTurns ==
  ASSUME Reliable, CycleType, RunsTypeOK, KnowledgeInv, TurnsInv,
         NEW d \in Detectors, NEW i \in todo[d], Create(d, i)
  PROVE  TurnsInv'
<1> DEFINE w == wks[d][i].id
<1>1. w \in Workspaces /\ CreateRun(w) /\ UNCHANGED clock /\ d \notin DryRun /\ pc[d] = "create"
  BY Position DEF Create, Creating
<1>2. \A v \in Workspaces : v # w => LastTime(v)' = LastTime(v)
  BY <1>1, TimesRise
<1>3. PICK plan : PositionDone(d, i, plan)
  <2>1. wks[d][i].plan \in Plan \cup {NoPlan}
    BY Position
  <2>2. runs[w] \in Seq(Run) /\ NewRun \in Run
    BY <1>1, NewRunIsRun DEF RunsTypeOK
  <2>3. Len(runs[w]) + 1 \in Nat
    BY <2>2
  <2>4. mapPlanTFE2Model(Len(runs[w]) + 1, NewRun) \in Plan
    BY <2>2, <2>3, PlanMapped, Zenon
  <2>5. \/ Done(d, i, mapPlanTFE2Model(Len(runs[w]) + 1, NewRun), FALSE)
        \/ Done(d, i, wks[d][i].plan, TRUE)
    BY DEF Create
  <2>. QED
    BY <2>1, <2>4, <2>5, DoneEffect
<1>4. \A e \in Detectors : e \notin DryRun => e = d
  BY <1>1 DEF Reliable, Alone
<1>5. pc' = pc /\ eligible' = eligible /\ eligible[d] \subseteq Workspaces
  BY <1>3 DEF PositionDone, CycleType
<1>6. ASSUME NEW j \in todo'[d]
      PROVE  /\ LastTime(wks[d][j].id)' = LastAt(wks'[d][j].plan)
             /\ \A v \in eligible'[d] :
                  PlacedBefore(d, v, j)' \/ LastTime(v)' >= LastAt(wks'[d][j].plan)
  <2>1. /\ j \in todo[d] /\ j # i /\ wks'[d][j] = wks[d][j]
        /\ LastTime(wks[d][j].id) = LastAt(wks[d][j].plan)
        /\ \A v \in eligible'[d] :
             PlacedBefore(d, v, j)' \/ LastTime(v) >= LastAt(wks[d][j].plan)
    BY <1>1, <1>3, <1>6, DoneInTurn DEF TurnsInv
  <2>2. wks[d][j].id \in Workspaces /\ wks[d][j].id # w
    BY <2>1, Position, KnowledgeParts DEF Knows, DifferentIDs
  <2>3. LastTime(wks[d][j].id)' = LastAt(wks[d][j].plan)
    <3> DEFINE u == wks[d][j].id
    <3>1. wks'[d][j].id = u
      BY <2>1
    <3>2. LastTime(wks[d][j].id)' = LastAt(LatestPlan(u)')
      BY <3>1 DEF LastTime, LatestPlan
    <3>3. runs'[u] = runs[u]
      BY <1>1, <2>2, CreateRunEffect
    <3>. QED
      BY <2>1, <3>1, <3>3 DEF LastTime, LatestPlan
  <2>4. LastAt(wks[d][j].plan) \in Nat
    BY <2>1, <2>2, LastTimeIs
  <2>5. ASSUME NEW v \in eligible'[d]
        PROVE  PlacedBefore(d, v, j)' \/ LastTime(v)' >= LastAt(wks[d][j].plan)
    <3>1. v \in Workspaces /\ LastTime(v) \in Nat
      BY <1>5, LastTimeIs
    <3>2. CASE v = w
      <4>1. LastTime(v)' >= LastTime(v) /\ LastTime(v)' \in Nat
        <5>1. RunsTypeOK'
          BY <1>1, CreateRunEffect
        <5>2. ASSUME NEW x \in Workspaces, CreateRun(x)
              PROVE  LastTime(x)' >= LastTime(x) /\ LastTime(x)' \in Nat
          <6>1. LastTime(x)' >= LastTime(x)
            BY <1>1, <5>2, TimesRise
          <6>2. LatestPlan(x)' \in Plan \cup {NoPlan}
            <7>1. /\ runs'[x] \in Seq(Run) /\ runs'[x] # << >>
              <8>1. Len(runs'[x]) = Len(runs[x]) + 1 /\ runs'[x] \in Seq(Run)
                    /\ runs[x] \in Seq(Run)
                BY <1>1, <5>1, <5>2, CreateRunEffect DEF RunsTypeOK
              <8>. QED
                BY <8>1
            <7>2. Len(runs'[x]) \in Nat /\ runs'[x][Len(runs'[x])] \in Run
              BY <7>1
            <7>. QED
              BY <7>1, <7>2, PlanMapped DEF LatestPlan
          <6>. QED
            BY <6>1, <6>2 DEF LastTime, LastAt, ZeroTime, Plan
        <5>. QED
          BY <1>1, <3>1, <3>2, <5>2
      <4>2. PlacedBefore(d, v, j)' \/ LastTime(v) >= LastAt(wks[d][j].plan)
        BY <2>1
      <4>. QED
        BY <2>4, <3>1, <4>1, <4>2
    <3>3. CASE v # w
      <4>1. LastTime(v)' = LastTime(v)
        BY <1>2, <3>1, <3>3
      <4>. QED
        BY <2>1, <4>1
    <3>. QED
      BY <3>2, <3>3
  <2>. QED
    BY <2>1, <2>3, <2>5
<1>7. InTurn(d)'
  BY <1>6 DEF InTurn
<1>. QED
  BY <1>4, <1>7 DEF TurnsInv, InTurn

LEMMA StillTurns ==
  ASSUME CycleType, RunsTypeOK, RunsTypeOK', Advance, TurnsInv, UNCHANGED dvars,
         \A w \in Workspaces : Len(runs'[w]) = Len(runs[w])
  PROVE  TurnsInv'
<1>1. pc' = pc /\ wks' = wks /\ todo' = todo /\ eligible' = eligible
  BY DEF dvars
<1>. QED
  BY <1>1, InTurnStill DEF TurnsInv

LEMMA TurnsNext ==
  ASSUME Reliable, CycleType, RunsTypeOK, KnowledgeInv, TurnsInv, [Next]_vars
  PROVE  TurnsInv'
<1>1. ASSUME NEW d \in Detectors,
             Start(d) \/ ListFails(d) \/ Created(d) \/ Report(d) \/ Crash(d)
      PROVE  TurnsInv'
  <2>1. /\ UNCHANGED rvars
        /\ \E p, list : p # "create" /\ Enter(d, p, list)
        /\ \A e \in Detectors : e # d => eligible'[e] = eligible[e]
    <3>1. CASE Start(d)
      BY <3>1 DEF Start, OverUnlisted, Over, CycleType
    <3>2. CASE ListFails(d) \/ Report(d) \/ Crash(d)
      BY <3>2 DEF ListFails, OverUnlisted, Report, Crash, Over, CycleType, rvars
    <3>3. CASE Created(d)
      BY <3>3 DEF Created, CreatedIf, CycleType, rvars
    <3>. QED
      BY <1>1, <3>1, <3>2, <3>3
  <2>. QED
    BY <2>1, EnterTurns
<1>2. ASSUME NEW d \in Detectors, Schedule(d) PROVE TurnsInv'
  BY <1>2, ScheduleTurns
<1>3. ASSUME NEW d \in Detectors, NEW i \in todo[d],
             \/ Hydrate(d, i) \/ CreateFails(d, i) \/ DryRunCreate(d, i)
             \/ WaitEnds(d, i) \/ WaitFails(d, i)
      PROVE  TurnsInv'
  <2>1. UNCHANGED rvars
    BY <1>3 DEF Hydrate, HydrateWith, CreateFails, DryRunCreate, WaitEnds, WaitEndsOn, WaitFails
  <2>2. \E plan \in Plan \cup {NoPlan}, error \in BOOLEAN : Done(d, i, plan, error)
    <3>1. CASE Hydrate(d, i)
      <4>1. LatestPlan(wks[d][i].id) \in Plan \cup {NoPlan}
        BY Position, LatestPlanType
      <4>. QED
        BY <3>1, <4>1 DEF Hydrate, HydrateWith
    <3>2. CASE \/ CreateFails(d, i) \/ DryRunCreate(d, i)
               \/ WaitEnds(d, i) \/ WaitFails(d, i)
      BY <3>2, ReadPlans
    <3>. QED
      BY <1>3, <3>1, <3>2
  <2>3. \E plan : PositionDone(d, i, plan)
    BY <2>2, DoneEffect
  <2>. QED
    BY <2>1, <2>3, OthersInTurn
<1>4. ASSUME NEW d \in Detectors, NEW i \in todo[d], HydrateFails(d, i) PROVE FALSE
  BY <1>4 DEF HydrateFails, Reliable
<1>5. ASSUME NEW d \in Detectors, NEW i \in todo[d], Create(d, i) PROVE TurnsInv'
  BY <1>5, CreateTurns
<1>6. ASSUME NEW w \in Workspaces, RunProgress(w), UNCHANGED dvars PROVE TurnsInv'
  BY <1>6, RunProgressEffect, StillTurns
<1>7. ASSUME Tick, UNCHANGED dvars PROVE TurnsInv'
  <2>1. \A w \in Workspaces : Len(runs'[w]) = Len(runs[w])
    BY <1>7 DEF Tick
  <2>. QED
    BY <1>7, <2>1, TickAdvances, StillTurns
<1>8. CASE UNCHANGED vars
  <2>1. UNCHANGED rvars /\ UNCHANGED dvars
    BY <1>8 DEF vars, rvars, dvars
  <2>. QED
    BY <2>1, StandStill, RunsStillLengths, StillTurns
<1>. QED
  BY <1>1, <1>2, <1>3, <1>4, <1>5, <1>6, <1>7, <1>8 DEF Next, DetectorStep

\* A step in which d creates a run for w is a turn of d, the turn of w.
LEMMA CreatesIsCreate ==
  ASSUME CycleType, RunsTypeOK, [Next]_vars,
         NEW d \in Detectors, NEW w \in Workspaces, Creates(d, w)
  PROVE  \E i \in todo[d] : Create(d, i) /\ wks[d][i].id = w
<1>1. Len(runs'[w]) > Len(runs[w]) /\ todo'[d] # todo[d] /\ Len(runs[w]) \in Nat
  BY DEF Creates, RunsTypeOK
<1>2. runs' # runs
  BY <1>1
<1>3. ASSUME NEW e \in Detectors, NEW i \in todo[e], Create(e, i)
      PROVE  e = d /\ wks[e][i].id = w
  <2>1. e = d
    <3>1. todo' = [todo EXCEPT ![e] = @ \ {i}]
      BY <1>3 DEF Create, Done
    <3>. QED
      BY <1>1, <3>1 DEF CycleType
  <2>2. wks[e][i].id \in Workspaces /\ CreateRun(wks[e][i].id) /\ UNCHANGED clock
    BY <1>3, Position DEF Create
  <2>3. \A v \in Workspaces : v # wks[e][i].id => runs'[v] = runs[v]
    BY <2>2, CreateRunEffect
  <2>. QED
    BY <1>1, <2>1, <2>3
<1>4. ASSUME NEW e \in Detectors, NEW i \in todo[e],
             \/ Hydrate(e, i) \/ HydrateFails(e, i) \/ CreateFails(e, i)
             \/ DryRunCreate(e, i) \/ WaitEnds(e, i) \/ WaitFails(e, i)
      PROVE  FALSE
  BY <1>2, <1>4 DEF Hydrate, HydrateFails, HydrateWith, CreateFails, DryRunCreate,
                    WaitEnds, WaitEndsOn, WaitFails, rvars
<1>5. ASSUME NEW e \in Detectors,
             \/ Start(e) \/ ListFails(e) \/ Schedule(e) \/ Created(e)
             \/ Report(e) \/ Crash(e)
      PROVE  FALSE
  BY <1>2, <1>5 DEF Start, ListFails, OverUnlisted, Schedule, Created, CreatedIf, Report, Crash, rvars
<1>6. ~UNCHANGED dvars
  BY <1>1 DEF dvars
<1>7. ~UNCHANGED vars
  BY <1>2 DEF vars
<1>. QED
  BY <1>3, <1>4, <1>5, <1>6, <1>7 DEF Next, DetectorStep

(***************************************************************************)
(* "Prioritizing the workspaces with oldest drift detections" (README.md:  *)
(* 188): when a cycle creates a run for w, every workspace it found not    *)
(* queued has had its turn in this cycle or has a run that is no older.    *)
(***************************************************************************)
THEOREM OldestFirstHolds == ASSUME Reliable PROVE Spec => OldestFirst
<1> DEFINE Oldest1 == \A d \in Detectors, w \in Workspaces :
             Creates(d, w) =>
               \A v \in eligible[d] :
                  HadTurn(d, v) \/ LastAt(LatestPlan(v)) >= LastAt(LatestPlan(w))
<1>1. TypeOK /\ TurnsInv /\ [Next]_vars => [Oldest1]_vars
  <2> SUFFICES ASSUME TypeOK, TurnsInv, [Next]_vars,
                      NEW d \in Detectors, NEW w \in Workspaces, Creates(d, w),
                      NEW v \in eligible[d], ~HadTurn(d, v)
               PROVE  LastTime(v) >= LastTime(w)
    BY DEF LastTime
  <2>1. RunsTypeOK /\ CycleType
    BY TypeParts
  <2>2. PICK i \in todo[d] : Create(d, i) /\ wks[d][i].id = w
    BY <2>1, CreatesIsCreate
  <2>3. d \notin DryRun /\ pc[d] = "create" /\ \A j \in todo[d] : i <= j
    BY <2>2 DEF Create, Creating
  <2>4. todo[d] \subseteq DOMAIN wks[d] /\ DOMAIN wks[d] \subseteq Nat
    BY <2>1 DEF CycleType
  <2>5. ~PlacedBefore(d, v, i)
    <3>1. ASSUME NEW j \in DOMAIN wks[d], j < i, wks[d][j].id = v PROVE FALSE
      <4>1. j \notin todo[d]
        BY <2>3, <2>4, <3>1
      <4>. QED
        BY <3>1, <4>1 DEF HadTurn
    <3>. QED
      BY <3>1 DEF PlacedBefore
  <2>. QED
    BY <2>2, <2>3, <2>5 DEF TurnsInv, InTurn
<1>2. TypeOK /\ KnowledgeInv /\ TurnsInv /\ [Next]_vars => TurnsInv'
  BY TypeParts, TurnsNext
<1>3. Init => TurnsInv
  BY TurnsInit
<1>4. Spec => []TurnsInv
  BY <1>2, <1>3, Knowledge, PTL DEF Spec
<1>. QED
  BY <1>1, <1>4, Knowledge, PTL DEF Spec, OldestFirst
-----------------------------------------------------------------------------
(* Cycles that logged no error.                                             *)

(***************************************************************************)
(* The inductive invariant: SureInv, and that a cycle has each workspace   *)
(* once, so that a run it creates is news of one position only.            *)
(***************************************************************************)
CleanInv ==
  \A d \in Detectors :
    /\ DifferentIDs(wks[d])
    /\ Alone(d) /\ ~trouble[d] =>
         \A i \in DOMAIN wks[d] : Sure(pc[d], i \notin todo[d], wks[d][i])

LEMMA SureStays ==
  ASSUME RunsTypeOK, RunsTypeOK', Advance, NEW p, NEW done, NEW wk \in Working,
         OwnRun(wk), Len(runs'[wk.id]) = Len(runs[wk.id]), Sure(p, done, wk)
  PROVE  Sure(p, done, wk)'
<1> DEFINE w == wk.id
<1>1. w \in Workspaces
  BY DEF Working
<1>2. /\ runs[w] = << >> <=> runs'[w] = << >>
      /\ runs[w] # << >> /\ Ended(runs[w][Len(runs[w])]) =>
           runs'[w][Len(runs'[w])] = runs[w][Len(runs[w])]
  BY <1>1, NewestStays
<1>3. Reflects(wk) => Reflects(wk)'
  BY <1>1, ReflectsStays
<1>4. LastEnded(w) => LastEnded(w)'
  BY <1>2 DEF LastEnded, Ended
<1>5. IsNewest(wk) => IsNewest(wk)'
  BY DEF IsNewest
<1>6. IsNewest(wk) /\ IsFinal(wk) => IsFinal(wk)'
  <2>1. IsNewest(wk) => runs[w] # << >>
    BY DEF IsNewest, OwnRun
  <2>. QED
    BY <1>2, <2>1 DEF IsFinal, Ended
<1>. QED
  BY <1>3, <1>4, <1>5, <1>6 DEF Sure

\* Detector d does nothing in the step, or nothing that is seen here.
LEMMA SureStill ==
  ASSUME CycleType, RunsTypeOK, RunsTypeOK', Advance, CleanInv, NEW d \in Detectors,
         pc'[d] = pc[d], wks'[d] = wks[d], todo'[d] = todo[d], trouble'[d] = trouble[d],
         \A w \in Workspaces : Len(runs'[w]) = Len(runs[w])
  PROVE  /\ DifferentIDs(wks'[d])
         /\ Alone(d) /\ ~trouble'[d] =>
              \A i \in DOMAIN wks'[d] : Sure(pc[d], i \notin todo[d], wks[d][i])'
<1>1. DifferentIDs(wks[d])
  BY DEF CleanInv
<1>2. ASSUME Alone(d), ~trouble[d], NEW i \in DOMAIN wks[d]
      PROVE  Sure(pc[d], i \notin todo[d], wks[d][i])'
  <2>1. Sure(pc[d], i \notin todo[d], wks[d][i])
    BY <1>2 DEF CleanInv
  <2>2. wks[d][i] \in Working /\ wks[d][i].id \in Workspaces /\ OwnRun(wks[d][i])
    <3>1. wks[d] \in Seq(Working) /\ OwnRun(wks[d][i])
      BY <1>2 DEF CycleType, GoodList
    <3>2. wks[d][i] \in Working
      BY <1>2, <3>1
    <3>. QED
      BY <3>1, <3>2 DEF Working
  <2>3. PICK p, done, wk : p = pc[d] /\ done = (i \notin todo[d]) /\ wk = wks[d][i]
    OBVIOUS
  <2>4. Sure(p, done, wk)'
    BY <2>1, <2>2, <2>3, SureStays
  <2>5. /\ pc'[d] = p /\ wks'[d][i] = wk /\ (i \notin todo'[d]) = done
    BY <2>3
  <2>. QED
    BY <2>4, <2>5 DEF Sure, Reflects, IsNewest, LastEnded, IsFinal
<1>. QED
  BY <1>1, <1>2

LEMMA EnterSure ==
  ASSUME CycleType, RunsTypeOK, UNCHANGED rvars, CleanInv,
         NEW d \in Detectors, NEW p, NEW list, Enter(d, p, list), DifferentIDs(list),
         \A e \in Detectors : e # d => trouble'[e] = trouble[e],
         Alone(d) /\ ~trouble'[d] => \A k \in DOMAIN list : Sure(p, FALSE, list[k])
  PROVE  CleanInv'
<1>1. RunsTypeOK' /\ Advance /\ \A w \in Workspaces : Len(runs'[w]) = Len(runs[w])
  BY StandStill, RunsStillLengths
<1>2. /\ pc'[d] = p /\ wks'[d] = list /\ todo'[d] = DOMAIN list
      /\ \A e \in Detectors : e # d =>
           pc'[e] = pc[e] /\ wks'[e] = wks[e] /\ todo'[e] = todo[e]
  BY DEF Enter, CycleType
<1>3. ASSUME NEW e \in Detectors
      PROVE  /\ DifferentIDs(wks'[e])
             /\ Alone(e) /\ ~trouble'[e] =>
                  \A i \in DOMAIN wks'[e] : Sure(pc[e], i \notin todo[e], wks[e][i])'
  <2>1. CASE e # d
    BY <1>1, <1>2, <2>1, SureStill
  <2>2. CASE e = d
    <3>1. ASSUME Alone(d), ~trouble'[d], NEW i \in DOMAIN list
          PROVE  Sure(pc[d], i \notin todo[d], wks[d][i])'
      <4>1. Sure(p, FALSE, list[i]) /\ runs' = runs
        BY <3>1 DEF rvars
      <4>. QED
        BY <1>2, <3>1, <4>1 DEF Sure, Reflects, IsNewest, LastEnded, IsFinal, Ended
    <3>. QED
      BY <1>2, <2>2, <3>1
  <2>. QED
    BY <2>1, <2>2
<1>. QED
  BY <1>3 DEF CleanInv, DifferentIDs, Alone

LEMMA OverSure ==
  ASSUME CycleType, RunsTypeOK, UNCHANGED rvars, CleanInv,
         NEW d \in Detectors, NEW code, Over(d, code)
  PROVE  CleanInv'
<1>1. /\ Enter(d, "idle", << >>)
      /\ \A e \in Detectors : e # d => trouble'[e] = trouble[e]
  BY DEF Over, CycleType
<1>2. DifferentIDs(<< >>) /\ DOMAIN << >> = {}
  BY DEF DifferentIDs
<1>. QED
  BY <1>1, <1>2, EnterSure

\* Position i of detector d is done, and Terraform Cloud is left alone.
LEMMA DoneSure ==
  ASSUME CycleType, RunsTypeOK, UNCHANGED rvars, CleanInv,
         NEW d \in Detectors, NEW i \in todo[d],
         NEW plan \in Plan \cup {NoPlan}, NEW error \in BOOLEAN,
         Done(d, i, plan, error),
         Alone(d) /\ ~trouble[d] /\ ~error =>
           \A wk : wk.id = wks[d][i].id /\ wk.plan = plan => Sure(pc[d], TRUE, wk)
  PROVE  CleanInv'
<1>1. RunsTypeOK' /\ Advance /\ \A w \in Workspaces : Len(runs'[w]) = Len(runs[w])
  BY StandStill, RunsStillLengths
<1>2. PositionDone(d, i, plan)
  BY DoneEffect
<1>3. runs' = runs /\ pc' = pc
  BY <1>2 DEF rvars, PositionDone
<1>4. /\ todo'[d] = todo[d] \ {i} /\ i \in DOMAIN wks[d]
      /\ trouble'[d] = (trouble[d] \/ error)
  BY <1>2 DEF PositionDone, CycleType, Done
<1>5. ASSUME NEW e \in Detectors
      PROVE  /\ DifferentIDs(wks'[e])
             /\ Alone(e) /\ ~trouble'[e] =>
                  \A j \in DOMAIN wks'[e] : Sure(pc[e], j \notin todo[e], wks[e][j])'
  <2>1. CASE e # d
    <3>1. /\ pc'[e] = pc[e] /\ wks'[e] = wks[e] /\ todo'[e] = todo[e]
          /\ trouble'[e] = trouble[e]
      BY <1>2, <2>1 DEF PositionDone, CycleType
    <3>. QED
      BY <1>1, <3>1, SureStill
  <2>2. CASE e = d
    <3>1. DifferentIDs(wks'[d])
      BY <1>2 DEF CleanInv, DifferentIDs, PositionDone
    <3>2. ASSUME Alone(d), ~trouble'[d], NEW j \in DOMAIN wks'[d]
          PROVE  Sure(pc[d], j \notin todo[d], wks[d][j])'
      <4>1. ~trouble[d] /\ ~error /\ j \in DOMAIN wks[d]
        BY <1>2, <1>4, <3>2 DEF PositionDone
      <4>2. CASE j = i
        <5>1. wks'[d][i].id = wks[d][i].id /\ wks'[d][i].plan = plan
          BY <1>2, <1>4 DEF PositionDone
        <5>2. Sure(pc[d], TRUE, wks'[d][i])
          BY <3>2, <4>1, <5>1
        <5>. QED
          BY <1>3, <1>4, <4>2, <5>2 DEF Sure, Reflects, IsNewest, LastEnded, IsFinal, Ended
      <4>3. CASE j # i
        <5>1. wks'[d][j] = wks[d][j] /\ (j \notin todo'[d]) = (j \notin todo[d])
          BY <1>2, <1>4, <4>1, <4>3 DEF PositionDone
        <5>2. Sure(pc[d], j \notin todo[d], wks[d][j])
          BY <3>2, <4>1 DEF CleanInv
        <5>. QED
          BY <1>3, <5>1, <5>2 DEF Sure, Reflects, IsNewest, LastEnded, IsFinal, Ended
      <4>. QED
        BY <4>2, <4>3
    <3>. QED
      BY <2>2, <3>1, <3>2
  <2>. QED
    BY <2>1, <2>2
<1>. QED
  BY <1>5 DEF CleanInv, DifferentIDs, Alone

\* The filter of queued workspaces looks at the newest run.
LEMMA ScheduleSure ==
  ASSUME CycleType, RunsTypeOK, CleanInv, NEW d \in Detectors, Schedule(d)
  PROVE  CleanInv'
<1> DEFINE list == Chosen(Due(wks[d]))
<1>1. /\ UNCHANGED rvars /\ Enter(d, "create", list) /\ pc[d] = "hydrate" /\ todo[d] = {}
      /\ trouble' = trouble
  BY DEF Schedule, rvars
<1>2. wks[d] \in Seq(Working) /\ DifferentIDs(wks[d])
  BY DEF CycleType, CleanInv
<1>3. /\ list \in Seq(Working) /\ Selection(list, wks[d])
      /\ \A k \in DOMAIN list : ~Queued(list[k])
  BY <1>2, ChosenList
<1> HIDE DEF list
<1>4. DifferentIDs(list)
  BY <1>2, <1>3, SelectionIDs
<1>5. ASSUME Alone(d), ~trouble[d], NEW k \in DOMAIN list
      PROVE  Sure("create", FALSE, list[k])
  <2>1. PICK i \in DOMAIN wks[d] : list[k] = wks[d][i]
    BY <1>3, SelectionMembers
  <2>2. Sure("hydrate", TRUE, list[k])
    BY <1>1, <1>5, <2>1 DEF CleanInv
  <2>3. LastEnded(list[k].id)
    BY <1>3, <2>2 DEF Sure, Reflects, Queued, LastEnded
  <2>. QED
    BY <2>3 DEF Sure
<1>. QED
  BY <1>1, <1>4, <1>5, EnterSure

LEMMA HydrateSure ==
  ASSUME ListedStatuses, CycleType, RunsTypeOK, CleanInv,
         NEW d \in Detectors, NEW i \in todo[d], Hydrate(d, i) \/ HydrateFails(d, i)
  PROVE  CleanInv'
<1> DEFINE plan == LatestPlan(wks[d][i].id)
<1>1. UNCHANGED rvars /\ pc[d] = "hydrate"
  BY DEF Hydrate, HydrateFails, HydrateWith
<1>2. CASE HydrateFails(d, i)
  BY <1>1, <1>2, DoneSure DEF HydrateFails, HydrateWith
<1>3. CASE Hydrate(d, i)
  <2>1. wks[d][i].id \in Workspaces /\ plan \in Plan \cup {NoPlan}
    BY Position, LatestPlanType
  <2>2. \A wk : wk.id = wks[d][i].id /\ wk.plan = plan => Reflects(wk)
    BY <2>1, LatestReflects
  <2>3. \A wk : wk.id = wks[d][i].id /\ wk.plan = plan => Sure(pc[d], TRUE, wk)
    BY <1>1, <2>2 DEF Sure
  <2>4. Done(d, i, plan, FALSE)
    BY <1>3 DEF Hydrate, HydrateWith
  <2> HIDE DEF plan
  <2>. QED
    BY <1>1, <2>1, <2>3, <2>4, DoneSure
<1>. QED
  BY <1>2, <1>3

\* A run that is created is the newest of its workspace, and nobody else's.
LEMMA CreateSure ==
  ASSUME CycleType, RunsTypeOK, CleanInv,
         NEW d \in Detectors, NEW i \in todo[d], Create(d, i)
  PROVE  CleanInv'
<1> DEFINE w == wks[d][i].id
           n == Len(runs[w])
           new == mapPlanTFE2Model(n + 1, NewRun)
<1>1. w \in Workspaces /\ wks[d][i].plan \in Plan \cup {NoPlan} /\ i \in DOMAIN wks[d]
  BY Position
<1>2. CreateRun(w) /\ clock' = clock /\ pc[d] = "create" /\ d \notin DryRun
  BY DEF Create, Creating
<1>3. /\ Advance /\ Len(runs'[w]) = n + 1
      /\ \A v \in Workspaces : v # w => runs'[v] = runs[v]
      /\ RunsTypeOK'
  BY <1>1, <1>2, CreateRunEffect
<1>4. n \in Nat /\ NewRun \in Run
  <2>1. runs[w] \in Seq(Run)
    BY <1>1 DEF RunsTypeOK
  <2>. QED
    BY <2>1, NewRunIsRun DEF RunsTypeOK
<1>5. new \in Plan /\ new # NoPlan /\ new.id = n + 1
  <2>1. n + 1 \in Nat
    BY <1>4
  <2>. QED
    BY <1>4, <2>1, PlanMapped, Zenon
<1> HIDE DEF new
<1>6. PICK plan \in Plan \cup {NoPlan}, error \in BOOLEAN :
        Done(d, i, plan, error) /\ (~error => plan = new)
  BY <1>1, <1>5 DEF Create, new
<1>7. PositionDone(d, i, plan)
  BY <1>6, DoneEffect
<1>8. /\ todo'[d] = todo[d] \ {i} /\ trouble'[d] = (trouble[d] \/ error) /\ pc'[d] = "create"
  BY <1>2, <1>6, <1>7 DEF PositionDone, CycleType, Done
<1>9. \A e \in Detectors : DifferentIDs(wks'[e])
  <2> TAKE e \in Detectors
  <2>1. DifferentIDs(wks[e])
    BY DEF CleanInv
  <2>2. \/ e # d /\ wks'[e] = wks[e]
        \/ /\ DOMAIN wks'[e] = DOMAIN wks[e]
           /\ \A j \in DOMAIN wks[e] : wks'[e][j].id = wks[e][j].id
    BY <1>7 DEF PositionDone
  <2>. QED
    BY <2>1, <2>2 DEF DifferentIDs
<1>10. ASSUME Alone(d), ~trouble'[d], NEW j \in DOMAIN wks'[d]
       PROVE  Sure(pc[d], j \notin todo[d], wks[d][j])'
  <2>1. ~trouble[d] /\ ~error /\ j \in DOMAIN wks[d] /\ plan = new
    BY <1>6, <1>7, <1>8, <1>10 DEF PositionDone
  <2>2. CASE j = i
    <3>1. /\ wks'[d][j].id = w /\ wks'[d][j].plan = new
      BY <1>1, <1>7, <2>1, <2>2 DEF PositionDone
    <3>2. IsNewest(wks[d][j])'
      BY <1>3, <1>5, <3>1 DEF IsNewest
    <3>. QED
      BY <1>8, <2>2, <3>2 DEF Sure
  <2>3. CASE j # i
    <3>1. /\ wks'[d][j] = wks[d][j] /\ (j \notin todo'[d]) = (j \notin todo[d])
      BY <1>7, <1>8, <2>1, <2>3 DEF PositionDone
    <3>2. Sure(pc[d], j \notin todo[d], wks[d][j])
      BY <1>10, <2>1 DEF CleanInv
    <3>3. wks[d][j] \in Working /\ wks[d][j].id \in Workspaces
      <4>1. wks[d] \in Seq(Working)
        BY DEF CycleType
      <4>2. wks[d][j] \in Working
        BY <2>1, <4>1
      <4>. QED
        BY <4>2 DEF Working
    <3>4. wks[d][j].id # w
      BY <1>1, <2>1, <2>3 DEF CleanInv, DifferentIDs
    <3>5. PICK v : v = wks[d][j].id
      OBVIOUS
    <3>6. runs'[v] = runs[v] /\ wks'[d][j].id = v
      BY <1>3, <3>1, <3>3, <3>4, <3>5
    <3>. QED
      BY <1>2, <1>8, <3>1, <3>2, <3>5, <3>6 DEF Sure, IsNewest, LastEnded, Ended
  <2>. QED
    BY <2>2, <2>3
<1>11. \A e \in Detectors : e # d => ~Alone(e)
  BY <1>2 DEF Alone
<1>. QED
  BY <1>9, <1>10, <1>11 DEF CleanInv, DifferentIDs, Alone

LEMMA CreateReadSure ==
  ASSUME CycleType, RunsTypeOK, CleanInv, NEW d \in Detectors, NEW i \in todo[d],
         \/ CreateFails(d, i) \/ DryRunCreate(d, i) \/ WaitFails(d, i)
  PROVE  CleanInv'
<1> DEFINE w == wks[d][i].id
           latest == LatestPlan(w)
<1>1. UNCHANGED rvars
  BY DEF CreateFails, DryRunCreate, WaitFails
<1>2. /\ wks[d][i].plan \in Plan \cup {NoPlan} /\ w \in Workspaces
      /\ latest \in Plan \cup {NoPlan}
  BY Position, LatestPlanType
<1>3. latest # NoPlan => latest.id = Len(runs[w])
  <2>1. runs[w] \in Seq(Run)
    BY <1>2 DEF RunsTypeOK
  <2>2. runs[w] # << >> => Len(runs[w]) \in Nat /\ runs[w][Len(runs[w])] \in Run
    BY <2>1
  <2>. QED
    BY <2>2, PlanMapped DEF LatestPlan
<1> HIDE DEF latest
<1>4. \/ Done(d, i, wks[d][i].plan, TRUE)
      \/ pc[d] = "create" /\ latest # NoPlan /\ Done(d, i, latest, FALSE)
  BY DEF CreateFails, DryRunCreate, WaitFails, Creating, latest
<1>5. CASE Done(d, i, wks[d][i].plan, TRUE)
  BY <1>1, <1>2, <1>5, DoneSure
<1>6. CASE pc[d] = "create" /\ latest # NoPlan /\ Done(d, i, latest, FALSE)
  <2>1. \A wk : wk.id = w /\ wk.plan = latest => Sure(pc[d], TRUE, wk)
    BY <1>3, <1>6 DEF Sure, IsNewest
  <2>. QED
    BY <1>1, <1>2, <1>6, <2>1, DoneSure
<1>. QED
  BY <1>4, <1>5, <1>6

\* A waiter sees the newest run not waiting any more: it has ended.
LEMMA WaitSure ==
  ASSUME ListedStatuses, CycleType, RunsTypeOK, CleanInv,
         NEW d \in Detectors, NEW i \in todo[d], WaitEnds(d, i)
  PROVE  CleanInv'
<1> DEFINE w == wks[d][i].id
<1>1. UNCHANGED rvars /\ pc[d] = "wait"
  BY DEF WaitEnds, WaitEndsOn
<1>2. PICK plan \in Plan \cup {NoPlan} :
        /\ Done(d, i, plan, FALSE)
        /\ wks[d][i].plan # NoPlan => plan = ReadPlan(d, i) /\ plan.status # "Waiting"
  <2>1. CASE wks[d][i].plan = NoPlan
    BY <2>1 DEF WaitEnds, WaitEndsOn
  <2>2. CASE wks[d][i].plan # NoPlan
    <3>1. Done(d, i, ReadPlan(d, i), FALSE) /\ ReadPlan(d, i).status # "Waiting"
      BY <2>2 DEF WaitEnds, WaitEndsOn
    <3>2. ReadPlan(d, i) \in Plan \cup {NoPlan}
      <4>1. /\ wks[d][i].plan.id \in DOMAIN runs[w] /\ w \in Workspaces
            /\ wks[d][i].plan \in Plan
        BY <2>2, Position
      <4>2. runs[w][wks[d][i].plan.id] \in Run /\ wks[d][i].plan.id \in Nat
        BY <4>1 DEF RunsTypeOK, Plan
      <4>. QED
        BY <4>2, PlanMapped DEF ReadPlan
    <3>. QED
      BY <3>1, <3>2
  <2>. QED
    BY <2>1, <2>2
<1>3. ASSUME Alone(d), ~trouble[d], NEW wk, wk.id = w, wk.plan = plan
      PROVE  Sure(pc[d], TRUE, wk)
  <2> DEFINE last == runs[w][Len(runs[w])]
  <2>1. IsNewest(wks[d][i]) /\ w \in Workspaces
    <3>1. i \in DOMAIN wks[d] /\ w \in Workspaces
      BY Position
    <3>2. Sure(pc[d], i \notin todo[d], wks[d][i])
      BY <1>3, <3>1 DEF CleanInv
    <3>. QED
      BY <1>1, <3>1, <3>2 DEF Sure
  <2>2. Len(runs[w]) \in DOMAIN runs[w]
    BY <2>1, Position DEF IsNewest
  <2>3. Len(runs[w]) \in Nat /\ last \in Run
    BY <2>1, <2>2 DEF RunsTypeOK
  <2>4. plan = mapPlanTFE2Model(Len(runs[w]), last) /\ plan.status # "Waiting"
    BY <1>2, <2>1 DEF IsNewest, ReadPlan
  <2> HIDE DEF last
  <2>5. /\ plan # NoPlan /\ plan.id = Len(runs[w])
        /\ plan.status = mapTFEStatus2Model(last.status)
    BY <2>3, <2>4, PlanMapped
  <2>6. Ended(last)
    BY <2>3, <2>4, <2>5, NotWaitingEnded
  <2>. QED
    BY <1>1, <1>3, <2>4, <2>5, <2>6 DEF Sure, IsNewest, IsFinal, last
<1>. QED
  BY <1>1, <1>2, <1>3, DoneSure

LEMMA StillSure ==
  ASSUME CycleType, RunsTypeOK, RunsTypeOK', Advance, CleanInv, UNCHANGED dvars,
         \A w \in Workspaces : Len(runs'[w]) = Len(runs[w])
  PROVE  CleanInv'
<1>1. pc' = pc /\ wks' = wks /\ todo' = todo /\ trouble' = trouble
  BY DEF dvars
<1>2. ASSUME NEW d \in Detectors
      PROVE  /\ DifferentIDs(wks'[d])
             /\ Alone(d) /\ ~trouble'[d] =>
                  \A i \in DOMAIN wks'[d] : Sure(pc[d], i \notin todo[d], wks[d][i])'
  BY <1>1, SureStill
<1>. QED
  BY <1>2 DEF CleanInv, DifferentIDs, Alone

LEMMA CleanNext ==
  ASSUME ListedStatuses, CycleType, RunsTypeOK, CleanInv, [Next]_vars
  PROVE  CleanInv'
<1>1. ASSUME NEW d \in Detectors, Start(d) PROVE CleanInv'
  <2>1. PICK list \in Listings :
          \/ OverUnlisted(d)
          \/ Enter(d, "hydrate", Named(list)) /\ trouble' = trouble
    BY <1>1 DEF Start
  <2>2. DifferentIDs(Named(list)) /\ UNCHANGED rvars
    BY <1>1, NamedList DEF Start
  <2>3. \A wk : Sure("hydrate", FALSE, wk)
    BY DEF Sure
  <2>. QED
    BY <2>1, <2>2, <2>3, OverSure, EnterSure DEF OverUnlisted
<1>2. ASSUME NEW d \in Detectors, ListFails(d) \/ Report(d) \/ Crash(d)
      PROVE  CleanInv'
  <2>1. UNCHANGED rvars /\ \E code : Over(d, code)
    BY <1>2 DEF ListFails, OverUnlisted, Report, Crash, rvars
  <2>. QED
    BY <2>1, OverSure
<1>3. ASSUME NEW d \in Detectors, Schedule(d) PROVE CleanInv'
  BY <1>3, ScheduleSure
<1>4. ASSUME NEW d \in Detectors, Created(d) PROVE CleanInv'
  <2>1. /\ UNCHANGED rvars /\ Enter(d, "wait", wks[d]) /\ trouble' = trouble
        /\ pc[d] = "create" /\ todo[d] = {}
    BY <1>4 DEF Created, CreatedIf, rvars
  <2>2. DifferentIDs(wks[d])
    BY DEF CleanInv
  <2>3. ASSUME Alone(d), ~trouble[d], NEW k \in DOMAIN wks[d]
        PROVE  Sure("wait", FALSE, wks[d][k])
    <3>1. Sure("create", TRUE, wks[d][k])
      BY <2>1, <2>3 DEF CleanInv
    <3>. QED
      BY <3>1 DEF Sure
  <2>. QED
    BY <2>1, <2>2, <2>3, EnterSure
<1>5. ASSUME NEW d \in Detectors, NEW i \in todo[d], Hydrate(d, i) \/ HydrateFails(d, i)
      PROVE  CleanInv'
  BY <1>5, HydrateSure
<1>6. ASSUME NEW d \in Detectors, NEW i \in todo[d], Create(d, i) PROVE CleanInv'
  BY <1>6, CreateSure
<1>7. ASSUME NEW d \in Detectors, NEW i \in todo[d],
             CreateFails(d, i) \/ DryRunCreate(d, i) \/ WaitFails(d, i)
      PROVE  CleanInv'
  BY <1>7, CreateReadSure
<1>8. ASSUME NEW d \in Detectors, NEW i \in todo[d], WaitEnds(d, i) PROVE CleanInv'
  BY <1>8, WaitSure
<1>9. ASSUME NEW w \in Workspaces, RunProgress(w), UNCHANGED dvars PROVE CleanInv'
  BY <1>9, RunProgressEffect, StillSure
<1>10. ASSUME Tick, UNCHANGED dvars PROVE CleanInv'
  <2>1. \A w \in Workspaces : Len(runs'[w]) = Len(runs[w])
    BY <1>10 DEF Tick
  <2>. QED
    BY <1>10, <2>1, TickAdvances, StillSure
<1>11. CASE UNCHANGED vars
  <2>1. UNCHANGED rvars /\ UNCHANGED dvars
    BY <1>11 DEF vars, rvars, dvars
  <2>. QED
    BY <2>1, StandStill, RunsStillLengths, StillSure
<1>. QED
  BY <1>1, <1>2, <1>3, <1>4, <1>5, <1>6, <1>7, <1>8, <1>9, <1>10, <1>11
     DEF Next, DetectorStep

LEMMA CleanAlways == ASSUME ListedStatuses PROVE Spec => [](TypeOK /\ CleanInv)
<1>1. Init => CleanInv
  BY DEF Init, CleanInv, DifferentIDs
<1>2. TypeOK /\ CleanInv /\ [Next]_vars => CleanInv'
  BY TypeParts, CleanNext
<1>. QED
  BY <1>1, <1>2, TypeCorrect, PTL DEF Spec

(***************************************************************************)
(* Whatever fails: a cycle that has logged no error, of a detector beside  *)
(* which no other creates runs, is right about the newest run of each of   *)
(* its workspaces.                                                         *)
(***************************************************************************)
THEOREM SureStaysSure == ASSUME ListedStatuses PROVE Spec => []SureInv
<1>1. TypeOK /\ CleanInv => SureInv
  BY DEF CleanInv, SureInv
<1>2. Spec => [](TypeOK /\ CleanInv)
  BY CleanAlways
<1>. QED
  BY <1>1, <1>2, PTL

(***************************************************************************)
(* What is left of "don't run already running/queued" (README.md:186) when *)
(* fetches fail: as long as a cycle has logged no error it adds no run on  *)
(* top of one that is queued or running.                                   *)
(***************************************************************************)
THEOREM NoErrorNoSecondRunHolds ==
  ASSUME ListedStatuses, \A d \in Detectors \ DryRun : Alone(d)
  PROVE  Spec => NoErrorNoSecondRun
<1> DEFINE Fresh == \A d \in Detectors, w \in Workspaces :
             (Creates(d, w) /\ ~trouble[d]) => LastEnded(w)
<1>1. TypeOK /\ CleanInv /\ [Next]_vars => [Fresh]_vars
  <2> SUFFICES ASSUME TypeOK, CleanInv, [Next]_vars,
                      NEW d \in Detectors, NEW w \in Workspaces,
                      Creates(d, w), ~trouble[d]
               PROVE  LastEnded(w)
    OBVIOUS
  <2>1. RunsTypeOK /\ CycleType
    BY TypeParts
  <2>2. PICK i \in todo[d] : Create(d, i) /\ wks[d][i].id = w
    BY <2>1, CreatesIsCreate
  <2>3. d \notin DryRun /\ pc[d] = "create" /\ i \in DOMAIN wks[d]
    BY <2>1, <2>2 DEF Create, Creating, CycleType
  <2>4. Sure(pc[d], i \notin todo[d], wks[d][i])
    BY <2>3 DEF CleanInv
  <2>. QED
    BY <2>2, <2>3, <2>4 DEF Sure
<1>2. Spec => [](TypeOK /\ CleanInv)
  BY CleanAlways
<1>. QED
  BY <1>1, <1>2, PTL DEF Spec, NoErrorNoSecondRun

\* What a plan says of the run it was mapped from, once that has ended.
LEMMA PlanTells ==
  ASSUME NEW n \in Nat, NEW run \in Run, Ended(run)
  PROVE  LET plan == mapPlanTFE2Model(n, run)
         IN  /\ plan.hasChanges = run.hasChanges
             /\ plan.status = "FinishedNotOK" <=> run.status # "planned_and_finished"
<1>1. run.status \in RunsFinishedOK \cup RunsFinishedNotOK
  BY DEF Ended
<1>2. ASSUME run.status \in RunsFinishedOK
      PROVE  mapTFEStatus2Model(run.status) = "FinishedOK" /\ run.status = "planned_and_finished"
  BY <1>2 DEF mapTFEStatus2Model, RunsFinishedOK, RunsFinishedNotOK, RunsWaiting
<1>3. ASSUME run.status \in RunsFinishedNotOK
      PROVE  /\ mapTFEStatus2Model(run.status) = "FinishedNotOK"
             /\ run.status # "planned_and_finished"
  BY <1>3 DEF mapTFEStatus2Model, RunsFinishedOK, RunsFinishedNotOK, RunsWaiting
<1>4. mapPlanTFE2Model(n, run).hasChanges = run.hasChanges
  BY DEF mapPlanTFE2Model
<1>. QED
  BY <1>1, <1>2, <1>3, <1>4, PlanMapped

\* The exit code of a list of final plans is the verdict on their runs.
LEMMA FinalVerdict ==
  ASSUME RunsTypeOK, CycleType, NEW d \in Detectors,
         \A i \in DOMAIN wks[d] : IsNewest(wks[d][i]) /\ IsFinal(wks[d][i])
  PROVE  ExitCode(wks[d], FALSE) = Verdict(LastRuns(d))
<1> DEFINE Last(i) == runs[wks[d][i].id][Len(runs[wks[d][i].id])]
<1>1. LastRuns(d) = {Last(i) : i \in DOMAIN wks[d]}
  BY DEF LastRuns, Planned, IsNewest
<1>2. ASSUME NEW i \in DOMAIN wks[d]
      PROVE  /\ Drifted(wks[d][i]) <=> Last(i).hasChanges
             /\ PlanFailed(wks[d][i]) <=> Last(i).status # "planned_and_finished"
  <2> DEFINE w == wks[d][i].id
  <2>1. wks[d][i] \in Working /\ OwnRun(wks[d][i]) /\ wks[d][i].plan # NoPlan
    BY DEF CycleType, GoodList, IsNewest
  <2>2. w \in Workspaces /\ Len(runs[w]) \in DOMAIN runs[w]
    BY <2>1 DEF Working, OwnRun, IsNewest
  <2>3. Len(runs[w]) \in Nat /\ Last(i) \in Run
    BY <2>2 DEF RunsTypeOK
  <2>4. Ended(Last(i)) /\ wks[d][i].plan = mapPlanTFE2Model(Len(runs[w]), Last(i))
    BY DEF IsFinal
  <2> HIDE DEF Last
  <2>. QED
    BY <2>1, <2>3, <2>4, PlanTells DEF Drifted, PlanFailed
<1>3. (\E r \in LastRuns(d) : r.hasChanges) <=> \E i \in DOMAIN wks[d] : Drifted(wks[d][i])
  BY <1>1, <1>2
<1>4. (\E r \in LastRuns(d) : r.status # "planned_and_finished")
        <=> \E i \in DOMAIN wks[d] : PlanFailed(wks[d][i])
  BY <1>1, <1>2
<1>. QED
  BY <1>3, <1>4 DEF ExitCode, Verdict

\* A step that ends a waiting cycle with an exit code is its report.
LEMMA EndsByReport ==
  ASSUME CycleType, [Next]_vars, NEW d \in Detectors,
         pc[d] = "wait", pc'[d] = "idle", exit'[d] # NoExit
  PROVE  Report(d)
<1>1. pc' # pc
  OBVIOUS
<1>2. ASSUME NEW e \in Detectors, NEW p, NEW list, Enter(e, p, list) PROVE e = d
  BY <1>2 DEF Enter, CycleType
<1>3. ASSUME NEW e \in Detectors, Start(e) \/ ListFails(e) PROVE FALSE
  <2>1. pc[e] = "idle" /\ \E p, list : Enter(e, p, list)
    BY <1>3 DEF Start, ListFails, OverUnlisted, Over
  <2>. QED
    BY <1>2, <2>1
<1>4. ASSUME NEW e \in Detectors, Schedule(e) \/ Created(e) PROVE FALSE
  <2>1. \E p, list : p # "idle" /\ Enter(e, p, list)
    BY <1>4 DEF Schedule, Created, CreatedIf
  <2>. QED
    BY <1>2, <2>1 DEF Enter, CycleType
<1>5. ASSUME NEW e \in Detectors, Crash(e) PROVE FALSE
  <2>1. Over(e, NoExit) /\ e = d
    BY <1>2, <1>5 DEF Crash, Over
  <2>. QED
    BY <2>1 DEF Over, CycleType
<1>6. ASSUME NEW e \in Detectors, Report(e) PROVE e = d
  BY <1>2, <1>6 DEF Report, Over
<1>7. ASSUME NEW e \in Detectors, NEW i \in todo[e],
             \/ Hydrate(e, i) \/ HydrateFails(e, i) \/ Create(e, i)
             \/ CreateFails(e, i) \/ DryRunCreate(e, i)
             \/ WaitEnds(e, i) \/ WaitFails(e, i)
      PROVE  FALSE
  BY <1>1, <1>7 DEF Hydrate, HydrateFails, HydrateWith, Create, CreateFails, DryRunCreate,
                    WaitEnds, WaitEndsOn, WaitFails, Done
<1>8. ~UNCHANGED dvars /\ ~UNCHANGED vars
  BY <1>1 DEF dvars, vars
<1>. QED
  BY <1>3, <1>4, <1>5, <1>6, <1>7, <1>8 DEF Next, DetectorStep

(***************************************************************************)
(* "0: If everything is as it should.  2: If there was any drift.  3: If   *)
(* there was any error on a drift detection plan" (README.md:232), of the  *)
(* runs as they are in Terraform Cloud when a cycle that logged no error   *)
(* reports: it has neither missed a run nor read one too early.  The code  *)
(* can only be another one, 1, when the JSON result could not be written.  *)
(***************************************************************************)
THEOREM CleanVerdictHolds ==
  ASSUME ListedStatuses, \A d \in Detectors \ (Controllers \cup Quiet) : Alone(d)
  PROVE  Spec => CleanVerdict
<1> DEFINE Clean == \A d \in Detectors \ (Controllers \cup Quiet) :
             (Reports(d) /\ ~trouble[d]) =>
                \/ exit'[d] = Verdict(LastRuns(d))
                \/ "output" \in Faults /\ exit'[d] = 1
<1>1. TypeOK /\ CleanInv /\ [Next]_vars => [Clean]_vars
  <2> SUFFICES ASSUME TypeOK, CleanInv, [Next]_vars,
                      NEW d \in Detectors \ (Controllers \cup Quiet),
                      Reports(d), ~trouble[d], "output" \notin Faults \/ exit'[d] # 1
               PROVE  exit'[d] = Verdict(LastRuns(d))
    OBVIOUS
  <2>1. RunsTypeOK /\ CycleType
    BY TypeParts
  <2>2. Report(d)
    BY <2>1, EndsByReport DEF Reports
  <2>3. todo[d] = {} /\ exit'[d] = ExitCode(wks[d], FALSE)
    <3>1. todo[d] = {} /\ exit'[d] = ExitCode(wks[d], d \in Controllers \cup Quiet)
      BY <2>1, <2>2 DEF Report, Over, CycleType
    <3>2. ExitCode(wks[d], d \in Controllers \cup Quiet) = ExitCode(wks[d], FALSE)
      BY DEF ExitCode
    <3>. QED
      BY <3>1, <3>2
  <2>4. \A i \in DOMAIN wks[d] : IsNewest(wks[d][i]) /\ IsFinal(wks[d][i])
    BY <2>3 DEF CleanInv, Sure, Reports
  <2>. QED
    BY <2>1, <2>3, <2>4, FinalVerdict
<1>2. Spec => [](TypeOK /\ CleanInv)
  BY CleanAlways
<1>. QED
  BY <1>1, <1>2, PTL DEF Spec, CleanVerdict

-----------------------------------------------------------------------------
(* No false alarm.                                                          *)

\* The plan of a workspace tells nothing bad of its run that is not so.
TellsTrue(wk, rs) ==
  wk.plan # NoPlan =>
    /\ wk.plan.hasChanges => rs[wk.id][wk.plan.id].hasChanges
    /\ wk.plan.status = "FinishedNotOK" =>
         rs[wk.id][wk.plan.id].status \in RunsFinishedNotOK

\* The inductive invariant: nor does any plan in the hands of a cycle.
TruePlans == \A d \in Detectors : \A i \in DOMAIN wks[d] : TellsTrue(wks[d][i], runs)

LEMMA MappedTrue ==
  ASSUME NEW n \in Nat, NEW run \in Run
  PROVE  LET plan == mapPlanTFE2Model(n, run)
         IN  /\ plan.id = n
             /\ plan.hasChanges => run.hasChanges
             /\ plan.status = "FinishedNotOK" => run.status \in RunsFinishedNotOK
<1>1. mapTFEStatus2Model(run.status) = "FinishedNotOK" => run.status \in RunsFinishedNotOK
  BY DEF mapTFEStatus2Model
<1>. QED
  BY <1>1 DEF mapPlanTFE2Model

\* Runs keep their changes, and one that ended badly stays so.
LEMMA TrueStays ==
  ASSUME NEW wk \in Working, OwnRun(wk), TellsTrue(wk, runs), Advance
  PROVE  TellsTrue(wk, runs')
<1> SUFFICES ASSUME wk.plan # NoPlan
             PROVE  /\ wk.plan.hasChanges => runs'[wk.id][wk.plan.id].hasChanges
                    /\ wk.plan.status = "FinishedNotOK" =>
                         runs'[wk.id][wk.plan.id].status \in RunsFinishedNotOK
  BY DEF TellsTrue
<1> DEFINE old == runs[wk.id][wk.plan.id]
           new == runs'[wk.id][wk.plan.id]
<1>1. wk.id \in Workspaces /\ wk.plan.id \in DOMAIN runs[wk.id]
  BY DEF Working, OwnRun
<1>2. /\ old.hasChanges => new.hasChanges
      /\ old.status \in RunsFinishedNotOK => new = old
  BY <1>1 DEF Advance, Ended
<1>. QED
  BY <1>2 DEF TellsTrue

\* A step after which every workspace of a cycle is one it had before, or tells
\* the truth, keeps the invariant.
LEMMA TrueStep ==
  ASSUME CycleType, Advance, TruePlans,
         \A d \in Detectors : \A i \in DOMAIN wks'[d] :
           \/ \E j \in DOMAIN wks[d] : wks'[d][i] = wks[d][j]
           \/ TellsTrue(wks'[d][i], runs')
  PROVE  TruePlans'
<1> SUFFICES ASSUME NEW d \in Detectors, NEW i \in DOMAIN wks'[d]
             PROVE  TellsTrue(wks'[d][i], runs')
  BY DEF TruePlans
<1>1. ASSUME NEW j \in DOMAIN wks[d] PROVE TellsTrue(wks[d][j], runs')
  <2>1. wks[d][j] \in Working /\ OwnRun(wks[d][j])
    BY DEF CycleType, GoodList
  <2>2. TellsTrue(wks[d][j], runs)
    BY DEF TruePlans
  <2>. QED
    BY <2>1, <2>2, TrueStays
<1>. QED
  BY <1>1

\* A cycle enters a phase with workspaces it had, or that have no plan.
LEMMA EnterTrue ==
  ASSUME CycleType, RunsTypeOK, TruePlans, UNCHANGED rvars, NEW d \in Detectors,
         NEW p, NEW list, Enter(d, p, list),
         \A i \in DOMAIN list :
           list[i].plan = NoPlan \/ \E j \in DOMAIN wks[d] : list[i] = wks[d][j]
  PROVE  TruePlans'
<1>1. wks'[d] = list /\ \A e \in Detectors : e # d => wks'[e] = wks[e]
  BY DEF Enter, CycleType
<1>2. ASSUME NEW i \in DOMAIN list, list[i].plan = NoPlan PROVE TellsTrue(list[i], runs')
  BY <1>2 DEF TellsTrue
<1>3. \A e \in Detectors : \A i \in DOMAIN wks'[e] :
        \/ \E j \in DOMAIN wks[e] : wks'[e][i] = wks[e][j]
        \/ TellsTrue(wks'[e][i], runs')
  BY <1>1, <1>2
<1>. QED
  BY <1>3, StandStill, TrueStep

LEMMA OverTrue ==
  ASSUME CycleType, RunsTypeOK, TruePlans, UNCHANGED rvars, NEW d \in Detectors,
         NEW code, Over(d, code)
  PROVE  TruePlans'
<1>1. Enter(d, "idle", << >>) /\ DOMAIN << >> = {}
  BY DEF Over
<1>. QED
  BY <1>1, EnterTrue

\* A position gets no plan, keeps its own, or gets one of a run of its workspace.
LEMMA DoneTrue ==
  ASSUME CycleType, TruePlans, Advance, RunsTypeOK',
         NEW d \in Detectors, NEW i \in todo[d],
         NEW plan \in Plan \cup {NoPlan}, NEW error \in BOOLEAN,
         Done(d, i, plan, error),
         \/ plan \in {NoPlan, wks[d][i].plan}
         \/ \E n \in DOMAIN runs'[wks[d][i].id] :
              plan = mapPlanTFE2Model(n, runs'[wks[d][i].id][n])
  PROVE  TruePlans'
<1>1. PositionDone(d, i, plan)
  BY DoneEffect
<1>2. i \in DOMAIN wks[d] /\ wks[d][i].id \in Workspaces /\ wks[d][i] \in Working
  BY Position
<1>3. TellsTrue(wks'[d][i], runs')
  <2>1. wks'[d][i].plan = plan /\ wks'[d][i].id = wks[d][i].id
    BY <1>1, <1>2 DEF PositionDone
  <2>2. CASE plan = NoPlan
    BY <2>1, <2>2 DEF TellsTrue
  <2>3. CASE plan = wks[d][i].plan
    <3>1. OwnRun(wks[d][i]) /\ TellsTrue(wks[d][i], runs)
      BY <1>2 DEF CycleType, GoodList, TruePlans
    <3>2. TellsTrue(wks[d][i], runs')
      BY <1>2, <3>1, TrueStays
    <3>. QED
      BY <2>1, <2>3, <3>2 DEF TellsTrue
  <2>4. ASSUME NEW n \in DOMAIN runs'[wks[d][i].id],
               plan = mapPlanTFE2Model(n, runs'[wks[d][i].id][n])
        PROVE  TellsTrue(wks'[d][i], runs')
    <3> DEFINE run == runs'[wks[d][i].id][n]
    <3>1. n \in Nat /\ run \in Run
      BY <1>2 DEF RunsTypeOK
    <3>2. plan = mapPlanTFE2Model(n, run)
      BY <2>4
    <3> HIDE DEF run
    <3>3. /\ plan.id = n
          /\ plan.hasChanges => run.hasChanges
          /\ plan.status = "FinishedNotOK" => run.status \in RunsFinishedNotOK
      BY <3>1, <3>2, MappedTrue
    <3>. QED
      BY <2>1, <3>3 DEF TellsTrue, run
  <2>. QED
    BY <2>2, <2>3, <2>4
<1>4. \A e \in Detectors : \A j \in DOMAIN wks'[e] :
        \/ \E k \in DOMAIN wks[e] : wks'[e][j] = wks[e][k]
        \/ TellsTrue(wks'[e][j], runs')
  BY <1>1, <1>3 DEF PositionDone
<1>. QED
  BY <1>4, TrueStep

\* The latest plan of a workspace is one of a run of it.
LEMMA LatestIsOwn ==
  ASSUME RunsTypeOK, NEW w \in Workspaces
  PROVE  \/ LatestPlan(w) = NoPlan
         \/ \E n \in DOMAIN runs[w] : LatestPlan(w) = mapPlanTFE2Model(n, runs[w][n])
<1>1. runs[w] \in Seq(Run)
  BY DEF RunsTypeOK
<1>2. runs[w] # << >> => Len(runs[w]) \in DOMAIN runs[w]
  BY <1>1
<1>. QED
  BY <1>2 DEF LatestPlan

\* The steps of a position that leave Terraform Cloud alone.
LEMMA ReadTrue ==
  ASSUME CycleType, RunsTypeOK, TruePlans, NEW d \in Detectors, NEW i \in todo[d],
         \/ Hydrate(d, i) \/ HydrateFails(d, i)
         \/ CreateFails(d, i) \/ DryRunCreate(d, i)
         \/ WaitEnds(d, i) \/ WaitFails(d, i)
  PROVE  TruePlans'
<1> DEFINE w == wks[d][i].id
           old == wks[d][i].plan
           latest == LatestPlan(w)
<1>1. /\ w \in Workspaces /\ old \in Plan \cup {NoPlan}
      /\ old # NoPlan => old.id \in DOMAIN runs[w]
  BY Position
<1>2. runs' = runs /\ Advance /\ RunsTypeOK'
  <2>1. UNCHANGED rvars
    BY DEF Hydrate, HydrateFails, HydrateWith, CreateFails, DryRunCreate, WaitEnds,
           WaitEndsOn, WaitFails
  <2>. QED
    BY <2>1, StandStill DEF rvars
<1>3. /\ latest \in Plan \cup {NoPlan}
      /\ \/ latest = NoPlan
         \/ \E n \in DOMAIN runs[w] : latest = mapPlanTFE2Model(n, runs[w][n])
  BY <1>1, LatestPlanType, LatestIsOwn
<1>4. old # NoPlan =>
        /\ ReadPlan(d, i) \in Plan
        /\ ReadPlan(d, i) = mapPlanTFE2Model(old.id, runs[w][old.id])
  <2>1. HAVE old # NoPlan
  <2>2. runs[w][old.id] \in Run /\ old.id \in Nat
    BY <1>1, <2>1 DEF RunsTypeOK, Plan
  <2>. QED
    BY <2>2, PlanMapped DEF ReadPlan
<1> HIDE DEF latest
<1>5. \E plan \in Plan \cup {NoPlan}, error \in BOOLEAN :
        /\ Done(d, i, plan, error)
        /\ \/ plan \in {NoPlan, old}
           \/ \E n \in DOMAIN runs[w] : plan = mapPlanTFE2Model(n, runs[w][n])
  <2>1. CASE Hydrate(d, i)
    BY <1>3, <2>1 DEF Hydrate, HydrateWith, latest
  <2>2. CASE HydrateFails(d, i)
    BY <2>2 DEF HydrateFails, HydrateWith
  <2>3. CASE CreateFails(d, i) \/ WaitFails(d, i)
    BY <1>1, <2>3 DEF CreateFails, WaitFails
  <2>4. CASE DryRunCreate(d, i)
    BY <1>1, <1>3, <2>4 DEF DryRunCreate, latest
  <2>5. CASE WaitEnds(d, i)
    <3>1. CASE old = NoPlan
      BY <2>5, <3>1 DEF WaitEnds, WaitEndsOn
    <3>2. CASE old # NoPlan
      BY <1>1, <1>4, <2>5, <3>2 DEF WaitEnds, WaitEndsOn
    <3>. QED
      BY <3>1, <3>2
  <2>. QED
    BY <2>1, <2>2, <2>3, <2>4, <2>5
<1>. QED
  BY <1>2, <1>5, DoneTrue

LEMMA CreateTrue ==
  ASSUME CycleType, RunsTypeOK, TruePlans, NEW d \in Detectors, NEW i \in todo[d],
         Create(d, i)
  PROVE  TruePlans'
<1> DEFINE w == wks[d][i].id
           n == Len(runs[w]) + 1
<1>1. w \in Workspaces /\ wks[d][i].plan \in Plan \cup {NoPlan}
  BY Position
<1>2. /\ RunsTypeOK' /\ Advance /\ Len(runs'[w]) = n /\ runs'[w][n] = NewRun
  BY <1>1, CreateRunEffect DEF Create
<1>3. n \in Nat /\ n \in DOMAIN runs'[w] /\ runs'[w][n] \in Run
  <2>1. runs[w] \in Seq(Run) /\ runs'[w] \in Seq(Run)
    BY <1>1, <1>2 DEF RunsTypeOK
  <2> HIDE DEF w
  <2>. QED
    BY <1>2, <2>1
<1> HIDE DEF n
<1>4. mapPlanTFE2Model(n, NewRun) \in Plan \cup {NoPlan}
  BY <1>2, <1>3, PlanMapped
<1>5. CASE Done(d, i, mapPlanTFE2Model(n, NewRun), FALSE)
  BY <1>2, <1>3, <1>4, <1>5, DoneTrue
<1>6. CASE Done(d, i, wks[d][i].plan, TRUE)
  BY <1>1, <1>2, <1>6, DoneTrue
<1>. QED
  BY <1>5, <1>6 DEF Create, n

LEMMA StillTrue ==
  ASSUME CycleType, Advance, TruePlans, UNCHANGED dvars PROVE TruePlans'
  BY TrueStep DEF dvars

LEMMA TrueNext ==
  ASSUME CycleType, RunsTypeOK, TruePlans, [Next]_vars PROVE TruePlans'
<1>1. ASSUME NEW d \in Detectors, Start(d) PROVE TruePlans'
  <2>1. PICK list \in Listings : OverUnlisted(d) \/ Enter(d, "hydrate", Named(list))
    BY <1>1 DEF Start
  <2>2. UNCHANGED rvars /\ \A i \in DOMAIN Named(list) : Named(list)[i].plan = NoPlan
    BY <1>1, NamedList DEF Start
  <2>. QED
    BY <2>1, <2>2, OverTrue, EnterTrue DEF OverUnlisted
<1>2. ASSUME NEW d \in Detectors, ListFails(d) \/ Report(d) \/ Crash(d)
      PROVE  TruePlans'
  <2>1. UNCHANGED rvars /\ \E code : Over(d, code)
    BY <1>2 DEF ListFails, OverUnlisted, Report, Crash, rvars
  <2>. QED
    BY <2>1, OverTrue
<1>3. ASSUME NEW d \in Detectors, Schedule(d) PROVE TruePlans'
  <2> DEFINE list == Chosen(Due(wks[d]))
  <2>1. UNCHANGED rvars /\ Enter(d, "create", list)
    BY <1>3 DEF Schedule, rvars
  <2>2. wks[d] \in Seq(Working)
    BY DEF CycleType
  <2>3. list \in Seq(Working) /\ Selection(list, wks[d])
    BY <2>2, ChosenList
  <2> HIDE DEF list
  <2>4. \A i \in DOMAIN list : \E j \in DOMAIN wks[d] : list[i] = wks[d][j]
    BY <2>2, <2>3, SelectionMembers
  <2>. QED
    BY <2>1, <2>4, EnterTrue
<1>4. ASSUME NEW d \in Detectors, Created(d) PROVE TruePlans'
  <2>1. UNCHANGED rvars /\ Enter(d, "wait", wks[d])
    BY <1>4 DEF Created, CreatedIf, rvars
  <2>. QED
    BY <2>1, EnterTrue
<1>5. ASSUME NEW d \in Detectors, NEW i \in todo[d],
             \/ Hydrate(d, i) \/ HydrateFails(d, i)
             \/ CreateFails(d, i) \/ DryRunCreate(d, i)
             \/ WaitEnds(d, i) \/ WaitFails(d, i)
      PROVE  TruePlans'
  BY <1>5, ReadTrue
<1>6. ASSUME NEW d \in Detectors, NEW i \in todo[d], Create(d, i) PROVE TruePlans'
  BY <1>6, CreateTrue
<1>7. ASSUME NEW w \in Workspaces, RunProgress(w), UNCHANGED dvars PROVE TruePlans'
  BY <1>7, RunProgressEffect, StillTrue
<1>8. ASSUME Tick, UNCHANGED dvars PROVE TruePlans'
  BY <1>8, TickAdvances, StillTrue
<1>9. CASE UNCHANGED vars
  <2>1. UNCHANGED rvars /\ UNCHANGED dvars
    BY <1>9 DEF vars, rvars, dvars
  <2>. QED
    BY <2>1, StandStill, StillTrue
<1>. QED
  BY <1>1, <1>2, <1>3, <1>4, <1>5, <1>6, <1>7, <1>8, <1>9 DEF Next, DetectorStep

\* What an exit code of 2 or 3 takes.
LEMMA AlarmTakes ==
  ASSUME NEW list, NEW quiet
  PROVE  /\ ExitCode(list, quiet) = 2 => \E i \in DOMAIN list : Drifted(list[i])
         /\ ExitCode(list, quiet) = 3 => \E i \in DOMAIN list : PlanFailed(list[i])
  BY DEF ExitCode

(***************************************************************************)
(* Whatever fails, and however many detectors run: 2 and 3 are never said  *)
(* without a run that has changes or has ended badly, of a workspace the   *)
(* cycle planned.                                                          *)
(***************************************************************************)
THEOREM AlarmIsRealHolds == Spec => AlarmIsReal
<1> DEFINE Real == \A d \in Detectors : Reports(d) =>
             /\ exit'[d] = 2 => \E r \in RunsOf(d) : r.hasChanges
             /\ exit'[d] = 3 => \E r \in RunsOf(d) : r.status \in RunsFinishedNotOK
<1>1. Init => TruePlans
  BY DEF Init, TruePlans
<1>2. TypeOK /\ TruePlans /\ [Next]_vars => TruePlans'
  BY TypeParts, TrueNext
<1>3. TypeOK /\ TruePlans /\ [Next]_vars => [Real]_vars
  <2> SUFFICES ASSUME TypeOK, TruePlans, [Next]_vars,
                      NEW d \in Detectors, Reports(d)
               PROVE  /\ exit'[d] = 2 => \E r \in RunsOf(d) : r.hasChanges
                      /\ exit'[d] = 3 => \E r \in RunsOf(d) : r.status \in RunsFinishedNotOK
    OBVIOUS
  <2>1. CycleType
    BY TypeParts
  <2>2. Report(d)
    BY <2>1, EndsByReport DEF Reports
  <2>3. exit'[d] \in {1, ExitCode(wks[d], d \in Controllers \cup Quiet)}
    BY <2>1, <2>2 DEF Report, Over, CycleType
  <2>4. ASSUME NEW i \in DOMAIN wks[d], wks[d][i].plan # NoPlan
        PROVE  runs[wks[d][i].id][wks[d][i].plan.id] \in RunsOf(d)
    <3>1. wks[d][i].plan.id \in DOMAIN runs[wks[d][i].id] /\ i \in Planned(d)
      BY <2>1, <2>4 DEF CycleType, GoodList, OwnRun, Planned
    <3> DEFINE own == {runs[wks[d][i].id][n] : n \in DOMAIN runs[wks[d][i].id]}
    <3>2. runs[wks[d][i].id][wks[d][i].plan.id] \in own
      BY <3>1
    <3>3. own \in {{runs[wks[d][j].id][n] : n \in DOMAIN runs[wks[d][j].id]} :
                     j \in Planned(d)}
      BY <3>1
    <3> HIDE DEF own
    <3>. QED
      BY <3>2, <3>3, Zenon DEF RunsOf
  <2>5. ASSUME NEW i \in DOMAIN wks[d], Drifted(wks[d][i])
        PROVE  \E r \in RunsOf(d) : r.hasChanges
    <3>1. /\ wks[d][i].plan # NoPlan
          /\ runs[wks[d][i].id][wks[d][i].plan.id].hasChanges
      BY <2>5 DEF Drifted, TruePlans, TellsTrue
    <3>. QED
      BY <2>4, <3>1
  <2>6. ASSUME NEW i \in DOMAIN wks[d], PlanFailed(wks[d][i])
        PROVE  \E r \in RunsOf(d) : r.status \in RunsFinishedNotOK
    <3>1. /\ wks[d][i].plan # NoPlan
          /\ runs[wks[d][i].id][wks[d][i].plan.id].status \in RunsFinishedNotOK
      BY <2>6 DEF PlanFailed, TruePlans, TellsTrue
    <3>. QED
      BY <2>4, <3>1
  <2>. QED
    BY <2>3, <2>5, <2>6, AlarmTakes
<1>. QED
  BY <1>1, <1>2, <1>3, TypeCorrect, PTL DEF Spec, AlarmIsReal
=============================================================================
