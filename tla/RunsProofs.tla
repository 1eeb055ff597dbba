----------------------------- MODULE RunsProofs -----------------------------
(***************************************************************************)
(* Lemmas about Plans and Runs, for the proofs of the modules that watch   *)
(* runs: how a run is mapped, and that runs only advance.                  *)
(***************************************************************************)
EXTENDS Runs, TLAPS

LEMMA StatusMapped == \A s : mapTFEStatus2Model(s) \in PlanStatus
  BY DEF mapTFEStatus2Model, PlanStatus

LEMMA PlanMapped ==
  ASSUME NEW n \in Nat, NEW run \in Run
  PROVE  LET plan == mapPlanTFE2Model(n, run)
         IN  /\ plan \in Plan /\ plan # NoPlan
             /\ plan.id = n /\ plan.createdAt = run.createdAt
             /\ plan.status = mapTFEStatus2Model(run.status)
  BY StatusMapped, NoPlanAssumption DEF mapPlanTFE2Model, Run, Plan

LEMMA NewRunIsRun ==
  ASSUME clock \in Nat PROVE NewRun \in Run /\ NewRun.createdAt = clock
<1>1. "pending" \in Statuses
  BY DEF Statuses
<1>2. FALSE \in BOOLEAN
  OBVIOUS
<1>3. [createdAt |-> clock, status |-> "pending", hasChanges |-> FALSE] \in Run
  BY <1>1, <1>2, Zenon DEF Run
<1>4. NewRun = [createdAt |-> clock, status |-> "pending", hasChanges |-> FALSE]
  BY DEF NewRun
<1>. QED
  BY <1>3, <1>4, Zenon

\* What the other steps may do to the runs a cycle has read: nothing is
\* forgotten, no creation time changes, changes stay, and what has ended stays
\* as it is.
Advance ==
  /\ clock' \in Nat /\ clock <= clock'
  /\ \A w \in Workspaces : Len(runs[w]) <= Len(runs'[w])
  /\ \A w \in Workspaces : \A n \in DOMAIN runs[w] :
       /\ n \in DOMAIN runs'[w]
       /\ runs'[w][n].createdAt = runs[w][n].createdAt
       /\ runs[w][n].hasChanges => runs'[w][n].hasChanges
       /\ Ended(runs[w][n]) => runs'[w][n] = runs[w][n]

LEMMA StandStill ==
  ASSUME RunsTypeOK, UNCHANGED rvars PROVE RunsTypeOK' /\ Advance
<1>1. clock' = clock /\ runs' = runs
  BY DEF rvars
<1>2. RunsTypeOK'
  BY <1>1 DEF RunsTypeOK, Run
<1>. QED
  BY <1>1, <1>2 DEF RunsTypeOK, Advance

LEMMA TickAdvances ==
  ASSUME RunsTypeOK, Tick PROVE RunsTypeOK' /\ Advance
<1>1. clock' = clock + 1 /\ runs' = runs /\ clock \in Nat
  BY DEF Tick, RunsTypeOK
<1>2. RunsTypeOK'
  <2>1. clock' \in Nat \ {0}
    BY <1>1
  <2>2. ASSUME NEW w \in Workspaces, NEW n \in DOMAIN runs[w]
        PROVE  runs[w][n].createdAt \in 1..clock'
    BY <1>1 DEF RunsTypeOK
  <2>. QED
    BY <1>1, <2>1, <2>2 DEF RunsTypeOK
<1>. QED
  BY <1>1, <1>2 DEF RunsTypeOK, Advance

LEMMA CreateRunEffect ==
  ASSUME RunsTypeOK, NEW w \in Workspaces, CreateRun(w), UNCHANGED clock
  PROVE  /\ RunsTypeOK' /\ Advance
         /\ Len(runs'[w]) = Len(runs[w]) + 1
         /\ runs'[w][Len(runs[w]) + 1] = NewRun
         /\ \A n \in DOMAIN runs[w] : runs'[w][n] = runs[w][n]
         /\ \A v \in Workspaces : v # w => runs'[v] = runs[v]
<1>1. clock \in Nat \ {0} /\ clock' = clock
  BY DEF RunsTypeOK
<1>2. NewRun \in Run /\ NewRun.createdAt = clock
  BY <1>1, NewRunIsRun
<1> DEFINE r == runs[w]
<1>3. r \in Seq(Run) /\ runs'[w] = Append(r, NewRun)
  BY DEF RunsTypeOK, CreateRun
<1>4. /\ runs'[w] \in Seq(Run)
      /\ Len(runs'[w]) = Len(r) + 1
      /\ runs'[w][Len(r) + 1] = NewRun
      /\ \A n \in DOMAIN r : n \in DOMAIN runs'[w] /\ runs'[w][n] = r[n]
      /\ \A n \in DOMAIN runs'[w] : n \in DOMAIN r \/ n = Len(r) + 1
  <2> HIDE DEF r
  <2>. QED
    BY <1>2, <1>3
<1>5. \A v \in Workspaces : v # w => runs'[v] = runs[v]
  BY DEF RunsTypeOK, CreateRun
<1>6. runs' \in [Workspaces -> Seq(Run)]
  BY <1>2 DEF RunsTypeOK, CreateRun
<1>7. ASSUME NEW v \in Workspaces, NEW n \in DOMAIN runs'[v]
      PROVE  /\ runs'[v][n].createdAt \in 1..clock'
             /\ \A m \in 1..n : runs'[v][m].createdAt <= runs'[v][n].createdAt
  <2>1. CASE v # w
    BY <1>1, <1>5, <2>1 DEF RunsTypeOK
  <2>2. CASE v = w /\ n \in DOMAIN r
    <3>1. \A m \in 1..n : m \in DOMAIN r
      BY <1>3, <2>2
    <3>. QED
      BY <1>1, <1>4, <2>2, <3>1 DEF RunsTypeOK
  <2>3. CASE v = w /\ n = Len(r) + 1
    <3>1. runs'[v][n].createdAt = clock
      BY <1>2, <1>4, <2>3
    <3>2. ASSUME NEW m \in 1..n PROVE runs'[v][m].createdAt <= clock
      <4>1. CASE m \in DOMAIN r
        <5>1. runs'[v][m] = r[m] /\ r[m].createdAt \in 1..clock
          BY <1>4, <2>3, <4>1 DEF RunsTypeOK
        <5>. QED
          BY <5>1
      <4>2. CASE m = n
        BY <1>1, <3>1, <4>2
      <4>3. m \in DOMAIN r \/ m = n
        BY <1>3, <2>3
      <4>. QED
        BY <4>1, <4>2, <4>3
    <3>. QED
      BY <1>1, <3>1, <3>2
  <2>. QED
    BY <1>4, <2>1, <2>2, <2>3
<1>8. RunsTypeOK'
  BY <1>1, <1>6, <1>7 DEF RunsTypeOK
<1>9. Advance
  <2>1. ASSUME NEW v \in Workspaces PROVE Len(runs[v]) <= Len(runs'[v])
    <3>1. runs[v] \in Seq(Run)
      BY DEF RunsTypeOK
    <3>. QED
      BY <1>3, <1>4, <1>5, <3>1
  <2>. QED
    BY <1>1, <1>4, <1>5, <2>1 DEF Advance
<1>. QED
  BY <1>4, <1>5, <1>8, <1>9

LEMMA RunProgressEffect ==
  ASSUME RunsTypeOK, NEW w \in Workspaces, RunProgress(w)
  PROVE  /\ RunsTypeOK' /\ Advance
         /\ \A v \in Workspaces : Len(runs'[v]) = Len(runs[v])
<1>1. clock' = clock /\ clock \in Nat
  BY DEF RunProgress, RunsTypeOK
<1>2. PICK n \in DOMAIN runs[w], s \in RunStatuses, changes \in BOOLEAN :
        /\ ~Ended(runs[w][n])
        /\ runs[w][n].hasChanges => changes
        /\ runs' = [runs EXCEPT ![w][n] =
             [createdAt |-> @.createdAt, status |-> s, hasChanges |-> changes]]
  BY DEF RunProgress
<1> DEFINE r == runs[w]
           moved == [createdAt |-> r[n].createdAt, status |-> s, hasChanges |-> changes]
<1>3. r \in Seq(Run) /\ r[n] \in Run /\ runs \in [Workspaces -> Seq(Run)]
  BY DEF RunsTypeOK
<1>4. /\ moved \in Run /\ moved.createdAt = r[n].createdAt
      /\ moved.hasChanges = changes
  BY <1>3, Zenon DEF Run, Statuses
<1>5. runs' = [runs EXCEPT ![w] = [r EXCEPT ![n] = moved]]
  BY <1>2, <1>3
<1> HIDE DEF moved
<1>6. /\ runs'[w] = [r EXCEPT ![n] = moved]
      /\ \A v \in Workspaces : v # w => runs'[v] = runs[v]
  BY <1>3, <1>5
<1>7. /\ runs'[w] \in Seq(Run) /\ Len(runs'[w]) = Len(r)
      /\ DOMAIN runs'[w] = DOMAIN r
      /\ \A m \in DOMAIN r : runs'[w][m] = IF m = n THEN moved ELSE r[m]
  <2>1. n \in DOMAIN r
    BY <1>2
  <2> HIDE DEF r
  <2>. QED
    BY <1>3, <1>4, <1>6, <2>1
<1>8. runs' \in [Workspaces -> Seq(Run)]
  BY <1>3, <1>5, <1>6, <1>7
<1>9. \A v \in Workspaces : /\ DOMAIN runs'[v] = DOMAIN runs[v]
                           /\ \A m \in DOMAIN runs[v] :
                                runs'[v][m].createdAt = runs[v][m].createdAt
  BY <1>4, <1>6, <1>7
<1>10. RunsTypeOK'
  <2>1. ASSUME NEW v \in Workspaces, NEW m \in DOMAIN runs'[v]
        PROVE  /\ runs'[v][m].createdAt \in 1..clock'
               /\ \A l \in 1..m : runs'[v][l].createdAt <= runs'[v][m].createdAt
    <3>1. m \in DOMAIN runs[v] /\ runs[v] \in Seq(Run)
      BY <1>3, <1>9
    <3>2. \A l \in 1..m : l \in DOMAIN runs[v]
      BY <3>1
    <3>. QED
      BY <1>1, <1>9, <3>1, <3>2 DEF RunsTypeOK
  <2>. QED
    BY <1>1, <1>8, <2>1 DEF RunsTypeOK
<1>11. \A v \in Workspaces : Len(runs'[v]) = Len(runs[v]) /\ Len(runs[v]) \in Nat
  BY <1>3, <1>6, <1>7
<1>12. \A v \in Workspaces : \A m \in DOMAIN runs[v] :
         Ended(runs[v][m]) => runs'[v][m] = runs[v][m]
  BY <1>2, <1>6, <1>7
<1>13. \A v \in Workspaces : \A m \in DOMAIN runs[v] :
         runs[v][m].hasChanges => runs'[v][m].hasChanges
  BY <1>2, <1>4, <1>6, <1>7
<1>. QED
  BY <1>1, <1>9, <1>10, <1>11, <1>12, <1>13 DEF Advance

LEMMA LatestPlanType ==
  ASSUME RunsTypeOK, NEW w \in Workspaces
  PROVE  /\ LatestPlan(w) \in Plan \cup {NoPlan}
         /\ LatestPlan(w) # NoPlan => LatestPlan(w).id \in DOMAIN runs[w]
<1>1. CASE runs[w] = << >>
  BY <1>1 DEF LatestPlan
<1>2. CASE runs[w] # << >>
  <2>1. runs[w] \in Seq(Run)
    BY DEF RunsTypeOK
  <2>2. Len(runs[w]) \in DOMAIN runs[w] /\ Len(runs[w]) \in Nat
        /\ runs[w][Len(runs[w])] \in Run
    BY <1>2, <2>1
  <2>. QED
    BY <1>2, <2>2, PlanMapped DEF LatestPlan
<1>. QED
  BY <1>1, <1>2
=============================================================================
