----------------------------- MODULE WaitProofs -----------------------------
(***************************************************************************)
(* Theorems about Wait: for any list, any number of goroutines and any     *)
(* order of reads, ticks and timeouts.                                     *)
(***************************************************************************)
EXTENDS Wait, RunsProofs, FiniteSetTheorems

-----------------------------------------------------------------------------
(***************************************************************************)
(* The inductive invariant: TypeOK, what the call has received, and that   *)
(* every plan around is the newest run of its workspace.                   *)
(***************************************************************************)
Waited == [id : Workspaces, plan : Plan \cup {NoPlan}]

Handed == {i \in Positions : waiter[i] = "done"}

WaitersType ==
  /\ phase \in {"new", "open", "done"}
  /\ wks \in Seq(Waited)
  /\ waiter \in [Positions -> {"first", "poll", "send", "done"}]
  /\ expired \in [Positions -> BOOLEAN]
  /\ ticked \in [Positions -> BOOLEAN]
  /\ result \in [Positions -> [plan : Plan \cup {NoPlan}, err : BOOLEAN]]
  /\ \A i \in Positions : waiter[i] \in {"first", "poll"} => wks[i].plan # NoPlan

Counted ==
  /\ got = Cardinality(Handed)
  /\ phase = "new" => wks = << >> /\ output = << >>
  /\ phase = "done" => got = Len(wks)

\* A plan of w in the hands of the call.
Newest(w, plan) ==
  plan \in Plan /\ plan.id \in DOMAIN runs[w] /\ plan.id = Len(runs[w])

Owned ==
  /\ \A w \in Workspaces : \E h \in Histories[w] : Len(h) = Len(runs[w])
  /\ \A i \in Positions :
       /\ wks[i].plan # NoPlan => Newest(wks[i].id, wks[i].plan)
       /\ result[i].plan # NoPlan => Newest(wks[i].id, result[i].plan)
  /\ indexed \in [Workspaces -> Plan \cup {NoPlan, Missing}]
  /\ \A w \in Workspaces : indexed[w] \in {NoPlan, Missing} \/ Newest(w, indexed[w])
  /\ \A i \in Handed : indexed[wks[i].id] # Missing

WaitInv ==
  RunsTypeOK /\ ctxDone \in BOOLEAN /\ WaitersType /\ Counted /\ Owned

LEMMA InvType == ASSUME WaitInv PROVE TypeOK
  BY DEF WaitInv, WaitersType, Counted, Owned, TypeOK, Waited, Handed

LEMMA PositionsFinite ==
  ASSUME wks \in Seq(Waited)
  PROVE  /\ Positions = 1..Len(wks) /\ Len(wks) \in Nat
         /\ IsFiniteSet(Positions) /\ Cardinality(Positions) = Len(wks)
<1>1. Positions = 1..Len(wks) /\ Len(wks) \in Nat
  BY DEF Positions
<1>2. Cardinality(1..Len(wks)) = Len(wks) /\ IsFiniteSet(1..Len(wks))
  <2>1. /\ IsFiniteSet(1..Len(wks))
        /\ Cardinality(1..Len(wks)) = IF 1 > Len(wks) THEN 0 ELSE Len(wks) - 1 + 1
    BY <1>1, FS_Interval
  <2>. QED
    BY <1>1, <2>1
<1>. QED
  BY <1>1, <1>2

LEMMA HandedFinite ==
  ASSUME WaitersType PROVE IsFiniteSet(Handed) /\ Cardinality(Handed) \in Nat
<1>1. IsFiniteSet(Positions)
  BY PositionsFinite DEF WaitersType
<1>2. IsFiniteSet(Handed)
  BY <1>1, FS_Subset DEF Handed
<1>. QED
  BY <1>2, FS_CardinalityType

\* A run that is read is a run of the API, and its plan keeps its number.
LEMMA ReadsPlan ==
  ASSUME RunsTypeOK, WaitersType, Owned, NEW i \in Positions, wks[i].plan # NoPlan
  PROVE  /\ wks[i] \in Waited
         /\ runs[wks[i].id][wks[i].plan.id] \in Run
         /\ GetCheckPlan(i) \in Plan /\ GetCheckPlan(i) # NoPlan
         /\ GetCheckPlan(i).id = wks[i].plan.id
         /\ GetCheckPlan(i).status =
              mapTFEStatus2Model(runs[wks[i].id][wks[i].plan.id].status)
<1>1. wks[i] \in Waited
  BY DEF WaitersType, Positions
<1>2. wks[i].id \in Workspaces /\ wks[i].plan \in Plan
      /\ wks[i].plan.id \in DOMAIN runs[wks[i].id]
  BY <1>1 DEF Owned, Newest, Waited
<1>3. runs[wks[i].id] \in Seq(Run)
  BY <1>2 DEF RunsTypeOK
<1>4. runs[wks[i].id][wks[i].plan.id] \in Run /\ wks[i].plan.id \in Nat
  BY <1>2, <1>3
<1>. QED
  BY <1>1, <1>4, PlanMapped DEF GetCheckPlan

LEMMA LatestIsNewest ==
  ASSUME RunsTypeOK, NEW w \in Workspaces, LatestPlan(w) # NoPlan
  PROVE  Newest(w, LatestPlan(w))
<1>1. runs[w] \in Seq(Run) /\ runs[w] # << >>
  BY DEF RunsTypeOK, LatestPlan
<1>2. Len(runs[w]) \in DOMAIN runs[w] /\ Len(runs[w]) \in Nat
      /\ runs[w][Len(runs[w])] \in Run
  BY <1>1
<1>3. LatestPlan(w) = mapPlanTFE2Model(Len(runs[w]), runs[w][Len(runs[w])])
  BY <1>1 DEF LatestPlan
<1>. QED
  BY <1>2, <1>3, PlanMapped DEF Newest

-----------------------------------------------------------------------------
LEMMA InvInit == Init => WaitInv
<1> SUFFICES ASSUME Init PROVE WaitInv
  OBVIOUS
<1>1. RunsTypeOK /\ \A w \in Workspaces : runs[w] \in Histories[w]
  <2>1. \A w \in Workspaces : runs[w] \in Histories[w]
    BY DEF Init
  <2>2. runs \in [Workspaces -> Seq(Run)]
    BY <2>1, HistoriesAssumption DEF Init
  <2>3. ASSUME NEW w \in Workspaces, NEW n \in DOMAIN runs[w]
        PROVE  /\ runs[w][n].createdAt \in 1..clock
               /\ \A m \in 1..n : runs[w][m].createdAt <= runs[w][n].createdAt
    <3>1. runs[w] \in Seq(Run) /\ \A m \in DOMAIN runs[w] : runs[w][m].createdAt = 1
      BY <2>1, HistoriesAssumption
    <3>2. \A m \in 1..n : m \in DOMAIN runs[w]
      BY <3>1
    <3>. QED
      BY <3>1, <3>2 DEF Init
  <2>. QED
    BY <2>1, <2>2, <2>3 DEF Init, RunsTypeOK
<1>2. Positions = {} /\ wks \in Seq(Waited) /\ Len(wks) = 0
  BY DEF Init, Positions
<1>3. WaitersType
  BY <1>2 DEF Init, WaitersType
<1>4. Counted
  BY <1>2, FS_EmptySet DEF Init, Counted, Handed
<1>5. Owned
  BY <1>1, <1>2 DEF Init, Owned, Handed
<1>. QED
  BY <1>1, <1>3, <1>4, <1>5 DEF Init, WaitInv

\* A step that moves neither the call nor a goroutine.
LEMMA QuietStep ==
  ASSUME WaitInv, RunsTypeOK', Advance,
         \A w \in Workspaces : Len(runs'[w]) = Len(runs[w]),
         ctxDone' \in BOOLEAN, expired' \in [Positions -> BOOLEAN],
         ticked' \in [Positions -> BOOLEAN],
         UNCHANGED <<phase, wks, waiter, result, got, indexed, output>>
  PROVE  WaitInv'
<1>1. Positions' = Positions /\ Handed' = Handed
  BY DEF Positions, Handed
<1>2. WaitersType' /\ Counted'
  BY <1>1 DEF WaitInv, WaitersType, Counted
<1>3. ASSUME NEW w \in Workspaces, NEW plan, Newest(w, plan)
      PROVE  plan \in Plan /\ plan.id \in DOMAIN runs'[w] /\ plan.id = Len(runs'[w])
  BY <1>3 DEF Newest, Advance
<1>4. \A i \in Positions : wks[i].id \in Workspaces
  <2>1. \A i \in Positions : wks[i] \in Waited
    BY DEF WaitInv, WaitersType, Positions
  <2>. QED
    BY <2>1 DEF Waited
<1>5. Owned'
  BY <1>1, <1>3, <1>4 DEF WaitInv, Owned, Newest
<1>. QED
  BY <1>2, <1>5 DEF WaitInv

\* A goroutine reads its run again, or ends its wait.
LEMMA WaiterMoves ==
  ASSUME WaitInv, NEW i \in Positions, waiter[i] \in {"first", "poll"},
         Read(i) \/ Finish(i, KeepsPlan(i)),
         ticked' \in [Positions -> BOOLEAN],
         UNCHANGED <<rvars, ctxDone, phase, wks, expired, got, indexed, output>>
  PROVE  WaitInv'
<1>1. wks[i].plan # NoPlan
  BY DEF WaitInv, WaitersType
<1>2. /\ wks[i] \in Waited /\ GetCheckPlan(i) \in Plan
      /\ GetCheckPlan(i).id = wks[i].plan.id
  BY <1>1, ReadsPlan DEF WaitInv
<1>3. PICK s \in {"poll", "send"}, p \in Plan \cup {NoPlan}, e \in BOOLEAN :
        /\ waiter' = [waiter EXCEPT ![i] = s]
        /\ result' = [result EXCEPT ![i] = [plan |-> p, err |-> e]]
        /\ p # NoPlan => Newest(wks[i].id, p)
  <2>1. Newest(wks[i].id, wks[i].plan) /\ Newest(wks[i].id, GetCheckPlan(i))
    BY <1>1, <1>2 DEF WaitInv, Owned, Newest
  <2>2. CASE Finish(i, KeepsPlan(i))
    BY <1>2, <2>1, <2>2 DEF Finish, KeepsPlan, Result, Waited
  <2>3. CASE Finish(i, Result(GetCheckPlan(i), FALSE))
    BY <1>2, <2>1, <2>3 DEF Finish, Result
  <2>4. CASE waiter' = [waiter EXCEPT ![i] = "poll"] /\ UNCHANGED result
    <3>1. result[i] \in [plan : Plan \cup {NoPlan}, err : BOOLEAN]
      BY DEF WaitInv, WaitersType
    <3>2. result[i] = [plan |-> result[i].plan, err |-> result[i].err]
      BY <3>1
    <3>3. result' = [result EXCEPT ![i] = [plan |-> result[i].plan, err |-> result[i].err]]
      BY <2>4, <3>2 DEF WaitInv, WaitersType
    <3>4. result[i].plan # NoPlan => Newest(wks[i].id, result[i].plan)
      BY DEF WaitInv, Owned
    <3>. QED
      BY <2>4, <3>1, <3>3, <3>4
  <2>. QED
    BY <2>2, <2>3, <2>4 DEF Read
<1>4. Positions' = Positions
  BY DEF Positions
<1>5. \A j \in Positions : waiter'[j] = IF j = i THEN s ELSE waiter[j]
  BY <1>3 DEF WaitInv, WaitersType
<1>6. Handed' = Handed
  BY <1>4, <1>5 DEF Handed
<1>7. \A j \in Positions : result'[j] = IF j = i THEN [plan |-> p, err |-> e] ELSE result[j]
  BY <1>3 DEF WaitInv, WaitersType
<1>8. WaitersType'
  BY <1>1, <1>3, <1>4, <1>5 DEF WaitInv, WaitersType
<1>9. Counted'
  BY <1>6 DEF WaitInv, Counted
<1>10. runs' = runs /\ clock' = clock
  BY DEF rvars
<1>11. Owned'
  BY <1>3, <1>4, <1>6, <1>7, <1>10 DEF WaitInv, Owned, Newest
<1>12. RunsTypeOK'
  BY <1>10, StandStill DEF WaitInv, rvars
<1>. QED
  BY <1>8, <1>9, <1>11, <1>12 DEF WaitInv

LEMMA BeginKeeps == ASSUME WaitInv, Begin PROVE WaitInv'
<1>1. PICK list \in Listings :
        /\ wks' = [i \in DOMAIN list |-> [id |-> list[i], plan |-> LatestPlan(list[i])]]
        /\ waiter' = [i \in DOMAIN list |->
                        IF LatestPlan(list[i]) = NoPlan THEN "send" ELSE "first"]
        /\ result' = [i \in DOMAIN list |-> Result(LatestPlan(list[i]), FALSE)]
        /\ expired' = [i \in DOMAIN list |-> FALSE]
        /\ ticked' = [i \in DOMAIN list |-> FALSE]
  BY DEF Begin, BeginWith
<1>2. /\ phase = "new" /\ phase' = "open"
      /\ UNCHANGED <<ctxDone, got, indexed, output>> /\ runs' = runs /\ UNCHANGED rvars
  BY DEF Begin, BeginWith, rvars
<1>3. list \in Seq(Workspaces)
  BY ListingsAssumption
<1>4. Positions' = DOMAIN list /\ DOMAIN list = 1..Len(list) /\ Len(list) \in Nat
  BY <1>1, <1>3 DEF Positions
<1>5. ASSUME NEW i \in DOMAIN list
      PROVE  /\ list[i] \in Workspaces
             /\ LatestPlan(list[i]) \in Plan \cup {NoPlan}
             /\ LatestPlan(list[i]) # NoPlan => Newest(list[i], LatestPlan(list[i]))
  <2>1. list[i] \in Workspaces
    BY <1>3
  <2>. QED
    BY <2>1, LatestPlanType, LatestIsNewest DEF WaitInv
<1>6. \A i \in DOMAIN list : [id |-> list[i], plan |-> LatestPlan(list[i])] \in Waited
  BY <1>5 DEF Waited
<1>7. wks' \in Seq(Waited)
  BY <1>1, <1>4, <1>6
<1>8. WaitersType'
  <2>1. waiter' \in [Positions' -> {"first", "poll", "send", "done"}]
    BY <1>1, <1>4
  <2>2. expired' \in [Positions' -> BOOLEAN] /\ ticked' \in [Positions' -> BOOLEAN]
    BY <1>1, <1>4
  <2>3. result' \in [Positions' -> [plan : Plan \cup {NoPlan}, err : BOOLEAN]]
    BY <1>1, <1>4, <1>5 DEF Result
  <2>4. \A i \in Positions' : waiter'[i] \in {"first", "poll"} => wks'[i].plan # NoPlan
    BY <1>1, <1>4
  <2>. QED
    BY <1>2, <1>7, <2>1, <2>2, <2>3, <2>4 DEF WaitersType
<1>9. Handed = {} /\ Handed' = {}
  BY <1>1, <1>2, <1>4 DEF Handed, WaitInv, Counted, Positions
<1>10. Counted'
  BY <1>2, <1>9 DEF WaitInv, Counted
<1>11. Owned'
  BY <1>1, <1>2, <1>4, <1>5, <1>9 DEF WaitInv, Owned, Newest, Result
<1>12. RunsTypeOK'
  BY <1>2, StandStill DEF WaitInv
<1>. QED
  BY <1>2, <1>8, <1>10, <1>11, <1>12 DEF WaitInv

LEMMA ReceiveKeeps ==
  ASSUME WaitInv, NEW i \in Positions, Receive(i) PROVE WaitInv'
<1>1. /\ phase = "open" /\ got < Len(wks) /\ waiter[i] = "send"
      /\ waiter' = [waiter EXCEPT ![i] = "done"]
      /\ got' = got + 1
      /\ indexed' = [indexed EXCEPT ![wks[i].id] = result[i].plan]
      /\ UNCHANGED <<rvars, ctxDone, phase, wks, expired, ticked, result, output>>
  BY DEF Receive, ReceiveAs
<1>2. Positions' = Positions
  BY <1>1 DEF Positions
<1>3. wks[i] \in Waited /\ wks[i].id \in Workspaces
  <2>1. wks[i] \in Waited
    BY DEF WaitInv, WaitersType, Positions
  <2>. QED
    BY <2>1 DEF Waited
<1>4. result[i].plan \in Plan \cup {NoPlan} /\ result[i].plan # Missing
      /\ (result[i].plan # NoPlan => Newest(wks[i].id, result[i].plan))
  BY MissingAssumption DEF WaitInv, WaitersType, Owned
<1>5. \A j \in Positions : waiter'[j] = IF j = i THEN "done" ELSE waiter[j]
  BY <1>1 DEF WaitInv, WaitersType
<1>6. Handed' = Handed \cup {i} /\ i \notin Handed
  BY <1>1, <1>2, <1>5 DEF Handed
<1>7. Cardinality(Handed') = Cardinality(Handed) + 1
  BY <1>6, HandedFinite, FS_AddElement DEF WaitInv
<1>8. Counted'
  BY <1>1, <1>7 DEF WaitInv, Counted
<1>9. WaitersType'
  BY <1>1, <1>2, <1>5 DEF WaitInv, WaitersType
<1>10. \A w \in Workspaces : indexed'[w] = IF w = wks[i].id THEN result[i].plan ELSE indexed[w]
  BY <1>1, <1>3 DEF WaitInv, Owned
<1>11. indexed' \in [Workspaces -> Plan \cup {NoPlan, Missing}]
  BY <1>1, <1>3, <1>4 DEF WaitInv, Owned
<1>12. runs' = runs
  BY <1>1 DEF rvars
<1>13. ASSUME NEW j \in Handed' PROVE indexed'[wks[j].id] # Missing
  <2>1. wks[j].id \in Workspaces
    <3>1. wks[j] \in Waited
      BY <1>2 DEF WaitInv, WaitersType, Positions, Handed
    <3>. QED
      BY <3>1 DEF Waited
  <2>. QED
    BY <1>4, <1>6, <1>10, <2>1 DEF WaitInv, Owned
<1>14. Owned'
  BY <1>1, <1>2, <1>4, <1>10, <1>11, <1>12, <1>13 DEF WaitInv, Owned, Newest
<1>15. RunsTypeOK'
  BY <1>1, StandStill DEF WaitInv
<1>. QED
  BY <1>1, <1>8, <1>9, <1>14, <1>15 DEF WaitInv

LEMMA ReturnKeeps == ASSUME WaitInv, Return PROVE WaitInv'
<1>1. /\ phase' = "done" /\ got = Len(wks)
      /\ UNCHANGED <<rvars, ctxDone, wks, waiterVars, got, indexed>>
  BY DEF Return, ReturnIf
<1>2. Positions' = Positions /\ Handed' = Handed /\ runs' = runs
  BY <1>1 DEF Positions, Handed, waiterVars, rvars
<1>3. WaitersType' /\ Counted' /\ Owned'
  BY <1>1, <1>2 DEF WaitInv, WaitersType, Counted, Owned, Newest, waiterVars
<1>4. RunsTypeOK'
  BY <1>1, StandStill DEF WaitInv
<1>. QED
  BY <1>1, <1>3, <1>4 DEF WaitInv

LEMMA StandQuiet ==
  ASSUME WaitInv, UNCHANGED rvars
  PROVE  RunsTypeOK' /\ Advance /\ \A w \in Workspaces : Len(runs'[w]) = Len(runs[w])
  BY StandStill DEF WaitInv, rvars

LEMMA InvNext == WaitInv /\ [Next]_vars => WaitInv'
<1> SUFFICES ASSUME WaitInv, [Next]_vars PROVE WaitInv'
  OBVIOUS
<1>0. /\ ctxDone \in BOOLEAN
      /\ expired \in [Positions -> BOOLEAN] /\ ticked \in [Positions -> BOOLEAN]
  BY DEF WaitInv, WaitersType
<1>1. CASE Begin
  BY <1>1, BeginKeeps
<1>2. ASSUME NEW i \in Positions, FirstRead(i) PROVE WaitInv'
  BY <1>0, <1>2, WaiterMoves DEF FirstRead, ReadError
<1>3. ASSUME NEW i \in Positions, Poll(i) PROVE WaitInv'
  BY <1>0, <1>3, WaiterMoves DEF Poll, ReadError
<1>4. ASSUME NEW i \in Positions, GiveUp(i) PROVE WaitInv'
  BY <1>0, <1>4, WaiterMoves DEF GiveUp
<1>5. ASSUME NEW i \in Positions, Receive(i) PROVE WaitInv'
  BY <1>5, ReceiveKeeps
<1>6. CASE Return
  BY <1>6, ReturnKeeps
<1>7. ASSUME NEW i \in Positions, TickerFires(i) \/ Expire(i) PROVE WaitInv'
  BY <1>0, <1>7, StandQuiet, QuietStep DEF TickerFires, Expire
<1>8. CASE Cancel
  BY <1>0, <1>8, StandQuiet, QuietStep DEF Cancel, waiterVars
<1>9. ASSUME NEW w \in Workspaces, RunProgress(w),
             UNCHANGED <<ctxDone, phase, wks, waiterVars, got, indexed, output>>
      PROVE  WaitInv'
  <2>1. RunsTypeOK' /\ Advance /\ \A v \in Workspaces : Len(runs'[v]) = Len(runs[v])
    BY <1>9, RunProgressEffect DEF WaitInv
  <2>. QED
    BY <1>0, <1>9, <2>1, QuietStep DEF waiterVars
<1>10. CASE UNCHANGED vars
  <2>1. UNCHANGED rvars /\ UNCHANGED <<ctxDone, phase, wks, waiterVars, got, indexed, output>>
    BY <1>10 DEF vars, rvars, waiterVars
  <2>. QED
    BY <1>0, <2>1, StandQuiet, QuietStep DEF waiterVars
<1>. QED
  BY <1>1, <1>2, <1>3, <1>4, <1>5, <1>6, <1>7, <1>8, <1>9, <1>10 DEF Next, WaiterStep

LEMMA Inductive == Spec => []WaitInv
  BY InvInit, InvNext, PTL DEF Spec

(***************************************************************************)
(* The call and its goroutines are well formed; among others, only a       *)
(* workspace that has a plan is ever waited for.                           *)
(***************************************************************************)
THEOREM TypeCorrect == Spec => []TypeOK
<1>1. WaitInv => TypeOK
  BY InvType
<1>. QED
  BY <1>1, Inductive, PTL

\* A call that has counted its results has them from everybody.
LEMMA AllHanded ==
  ASSUME WaitInv, got = Len(wks) PROVE Handed = Positions
<1>1. Cardinality(Handed) = Cardinality(Positions) /\ IsFiniteSet(Positions)
  BY PositionsFinite DEF WaitInv, WaitersType, Counted
<1>2. Handed \subseteq Positions
  BY DEF Handed
<1>. QED
  BY <1>1, <1>2, FS_Subset

\* And one that still misses a result has somebody it can come from.
LEMMA SomebodyLeft ==
  ASSUME WaitInv, \A i \in Positions : waiter[i] = "done" PROVE got = Len(wks)
<1>1. Handed = Positions
  BY DEF Handed
<1>. QED
  BY <1>1, PositionsFinite DEF WaitInv, WaitersType, Counted

(***************************************************************************)
(* The channel of a call has no buffer: a goroutine that has its result    *)
(* always finds the call receiving, and a call that still receives always  *)
(* has a goroutine that will send.  With a result lost or counted twice    *)
(* one of them would wait for ever.                                        *)
(***************************************************************************)
HandOver ==
  /\ \A i \in Positions : waiter[i] = "send" => phase = "open" /\ got < Len(wks)
  /\ phase = "open" /\ got < Len(wks) => \E i \in Positions : waiter[i] # "done"

(***************************************************************************)
(* No goroutine of a wait and no call of it waits for the other in vain.   *)
(***************************************************************************)
THEOREM HandOverHolds == Spec => []HandOver
<1>1. ASSUME WaitInv PROVE HandOver
  <2>1. got \in Nat /\ Len(wks) \in Nat /\ got <= Len(wks)
    <3>1. Handed \subseteq Positions
      BY DEF Handed
    <3>2. /\ IsFiniteSet(Positions) /\ Cardinality(Positions) = Len(wks)
          /\ Len(wks) \in Nat /\ got = Cardinality(Handed)
      BY <1>1, PositionsFinite DEF WaitInv, WaitersType, Counted
    <3>3. Cardinality(Handed) <= Cardinality(Positions) /\ Cardinality(Handed) \in Nat
      BY <3>1, <3>2, FS_Subset, FS_CardinalityType
    <3>. QED
      BY <3>2, <3>3
  <2>2. ASSUME NEW i \in Positions, waiter[i] = "send"
        PROVE  phase = "open" /\ got < Len(wks)
    <3>1. got # Len(wks)
      BY <1>1, <2>2, AllHanded DEF Handed
    <3>2. phase # "new"
      BY <1>1, <2>2 DEF WaitInv, Counted, Positions
    <3>3. phase \in {"new", "open", "done"} /\ phase # "done"
      BY <1>1, <3>1 DEF WaitInv, WaitersType, Counted
    <3>. QED
      BY <2>1, <3>1, <3>2, <3>3
  <2>3. got < Len(wks) => \E i \in Positions : waiter[i] # "done"
    BY <1>1, <2>1, SomebodyLeft
  <2>. QED
    BY <2>2, <2>3 DEF HandOver
<1>. QED
  BY <1>1, Inductive, PTL

(***************************************************************************)
(* When a call has returned every goroutine has handed its result over.    *)
(***************************************************************************)
THEOREM NoGoroutineLeftHolds == Spec => []NoGoroutineLeft
<1>1. ASSUME WaitInv PROVE NoGoroutineLeft
  <2>0. SUFFICES ASSUME phase = "done" PROVE \A i \in Positions : waiter[i] = "done"
    BY DEF NoGoroutineLeft
  <2>1. Handed = Positions
    BY <1>1, <2>0, AllHanded DEF WaitInv, Counted
  <2>. QED
    BY <2>1 DEF Handed
<1>. QED
  BY <1>1, Inductive, PTL

-----------------------------------------------------------------------------
(***************************************************************************)
(* What a wait that reports no error says.  A run in a state the switch of *)
(* mapTFEStatus2Model does not list is mapped to Unknown, which ends the   *)
(* wait too: the theorem is about runs that only take the listed ones.     *)
(***************************************************************************)
ListedStatuses ==
  RunStatuses \subseteq RunsFinishedOK \cup RunsFinishedNotOK \cup RunsWaiting

LEMMA NotWaitingEnded ==
  ASSUME ListedStatuses, NEW run \in Run, mapTFEStatus2Model(run.status) # "Waiting"
  PROVE  Ended(run)
<1>1. run.status \in RunsFinishedOK \cup RunsFinishedNotOK \cup RunsWaiting
  BY DEF ListedStatuses, Run, Statuses, RunsWaiting
<1>2. ASSUME run.status \in RunsWaiting PROVE mapTFEStatus2Model(run.status) = "Waiting"
  BY <1>2 DEF mapTFEStatus2Model, RunsFinishedOK, RunsFinishedNotOK, RunsWaiting
<1>. QED
  BY <1>1, <1>2 DEF Ended

\* What FinishedIsEnded says of one position.
Outcome(i) ==
  (waiter[i] \in {"send", "done"} /\ ~result[i].err /\ wks[i].plan # NoPlan) =>
     /\ Ended(runs[wks[i].id][wks[i].plan.id])
     /\ result[i].plan = GetCheckPlan(i)

\* The runs advance, and a position stays or is received.
LEMMA OutcomeStays ==
  ASSUME WaitInv, Advance, NEW i \in Positions, Outcome(i),
         UNCHANGED <<wks, result>>,
         waiter'[i] \in {"send", "done"} => waiter[i] \in {"send", "done"}
  PROVE  Outcome(i)'
<1> SUFFICES ASSUME waiter'[i] \in {"send", "done"}, ~result[i].err, wks[i].plan # NoPlan
             PROVE  /\ Ended(runs'[wks[i].id][wks[i].plan.id])
                    /\ result[i].plan =
                         mapPlanTFE2Model(wks[i].plan.id, runs'[wks[i].id][wks[i].plan.id])
  BY DEF Outcome, GetCheckPlan
<1>1. /\ Ended(runs[wks[i].id][wks[i].plan.id])
      /\ result[i].plan = GetCheckPlan(i)
  BY DEF Outcome
<1>2. wks[i].id \in Workspaces /\ wks[i].plan.id \in DOMAIN runs[wks[i].id]
  <2>1. wks[i] \in Waited
    BY DEF WaitInv, WaitersType, Positions
  <2>. QED
    BY <2>1 DEF Waited, WaitInv, Owned, Newest
<1>3. runs'[wks[i].id][wks[i].plan.id] = runs[wks[i].id][wks[i].plan.id]
  BY <1>1, <1>2 DEF Advance
<1>. QED
  BY <1>1, <1>3 DEF GetCheckPlan

\* A goroutine that ends its wait, or reads again.
LEMMA MoveOutcome ==
  ASSUME ListedStatuses, WaitInv, FinishedIsEnded,
         NEW i \in Positions, waiter[i] \in {"first", "poll"},
         Read(i) \/ Finish(i, KeepsPlan(i)), UNCHANGED <<rvars, wks>>
  PROVE  FinishedIsEnded'
<1>1. Positions' = Positions /\ runs' = runs
  BY DEF Positions, rvars
<1>2. waiter \in [Positions -> {"first", "poll", "send", "done"}]
      /\ result \in [Positions -> [plan : Plan \cup {NoPlan}, err : BOOLEAN]]
  BY DEF WaitInv, WaitersType
<1>3. /\ runs[wks[i].id][wks[i].plan.id] \in Run
      /\ GetCheckPlan(i).status =
           mapTFEStatus2Model(runs[wks[i].id][wks[i].plan.id].status)
  BY ReadsPlan DEF WaitInv, WaitersType
<1>4. GetCheckPlan(i)' = GetCheckPlan(i)
  BY <1>1 DEF GetCheckPlan
<1>5. Outcome(i)'
  <2>1. CASE GetCheckPlan(i).status # "Waiting" /\ Finish(i, Result(GetCheckPlan(i), FALSE))
    <3>1. result'[i] = Result(GetCheckPlan(i), FALSE)
      BY <1>2, <2>1 DEF Finish
    <3>2. Ended(runs[wks[i].id][wks[i].plan.id])
      BY <1>3, <2>1, NotWaitingEnded
    <3>. QED
      BY <1>1, <1>4, <3>1, <3>2 DEF Outcome, Result
  <2>2. CASE waiter' = [waiter EXCEPT ![i] = "poll"]
    BY <1>2, <2>2 DEF Outcome
  <2>3. CASE Finish(i, KeepsPlan(i))
    <3>1. result'[i].err = TRUE
      BY <1>2, <2>3 DEF Finish, KeepsPlan, Result
    <3>. QED
      BY <3>1 DEF Outcome
  <2>. QED
    BY <2>1, <2>2, <2>3 DEF Read
<1>6. ASSUME NEW j \in Positions, j # i PROVE Outcome(j)'
  <2>1. waiter'[j] = waiter[j] /\ result'[j] = result[j]
    BY <1>2, <1>6 DEF Read, Finish
  <2>2. Outcome(j)
    BY DEF FinishedIsEnded, Outcome
  <2>. QED
    BY <1>1, <2>1, <2>2 DEF Outcome, GetCheckPlan
<1>. QED
  BY <1>1, <1>5, <1>6 DEF FinishedIsEnded, Outcome

LEMMA OutcomeNext ==
  ListedStatuses /\ WaitInv /\ FinishedIsEnded /\ [Next]_vars => FinishedIsEnded'
<1> SUFFICES ASSUME ListedStatuses, WaitInv, FinishedIsEnded, [Next]_vars
             PROVE  FinishedIsEnded'
  OBVIOUS
<1>0. \A i \in Positions : Outcome(i)
  BY DEF FinishedIsEnded, Outcome
<1>1. ASSUME Advance, UNCHANGED <<wks, result>>,
             \A i \in Positions :
               waiter'[i] \in {"send", "done"} => waiter[i] \in {"send", "done"}
      PROVE  FinishedIsEnded'
  <2>1. \A i \in Positions : Outcome(i)'
    BY <1>0, <1>1, OutcomeStays
  <2>2. Positions' = Positions
    BY <1>1 DEF Positions
  <2>. QED
    BY <2>1, <2>2 DEF FinishedIsEnded, Outcome
<1>2. UNCHANGED rvars => Advance
  BY StandQuiet
<1>3. waiter \in [Positions -> {"first", "poll", "send", "done"}]
  BY DEF WaitInv, WaitersType
<1>4. CASE Begin
  <2>1. \A i \in Positions' : waiter'[i] = "send" \/ waiter'[i] = "done" => wks'[i].plan = NoPlan
    BY <1>4 DEF Begin, BeginWith, Positions
  <2>. QED
    BY <2>1 DEF FinishedIsEnded
<1>5. ASSUME NEW i \in Positions, FirstRead(i) \/ Poll(i) \/ GiveUp(i)
      PROVE  FinishedIsEnded'
  BY <1>5, MoveOutcome DEF FirstRead, Poll, GiveUp, ReadError
<1>6. ASSUME NEW i \in Positions, Receive(i) PROVE FinishedIsEnded'
  BY <1>1, <1>2, <1>3, <1>6 DEF Receive, ReceiveAs
<1>7. CASE Return
  BY <1>1, <1>2, <1>7 DEF Return, ReturnIf, waiterVars
<1>8. ASSUME NEW i \in Positions, TickerFires(i) \/ Expire(i) PROVE FinishedIsEnded'
  BY <1>1, <1>2, <1>8 DEF TickerFires, Expire
<1>9. CASE Cancel
  BY <1>1, <1>2, <1>9 DEF Cancel, waiterVars
<1>10. ASSUME NEW w \in Workspaces, RunProgress(w),
              UNCHANGED <<ctxDone, phase, wks, waiterVars, got, indexed, output>>
       PROVE  FinishedIsEnded'
  <2>1. Advance
    BY <1>10, RunProgressEffect DEF WaitInv
  <2>. QED
    BY <1>1, <1>10, <2>1 DEF waiterVars
<1>11. CASE UNCHANGED vars
  <2>1. UNCHANGED rvars /\ UNCHANGED <<wks, waiter, result>>
    BY <1>11 DEF vars, rvars
  <2>. QED
    BY <1>1, <1>2, <2>1
<1>. QED
  BY <1>4, <1>5, <1>6, <1>7, <1>8, <1>9, <1>10, <1>11 DEF Next, WaiterStep

(***************************************************************************)
(* Every wait that reports no error waited for the end of its run, and     *)
(* says how it ended.                                                      *)
(***************************************************************************)
THEOREM FinishedIsEndedHolds ==
  ASSUME ListedStatuses PROVE Spec => []FinishedIsEnded
<1>1. Init => FinishedIsEnded
  BY DEF Init, FinishedIsEnded, Positions
<1>2. WaitInv /\ FinishedIsEnded /\ [Next]_vars => FinishedIsEnded'
  BY OutcomeNext
<1>. QED
  BY <1>1, <1>2, Inductive, PTL DEF Spec

-----------------------------------------------------------------------------
(***************************************************************************)
(* For any list, the call is the fan-out its caller expects.               *)
(***************************************************************************)
LEMMA OwnPlanOf ==
  ASSUME WaitInv, NEW w \in Workspaces, NEW plan, plan = NoPlan \/ Newest(w, plan)
  PROVE  plan \in OwnPlans[w]
<1>1. PICK h \in Histories[w] : Len(h) = Len(runs[w])
  BY DEF WaitInv, Owned
<1>. QED
  BY <1>1 DEF OwnPlans, Newest

THEOREM WaitImplementsFanOut == Spec => FanOutSpec
<1>1. Init => Fan!Init
  <2> SUFFICES ASSUME Init PROVE Fan!Init
    OBVIOUS
  <2>1. [i \in Positions |-> wks[i].id] = << >>
    BY DEF Init, Positions
  <2>2. [i \in DOMAIN output |-> [id |-> output[i].id, reply |-> output[i].plan]] = << >>
    BY DEF Init
  <2>. QED
    BY <2>1, <2>2 DEF Init, Fan!Init, Fan!Nothing
<1>2. ASSUME WaitInv, [Next]_vars PROVE [Fan!Next]_(Fan!fvars)
  <2>1. ASSUME Begin PROVE Fan!Begin(Call)
    <3>1. PICK list \in Listings :
            wks' = [i \in DOMAIN list |-> [id |-> list[i], plan |-> LatestPlan(list[i])]]
      BY <2>1 DEF Begin, BeginWith
    <3>2. list \in Seq(Workspaces)
      BY ListingsAssumption
    <3> DEFINE ids == [i \in Positions |-> wks[i].id]
    <3>3. ids' = [i \in DOMAIN list |-> list[i]]
      BY <3>1 DEF Positions
    <3>4. ids' \in Seq(Workspaces)
      <4>1. [i \in DOMAIN list |-> list[i]] = list
        BY <3>2
      <4>. QED
        BY <3>2, <3>3, <4>1
    <3>5. phase = "new" /\ phase' = "open" /\ UNCHANGED <<indexed, output>>
      BY <2>1 DEF Begin, BeginWith
    <3>. QED
      BY <3>4, <3>5 DEF Fan!Begin
  <2>2. ASSUME NEW i \in Positions, Receive(i) PROVE Fan!Answer(Call)
    <3>1. /\ phase = "open" /\ UNCHANGED <<phase, wks, output>>
          /\ indexed' = [indexed EXCEPT ![wks[i].id] = result[i].plan]
      BY <2>2 DEF Receive, ReceiveAs
    <3>2. wks[i].id \in Workspaces
      <4>1. wks[i] \in Waited
        BY <1>2 DEF WaitInv, WaitersType, Positions
      <4>. QED
        BY <4>1 DEF Waited
    <3>3. result[i].plan \in OwnPlans[wks[i].id]
      BY <1>2, <3>2, OwnPlanOf DEF WaitInv, Owned
    <3>4. indexed'[wks[i].id] = result[i].plan
      BY <1>2, <3>1, <3>2 DEF WaitInv, Owned
    <3>5. Positions' = Positions
      BY <3>1 DEF Positions
    <3>. QED
      BY <3>1, <3>2, <3>3, <3>4, <3>5 DEF Fan!Answer
  <2>3. ASSUME Return PROVE Fan!Return(Call)
    <3>1. /\ phase = "open" /\ phase' = "done" /\ got = Len(wks)
          /\ output' = [i \in Positions |-> [id |-> wks[i].id, plan |-> indexed[wks[i].id]]]
          /\ UNCHANGED <<wks, indexed>>
      BY <2>3 DEF Return, ReturnIf
    <3>2. \A i \in Positions : indexed[wks[i].id] # Missing
      BY <1>2, <3>1, AllHanded DEF WaitInv, Owned
    <3>3. [i \in DOMAIN output' |-> [id |-> output'[i].id, reply |-> output'[i].plan]]
            = [i \in Positions |-> [id |-> wks[i].id, reply |-> indexed[wks[i].id]]]
      BY <3>1
    <3>4. Positions' = Positions
      BY <3>1 DEF Positions
    <3>. QED
      BY <3>1, <3>2, <3>3, <3>4 DEF Fan!Return, Fan!Entry
  <2>4. ASSUME UNCHANGED <<phase, wks, indexed, output>> PROVE UNCHANGED Fan!fvars
    BY <2>4 DEF Fan!fvars, Positions
  <2>5. ASSUME NEW i \in Positions, FirstRead(i) \/ Poll(i) \/ GiveUp(i) \/ TickerFires(i) \/ Expire(i)
        PROVE  UNCHANGED <<phase, wks, indexed, output>>
    BY <2>5 DEF FirstRead, Poll, GiveUp, TickerFires, Expire
  <2>6. CASE Cancel
    BY <2>4, <2>6 DEF Cancel
  <2>7. ASSUME NEW w \in Workspaces, RunProgress(w),
               UNCHANGED <<ctxDone, phase, wks, waiterVars, got, indexed, output>>
        PROVE  UNCHANGED Fan!fvars
    BY <2>4, <2>7
  <2>8. CASE UNCHANGED vars
    BY <2>4, <2>8 DEF vars
  <2>. QED
    BY <1>2, <2>1, <2>2, <2>3, <2>4, <2>5, <2>6, <2>7, <2>8 DEF Next, WaiterStep, Fan!Next
<1>. QED
  BY <1>1, <1>2, Inductive, PTL DEF Spec, FanOutSpec, Fan!Spec
=============================================================================
