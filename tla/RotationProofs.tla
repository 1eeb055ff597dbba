--------------------------- MODULE RotationProofs ---------------------------
(***************************************************************************)
(* Theorems about Rotation: for any number of workspaces, any limit, and   *)
(* whichever of them are broken.                                           *)
(***************************************************************************)
EXTENDS Rotation, ProcessorsProofs

-----------------------------------------------------------------------------
(* Quotient: ages keep their order and stay below Never.                    *)

Size == Cardinality(Workspaces)

LEMMA Constants ==
  /\ Size \in Nat /\ NotBefore \in Nat /\ MaxPlans \in Nat
  /\ Never = NotBefore + Size + 1 /\ Never \in Nat
<1>1. Size \in Nat
  BY WorkspacesAssumption, FS_CardinalityType DEF Size
<1>. QED
  BY <1>1, FlagsAssumption DEF Never, Now, Size

Younger(ages, w) == {u \in Workspaces : NotBefore <= ages[u] /\ ages[u] < ages[w]}

AgesBelow(ages, w) == {ages[v] : v \in Younger(ages, w)}

LEMMA AgesBelowFinite ==
  ASSUME NEW ages \in [Workspaces -> Nat], NEW w \in Workspaces
  PROVE  /\ IsFiniteSet(AgesBelow(ages, w))
         /\ Cardinality(AgesBelow(ages, w)) \in 0..(Size - 1)
<1> DEFINE U == Younger(ages, w)
           T == AgesBelow(ages, w)
           f == [u \in U |-> ages[u]]
<1>1. U \in SUBSET (Workspaces \ {w})
  BY DEF Younger
<1>2. IsFiniteSet(Workspaces \ {w}) /\ Cardinality(Workspaces \ {w}) = Size - 1
  BY WorkspacesAssumption, FS_RemoveElement DEF Size
<1>3. IsFiniteSet(U) /\ Cardinality(U) <= Size - 1
  BY <1>1, <1>2, FS_Subset
<1>4. f \in Surjection(U, T)
  <2>1. f \in [U -> T] /\ \A t \in T : \E u \in U : f[u] = t
    BY DEF AgesBelow
  <2>. QED
    BY <2>1 DEF Surjection
<1>5. IsFiniteSet(T) /\ Cardinality(T) <= Cardinality(U)
  BY <1>3, <1>4, FS_Surjection
<1>6. Cardinality(T) \in Nat /\ Cardinality(U) \in Nat
  BY <1>3, <1>5, FS_CardinalityType
<1>. QED
  BY <1>3, <1>5, <1>6, Constants

LEMMA QuotientOf ==
  ASSUME NEW ages \in [Workspaces -> Nat], NEW w \in Workspaces
  PROVE  /\ ages[w] >= Never => Quotient(ages)[w] = Never
         /\ ages[w] < NotBefore => Quotient(ages)[w] = ages[w]
         /\ ages[w] < Never /\ ages[w] >= NotBefore =>
              Quotient(ages)[w] = NotBefore + Cardinality(AgesBelow(ages, w))
  BY Constants DEF Quotient, AgesBelow, Younger

LEMMA QuotientBounds ==
  ASSUME NEW ages \in [Workspaces -> Nat], NEW w \in Workspaces
  PROVE  /\ Quotient(ages)[w] \in Nat
         /\ Quotient(ages)[w] = Never \/ Quotient(ages)[w] <= Never - 2
         /\ ages[w] >= NotBefore => Quotient(ages)[w] >= NotBefore
<1>1. Size # 0
  BY WorkspacesAssumption, FS_EmptySet DEF Size
<1>2. Cardinality(AgesBelow(ages, w)) \in 0..(Size - 1) /\ ages[w] \in Nat
  BY AgesBelowFinite
<1>. QED
  BY <1>1, <1>2, QuotientOf, Constants

LEMMA QuotientOrders ==
  ASSUME NEW ages \in [Workspaces -> Nat], NEW v \in Workspaces, NEW w \in Workspaces,
         ages[v] < ages[w], ages[v] < Never
  PROVE  Quotient(ages)[v] < Quotient(ages)[w]
<1>1. /\ Cardinality(AgesBelow(ages, v)) \in 0..(Size - 1)
      /\ Cardinality(AgesBelow(ages, w)) \in 0..(Size - 1)
      /\ IsFiniteSet(AgesBelow(ages, w))
      /\ ages[v] \in Nat /\ ages[w] \in Nat
  BY AgesBelowFinite
<1>2. CASE ages[v] < NotBefore
  BY <1>1, <1>2, QuotientOf, Constants
<1>3. CASE ages[v] >= NotBefore /\ ages[w] >= Never
  BY <1>1, <1>3, QuotientOf, Constants
<1>4. CASE ages[v] >= NotBefore /\ ages[w] < Never
  <2> DEFINE P == AgesBelow(ages, v)
             Q == AgesBelow(ages, w)
  <2>1. v \in Younger(ages, w) /\ Younger(ages, v) \subseteq Younger(ages, w)
    <3>1. \A u \in Workspaces : ages[u] \in Nat
      OBVIOUS
    <3>. QED
      BY <1>1, <1>4, <3>1, Constants DEF Younger
  <2>2. P \in SUBSET Q /\ ages[v] \in Q
    BY <2>1 DEF AgesBelow
  <2>3. ages[v] \notin P
    BY <1>1 DEF AgesBelow, Younger
  <2>4. Cardinality(P) <= Cardinality(Q) /\ Cardinality(P) # Cardinality(Q)
    BY <1>1, <2>2, <2>3, FS_Subset
  <2>5. Cardinality(P) < Cardinality(Q)
    <3> HIDE DEF P, Q
    <3>1. Cardinality(P) \in Nat /\ Cardinality(Q) \in Nat
      BY <1>1 DEF P, Q
    <3>. QED
      BY <2>4, <3>1
  <2>6. /\ Quotient(ages)[v] = NotBefore + Cardinality(P)
        /\ Quotient(ages)[w] = NotBefore + Cardinality(Q)
    BY <1>1, <1>4, QuotientOf, Constants
  <2>. QED
    BY <1>1, <2>5, <2>6, Constants
<1>. QED
  BY <1>1, <1>2, <1>3, <1>4, Constants

-----------------------------------------------------------------------------
(* What a cycle chooses.                                                    *)

AgeType ==
  /\ age \in [Workspaces -> Nat]
  /\ \A w \in Workspaces : age[w] = Never \/ age[w] <= Never - 2

Entries == [id : Workspaces, plan : Plan \cup {NoPlan}]

LEMMA PlanOfAge ==
  ASSUME AgeType, NEW w \in Workspaces
  PROVE  /\ PlanOf(w) \in Plan \cup {NoPlan}
         /\ LastAt(PlanOf(w)) = Now - age[w]
         /\ PlanOf(w) # NoPlan =>
              /\ PlanOf(w).createdAt = Now - age[w]
              /\ PlanOf(w).status = "Waiting" <=> w \in queued
<1>1. age[w] \in Nat /\ (age[w] = Never \/ age[w] <= Never - 2)
  BY DEF AgeType
<1>2. CASE age[w] = Never
  BY <1>2, Constants DEF PlanOf, LastAt, ZeroTime, Never
<1>3. CASE age[w] # Never
  <2> DEFINE p == [id |-> 1, createdAt |-> Now - age[w], hasChanges |-> FALSE,
                   status |-> IF w \in queued THEN "Waiting" ELSE "FinishedOK"]
  <2>1. PlanOf(w) = p
    BY <1>3 DEF PlanOf
  <2>2. Now - age[w] \in Nat
    BY <1>1, <1>3, Constants DEF Never
  <2>3. p \in Plan
    BY <2>2 DEF Plan, PlanStatus
  <2>4. p # NoPlan
    BY <2>3, NoPlanAssumption
  <2>. QED
    BY <2>1, <2>3, <2>4 DEF LastAt
<1>. QED
  BY <1>2, <1>3

LEMMA EntriesAt == \A x \in Entries : LastAt(x.plan) \in Nat
  BY DEF Entries, LastAt, ZeroTime, Plan

LEMMA HydratedList ==
  ASSUME AgeType, NEW list \in Listings, NEW failing \in SUBSET Broken
  PROVE  LET all == Hydrated(list, failing)
         IN  /\ all \in Seq(Entries) /\ DOMAIN all = DOMAIN list
             /\ DifferentIDs(all)
             /\ \A i \in DOMAIN all :
                  /\ all[i].id = list[i]
                  /\ all[i].plan = PlanOf(list[i]) \/ all[i].plan = NoPlan
                  /\ list[i] \notin Broken => all[i].plan = PlanOf(list[i])
<1> DEFINE all == Hydrated(list, failing)
<1>1. list \in Seq(Workspaces) /\ DOMAIN list = 1..Len(list) /\ Len(list) \in Nat
  BY ListingsAssumption
<1>2. \A i \in DOMAIN list : list[i] \in Workspaces
  BY <1>1
<1>3. all = [i \in DOMAIN list |->
               [id |-> list[i], plan |-> IF list[i] \in failing THEN NoPlan ELSE PlanOf(list[i])]]
  BY DEF Hydrated
<1>4. ASSUME NEW i \in DOMAIN list PROVE all[i] \in Entries
  BY <1>2, <1>3, PlanOfAge DEF Entries
<1>5. all \in Seq(Entries)
  <2> HIDE DEF all
  <2>1. all = [i \in 1..Len(list) |-> all[i]]
    BY <1>1, <1>3, Zenon
  <2>2. \A i \in 1..Len(list) : all[i] \in Entries
    BY <1>1, <1>4
  <2>. QED
    BY <1>1, <2>1, <2>2
<1>6. \A i, j \in DOMAIN list : list[i] = list[j] => i = j
  BY ListingsAssumption
<1>7. DifferentIDs(all)
  BY <1>3, <1>6 DEF DifferentIDs
<1>8. ASSUME NEW i \in DOMAIN list
      PROVE  /\ all[i].id = list[i]
             /\ all[i].plan = PlanOf(list[i]) \/ all[i].plan = NoPlan
             /\ list[i] \notin Broken => all[i].plan = PlanOf(list[i])
  BY <1>3
<1>9. DOMAIN all = DOMAIN list
  BY <1>3
<1> HIDE DEF all
<1>. QED
  BY <1>5, <1>7, <1>8, <1>9, Zenon DEF all

\* A free workspace that is listed passes the filters, whatever its fetch gave.
LEMMA FreePasses ==
  ASSUME AgeType, NEW v \in Workspaces, Free(v), NEW wk,
         wk.plan = PlanOf(v) \/ wk.plan = NoPlan
  PROVE  ~Queued(wk) /\ ~TooRecent(wk, Now, NotBefore)
<1>1. v \notin queued /\ age[v] >= NotBefore /\ age[v] \in Nat
  BY DEF Free, AgeType
<1>2. CASE wk.plan = NoPlan
  BY <1>2 DEF Queued, TooRecent
<1>3. CASE wk.plan # NoPlan
  <2>1. wk.plan = PlanOf(v) /\ wk.plan.createdAt = Now - age[v] /\ wk.plan.status # "Waiting"
    BY <1>1, <1>3, PlanOfAge
  <2>2. Now \in Nat
    BY Constants DEF Never
  <2>3. ~(Now - wk.plan.createdAt < NotBefore)
    BY <1>1, <2>1, <2>2, Constants
  <2>. QED
    BY <2>1, <2>3 DEF Queued, TooRecent
<1>. QED
  BY <1>2, <1>3

LEMMA LimitLength ==
  ASSUME NEW T, NEW wks \in Seq(T), MaxPlans # 0
  PROVE  Len(LimitMax(wks, MaxPlans)) <= MaxPlans
<1>1. MaxPlans \in Nat /\ Len(wks) \in Nat
  BY Constants
<1>2. CASE MaxPlans >= Len(wks)
  BY <1>1, <1>2 DEF LimitMax
<1>3. CASE ~(MaxPlans >= Len(wks))
  <2>1. LimitMax(wks, MaxPlans) = SubSeq(wks, 1, MaxPlans)
    BY <1>3 DEF LimitMax
  <2>2. Len(SubSeq(wks, 1, MaxPlans)) = MaxPlans
    BY <1>1, <1>3
  <2>. QED
    BY <1>1, <2>1, <2>2
<1>. QED
  BY <1>2, <1>3

\* The limit leaves elements out only when it is full.
LEMMA LimitFull ==
  ASSUME NEW T, NEW wks \in Seq(T), NEW i \in DOMAIN wks
  PROVE  LET list == LimitMax(wks, MaxPlans)
         IN  \/ \E j \in DOMAIN list : list[j] = wks[i]
             \/ MaxPlans # 0 /\ Len(list) = MaxPlans
<1>1. MaxPlans \in Nat /\ Len(wks) \in Nat
  BY Constants
<1>2. CASE MaxPlans = 0 \/ MaxPlans >= Len(wks)
  BY <1>2 DEF LimitMax
<1>3. CASE ~(MaxPlans = 0 \/ MaxPlans >= Len(wks))
  <2>1. LimitMax(wks, MaxPlans) = SubSeq(wks, 1, MaxPlans)
    BY <1>3 DEF LimitMax
  <2>2. Len(SubSeq(wks, 1, MaxPlans)) = MaxPlans
    BY <1>1, <1>3
  <2>. QED
    BY <1>3, <2>1, <2>2
<1>. QED
  BY <1>2, <1>3

\* Without a failed fetch, what passes the filters is free.
LEMMA OnlyFreePass ==
  ASSUME AgeType, NEW u \in Workspaces, NEW wk, wk.plan = PlanOf(u),
         ~Queued(wk), NotBefore # 0 => ~TooRecent(wk, Now, NotBefore)
  PROVE  age[u] = Never \/ Free(u)
<1>1. age[u] \in Nat /\ Now \in Nat /\ NotBefore \in Nat
      /\ (age[u] = Never \/ age[u] <= Never - 2) /\ Never = Now
  BY Constants DEF AgeType, Never
<1>2. CASE PlanOf(u) = NoPlan
  <2>1. NoPlan \notin Plan
    BY NoPlanAssumption
  <2>2. ASSUME age[u] # Never PROVE PlanOf(u) \in Plan
    <3> DEFINE p == [id |-> 1, createdAt |-> Now - age[u], hasChanges |-> FALSE,
                     status |-> IF u \in queued THEN "Waiting" ELSE "FinishedOK"]
    <3>1. PlanOf(u) = p
      BY <2>2 DEF PlanOf
    <3>2. Now - age[u] \in Nat
      BY <1>1, <2>2
    <3>. QED
      BY <3>1, <3>2 DEF Plan, PlanStatus
  <2>. QED
    BY <1>2, <2>1, <2>2
<1>3. CASE PlanOf(u) # NoPlan
  <2>1. PlanOf(u).createdAt = Now - age[u] /\ u \notin queued
    BY <1>3, PlanOfAge DEF Queued
  <2>2. NotBefore # 0 => ~(Now - (Now - age[u]) < NotBefore)
    BY <1>3, <2>1 DEF TooRecent
  <2>3. age[u] >= NotBefore
    BY <1>1, <2>2
  <2>. QED
    BY <2>1, <2>3 DEF Free
<1>. QED
  BY <1>2, <1>3

\* The turns of a cycle: at most as many as the limit, of different workspaces,
\* no workspace before a free one whose last run is older, none that is not free
\* but by a failed fetch, and as many as the limit if a free one is left out.
LEMMA ChosenTurns ==
  ASSUME AgeType, Choose
  PROVE  /\ turn' \in Seq(Workspaces)
         /\ MaxPlans = 0 \/ Len(turn') <= MaxPlans
         /\ \A i, j \in DOMAIN turn' : turn'[i] = turn'[j] => i = j
         /\ \A k \in DOMAIN turn', v \in Workspaces :
              turn'[k] \notin Broken /\ Free(v) /\ age[turn'[k]] < age[v] =>
                \E j \in DOMAIN turn' : j < k /\ turn'[j] = v
         /\ \A k \in DOMAIN turn' :
              turn'[k] \notin Broken => age[turn'[k]] = Never \/ Free(turn'[k])
         /\ \A v \in Workspaces :
              Free(v) => \/ \E j \in DOMAIN turn' : turn'[j] = v
                         \/ MaxPlans # 0 /\ Len(turn') = MaxPlans
<1>1. PICK list \in Listings, failing \in SUBSET Broken :
        LET due == FilterDriftDetectionsBefore(FilterQueued(Hydrated(list, failing)),
                                               Now, NotBefore)
        IN  turn' = [i \in DOMAIN Chosen(due) |-> Chosen(due)[i].id]
  BY DEF Choose
<1> DEFINE all == Hydrated(list, failing)
           idle == FilterQueued(all)
           due == FilterDriftDetectionsBefore(idle, Now, NotBefore)
           sorted == SortByOldest(due)
           chosen == LimitMax(sorted, MaxPlans)
<1>2. turn' = [i \in DOMAIN chosen |-> chosen[i].id]
  BY <1>1 DEF Chosen
<1>3. /\ all \in Seq(Entries) /\ DOMAIN all = DOMAIN list /\ DifferentIDs(all)
      /\ \A i \in DOMAIN all :
           /\ all[i].id = list[i]
           /\ all[i].plan = PlanOf(list[i]) \/ all[i].plan = NoPlan
           /\ list[i] \notin Broken => all[i].plan = PlanOf(list[i])
  BY HydratedList, Zenon
<1> HIDE DEF all
<1>4. idle \in Seq(Entries) /\ Selection(idle, all)
      /\ \A k \in DOMAIN idle : ~Queued(idle[k])
  BY <1>3, FilterQueuedSelects, Zenon
<1>5. \A i \in DOMAIN all : ~Queued(all[i]) /\ ~TooRecent(all[i], Now, NotBefore) =>
        \E m \in DOMAIN due : due[m] = all[i]
  BY <1>3, FiltersReach
<1> HIDE DEF idle
<1>6. due \in Seq(Entries) /\ Selection(due, idle)
      /\ (NotBefore # 0 => \A k \in DOMAIN due : ~TooRecent(due[k], Now, NotBefore))
  BY <1>4, FilterRecentSelects, Zenon
<1> HIDE DEF due
<1>7. sorted \in Seq(Entries) /\ Selection(sorted, due)
  BY <1>6, EntriesAt, SortByOldestSorts, Zenon
<1>8. MaxPlans \in Nat
  BY Constants
<1>9. \A m \in DOMAIN due, k \in DOMAIN chosen :
        \/ \E j \in DOMAIN chosen : j < k /\ chosen[j] = due[m]
        \/ LastAt(due[m].plan) >= LastAt(chosen[k].plan)
  BY <1>6, <1>8, EntriesAt, LimitKeepsOldest
<1>10. \A m \in DOMAIN due : \E l \in DOMAIN sorted : sorted[l] = due[m]
  <2>1. ASSUME NEW m \in DOMAIN due PROVE \E l \in DOMAIN due : sorted[l] = due[m]
    BY <1>6, EntriesAt, SortReaches, Zenon
  <2>2. DOMAIN sorted = DOMAIN due
    <3>1. Len(sorted) = Len(due)
      BY <1>6, EntriesAt, SortByOldestSorts, Zenon
    <3> HIDE DEF sorted
    <3>. QED
      BY <1>6, <1>7, <3>1
  <2>. QED
    BY <2>1, <2>2
<1> HIDE DEF sorted
<1>11. \A l \in DOMAIN sorted : \/ \E j \in DOMAIN chosen : chosen[j] = sorted[l]
                                \/ MaxPlans # 0 /\ Len(chosen) = MaxPlans
  BY <1>7, LimitFull, Zenon
<1>12. chosen \in Seq(Entries) /\ Selection(chosen, sorted)
  BY <1>7, <1>8, LimitSelects, Zenon
<1>13. MaxPlans = 0 \/ Len(chosen) <= MaxPlans
  BY <1>7, LimitLength, Zenon
<1> HIDE DEF chosen
<1>14. Selection(chosen, all)
  BY <1>4, <1>6, <1>7, <1>12, SelectionOfSelection, Zenon
<1>15. DifferentIDs(chosen)
  BY <1>3, <1>14, SelectionIDs
<1>16. DOMAIN chosen = 1..Len(chosen) /\ Len(chosen) \in Nat
       /\ \A i \in DOMAIN chosen : chosen[i] \in Entries
  BY <1>12
<1>17. turn' \in Seq(Workspaces) /\ Len(turn') = Len(chosen) /\ DOMAIN turn' = DOMAIN chosen
  <2>1. \A i \in DOMAIN chosen : chosen[i].id \in Workspaces
    BY <1>16 DEF Entries
  <2>. QED
    BY <1>2, <1>16, <2>1
<1>18. \A i, j \in DOMAIN turn' : turn'[i] = turn'[j] => i = j
  BY <1>2, <1>15, <1>17 DEF DifferentIDs
<1>19. ASSUME NEW k \in DOMAIN turn', NEW v \in Workspaces,
              turn'[k] \notin Broken, Free(v), age[turn'[k]] < age[v]
       PROVE  \E j \in DOMAIN turn' : j < k /\ turn'[j] = v
  <2>1. PICK q \in DOMAIN all : chosen[k] = all[q]
    BY <1>14, <1>17, SelectionMembers
  <2>2. turn'[k] = list[q] /\ chosen[k].plan = PlanOf(turn'[k]) /\ turn'[k] \in Workspaces
    BY <1>2, <1>3, <1>17, <1>19, <2>1
  <2>3. PICK i \in DOMAIN list : list[i] = v
    BY ListingsAssumption
  <2>4. PICK m \in DOMAIN due : due[m] = all[i]
    BY <1>3, <1>5, <1>19, <2>3, FreePasses
  <2>5. due[m].id = v /\ (due[m].plan = PlanOf(v) \/ due[m].plan = NoPlan)
    BY <1>3, <2>3, <2>4
  <2>6. LastAt(chosen[k].plan) = Now - age[turn'[k]] /\ LastAt(PlanOf(v)) = Now - age[v]
    BY <2>2, PlanOfAge
  <2>7. /\ age[turn'[k]] \in Nat /\ age[v] \in Nat /\ Now \in Nat
        /\ age[v] <= Now /\ LastAt(NoPlan) = 0
    BY <2>2, Constants DEF AgeType, Never, LastAt, ZeroTime
  <2>8. ~(LastAt(due[m].plan) >= LastAt(chosen[k].plan))
    BY <1>19, <2>5, <2>6, <2>7
  <2>9. PICK j \in DOMAIN chosen : j < k /\ chosen[j] = due[m]
    BY <1>9, <1>17, <2>8
  <2>. QED
    BY <1>2, <1>17, <2>5, <2>9
<1>20. ASSUME NEW k \in DOMAIN turn', turn'[k] \notin Broken
       PROVE  age[turn'[k]] = Never \/ Free(turn'[k])
  <2>1. PICK q \in DOMAIN all : chosen[k] = all[q]
    BY <1>14, <1>17, SelectionMembers
  <2>2. turn'[k] = list[q] /\ chosen[k].plan = PlanOf(turn'[k]) /\ turn'[k] \in Workspaces
    BY <1>2, <1>3, <1>17, <1>20, <2>1
  <2>3. PICK m \in DOMAIN due : chosen[k] = due[m]
    <3>1. PICK l \in DOMAIN sorted : chosen[k] = sorted[l]
      BY <1>12, <1>17, SelectionMembers
    <3>. QED
      BY <1>7, <3>1, SelectionMembers
  <2>4. PICK l \in DOMAIN idle : due[m] = idle[l]
    BY <1>6, SelectionMembers
  <2>5. ~Queued(chosen[k]) /\ (NotBefore # 0 => ~TooRecent(chosen[k], Now, NotBefore))
    BY <1>4, <1>6, <2>3, <2>4
  <2>. QED
    BY <2>2, <2>5, OnlyFreePass
<1>21. ASSUME NEW v \in Workspaces, Free(v)
       PROVE  \/ \E j \in DOMAIN turn' : turn'[j] = v
              \/ MaxPlans # 0 /\ Len(turn') = MaxPlans
  <2>1. PICK i \in DOMAIN list : list[i] = v
    BY ListingsAssumption
  <2>2. PICK m \in DOMAIN due : due[m] = all[i]
    BY <1>3, <1>5, <1>21, <2>1, FreePasses
  <2>3. due[m].id = v
    BY <1>3, <2>1, <2>2
  <2>4. PICK l \in DOMAIN sorted : sorted[l] = due[m]
    BY <1>10
  <2>. QED
    BY <1>2, <1>17, <1>11, <2>3, <2>4
<1>. QED
  BY <1>13, <1>17, <1>18, <1>19, <1>20, <1>21

-----------------------------------------------------------------------------
(* Type correctness.                                                        *)

TurnType ==
  /\ turn \in Seq(Workspaces)
  /\ MaxPlans = 0 \/ Len(turn) <= MaxPlans
  /\ \A i, j \in DOMAIN turn : turn[i] = turn[j] => i = j

TypeInv ==
  /\ AgeType /\ TurnType
  /\ queued \subseteq Workspaces
  /\ overtaken \in [Workspaces -> SUBSET Workspaces]

LEMMA TypeInvInit == Init => TypeInv
<1> SUFFICES ASSUME Init PROVE TypeInv
  OBVIOUS
<1>1. AgeType
  BY Constants DEF Init, AgeType
<1>2. TurnType
  <2>1. turn = << >> /\ Len(turn) = 0 /\ DOMAIN turn = {}
    BY DEF Init
  <2>. QED
    BY <2>1, Constants DEF TurnType
<1>. QED
  BY <1>1, <1>2 DEF Init, TypeInv

\* The ages after a creation, and after a tick.
CreatedAges(w) == [age EXCEPT ![w] = 0]
TickedAges == [w \in Workspaces |-> IF age[w] = Never THEN Never ELSE age[w] + 1]

LEMMA AgesStay ==
  ASSUME NEW ages \in [Workspaces -> Nat], age' = Quotient(ages)
  PROVE  AgeType'
<1>1. age' = [w \in Workspaces |-> age'[w]]
  BY DEF Quotient
<1>2. \A w \in Workspaces : age'[w] \in Nat /\ (age'[w] = Never \/ age'[w] <= Never - 2)
  BY QuotientBounds
<1>. QED
  BY <1>1, <1>2 DEF AgeType, Never, Now

LEMMA NewAges ==
  ASSUME AgeType, NEW w \in Workspaces
  PROVE  CreatedAges(w) \in [Workspaces -> Nat] /\ TickedAges \in [Workspaces -> Nat]
  BY Constants DEF AgeType, CreatedAges, TickedAges

\* A turn that is over leaves the others in their order.
LEMMA TurnEnds ==
  ASSUME TurnType, NEW w \in Workspaces, NEW created \in BOOLEAN, TurnOf(w, created)
  PROVE  /\ TurnType' /\ 1 \in DOMAIN turn /\ turn[1] = w
         /\ DOMAIN turn' = 1..(Len(turn) - 1) /\ Len(turn) \in Nat
         /\ \A k \in DOMAIN turn' : k + 1 \in DOMAIN turn /\ turn'[k] = turn[k + 1]
<1>1. turn # << >> /\ w = Head(turn) /\ turn' = Tail(turn)
  BY DEF TurnOf
<1>2. turn \in Seq(Workspaces) /\ Len(turn) \in Nat /\ DOMAIN turn = 1..Len(turn)
  BY DEF TurnType
<1>3. /\ turn' \in Seq(Workspaces) /\ Len(turn') = Len(turn) - 1 /\ Len(turn) >= 1
      /\ DOMAIN turn' = 1..(Len(turn) - 1)
      /\ turn[1] = w
  BY <1>1, <1>2
<1>4. \A k \in 1..(Len(turn) - 1) : k + 1 \in DOMAIN turn /\ turn'[k] = turn[k + 1]
  BY <1>1, <1>2
<1>5. \A i, j \in DOMAIN turn' : turn'[i] = turn'[j] => i = j
  BY <1>2, <1>3, <1>4 DEF TurnType
<1>6. MaxPlans = 0 \/ Len(turn') <= MaxPlans
  BY <1>2, <1>3, Constants DEF TurnType
<1>. QED
  BY <1>2, <1>3, <1>4, <1>5, <1>6 DEF TurnType

LEMMA OvertakenType ==
  ASSUME TypeInv, NEW w \in Workspaces, NEW created \in BOOLEAN, TurnOf(w, created)
  PROVE  overtaken' \in [Workspaces -> SUBSET Workspaces]
<1>1. \A v \in Workspaces : overtaken[v] \in SUBSET Workspaces
  BY DEF TypeInv
<1>. QED
  BY <1>1 DEF TurnOf

LEMMA TypeInvNext == TypeInv /\ [Next]_vars => TypeInv'
<1> SUFFICES ASSUME TypeInv, [Next]_vars PROVE TypeInv'
  OBVIOUS
<1>1. CASE Choose
  <2>1. TurnType'
    BY <1>1, ChosenTurns DEF TypeInv, TurnType
  <2>. QED
    BY <1>1, <2>1 DEF Choose, TypeInv, AgeType, Never, Now
<1>2. ASSUME NEW w \in Workspaces, Create(w) PROVE TypeInv'
  <2>1. TurnType' /\ overtaken' \in [Workspaces -> SUBSET Workspaces]
    BY <1>2, TurnEnds, OvertakenType DEF Create, TypeInv
  <2>2. AgeType'
    BY <1>2, NewAges, AgesStay DEF Create, CreatedAges, TypeInv
  <2>. QED
    BY <1>2, <2>1, <2>2 DEF Create, TypeInv
<1>3. ASSUME NEW w \in Workspaces, CreateFails(w) PROVE TypeInv'
  <2>1. TurnType' /\ overtaken' \in [Workspaces -> SUBSET Workspaces]
    BY <1>3, TurnEnds, OvertakenType DEF CreateFails, TypeInv
  <2>. QED
    BY <1>3, <2>1 DEF CreateFails, TypeInv, AgeType, Never, Now
<1>4. ASSUME NEW w \in Workspaces, RunEnds(w) PROVE TypeInv'
  BY <1>4 DEF RunEnds, TypeInv, AgeType, TurnType, Never, Now
<1>5. CASE Tick
  <2>1. AgeType'
    BY <1>5, NewAges, AgesStay DEF Tick, TickedAges, TypeInv
  <2>. QED
    BY <1>5, <2>1 DEF Tick, TypeInv, TurnType
<1>6. CASE UNCHANGED vars
  BY <1>6 DEF vars, TypeInv, AgeType, TurnType, Never, Now
<1>. QED
  BY <1>1, <1>2, <1>3, <1>4, <1>5, <1>6 DEF Next

LEMMA TypeInvHolds == Spec => []TypeInv
  BY TypeInvInit, TypeInvNext, PTL DEF Spec

(***************************************************************************)
(* However cycles, failures and time interleave, the turns of a cycle are  *)
(* of different workspaces and within the limit.                           *)
(***************************************************************************)
THEOREM TypeCorrect == Spec => []TypeOK
<1>1. TypeInv => TypeOK
  <2> SUFFICES ASSUME TypeInv PROVE TypeOK
    OBVIOUS
  <2>1. age \in [Workspaces -> 0..Never]
    BY Constants DEF TypeInv, AgeType
  <2>. QED
    BY <2>1 DEF TypeInv, TurnType, TypeOK
<1>. QED
  BY <1>1, TypeInvHolds, PTL

-----------------------------------------------------------------------------
(* Who gets the places of a cycle.                                          *)

\* A run that is queued or running has been created.
Begun == \A w \in queued : age[w] # Never

LEMMA QuotientFinite ==
  ASSUME NEW ages \in [Workspaces -> Nat], NEW w \in Workspaces, ages[w] < Never
  PROVE  Quotient(ages)[w] # Never
<1>1. Cardinality(AgesBelow(ages, w)) \in 0..(Size - 1) /\ ages[w] \in Nat
  BY AgesBelowFinite
<1>. QED
  BY <1>1, QuotientOf, Constants

LEMMA BegunNext == TypeInv /\ Begun /\ [Next]_vars => Begun'
<1> SUFFICES ASSUME TypeInv, Begun, [Next]_vars, NEW w \in queued' PROVE age'[w] # Never
  BY DEF Begun, Never, Now
<1>1. \A u \in Workspaces : age[u] \in Nat /\ (age[u] = Never \/ age[u] <= Never - 2)
  BY DEF TypeInv, AgeType
<1>2. ASSUME NEW x \in Workspaces, Create(x) PROVE age'[w] # Never
  <2>1. /\ CreatedAges(x) \in [Workspaces -> Nat]
        /\ age' = Quotient(CreatedAges(x)) /\ queued' = queued \cup {x}
    BY <1>2, NewAges DEF Create, CreatedAges, TypeInv
  <2>2. w \in Workspaces /\ CreatedAges(x)[w] = IF w = x THEN 0 ELSE age[w]
    BY <2>1 DEF TypeInv, AgeType, CreatedAges
  <2>3. w # x => age[w] # Never
    BY <2>1 DEF Begun
  <2>4. CreatedAges(x)[w] < Never
    BY <1>1, <2>2, <2>3, Constants
  <2>. QED
    BY <2>1, <2>2, <2>4, QuotientFinite
<1>3. CASE Tick
  <2>1. /\ TickedAges \in [Workspaces -> Nat]
        /\ age' = Quotient(TickedAges) /\ queued' = queued
    BY <1>3, NewAges DEF Tick, TickedAges, TypeInv
  <2>2. w \in Workspaces /\ age[w] # Never
    BY <2>1 DEF TypeInv, Begun
  <2>3. TickedAges[w] = age[w] + 1
    BY <2>2 DEF TickedAges
  <2>4. TickedAges[w] < Never
    BY <1>1, <2>2, <2>3, Constants
  <2>. QED
    BY <2>1, <2>2, <2>4, QuotientFinite
<1>4. ASSUME age' = age, queued' \subseteq queued PROVE age'[w] # Never
  BY <1>4 DEF Begun
<1>. QED
  BY <1>2, <1>3, <1>4 DEF Next, Choose, CreateFails, RunEnds, vars

(***************************************************************************)
(* A workspace that is due has a turn in the next cycle, unless as many    *)
(* as the limit are broken, or due and no younger: whatever the number of  *)
(* workspaces, the limit, --not-before, and the order of the listing.      *)
(***************************************************************************)
THEOREM OldestChosenHolds == Spec => OldestChosen
<1>1. ASSUME TypeInv, Begun, Choose, NEW v \in Workspaces \ Broken, Free(v),
             ~\E j \in DOMAIN turn' : turn'[j] = v
      PROVE  MaxPlans # 0 /\ Cardinality(Broken \cup NoYounger(v)) >= MaxPlans
  <2> DEFINE S == Broken \cup NoYounger(v)
  <2>1. AgeType /\ MaxPlans # 0 /\ MaxPlans \in Nat /\ Len(turn') = MaxPlans
        /\ turn' \in Seq(Workspaces)
        /\ \A i, j \in DOMAIN turn' : turn'[i] = turn'[j] => i = j
    BY <1>1, ChosenTurns, Constants DEF TypeInv
  <2>2. ASSUME NEW k \in DOMAIN turn' PROVE turn'[k] \in S
    <3>1. CASE turn'[k] \in Broken
      BY <3>1
    <3>2. CASE turn'[k] \notin Broken
      <4>1. turn'[k] \in Workspaces \ Broken /\ turn'[k] # v
        BY <1>1, <2>1, <2>2, <3>2
      <4>2. age[turn'[k]] = Never \/ Free(turn'[k])
        BY <1>1, <2>1, <2>2, <3>2, ChosenTurns
      <4>3. Free(turn'[k])
        BY <1>1, <4>2, Constants DEF Begun, Free
      <4>4. ~(age[turn'[k]] < age[v])
        BY <1>1, <2>1, <2>2, <3>2, ChosenTurns
      <4>5. age[turn'[k]] \in Nat /\ age[v] \in Nat
        BY <1>1, <2>1, <4>1 DEF AgeType
      <4>. QED
        BY <4>1, <4>3, <4>4, <4>5 DEF NoYounger
    <3>. QED
      BY <3>1, <3>2
  <2>3. IsFiniteSet(S)
    BY WorkspacesAssumption, FS_Subset DEF NoYounger
  <2> HIDE DEF S
  <2>4. DOMAIN turn' = 1..MaxPlans
    BY <2>1
  <2>5. IsFiniteSet(1..MaxPlans) /\ Cardinality(1..MaxPlans) = MaxPlans
    <3>1. /\ IsFiniteSet(1..MaxPlans)
          /\ Cardinality(1..MaxPlans) = IF 1 > MaxPlans THEN 0 ELSE MaxPlans - 1 + 1
      BY <2>1, FS_Interval
    <3>. QED
      BY <2>1, <3>1
  <2> DEFINE f == [k \in 1..MaxPlans |-> turn'[k]]
  <2>6. f \in Injection(1..MaxPlans, S)
    <3>1. f \in [1..MaxPlans -> S]
      BY <2>2, <2>4
    <3>2. \A i, j \in 1..MaxPlans : f[i] = f[j] => i = j
      BY <2>1, <2>4
    <3> HIDE DEF f
    <3>. QED
      BY <3>1, <3>2 DEF Injection, IsInjective
  <2>7. Cardinality(1..MaxPlans) <= Cardinality(S)
    BY <2>3, <2>5, <2>6, FS_Injection
  <2>8. Cardinality(S) \in Nat
    BY <2>3, FS_CardinalityType
  <2>. QED
    BY <2>1, <2>5, <2>7, <2>8 DEF S
<1>2. TypeInv /\ Begun /\ [Next]_vars =>
        [\A v \in Workspaces \ Broken :
           (Choose /\ Free(v)) =>
             \/ \E j \in DOMAIN turn' : turn'[j] = v
             \/ MaxPlans # 0 /\ Cardinality(Broken \cup NoYounger(v)) >= MaxPlans]_vars
  BY <1>1
<1>3. Init => Begun
  BY DEF Init, Begun
<1>. QED
  BY <1>2, <1>3, BegunNext, TypeInvHolds, PTL DEF Spec, OldestChosen

-----------------------------------------------------------------------------
(***************************************************************************)
(* No overtaking.  While v waits, whoever got a run has a younger one than *)
(* v (Remembered), so the next cycle that chooses it again puts v before   *)
(* it (Ahead).                                                             *)
(***************************************************************************)
Remembered ==
  \A v, w \in Workspaces : w \in overtaken[v] => Free(v) /\ age[w] < age[v]

Ahead ==
  \A k \in DOMAIN turn, v \in Workspaces :
    turn[k] \notin Broken /\ turn[k] \in overtaken[v] =>
      \E j \in DOMAIN turn : j < k /\ turn[j] = v

OrderInv == Remembered /\ Ahead

LEMMA OrderInit == Init => OrderInv
<1> SUFFICES ASSUME Init PROVE OrderInv
  OBVIOUS
<1>1. \A v \in Workspaces : overtaken[v] = {}
  BY DEF Init
<1>. QED
  BY <1>1 DEF OrderInv, Remembered, Ahead

\* Time leaves free workspaces free, and ages in their order.
LEMMA TickKeeps ==
  ASSUME TypeInv, Tick, NEW v \in Workspaces, NEW w \in Workspaces,
         Free(v), age[w] < age[v]
  PROVE  Free(v)' /\ age'[w] < age'[v]
<1> DEFINE ages == TickedAges
<1>1. ages \in [Workspaces -> Nat] /\ age' = Quotient(ages) /\ queued' = queued
  BY NewAges DEF Tick, TickedAges, TypeInv
<1>2. /\ ages[w] = IF age[w] = Never THEN Never ELSE age[w] + 1
      /\ ages[v] = IF age[v] = Never THEN Never ELSE age[v] + 1
  BY DEF TickedAges
<1>3. /\ age[w] \in Nat /\ age[v] \in Nat
      /\ age[w] = Never \/ age[w] <= Never - 2
      /\ age[v] = Never \/ age[v] <= Never - 2
  BY DEF TypeInv, AgeType
<1> HIDE DEF ages
<1>4. age[v] >= NotBefore /\ v \notin queued
  BY DEF Free
<1>5. ages[w] < ages[v] /\ ages[w] < Never /\ ages[v] >= NotBefore
  BY <1>2, <1>3, <1>4, Constants
<1>6. age'[w] < age'[v] /\ age'[v] >= NotBefore
  BY <1>1, <1>5, QuotientOrders, QuotientBounds
<1>. QED
  BY <1>1, <1>4, <1>6 DEF Free

\* Neither does a run of another workspace change that.
LEMMA CreateKeeps ==
  ASSUME NotBefore # 0, TypeInv, NEW x \in Workspaces, Create(x),
         NEW v \in Workspaces, v # x, Free(v), NEW w \in Workspaces,
         w = x \/ age[w] < age[v]
  PROVE  Free(v)' /\ age'[w] < age'[v]
<1> DEFINE ages == CreatedAges(x)
<1>1. ages \in [Workspaces -> Nat] /\ age' = Quotient(ages) /\ queued' = queued \cup {x}
  BY NewAges DEF Create, CreatedAges, TypeInv
<1>2. /\ ages[v] = age[v] /\ age[v] \in Nat /\ age[w] \in Nat
      /\ ages[w] = IF w = x THEN 0 ELSE age[w]
      /\ age[v] = Never \/ age[v] <= Never - 2
  BY DEF CreatedAges, TypeInv, AgeType
<1> HIDE DEF ages
<1>3. age[v] >= NotBefore /\ v \notin queued
  BY DEF Free
<1>4. ages[w] < ages[v] /\ ages[w] < Never /\ ages[v] >= NotBefore
  BY <1>2, <1>3, Constants
<1>5. age'[w] < age'[v] /\ age'[v] >= NotBefore
  BY <1>1, <1>4, QuotientOrders, QuotientBounds
<1>. QED
  BY <1>1, <1>3, <1>5 DEF Free

\* Whoever was remembered before a turn and still is, and the one who had it.
LEMMA TurnRemembers ==
  ASSUME TypeInv, NEW x \in Workspaces, NEW created \in BOOLEAN, TurnOf(x, created),
         NEW v \in Workspaces, NEW w \in Workspaces, w \in overtaken'[v]
  PROVE  /\ v # x /\ Free(v)
         /\ w \in overtaken[v] \/ (created /\ w = x)
  BY DEF TurnOf, TypeInv

\* The turns that are left: nobody in them is the one that just got a run.
LEMMA TurnKeepsAhead ==
  ASSUME TypeInv, OrderInv, NEW x \in Workspaces, NEW created \in BOOLEAN,
         TurnOf(x, created)
  PROVE  Ahead'
<1>1. /\ 1 \in DOMAIN turn /\ turn[1] = x
      /\ DOMAIN turn' = 1..(Len(turn) - 1) /\ Len(turn) \in Nat
      /\ \A k \in DOMAIN turn' : k + 1 \in DOMAIN turn /\ turn'[k] = turn[k + 1]
  BY TurnEnds DEF TypeInv
<1>2. /\ DOMAIN turn = 1..Len(turn)
      /\ \A i, j \in DOMAIN turn : turn[i] = turn[j] => i = j
      /\ \A k \in DOMAIN turn : turn[k] \in Workspaces
  BY DEF TypeInv, TurnType
<1>3. ASSUME NEW k \in DOMAIN turn', NEW v \in Workspaces,
             turn'[k] \notin Broken, turn'[k] \in overtaken'[v]
      PROVE  \E j \in DOMAIN turn' : j < k /\ turn'[j] = v
  <2>1. k \in Nat /\ k >= 1 /\ turn'[k] = turn[k + 1] /\ k + 1 \in DOMAIN turn
        /\ turn'[k] \in Workspaces
    BY <1>1, <1>2, <1>3
  <2>2. turn'[k] # x
    BY <1>1, <1>2, <2>1
  <2>3. v # x /\ turn[k + 1] \in overtaken[v]
    BY <1>3, <2>1, <2>2, TurnRemembers
  <2>4. PICK j \in DOMAIN turn : j < k + 1 /\ turn[j] = v
    BY <1>3, <2>1, <2>3 DEF OrderInv, Ahead
  <2>5. j # 1 /\ j \in Nat /\ j - 1 \in DOMAIN turn' /\ j - 1 < k
    BY <1>1, <1>2, <2>1, <2>3, <2>4
  <2>6. turn'[j - 1] = v
    BY <1>1, <2>4, <2>5
  <2>. QED
    BY <2>5, <2>6
<1>. QED
  BY <1>3 DEF Ahead

LEMMA OrderNext ==
  NotBefore # 0 /\ TypeInv /\ OrderInv /\ [Next]_vars => OrderInv'
<1> SUFFICES ASSUME NotBefore # 0, TypeInv, OrderInv, [Next]_vars PROVE OrderInv'
  OBVIOUS
<1>1. CASE Choose
  <2>1. UNCHANGED <<age, queued, overtaken>>
    BY <1>1 DEF Choose
  <2>2. Remembered'
    BY <2>1 DEF OrderInv, Remembered, Free
  <2>3. ASSUME NEW k \in DOMAIN turn', NEW v \in Workspaces,
               turn'[k] \notin Broken, turn'[k] \in overtaken'[v]
        PROVE  \E j \in DOMAIN turn' : j < k /\ turn'[j] = v
    <3>1. turn' \in Seq(Workspaces)
      BY <1>1, ChosenTurns DEF TypeInv
    <3>2. turn'[k] \in Workspaces
      BY <3>1
    <3>3. Free(v) /\ age[turn'[k]] < age[v]
      BY <2>1, <2>3, <3>2 DEF OrderInv, Remembered
    <3>. QED
      BY <1>1, <2>3, <3>3, ChosenTurns DEF TypeInv
  <2>. QED
    BY <2>2, <2>3 DEF OrderInv, Ahead
<1>2. ASSUME NEW x \in Workspaces, Create(x) PROVE OrderInv'
  <2>1. TurnOf(x, TRUE)
    BY <1>2 DEF Create
  <2>2. ASSUME NEW v \in Workspaces, NEW w \in Workspaces, w \in overtaken'[v]
        PROVE  Free(v)' /\ age'[w] < age'[v]
    <3>1. v # x /\ Free(v) /\ (w \in overtaken[v] \/ w = x)
      BY <2>1, <2>2, TurnRemembers
    <3>2. w = x \/ age[w] < age[v]
      BY <3>1 DEF OrderInv, Remembered
    <3>. QED
      BY <1>2, <3>1, <3>2, CreateKeeps
  <2>3. Remembered'
    BY <2>2 DEF Remembered, Free
  <2>. QED
    BY <2>1, <2>3, TurnKeepsAhead DEF OrderInv
<1>3. ASSUME NEW x \in Workspaces, CreateFails(x) PROVE OrderInv'
  <2>1. TurnOf(x, FALSE) /\ age' = age /\ queued' = queued
    BY <1>3 DEF CreateFails
  <2>2. ASSUME NEW v \in Workspaces, NEW w \in Workspaces, w \in overtaken'[v]
        PROVE  Free(v)' /\ age'[w] < age'[v]
    BY <2>1, <2>2, TurnRemembers DEF OrderInv, Remembered, Free
  <2>3. Remembered'
    BY <2>2 DEF Remembered, Free
  <2>. QED
    BY <2>1, <2>3, TurnKeepsAhead DEF OrderInv
<1>4. ASSUME NEW x \in Workspaces, RunEnds(x) PROVE OrderInv'
  BY <1>4 DEF RunEnds, OrderInv, Remembered, Ahead, Free
<1>5. CASE Tick
  <2>1. UNCHANGED <<queued, turn, overtaken>>
    BY <1>5 DEF Tick
  <2>2. Remembered'
    BY <1>5, <2>1, TickKeeps DEF OrderInv, Remembered, Free
  <2>. QED
    BY <2>1, <2>2 DEF OrderInv, Ahead
<1>6. CASE UNCHANGED vars
  BY <1>6 DEF vars, OrderInv, Remembered, Ahead, Free
<1>. QED
  BY <1>1, <1>2, <1>3, <1>4, <1>5, <1>6 DEF Next

(***************************************************************************)
(* "Prioritizing the workspaces with oldest drift detections" (README.md:  *)
(* 188): with --not-before, no workspace that is free and due sees another *)
(* one get two runs before its own, for any number of workspaces and any   *)
(* limit, unless that one's fetches fail.                                  *)
(***************************************************************************)
THEOREM NoOvertakingHolds == ASSUME NotBefore # 0 PROVE Spec => NoOvertaking
<1>1. TypeInv /\ OrderInv /\ [Next]_vars =>
        [\A v \in Workspaces, w \in Workspaces \ Broken :
           v # w /\ Free(v) /\ w \in overtaken[v] => ~Create(w)]_vars
  <2> SUFFICES ASSUME TypeInv, OrderInv, NEW v \in Workspaces,
                      NEW w \in Workspaces \ Broken,
                      w \in overtaken[v], Create(w)
               PROVE  FALSE
    OBVIOUS
  <2>1. 1 \in DOMAIN turn /\ turn[1] = w
    BY TurnEnds DEF Create, TypeInv
  <2>2. PICK j \in DOMAIN turn : j < 1 /\ turn[j] = v
    BY <2>1 DEF OrderInv, Ahead
  <2>3. DOMAIN turn = 1..Len(turn)
    BY DEF TypeInv, TurnType
  <2>. QED
    BY <2>2, <2>3
<1>2. Spec => []OrderInv
  BY OrderInit, OrderNext, TypeInvHolds, PTL DEF Spec
<1>. QED
  BY <1>1, <1>2, TypeInvHolds, PTL DEF Spec, NoOvertaking
=============================================================================
