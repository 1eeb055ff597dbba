-------------------------- MODULE ProcessorsProofs --------------------------
(***************************************************************************)
(* Theorems about the list operators of Processors.  All of them take the  *)
(* elements of a list at different positions, whatever they do to the      *)
(* order: what holds of every element, or of every two, is kept.           *)
(***************************************************************************)
EXTENDS Processors, FiniteSetTheorems, TLAPS

-----------------------------------------------------------------------------
(* Arrange: every rank is taken by exactly one position.                    *)

Orders(R, S) ==
  /\ \A i \in S : <<i, i>> \notin R
  /\ \A i, j \in S : i = j \/ <<i, j>> \in R \/ <<j, i>> \in R
  /\ \A i, j, k \in S : <<i, j>> \in R /\ <<j, k>> \in R => <<i, k>> \in R

Preceding(S, R, i) == {j \in S : <<j, i>> \in R}

Rank(S, R) == [i \in S |-> Cardinality(Preceding(S, R, i))]

LEMMA RankBounded ==
  ASSUME NEW S, IsFiniteSet(S), NEW R, Orders(R, S), NEW i \in S
  PROVE  Rank(S, R)[i] \in 0..(Cardinality(S) - 1)
<1> DEFINE P == Preceding(S, R, i)
<1>1. P \in SUBSET S /\ i \notin P
  BY DEF Preceding, Orders
<1>2. /\ Cardinality(P) <= Cardinality(S)
      /\ Cardinality(P) = Cardinality(S) => P = S
  BY <1>1, FS_Subset, Zenon
<1>3. Cardinality(P) \in Nat /\ Cardinality(S) \in Nat
  BY <1>1, FS_Subset, FS_CardinalityType, Zenon
<1>4. Cardinality(P) # Cardinality(S)
  BY <1>1, <1>2
<1>5. Rank(S, R)[i] = Cardinality(P)
  BY DEF Rank
<1>. QED
  BY <1>2, <1>3, <1>4, <1>5

LEMMA RankIncreases ==
  ASSUME NEW S, IsFiniteSet(S), NEW R, Orders(R, S),
         NEW i \in S, NEW j \in S, <<i, j>> \in R
  PROVE  Rank(S, R)[i] < Rank(S, R)[j]
<1> DEFINE P == Preceding(S, R, i)
           Q == Preceding(S, R, j)
<1>1. Q \in SUBSET S /\ P \in SUBSET Q /\ i \in Q /\ i \notin P
  BY DEF Preceding, Orders
<1>2. IsFiniteSet(Q)
  BY <1>1, FS_Subset, Zenon
<1>3. /\ Cardinality(P) <= Cardinality(Q)
      /\ Cardinality(P) = Cardinality(Q) => P = Q
      /\ IsFiniteSet(P)
  BY <1>1, <1>2, FS_Subset, Zenon
<1>4. Cardinality(P) \in Nat /\ Cardinality(Q) \in Nat
  BY <1>2, <1>3, FS_CardinalityType, Zenon
<1>5. Cardinality(P) # Cardinality(Q)
  BY <1>1, <1>3
<1>6. Rank(S, R)[i] = Cardinality(P) /\ Rank(S, R)[j] = Cardinality(Q)
  BY DEF Rank
<1>. QED
  BY <1>3, <1>4, <1>5, <1>6

LEMMA RanksTaken ==
  ASSUME NEW S, IsFiniteSet(S), NEW R, Orders(R, S),
         NEW k \in 1..Cardinality(S)
  PROVE  \E i \in S : Rank(S, R)[i] = k - 1
<1> DEFINE n == Cardinality(S)
           T == 0..(n - 1)
           f == Rank(S, R)
<1>1. n \in Nat
  BY FS_CardinalityType, Zenon
<1>2. IsFiniteSet(T) /\ Cardinality(T) = n
  <2>1. 0 \in Int /\ n - 1 \in Int
    BY <1>1
  <2>2. IsFiniteSet(T) /\ Cardinality(T) = IF 0 > n - 1 THEN 0 ELSE (n - 1) - 0 + 1
    BY <2>1, FS_Interval, Zenon
  <2>. QED
    BY <1>1, <2>2
<1>3. \A i \in S : f[i] \in T
  BY RankBounded, Zenon
<1>4. f \in [S -> T]
  <2>1. f = [i \in S |-> f[i]]
    BY DEF Rank
  <2>. QED
    BY <1>3, <2>1, Zenon
<1>5. ASSUME NEW i \in S, NEW j \in S, f[i] = f[j] PROVE i = j
  <2>1. f[i] \in Int /\ f[j] \in Int
    BY <1>3
  <2>2. ~(f[i] < f[j]) /\ ~(f[j] < f[i])
    BY <1>5, <2>1
  <2>3. <<i, j>> \notin R /\ <<j, i>> \notin R
    BY <2>2, RankIncreases, Zenon
  <2>. QED
    BY <2>3 DEF Orders
<1>6. f \in Injection(S, T)
  BY <1>4, <1>5 DEF Injection, IsInjective
<1>7. f \in Surjection(S, T)
  BY <1>1, <1>2, <1>6, FS_Injection, Zenon
<1>8. k - 1 \in T
  BY <1>1
<1>. QED
  BY <1>7, <1>8 DEF Surjection

\* The k-th position has k - 1 positions before it.
LEMMA ArrangeRanks ==
  ASSUME NEW S, IsFiniteSet(S), NEW R, Orders(R, S), NEW k \in 1..Cardinality(S)
  PROVE  Arrange(S, R)[k] \in S /\ Rank(S, R)[Arrange(S, R)[k]] = k - 1
<1> DEFINE a == Arrange(S, R)
<1>1. \E i \in S : Rank(S, R)[i] = k - 1
  BY RanksTaken, Zenon
<1>2. \A i \in S : Rank(S, R)[i] = Cardinality({j \in S : <<j, i>> \in R})
  BY DEF Rank, Preceding
<1>3. \E i \in S : Cardinality({j \in S : <<j, i>> \in R}) = k - 1
  BY <1>1, <1>2
<1>4. a[k] = CHOOSE i \in S : Cardinality({j \in S : <<j, i>> \in R}) = k - 1
  BY DEF Arrange
<1>5. a[k] \in S /\ Cardinality({j \in S : <<j, a[k]>> \in R}) = k - 1
  BY <1>3, <1>4, Zenon
<1>. QED
  BY <1>2, <1>5

(***************************************************************************)
(* Arrange(S, R) lists each of |S| positions of S once, and in the order R. *)
(* (sort.SliceStable and the loops of the filters)                         *)
(***************************************************************************)
THEOREM ArrangeLists ==
  ASSUME NEW S, IsFiniteSet(S), NEW R, Orders(R, S)
  PROVE  /\ \A k \in 1..Cardinality(S) : Arrange(S, R)[k] \in S
         /\ \A k, l \in 1..Cardinality(S) :
              k < l => <<Arrange(S, R)[k], Arrange(S, R)[l]>> \in R
<1> DEFINE n == Cardinality(S)
           a == Arrange(S, R)
<1>1. n \in Nat
  BY FS_CardinalityType, Zenon
<1>2. ASSUME NEW k \in 1..n PROVE a[k] \in S /\ Rank(S, R)[a[k]] = k - 1
  BY ArrangeRanks, Zenon
<1>3. ASSUME NEW k \in 1..n, NEW l \in 1..n, k < l PROVE <<a[k], a[l]>> \in R
  <2>1. a[k] \in S /\ a[l] \in S /\ Rank(S, R)[a[k]] = k - 1 /\ Rank(S, R)[a[l]] = l - 1
    BY <1>2
  <2>2. a[k] # a[l]
    BY <1>1, <1>3, <2>1
  <2>3. ~(Rank(S, R)[a[l]] < Rank(S, R)[a[k]])
    BY <1>1, <1>3, <2>1
  <2>4. <<a[l], a[k]>> \notin R
    BY <2>1, <2>3, RankIncreases, Zenon
  <2>. QED
    BY <2>1, <2>2, <2>4 DEF Orders
<1>. QED
  BY <1>2, <1>3

\* No position of S is left out.
LEMMA ArrangeReaches ==
  ASSUME NEW S, IsFiniteSet(S), NEW R, Orders(R, S), NEW i \in S
  PROVE  \E k \in 1..Cardinality(S) : Arrange(S, R)[k] = i
<1> DEFINE n == Cardinality(S)
           a == Arrange(S, R)
           r == Rank(S, R)
           k == r[i] + 1
<1>1. n \in Nat /\ r[i] \in 0..(n - 1)
  BY FS_CardinalityType, RankBounded, Zenon
<1>2. k \in 1..n /\ k - 1 = r[i]
  BY <1>1
<1>3. a[k] \in S /\ r[a[k]] = r[i]
  BY <1>2, ArrangeRanks, Zenon
<1>4. ~(r[a[k]] < r[i]) /\ ~(r[i] < r[a[k]])
  <2> HIDE DEF r, a
  <2>. QED
    BY <1>1, <1>3
<1>5. <<a[k], i>> \notin R /\ <<i, a[k]>> \notin R
  BY <1>3, <1>4, RankIncreases, Zenon
<1>6. a[k] = i
  <2> HIDE DEF a, r
  <2>. QED
    BY <1>3, <1>5 DEF Orders
<1>. QED
  BY <1>2, <1>6

-----------------------------------------------------------------------------
(* Selections: lists made of different positions of another list.           *)

Selection(a, b) ==
  \E f \in [DOMAIN a -> DOMAIN b] :
    /\ \A k \in DOMAIN a : a[k] = b[f[k]]
    /\ \A k, l \in DOMAIN a : f[k] = f[l] => k = l

\* No workspace is at two positions.
DifferentIDs(wks) == \A i, j \in DOMAIN wks : wks[i].id = wks[j].id => i = j

LEMMA SelectionOfItself == ASSUME NEW a PROVE Selection(a, a)
<1> DEFINE f == [k \in DOMAIN a |-> k]
<1>1. f \in [DOMAIN a -> DOMAIN a] /\ \A k \in DOMAIN a : f[k] = k
  OBVIOUS
<1>. QED
  BY <1>1 DEF Selection

LEMMA SelectionOfSelection ==
  ASSUME NEW a, NEW b, NEW c, Selection(a, b), Selection(b, c)
  PROVE  Selection(a, c)
<1>1. PICK f \in [DOMAIN a -> DOMAIN b] :
        /\ \A k \in DOMAIN a : a[k] = b[f[k]]
        /\ \A k, l \in DOMAIN a : f[k] = f[l] => k = l
  BY DEF Selection
<1>2. PICK g \in [DOMAIN b -> DOMAIN c] :
        /\ \A k \in DOMAIN b : b[k] = c[g[k]]
        /\ \A k, l \in DOMAIN b : g[k] = g[l] => k = l
  BY DEF Selection
<1> DEFINE h == [k \in DOMAIN a |-> g[f[k]]]
<1>3. h \in [DOMAIN a -> DOMAIN c]
  BY <1>1, <1>2
<1>4. \A k \in DOMAIN a : a[k] = c[h[k]]
  BY <1>1, <1>2
<1>5. \A k, l \in DOMAIN a : h[k] = h[l] => k = l
  BY <1>1, <1>2
<1>. QED
  BY <1>3, <1>4, <1>5 DEF Selection

LEMMA SelectionIDs ==
  ASSUME NEW a, NEW b, Selection(a, b), DifferentIDs(b)
  PROVE  DifferentIDs(a)
  BY DEF Selection, DifferentIDs

LEMMA SelectionMembers ==
  ASSUME NEW a, NEW b, Selection(a, b), NEW k \in DOMAIN a
  PROVE  \E i \in DOMAIN b : a[k] = b[i]
  BY DEF Selection

-----------------------------------------------------------------------------
(* The filters.                                                             *)

LEMMA PositionsOrdered ==
  ASSUME NEW S \in SUBSET Nat PROVE Orders(InOrder(S), S)
  BY DEF Orders, InOrder

LEMMA ListPositions ==
  ASSUME NEW T, NEW wks \in Seq(T), NEW S \in SUBSET (DOMAIN wks)
  PROVE  S \in SUBSET Nat /\ IsFiniteSet(S) /\ IsFiniteSet(DOMAIN wks)
<1>1. DOMAIN wks = 1..Len(wks) /\ Len(wks) \in Nat
  OBVIOUS
<1>2. IsFiniteSet(1..Len(wks))
  BY <1>1, FS_Interval
<1>. QED
  BY <1>1, <1>2, FS_Subset

(***************************************************************************)
(* The filters (filter.go) keep the workspaces at the positions S, all of  *)
(* them and no other, in the order they came in.                           *)
(***************************************************************************)
THEOREM KeepKeeps ==
  ASSUME NEW T, NEW wks \in Seq(T), NEW S \in SUBSET (DOMAIN wks)
  PROVE  /\ Keep(wks, S) \in Seq(T)
         /\ Len(Keep(wks, S)) = Cardinality(S)
         /\ \E f \in [DOMAIN Keep(wks, S) -> S] :
              /\ \A k \in DOMAIN Keep(wks, S) : Keep(wks, S)[k] = wks[f[k]]
              /\ \A k, l \in DOMAIN Keep(wks, S) : k < l => f[k] < f[l]
<1> DEFINE n == Cardinality(S)
           a == Arrange(S, InOrder(S))
           f == [k \in 1..n |-> a[k]]
<1>1. S \in SUBSET Nat /\ IsFiniteSet(S)
  BY ListPositions, Zenon
<1>2. n \in Nat
  BY <1>1, FS_CardinalityType, Zenon
<1>3. Orders(InOrder(S), S)
  BY <1>1, PositionsOrdered
<1>4. \A k \in 1..n : a[k] \in S
  BY <1>1, <1>3, ArrangeLists, Zenon
<1>5. \A k, l \in 1..n : k < l => <<a[k], a[l]>> \in InOrder(S)
  BY <1>1, <1>3, ArrangeLists, Zenon
<1>6. Keep(wks, S) = [k \in 1..n |-> wks[a[k]]]
  BY DEF Keep
<1>7. \A k \in 1..n : wks[a[k]] \in T
  BY <1>4
<1>8. Keep(wks, S) \in Seq(T) /\ Len(Keep(wks, S)) = n /\ DOMAIN Keep(wks, S) = 1..n
  <2> HIDE DEF a
  <2>. QED
    BY <1>2, <1>6, <1>7
<1>9. f \in [1..n -> S] /\ \A k \in 1..n : f[k] = a[k]
  BY <1>4, Zenon
<1>10. \A k \in 1..n : Keep(wks, S)[k] = wks[f[k]]
  BY <1>6, <1>9, Zenon
<1>11. \A k, l \in 1..n : k < l => f[k] < f[l]
  BY <1>5, <1>9 DEF InOrder
<1> HIDE DEF f
<1>12. \E g \in [DOMAIN Keep(wks, S) -> S] :
         /\ \A k \in DOMAIN Keep(wks, S) : Keep(wks, S)[k] = wks[g[k]]
         /\ \A k, l \in DOMAIN Keep(wks, S) : k < l => g[k] < g[l]
  BY <1>8, <1>9, <1>10, <1>11, Zenon
<1>. QED
  BY <1>8, <1>12, Zenon
LEMMA KeepSelects ==
  ASSUME NEW T, NEW wks \in Seq(T), NEW S \in SUBSET (DOMAIN wks)
  PROVE  /\ Keep(wks, S) \in Seq(T)
         /\ Selection(Keep(wks, S), wks)
         /\ \A k \in DOMAIN Keep(wks, S) : \E i \in S : Keep(wks, S)[k] = wks[i]
<1>1. Keep(wks, S) \in Seq(T)
  BY KeepKeeps, Zenon
<1>2. PICK f \in [DOMAIN Keep(wks, S) -> S] :
        /\ \A k \in DOMAIN Keep(wks, S) : Keep(wks, S)[k] = wks[f[k]]
        /\ \A k, l \in DOMAIN Keep(wks, S) : k < l => f[k] < f[l]
  BY KeepKeeps, Zenon
<1>3. \A k \in DOMAIN Keep(wks, S) : f[k] \in S /\ f[k] \in DOMAIN wks
  BY <1>2
<1>4. f \in [DOMAIN Keep(wks, S) -> DOMAIN wks]
  BY <1>2, <1>3
<1>5. ASSUME NEW k \in DOMAIN Keep(wks, S), NEW l \in DOMAIN Keep(wks, S), f[k] = f[l]
      PROVE  k = l
  <2>1. k \in Int /\ l \in Int
    BY <1>1
  <2>2. f[k] \in Int /\ f[l] \in Int
    BY <1>3
  <2>. QED
    BY <1>2, <1>5, <2>1, <2>2
<1>. QED
  BY <1>1, <1>2, <1>3, <1>4, <1>5 DEF Selection

(***************************************************************************)
(* What each filter lets through.                                          *)
(***************************************************************************)
LEMMA NamesSelect ==
  ASSUME NEW T, NEW wks \in Seq(T), NEW rxs
  PROVE  /\ IncludeName(wks, rxs) \in Seq(T) /\ Selection(IncludeName(wks, rxs), wks)
         /\ ExcludeName(wks, rxs) \in Seq(T) /\ Selection(ExcludeName(wks, rxs), wks)
<1>1. {i \in DOMAIN wks : matchStringRegexes(rxs, wks[i])} \in SUBSET (DOMAIN wks)
  OBVIOUS
<1>2. {i \in DOMAIN wks : ~matchStringRegexes(rxs, wks[i])} \in SUBSET (DOMAIN wks)
  OBVIOUS
<1>. QED
  BY <1>1, <1>2, KeepSelects, SelectionOfItself, Zenon DEF IncludeName, ExcludeName

LEMMA FilterQueuedSelects ==
  ASSUME NEW T, NEW wks \in Seq(T)
  PROVE  /\ FilterQueued(wks) \in Seq(T)
         /\ Selection(FilterQueued(wks), wks)
         /\ \A k \in DOMAIN FilterQueued(wks) : ~Queued(FilterQueued(wks)[k])
<1> DEFINE S == {i \in DOMAIN wks : ~Queued(wks[i])}
<1>1. S \in SUBSET (DOMAIN wks) /\ FilterQueued(wks) = Keep(wks, S)
  BY DEF FilterQueued
<1>2. \A i \in S : ~Queued(wks[i])
  OBVIOUS
<1> HIDE DEF S
<1>3. /\ Keep(wks, S) \in Seq(T)
      /\ Selection(Keep(wks, S), wks)
      /\ \A k \in DOMAIN Keep(wks, S) : \E i \in S : Keep(wks, S)[k] = wks[i]
  BY <1>1, KeepSelects
<1>4. ASSUME NEW k \in DOMAIN Keep(wks, S) PROVE ~Queued(Keep(wks, S)[k])
  <2>1. PICK i \in S : Keep(wks, S)[k] = wks[i]
    BY <1>3, Zenon
  <2>. QED
    BY <1>2, <2>1
<1>. QED
  BY <1>1, <1>3, <1>4

LEMMA FilterRecentSelects ==
  ASSUME NEW T, NEW wks \in Seq(T), NEW now, NEW notBefore
  PROVE  LET kept == FilterDriftDetectionsBefore(wks, now, notBefore)
         IN  /\ kept \in Seq(T)
             /\ Selection(kept, wks)
             /\ notBefore # 0 =>
                  \A k \in DOMAIN kept : ~TooRecent(kept[k], now, notBefore)
<1> DEFINE S == {i \in DOMAIN wks : ~TooRecent(wks[i], now, notBefore)}
<1>1. S \in SUBSET (DOMAIN wks) /\ \A i \in S : ~TooRecent(wks[i], now, notBefore)
  OBVIOUS
<1>2. FilterDriftDetectionsBefore(wks, now, notBefore) =
        IF notBefore = 0 THEN wks ELSE Keep(wks, S)
  BY DEF FilterDriftDetectionsBefore
<1> HIDE DEF S
<1>3. /\ Keep(wks, S) \in Seq(T)
      /\ Selection(Keep(wks, S), wks)
      /\ \A k \in DOMAIN Keep(wks, S) : \E i \in S : Keep(wks, S)[k] = wks[i]
  BY <1>1, KeepSelects
<1>4. ASSUME NEW k \in DOMAIN Keep(wks, S)
      PROVE  ~TooRecent(Keep(wks, S)[k], now, notBefore)
  <2>1. PICK i \in S : Keep(wks, S)[k] = wks[i]
    BY <1>3, Zenon
  <2>. QED
    BY <1>1, <2>1
<1>5. Selection(wks, wks)
  BY SelectionOfItself
<1>. QED
  BY <1>2, <1>3, <1>4, <1>5

LEMMA LimitSelects ==
  ASSUME NEW T, NEW wks \in Seq(T), NEW max \in Nat
  PROVE  LimitMax(wks, max) \in Seq(T) /\ Selection(LimitMax(wks, max), wks)
<1>1. CASE max = 0 \/ max >= Len(wks)
  BY <1>1, SelectionOfItself DEF LimitMax
<1>2. CASE ~(max = 0 \/ max >= Len(wks))
  <2> DEFINE a == SubSeq(wks, 1, max)
             f == [k \in DOMAIN a |-> k]
  <2>1. LimitMax(wks, max) = a
    BY <1>2 DEF LimitMax
  <2>2. a \in Seq(T) /\ DOMAIN a = 1..max /\ \A k \in 1..max : a[k] = wks[k]
    BY <1>2
  <2>3. f \in [DOMAIN a -> DOMAIN wks] /\ \A k \in DOMAIN a : f[k] = k
    BY <1>2, <2>2
  <2> HIDE DEF a, f
  <2>. QED
    BY <2>1, <2>2, <2>3 DEF Selection
<1>. QED
  BY <1>1, <1>2

-----------------------------------------------------------------------------
(* The sort.                                                                *)

LEMMA OldestOrders ==
  ASSUME NEW T, \A x \in T : LastAt(x.plan) \in Nat, NEW wks \in Seq(T)
  PROVE  Orders(Oldest(wks), DOMAIN wks)
<1> DEFINE t == [i \in DOMAIN wks |-> LastAt(wks[i].plan)]
<1>1. \A i \in DOMAIN wks : t[i] \in Nat /\ i \in Nat
  OBVIOUS
<1>2. \A i, j \in DOMAIN wks :
        <<i, j>> \in Oldest(wks) <=> (t[i] < t[j] \/ (t[i] = t[j] /\ i < j))
  BY DEF Oldest
<1> HIDE DEF t
<1>3. \A i \in DOMAIN wks : <<i, i>> \notin Oldest(wks)
  BY <1>1, <1>2
<1>4. \A i, j \in DOMAIN wks :
        i = j \/ <<i, j>> \in Oldest(wks) \/ <<j, i>> \in Oldest(wks)
  <2> TAKE i, j \in DOMAIN wks
  <2>1. t[i] \in Nat /\ t[j] \in Nat /\ i \in Nat /\ j \in Nat
    BY <1>1
  <2>2. i = j \/ (t[i] < t[j] \/ (t[i] = t[j] /\ i < j))
              \/ (t[j] < t[i] \/ (t[j] = t[i] /\ j < i))
    BY <2>1
  <2>. QED
    BY <1>2, <2>2
<1>5. ASSUME NEW i \in DOMAIN wks, NEW j \in DOMAIN wks, NEW k \in DOMAIN wks,
             <<i, j>> \in Oldest(wks), <<j, k>> \in Oldest(wks)
      PROVE  <<i, k>> \in Oldest(wks)
  <2>1. t[i] < t[j] \/ (t[i] = t[j] /\ i < j)
    BY <1>2, <1>5
  <2>2. t[j] < t[k] \/ (t[j] = t[k] /\ j < k)
    BY <1>2, <1>5
  <2>3. t[i] < t[k] \/ (t[i] = t[k] /\ i < k)
    BY <1>1, <2>1, <2>2
  <2>. QED
    BY <1>2, <2>3
<1>. QED
  BY <1>3, <1>4, <1>5 DEF Orders

(***************************************************************************)
(* "Setting the first ones the ones with the oldest detection plan"        *)
(* (sort.go:13): sorting keeps every workspace, orders them by the time of *)
(* the last plan, and leaves those of the same time in the order they had. *)
(***************************************************************************)
THEOREM SortByOldestSorts ==
  ASSUME NEW T, \A x \in T : LastAt(x.plan) \in Nat, NEW wks \in Seq(T)
  PROVE  LET sorted == SortByOldest(wks)
         IN  /\ sorted \in Seq(T) /\ Len(sorted) = Len(wks)
             /\ Selection(sorted, wks)
             /\ \E f \in [DOMAIN wks -> DOMAIN wks] :
                  /\ \A k \in DOMAIN wks : sorted[k] = wks[f[k]]
                  /\ \A k, l \in DOMAIN wks : k < l =>
                       \/ LastAt(sorted[k].plan) < LastAt(sorted[l].plan)
                       \/ /\ LastAt(sorted[k].plan) = LastAt(sorted[l].plan)
                          /\ f[k] < f[l]
<1> DEFINE D == DOMAIN wks
           n == Len(wks)
           a == Arrange(D, Oldest(wks))
           f == [k \in D |-> a[k]]
<1>1. D = 1..n /\ n \in Nat /\ IsFiniteSet(D) /\ Cardinality(D) = n
  <2>1. D = 1..n /\ n \in Nat
    OBVIOUS
  <2>. QED
    BY <2>1, FS_Interval
<1>2. Orders(Oldest(wks), D)
  BY OldestOrders, Zenon
<1>3. \A k \in D : a[k] \in D
  BY <1>1, <1>2, ArrangeLists, Zenon
<1>4. \A k, l \in D : k < l => <<a[k], a[l]>> \in Oldest(wks)
  BY <1>1, <1>2, ArrangeLists, Zenon
<1>5. SortByOldest(wks) = [k \in D |-> wks[a[k]]]
  BY DEF SortByOldest
<1>6. f \in [D -> D] /\ \A k \in D : f[k] = a[k]
  BY <1>3, Zenon
<1> HIDE DEF a
<1>7. \A k \in D : wks[a[k]] \in T
  BY <1>3
<1>8. SortByOldest(wks) \in Seq(T) /\ DOMAIN SortByOldest(wks) = D /\ Len(SortByOldest(wks)) = n
  BY <1>1, <1>5, <1>7
<1>9. \A k \in D : SortByOldest(wks)[k] = wks[f[k]]
  BY <1>5, <1>6, Zenon
<1> HIDE DEF f, D
<1>10. ASSUME NEW k \in D, NEW l \in D, k < l
       PROVE  \/ LastAt(wks[f[k]].plan) < LastAt(wks[f[l]].plan)
              \/ LastAt(wks[f[k]].plan) = LastAt(wks[f[l]].plan) /\ f[k] < f[l]
  <2>1. <<f[k], f[l]>> \in Oldest(wks)
    BY <1>4, <1>6, <1>10
  <2>. QED
    BY <2>1 DEF Oldest
<1>11. ASSUME NEW k \in D, NEW l \in D, f[k] = f[l] PROVE k = l
  <2>1. k \in Int /\ l \in Int /\ f[k] \in D /\ f[k] \in Int
    <3>1. f[k] \in D
      BY <1>6
    <3>2. \A i \in D : i \in Int
      BY <1>1
    <3>. QED
      BY <3>1, <3>2
  <2>2. wks[f[k]] \in T
    BY <2>1 DEF D
  <2>3. LastAt(wks[f[k]].plan) \in Nat
    BY <2>2
  <2>. QED
    BY <1>10, <1>11, <2>1, <2>3
<1>12. Selection(SortByOldest(wks), wks)
  BY <1>6, <1>8, <1>9, <1>11 DEF Selection, D
<1>13. \A k, l \in D : k < l =>
         \/ LastAt(SortByOldest(wks)[k].plan) < LastAt(SortByOldest(wks)[l].plan)
         \/ /\ LastAt(SortByOldest(wks)[k].plan) = LastAt(SortByOldest(wks)[l].plan)
            /\ f[k] < f[l]
  BY <1>9, <1>10
<1>. QED
  BY <1>6, <1>8, <1>9, <1>12, <1>13, Zenon DEF D

-----------------------------------------------------------------------------
(* Nothing is lost: what a filter keeps, and all of what is sorted.         *)

LEMMA KeepReaches ==
  ASSUME NEW T, NEW wks \in Seq(T), NEW S \in SUBSET (DOMAIN wks), NEW i \in S
  PROVE  \E k \in DOMAIN Keep(wks, S) : Keep(wks, S)[k] = wks[i]
<1> DEFINE n == Cardinality(S)
           a == Arrange(S, InOrder(S))
<1>1. S \in SUBSET Nat /\ IsFiniteSet(S)
  BY ListPositions, Zenon
<1>2. Orders(InOrder(S), S)
  BY <1>1, PositionsOrdered
<1>3. PICK k \in 1..n : a[k] = i
  BY <1>1, <1>2, ArrangeReaches
<1>4. Keep(wks, S) = [l \in 1..n |-> wks[a[l]]]
  BY DEF Keep
<1> HIDE DEF a, n
<1>. QED
  BY <1>3, <1>4

LEMMA SortReaches ==
  ASSUME NEW T, \A x \in T : LastAt(x.plan) \in Nat, NEW wks \in Seq(T),
         NEW i \in DOMAIN wks
  PROVE  \E k \in DOMAIN wks : SortByOldest(wks)[k] = wks[i]
<1> DEFINE D == DOMAIN wks
           a == Arrange(D, Oldest(wks))
<1>1. D = 1..Len(wks) /\ Len(wks) \in Nat
  OBVIOUS
<1>2. IsFiniteSet(D) /\ Cardinality(D) = Len(wks)
  <2>1. D = 1..Len(wks) /\ Len(wks) \in Nat
    OBVIOUS
  <2>2. /\ IsFiniteSet(1..Len(wks))
        /\ Cardinality(1..Len(wks)) = IF 1 > Len(wks) THEN 0 ELSE Len(wks) - 1 + 1
    BY <2>1, FS_Interval
  <2> HIDE DEF D
  <2>. QED
    BY <2>1, <2>2
<1>3. Orders(Oldest(wks), D)
  BY OldestOrders, Zenon
<1>4. \E k \in 1..Cardinality(D) : a[k] = i
  BY <1>2, <1>3, ArrangeReaches
<1>5. PICK k \in D : a[k] = i
  BY <1>1, <1>2, <1>4
<1>6. SortByOldest(wks) = [l \in D |-> wks[a[l]]]
  BY DEF SortByOldest
<1> HIDE DEF a, D
<1>. QED
  BY <1>5, <1>6 DEF D

\* A workspace that is neither queued nor recent passes both filters.
LEMMA FiltersReach ==
  ASSUME NEW T, NEW wks \in Seq(T), NEW now, NEW notBefore,
         NEW i \in DOMAIN wks, ~Queued(wks[i]),
         notBefore # 0 => ~TooRecent(wks[i], now, notBefore)
  PROVE  LET due == FilterDriftDetectionsBefore(FilterQueued(wks), now, notBefore)
         IN  \E m \in DOMAIN due : due[m] = wks[i]
<1> DEFINE S == {j \in DOMAIN wks : ~Queued(wks[j])}
           idle == FilterQueued(wks)
<1>1. S \in SUBSET (DOMAIN wks) /\ i \in S /\ idle = Keep(wks, S)
  BY DEF FilterQueued
<1> HIDE DEF S
<1>2. PICK k \in DOMAIN idle : idle[k] = wks[i]
  BY <1>1, KeepReaches
<1>3. idle \in Seq(T)
  BY FilterQueuedSelects, Zenon
<1> HIDE DEF idle
<1> DEFINE U == {j \in DOMAIN idle : ~TooRecent(idle[j], now, notBefore)}
<1>4. CASE notBefore = 0
  BY <1>2, <1>4 DEF FilterDriftDetectionsBefore, idle
<1>5. CASE notBefore # 0
  <2>1. U \in SUBSET (DOMAIN idle) /\ k \in U
    BY <1>2, <1>5
  <2>2. FilterDriftDetectionsBefore(idle, now, notBefore) = Keep(idle, U)
    BY <1>5 DEF FilterDriftDetectionsBefore
  <2> HIDE DEF U
  <2>3. \E m \in DOMAIN Keep(idle, U) : Keep(idle, U)[m] = idle[k]
    BY <1>3, <2>1, KeepReaches, Zenon
  <2>. QED
    BY <1>2, <2>2, <2>3 DEF idle
<1>. QED
  BY <1>4, <1>5

(***************************************************************************)
(* "Prioritizing the workspaces with oldest drift detections" (README.md:  *)
(* 188): sorted and limited (sort.go:28, filter.go:68), a list gives every *)
(* workspace of the unsorted one a place before those with a newer plan,   *)
(* or leaves it out for ones that are no newer.                            *)
(***************************************************************************)
THEOREM LimitKeepsOldest ==
  ASSUME NEW T, \A x \in T : LastAt(x.plan) \in Nat, NEW due \in Seq(T),
         NEW max \in Nat, NEW m \in DOMAIN due,
         NEW k \in DOMAIN LimitMax(SortByOldest(due), max)
  PROVE  LET list == LimitMax(SortByOldest(due), max)
         IN  \/ \E j \in DOMAIN list : j < k /\ list[j] = due[m]
             \/ LastAt(due[m].plan) >= LastAt(list[k].plan)
<1> DEFINE sorted == SortByOldest(due)
           list == LimitMax(sorted, max)
<1>1. sorted \in Seq(T) /\ Len(sorted) = Len(due)
  BY SortByOldestSorts, Zenon
<1>2. ASSUME NEW i \in DOMAIN due, NEW j \in DOMAIN due, i < j
      PROVE  LastAt(sorted[i].plan) <= LastAt(sorted[j].plan)
  <2>1. \/ LastAt(sorted[i].plan) < LastAt(sorted[j].plan)
        \/ LastAt(sorted[i].plan) = LastAt(sorted[j].plan)
    BY <1>2, SortByOldestSorts
  <2>2. sorted[i] \in T /\ sorted[j] \in T
    <3> HIDE DEF sorted
    <3>. QED
      BY <1>1
  <2>3. LastAt(sorted[i].plan) \in Nat /\ LastAt(sorted[j].plan) \in Nat
    BY <2>2
  <2>. QED
    BY <2>1, <2>3
<1>3. PICK l \in DOMAIN due : sorted[l] = due[m]
  BY SortReaches, Zenon
<1> HIDE DEF sorted
<1>4. DOMAIN due = 1..Len(due) /\ DOMAIN sorted = 1..Len(due) /\ Len(due) \in Nat
  BY <1>1
<1>5. \E n \in Nat : /\ DOMAIN list = 1..n /\ n <= Len(due)
                    /\ \A j \in 1..n : list[j] = sorted[j]
  <2>1. CASE max = 0 \/ max >= Len(sorted)
    BY <1>1, <1>4, <2>1 DEF LimitMax
  <2>2. CASE ~(max = 0 \/ max >= Len(sorted))
    <3>1. max \in 1..Len(due) /\ list = SubSeq(sorted, 1, max)
      BY <1>1, <1>4, <2>2 DEF LimitMax
    <3>2. DOMAIN SubSeq(sorted, 1, max) = 1..max
      BY <1>1, <1>4, <3>1
    <3>3. \A j \in 1..max : SubSeq(sorted, 1, max)[j] = sorted[j]
      BY <1>1, <1>4, <3>1
    <3>. QED
      BY <3>1, <3>2, <3>3
  <2>. QED
    BY <2>1, <2>2
<1>6. k \in DOMAIN list
  BY DEF sorted
<1> HIDE DEF list
<1>7. /\ k \in DOMAIN due /\ k \in Nat /\ l \in Nat /\ list[k] = sorted[k]
      /\ l < k => l \in DOMAIN list /\ list[l] = sorted[l]
  BY <1>4, <1>5, <1>6
<1>8. due[m] \in T /\ LastAt(due[m].plan) \in Nat
  <2>1. due[m] \in T
    OBVIOUS
  <2>. QED
    BY <2>1
<1>9. CASE l < k
  BY <1>3, <1>7, <1>9 DEF list, sorted
<1>10. CASE l = k
  BY <1>3, <1>7, <1>8, <1>10 DEF list, sorted
<1>11. CASE k < l
  <2>1. LastAt(sorted[k].plan) <= LastAt(sorted[l].plan)
    BY <1>2, <1>7, <1>11
  <2>2. sorted[k] \in T
    BY <1>1, <1>4, <1>7
  <2>3. LastAt(sorted[k].plan) \in Nat
    BY <2>2
  <2>4. LastAt(due[m].plan) >= LastAt(list[k].plan)
    BY <1>3, <1>7, <1>8, <2>1, <2>3
  <2>. QED
    BY <2>4 DEF list, sorted
<1>. QED
  BY <1>7, <1>9, <1>10, <1>11
=============================================================================
