--------------------------- MODULE HydrateProofs ----------------------------
(***************************************************************************)
(* Theorems about Hydrate.  TypeOK and NoLeftovers hold for any number of  *)
(* callers.  The others take MaxOpen = 1: with one call open at a time,    *)
(* counting results is as good as matching them, because the pool is empty *)
(* between calls and nobody else takes from it in between.                 *)
(***************************************************************************)
EXTENDS Hydrate, FiniteSetTheorems, TLAPS

-----------------------------------------------------------------------------
(* Type correctness.                                                        *)

LEMMA TypeInit == Init => TypeOK
<1> SUFFICES ASSUME Init PROVE TypeOK
  OBVIOUS
<1>1. NoPlan \in AnyReply
  BY DEF AnyReply
<1>2. << >> \in Seq(Workspaces) /\ Len(<< >>) = 0
  OBVIOUS
<1>3. Nothing \in [Workspaces -> AnyReply \cup {Missing}]
  BY DEF Nothing
<1>4. \A w \in Workspaces : Nothing[w] = Missing
  BY DEF Nothing
<1>5. found \in [Calls -> [Workspaces -> AnyReply \cup {Missing}]]
  BY <1>3 DEF Init
<1>6. \A c \in Calls, w \in Workspaces : found[c][w] = Missing
  BY <1>4 DEF Init
<1>7. input \in [Calls -> Seq(Workspaces)] /\ \A c \in Calls : Len(input[c]) = 0
  BY <1>2 DEF Init
<1>8. /\ ctxDone \in BOOLEAN
      /\ state \in [Workers -> {"select", "fetch", "send", "exited"}]
      /\ job \in [Workers -> Workspaces \cup {NoWorkspace}]
      /\ reply \in [Workers -> AnyReply]
      /\ \A k \in Workers : state[k] = "select" /\ job[k] = NoWorkspace /\ reply[k] = NoPlan
  BY <1>1 DEF Init
<1>9. /\ phase \in [Calls -> {"new", "open", "done"}]
      /\ sent \in [Calls -> Nat]
      /\ got \in [Calls -> Nat]
      /\ \A c \in Calls : sent[c] = 0 /\ got[c] = 0
      /\ DOMAIN output = Calls
  BY DEF Init
<1>. QED
  BY <1>5, <1>6, <1>7, <1>8, <1>9 DEF TypeOK

LEMMA RepliesAreReplies ==
  ASSUME NEW w \in Workspaces, NEW r \in Replies[w] PROVE r \in AnyReply
  BY DEF AnyReply

LEMMA TypeNext == TypeOK /\ [Next]_vars => TypeOK'
<1> SUFFICES ASSUME TypeOK, [Next]_vars PROVE TypeOK'
  OBVIOUS
<1> USE NoWorkspaceAssumption DEF TypeOK
<1>1. ASSUME NEW c \in Calls, Begin(c) PROVE TypeOK'
  <2>1. PICK wks \in Listings : input' = [input EXCEPT ![c] = wks]
    BY <1>1 DEF Begin, BeginIf
  <2>2. wks \in Seq(Workspaces)
    BY ListingsAssumption
  <2>. QED
    BY <1>1, <2>1, <2>2 DEF Begin, BeginIf, workerVars
<1>2. ASSUME NEW k \in Workers, NEW c \in Calls, Take(k, c) PROVE TypeOK'
  <2>1. input[c][sent[c] + 1] \in Workspaces
    BY <1>2 DEF Take
  <2>. QED
    BY <1>2, <2>1 DEF Take
<1>3. ASSUME NEW k \in Workers, Fetch(k) PROVE TypeOK'
  <2>1. PICK p \in Replies[job[k]] : reply' = [reply EXCEPT ![k] = p]
    BY <1>3 DEF Fetch, FetchFrom
  <2>2. job[k] \in Workspaces
    BY <1>3 DEF Fetch, FetchFrom
  <2>3. p \in AnyReply
    BY <2>1, <2>2, RepliesAreReplies
  <2>. QED
    BY <1>3, <2>1, <2>2, <2>3 DEF Fetch, FetchFrom, callVars
<1>4. ASSUME NEW k \in Workers, NEW c \in Calls, Deliver(k, c) PROVE TypeOK'
  <2>1. job[k] \in Workspaces /\ reply[k] \in Replies[job[k]]
    BY <1>4 DEF Deliver, DeliverAs
  <2>2. reply[k] \in AnyReply
    BY <2>1, RepliesAreReplies
  <2>3. found' \in [Calls -> [Workspaces -> AnyReply \cup {Missing}]]
    BY <1>4, <2>1, <2>2 DEF Deliver, DeliverAs
  <2>4. ASSUME NEW d \in Calls, NEW w \in Workspaces
        PROVE  found'[d][w] \in Replies[w] \cup {Missing}
    BY <1>4, <2>1 DEF Deliver, DeliverAs
  <2>5. NoPlan \in AnyReply
    BY DEF AnyReply
  <2>. QED
    BY <1>4, <2>3, <2>4, <2>5 DEF Deliver, DeliverAs
<1>5. ASSUME NEW c \in Calls, Return(c) PROVE TypeOK'
  BY <1>5 DEF Return, ReturnIf, workerVars
<1>6. CASE Cancel
  BY <1>6 DEF Cancel, workerVars, callVars
<1>7. ASSUME NEW k \in Workers, Exit(k) PROVE TypeOK'
  BY <1>7 DEF Exit, callVars
<1>8. CASE UNCHANGED vars
  BY <1>8 DEF vars
<1>. QED
  BY <1>1, <1>2, <1>3, <1>4, <1>5, <1>6, <1>7, <1>8 DEF Next, WorkerStep

(***************************************************************************)
(* The pool and the calls are well formed, however many callers share it:  *)
(* in particular a result is always about the workspace it names.          *)
(***************************************************************************)
THEOREM TypeCorrect == Spec => []TypeOK
  BY TypeInit, TypeNext, PTL DEF Spec

-----------------------------------------------------------------------------
(* Any number of calls.                                                     *)

LEMMA BusyFinite == IsFiniteSet(Busy)
  BY WorkersAssumption, FS_Subset DEF Busy

(***************************************************************************)
(* Why the pool is clean between calls whatever overlaps: what all calls   *)
(* have sent is what all calls have got and what the busy workers hold.    *)
(* The sums are the sizes of sets of positions.                            *)
(***************************************************************************)
SentSet == {p \in Calls \X Nat : p[2] \in 1..sent[p[1]]}
GotSet == {p \in Calls \X Nat : p[2] \in 1..got[p[1]]}

Balance ==
  /\ IsFiniteSet(SentSet) /\ IsFiniteSet(GotSet)
  /\ Cardinality(SentSet) = Cardinality(GotSet) + Cardinality(Busy)
  /\ \A c \in Calls : phase[c] = "done" => got[c] = Len(input[c])

LEMMA BalanceInit == Init => Balance
<1> SUFFICES ASSUME Init PROVE Balance
  OBVIOUS
<1>1. SentSet = {} /\ GotSet = {} /\ Busy = {}
  BY DEF Init, SentSet, GotSet, Busy
<1>2. \A c \in Calls : phase[c] # "done"
  BY DEF Init
<1>. QED
  BY <1>1, <1>2, FS_EmptySet DEF Balance

LEMMA BalanceSame ==
  ASSUME Balance, Busy' = Busy, UNCHANGED <<sent, got>>,
         \A c \in Calls : phase'[c] = "done" => got[c] = Len(input'[c])
  PROVE  Balance'
<1>1. SentSet' = SentSet /\ GotSet' = GotSet
  BY DEF SentSet, GotSet
<1>. QED
  BY <1>1 DEF Balance

LEMMA BalanceNext == TypeOK /\ Balance /\ [Next]_vars => Balance'
<1> SUFFICES ASSUME TypeOK, Balance, [Next]_vars PROVE Balance'
  OBVIOUS
<1>0. \A c \in Calls : phase[c] = "done" => got[c] = Len(input[c])
  BY DEF Balance
<1>1. ASSUME NEW c \in Calls, Begin(c) PROVE Balance'
  <2>1. Busy' = Busy /\ UNCHANGED <<sent, got>>
    BY <1>1 DEF Begin, BeginIf, workerVars, Busy
  <2>2. \A d \in Calls : phase'[d] = "done" => got[d] = Len(input'[d])
    BY <1>0, <1>1 DEF Begin, BeginIf, TypeOK
  <2>. QED
    BY <2>1, <2>2, BalanceSame
<1>2. ASSUME NEW k \in Workers, NEW c \in Calls, Take(k, c) PROVE Balance'
  <2>1. Busy' = Busy \cup {k} /\ k \notin Busy
    BY <1>2 DEF Take, Busy, TypeOK
  <2>2. Cardinality(Busy') = Cardinality(Busy) + 1
    BY <2>1, BusyFinite, FS_AddElement
  <2>3. sent[c] \in Nat /\ sent'[c] = sent[c] + 1 /\ got' = got
    BY <1>2 DEF Take, TypeOK
  <2>4. \A d \in Calls : d # c => sent'[d] = sent[d]
    BY <1>2 DEF Take, TypeOK
  <2>5. SentSet' = SentSet \cup {<<c, sent[c] + 1>>} /\ <<c, sent[c] + 1>> \notin SentSet
    BY <2>3, <2>4 DEF SentSet
  <2>6. IsFiniteSet(SentSet') /\ Cardinality(SentSet') = Cardinality(SentSet) + 1
    BY <2>5, FS_AddElement DEF Balance
  <2>7. GotSet' = GotSet
    BY <2>3 DEF GotSet
  <2>8. Cardinality(Busy) \in Nat /\ Cardinality(GotSet) \in Nat
    BY BusyFinite, FS_CardinalityType DEF Balance
  <2>9. phase' = phase /\ input' = input
    BY <1>2 DEF Take
  <2>. QED
    BY <2>2, <2>3, <2>6, <2>7, <2>8, <2>9 DEF Balance
<1>3. ASSUME NEW k \in Workers, Fetch(k) PROVE Balance'
  <2>1. Busy' = Busy /\ UNCHANGED <<sent, got, phase, input>>
    BY <1>3 DEF Fetch, FetchFrom, callVars, Busy, TypeOK
  <2>. QED
    BY <1>0, <2>1, BalanceSame
<1>4. ASSUME NEW k \in Workers, NEW c \in Calls, Deliver(k, c) PROVE Balance'
  <2>1. Busy' = Busy \ {k} /\ k \in Busy
    BY <1>4 DEF Deliver, DeliverAs, Busy, TypeOK
  <2>2. Cardinality(Busy') = Cardinality(Busy) - 1
    BY <2>1, BusyFinite, FS_RemoveElement
  <2>3. got[c] \in Nat /\ got'[c] = got[c] + 1 /\ sent' = sent
    BY <1>4 DEF Deliver, DeliverAs, TypeOK
  <2>4. \A d \in Calls : d # c => got'[d] = got[d]
    BY <1>4 DEF Deliver, DeliverAs, TypeOK
  <2>5. GotSet' = GotSet \cup {<<c, got[c] + 1>>} /\ <<c, got[c] + 1>> \notin GotSet
    BY <2>3, <2>4 DEF GotSet
  <2>6. IsFiniteSet(GotSet') /\ Cardinality(GotSet') = Cardinality(GotSet) + 1
    BY <2>5, FS_AddElement DEF Balance
  <2>7. SentSet' = SentSet
    BY <2>3 DEF SentSet
  <2>8. Cardinality(Busy) \in Nat /\ Cardinality(GotSet) \in Nat
    BY BusyFinite, FS_CardinalityType DEF Balance
  <2>9. phase' = phase /\ input' = input /\ phase[c] = "open"
    BY <1>4 DEF Deliver, DeliverAs
  <2>10. \A d \in Calls : phase'[d] = "done" => got'[d] = Len(input'[d])
    BY <1>0, <2>4, <2>9
  <2>. QED
    BY <2>2, <2>6, <2>7, <2>8, <2>10 DEF Balance
<1>5. ASSUME NEW c \in Calls, Return(c) PROVE Balance'
  <2>1. Busy' = Busy /\ UNCHANGED <<sent, got, input>>
    BY <1>5 DEF Return, ReturnIf, workerVars, Busy
  <2>2. \A d \in Calls : phase'[d] = "done" => got[d] = Len(input[d])
    BY <1>0, <1>5 DEF Return, ReturnIf, TypeOK
  <2>. QED
    BY <2>1, <2>2, BalanceSame
<1>6. CASE Cancel
  <2>1. Busy' = Busy /\ UNCHANGED <<sent, got, phase, input>>
    BY <1>6 DEF Cancel, workerVars, callVars, Busy
  <2>. QED
    BY <1>0, <2>1, BalanceSame
<1>7. ASSUME NEW k \in Workers, Exit(k) PROVE Balance'
  <2>1. Busy' = Busy /\ UNCHANGED <<sent, got, phase, input>>
    BY <1>7 DEF Exit, callVars, Busy, TypeOK
  <2>. QED
    BY <1>0, <2>1, BalanceSame
<1>8. CASE UNCHANGED vars
  <2>1. Busy' = Busy /\ UNCHANGED <<sent, got, phase, input>>
    BY <1>8 DEF vars, Busy
  <2>. QED
    BY <1>0, <2>1, BalanceSame
<1>. QED
  BY <1>1, <1>2, <1>3, <1>4, <1>5, <1>6, <1>7, <1>8 DEF Next, WorkerStep

\* When no call has sent more than it has got, nothing is in flight.
LEMMA Settled ==
  ASSUME TypeOK, Balance, \A c \in Calls : sent[c] <= got[c]
  PROVE  Busy = {} /\ sent = got
<1>1. sent \in [Calls -> Nat] /\ got \in [Calls -> Nat]
  BY DEF TypeOK
<1>2. SentSet \subseteq GotSet
  BY <1>1 DEF SentSet, GotSet
<1>3. IsFiniteSet(SentSet) /\ IsFiniteSet(GotSet)
  BY DEF Balance
<1>4. Cardinality(SentSet) <= Cardinality(GotSet)
      /\ (Cardinality(SentSet) = Cardinality(GotSet) => SentSet = GotSet)
  BY <1>2, <1>3, FS_Subset
<1>5. /\ Cardinality(Busy) \in Nat /\ (Cardinality(Busy) = 0 <=> Busy = {})
      /\ Cardinality(SentSet) \in Nat /\ Cardinality(GotSet) \in Nat
  BY <1>3, BusyFinite, FS_CardinalityType, FS_EmptySet
<1>6. Busy = {} /\ SentSet = GotSet
  BY <1>4, <1>5 DEF Balance
<1>7. ASSUME NEW c \in Calls PROVE sent[c] = got[c]
  <2>1. CASE got[c] = 0
    BY <1>1, <2>1
  <2>2. CASE got[c] # 0
    <3>1. <<c, got[c]>> \in GotSet
      BY <1>1, <2>2 DEF GotSet
    <3>2. got[c] \in 1..sent[c]
      BY <1>6, <3>1 DEF SentSet
    <3>. QED
      BY <1>1, <3>2
  <2>. QED
    BY <2>1, <2>2
<1>. QED
  BY <1>1, <1>6, <1>7

LEMMA SharedPool == Spec => [](TypeOK /\ Balance)
<1>1. Init => TypeOK /\ Balance
  BY TypeInit, BalanceInit
<1>2. TypeOK /\ Balance /\ [Next]_vars => (TypeOK /\ Balance)'
  BY TypeNext, BalanceNext
<1>. QED
  BY <1>1, <1>2, PTL DEF Spec

LEMMA CleanBetween == ASSUME TypeOK, Balance PROVE NoLeftovers
<1> SUFFICES ASSUME Open = {}
             PROVE  Busy = {} /\ \A c \in Calls : phase[c] = "done" => sent[c] = Len(input[c])
  BY DEF NoLeftovers
<1>1. ASSUME NEW c \in Calls PROVE sent[c] <= got[c]
  BY DEF TypeOK, Open, Balance
<1>2. Busy = {} /\ sent = got
  BY <1>1, Settled
<1>. QED
  BY <1>2 DEF Balance

(***************************************************************************)
(* However many calls overlap, the pool is idle whenever none is open.     *)
(***************************************************************************)
THEOREM NoLeftoversHolds == Spec => []NoLeftovers
<1>1. TypeOK /\ Balance => NoLeftovers
  BY CleanBetween
<1>. QED
  BY <1>1, SharedPool, PTL

(***************************************************************************)
(* However many calls overlap, a worker that has a result always finds a   *)
(* call that still waits for one.                                          *)
(***************************************************************************)
Heard ==
  \A k \in Workers : state[k] = "send" =>
    \E c \in Calls : phase[c] = "open" /\ got[c] < Len(input[c])

THEOREM WorkersAreHeard == Spec => []Heard
<1>1. ASSUME TypeOK, Balance PROVE Heard
  <2>0. SUFFICES ASSUME NEW k \in Workers, state[k] = "send",
                        \A c \in Calls : phase[c] = "open" => ~(got[c] < Len(input[c]))
                 PROVE  FALSE
    BY DEF Heard
  <2>1. ASSUME NEW c \in Calls PROVE sent[c] <= got[c]
    <3>1. /\ sent[c] \in Nat /\ got[c] \in Nat /\ Len(input[c]) \in Nat
          /\ sent[c] <= Len(input[c])
          /\ phase[c] \in {"new", "open", "done"}
          /\ phase[c] = "new" => sent[c] = 0
      BY <1>1 DEF TypeOK
    <3>2. phase[c] = "done" => got[c] = Len(input[c])
      BY <1>1 DEF Balance
    <3>. QED
      BY <2>0, <3>1, <3>2
  <2>2. Busy = {}
    BY <1>1, <2>1, Settled
  <2>. QED
    BY <2>0, <2>2 DEF Busy
<1>. QED
  BY <1>1, SharedPool, PTL

\* When no call has got more than it has sent and no worker is busy, each has
\* got what it has sent.
LEMMA AllGot ==
  ASSUME TypeOK, Balance, Busy = {}, \A c \in Calls : got[c] <= sent[c], NEW c \in Calls
  PROVE  got[c] = sent[c]
<1>1. sent \in [Calls -> Nat] /\ got \in [Calls -> Nat]
  BY DEF TypeOK
<1>2. GotSet \subseteq SentSet
  BY <1>1 DEF SentSet, GotSet
<1>3. IsFiniteSet(SentSet) /\ IsFiniteSet(GotSet)
  BY DEF Balance
<1>4. Cardinality(GotSet) = Cardinality(SentSet) => SentSet = GotSet
  BY <1>2, <1>3, FS_Subset
<1>5. /\ Cardinality(Busy) = 0
      /\ Cardinality(SentSet) \in Nat /\ Cardinality(GotSet) \in Nat
  BY <1>3, FS_CardinalityType, FS_EmptySet
<1>6. SentSet = GotSet
  BY <1>4, <1>5 DEF Balance
<1>7. CASE sent[c] = 0
  BY <1>1, <1>7
<1>8. CASE sent[c] # 0
  <2>1. <<c, sent[c]>> \in SentSet
    BY <1>1, <1>8 DEF SentSet
  <2>2. sent[c] \in 1..got[c]
    BY <1>6, <2>1 DEF GotSet
  <2>. QED
    BY <1>1, <2>2
<1>. QED
  BY <1>7, <1>8

(***************************************************************************)
(* However many calls overlap, feeders, workers and calls never wait for   *)
(* each other in a circle while a worker is left.                          *)
(***************************************************************************)
THEOREM GoesOnHolds == Spec => []GoesOn
<1>1. ASSUME TypeOK, Balance PROVE GoesOn
  <2>0. SUFFICES ASSUME Busy # {} \/ (Open # {} /\ \E k \in Workers : state[k] # "exited"),
                        ~Moves
                 PROVE  FALSE
    BY DEF GoesOn
  <2>1. Open # {}
    BY <1>1, <2>0, CleanBetween DEF NoLeftovers
  <2>2. PICK c \in Open : TRUE
    BY <2>1
  <2>3. c \in Calls /\ phase[c] = "open" /\ got[c] < Len(input[c])
    BY <1>1, <2>0, <2>2 DEF Moves, Open, TypeOK
  <2>4. Busy = {}
    BY <2>0, <2>2, <2>3 DEF Moves, Busy
  <2>5. PICK k \in Workers : state[k] = "select"
    BY <1>1, <2>0, <2>4 DEF Busy, TypeOK
  <2>6. ASSUME NEW d \in Calls
        PROVE  got[d] <= sent[d] /\ (phase[d] # "new" => sent[d] = Len(input[d]))
    <3>1. /\ sent[d] \in Nat /\ got[d] \in Nat /\ Len(input[d]) \in Nat
          /\ sent[d] <= Len(input[d]) /\ got[d] <= Len(input[d])
          /\ phase[d] = "new" => sent[d] = 0 /\ got[d] = 0
      BY <1>1 DEF TypeOK
    <3>2. phase[d] # "new" => ~(sent[d] < Len(input[d]))
      BY <2>0, <2>5 DEF Moves
    <3>. QED
      BY <3>1, <3>2
  <2>7. got[c] = sent[c]
    BY <1>1, <2>3, <2>4, <2>6, AllGot
  <2>. QED
    BY <1>1, <2>3, <2>6, <2>7 DEF TypeOK
<1>. QED
  BY <1>1, SharedPool, PTL

\* What a call has returned stays.
LEMMA DoneStays ==
  ASSUME TypeOK, [Next]_vars, NEW c \in Calls, phase[c] = "done"
  PROVE  phase'[c] = "done" /\ input'[c] = input[c] /\ output'[c] = output[c]
<1>1. ASSUME NEW d \in Calls, Begin(d) \/ Return(d)
      PROVE  phase'[c] = "done" /\ input'[c] = input[c] /\ output'[c] = output[c]
  <2>1. d # c
    BY <1>1 DEF Begin, BeginIf, Return, ReturnIf
  <2>. QED
    BY <1>1, <2>1 DEF Begin, BeginIf, Return, ReturnIf, TypeOK
<1>2. ASSUME NEW k \in Workers, WorkerStep(k) PROVE UNCHANGED <<phase, input, output>>
  BY <1>2 DEF WorkerStep, Take, Fetch, FetchFrom, Deliver, DeliverAs, Exit, callVars
<1>3. CASE Cancel \/ UNCHANGED vars
  BY <1>3 DEF Cancel, callVars, vars
<1>. QED
  BY <1>1, <1>2, <1>3 DEF Next

\* Only its own Return ends a call.
LEMMA OnlyReturnEnds ==
  ASSUME TypeOK, [Next]_vars, NEW c \in Calls, phase[c] # "done", phase'[c] = "done"
  PROVE  Return(c)
<1>1. ASSUME NEW d \in Calls, Begin(d) PROVE FALSE
  BY <1>1 DEF Begin, BeginIf, TypeOK
<1>2. ASSUME NEW d \in Calls, Return(d) PROVE d = c
  BY <1>2 DEF Return, ReturnIf, TypeOK
<1>3. ASSUME NEW k \in Workers, WorkerStep(k) PROVE FALSE
  BY <1>3 DEF WorkerStep, Take, Fetch, FetchFrom, Deliver, DeliverAs, Exit, callVars
<1>4. CASE Cancel \/ UNCHANGED vars
  BY <1>4 DEF Cancel, callVars, vars
<1>. QED
  BY <1>1, <1>2, <1>3, <1>4 DEF Next

\* An entry of what a call returns is the caller's own, or missing.
NeverMixedUp ==
  \A c \in Calls : phase[c] = "done" =>
    /\ DOMAIN output[c] = DOMAIN input[c]
    /\ \A i \in DOMAIN input[c] :
         \/ output[c][i] = Absent
         \/ /\ output[c][i].id = input[c][i]
            /\ output[c][i].reply \in Replies[input[c][i]]

LEMMA NeverMixedUpNext == TypeOK /\ NeverMixedUp /\ [Next]_vars => NeverMixedUp'
<1> SUFFICES ASSUME TypeOK, NeverMixedUp, [Next]_vars, NEW c \in Calls, phase'[c] = "done"
             PROVE  /\ DOMAIN output'[c] = DOMAIN input'[c]
                    /\ \A i \in DOMAIN input'[c] :
                         \/ output'[c][i] = Absent
                         \/ /\ output'[c][i].id = input'[c][i]
                            /\ output'[c][i].reply \in Replies[input'[c][i]]
  BY DEF NeverMixedUp, Absent, Entry
<1>1. CASE phase[c] = "done"
  <2>1. input'[c] = input[c] /\ output'[c] = output[c]
    BY <1>1, DoneStays
  <2>. QED
    BY <1>1, <2>1 DEF NeverMixedUp
<1>2. CASE phase[c] # "done"
  <2>1. Return(c)
    BY <1>2, OnlyReturnEnds
  <2>2. output'[c] = Ordered(c) /\ input' = input
    BY <2>1 DEF Return, ReturnIf, TypeOK
  <2>3. ASSUME NEW i \in DOMAIN input[c]
        PROVE  \/ Ordered(c)[i] = Absent
               \/ /\ Ordered(c)[i].id = input[c][i]
                  /\ Ordered(c)[i].reply \in Replies[input[c][i]]
    <3>1. input[c][i] \in Workspaces
      BY <2>3 DEF TypeOK
    <3>2. found[c][input[c][i]] \in Replies[input[c][i]] \cup {Missing}
      BY <3>1 DEF TypeOK
    <3>3. Ordered(c)[i] = IF found[c][input[c][i]] = Missing THEN Absent
                          ELSE [id |-> input[c][i], reply |-> found[c][input[c][i]]]
      BY DEF Ordered, Entry
    <3>. QED
      BY <3>2, <3>3
  <2>4. DOMAIN Ordered(c) = DOMAIN input[c]
    BY DEF Ordered
  <2>. QED
    BY <2>2, <2>3, <2>4
<1>. QED
  BY <1>1, <1>2

(***************************************************************************)
(* Calls that overlap may miss results (Absent), but whatever a call does  *)
(* return is the caller's workspace, at its position, with an answer about *)
(* that workspace: results are lost to another call, never mixed up.       *)
(***************************************************************************)
THEOREM NeverMixedUpHolds == Spec => []NeverMixedUp
<1>1. Init => NeverMixedUp
  BY DEF Init, NeverMixedUp
<1>2. TypeOK /\ NeverMixedUp /\ [Next]_vars => NeverMixedUp'
  BY NeverMixedUpNext
<1>. QED
  BY <1>1, <1>2, SharedPool, PTL DEF Spec

-----------------------------------------------------------------------------
(* What is in flight of a call.                                             *)

LEMMA NotMissing ==
  ASSUME NEW w \in Workspaces, NEW r \in Replies[w] PROVE r # Missing
  BY MissingAssumption DEF Replies

\* A call that begins while the pool is idle has nothing in flight.
LEMMA BeginInFlight ==
  ASSUME TypeOK, NEW c \in Calls, Begin(c), Busy = {} PROVE InFlight(c)' /\ Busy' = {}
<1>1. Busy' = {} /\ sent'[c] = 0 /\ got'[c] = 0
  BY DEF Begin, BeginIf, workerVars, Busy, TypeOK
<1>2. Cardinality(Busy') = 0
  BY <1>1, FS_EmptySet
<1>. QED
  BY <1>1, <1>2 DEF InFlight

LEMMA TakeInFlight ==
  ASSUME TypeOK, NEW k \in Workers, NEW c \in Calls, Take(k, c), InFlight(c)
  PROVE  InFlight(c)'
<1>1. sent[c] \in Nat /\ got[c] \in Nat
  BY DEF TypeOK
<1>2. Busy' = Busy \cup {k} /\ k \notin Busy
  BY DEF Take, Busy, TypeOK
<1>3. Cardinality(Busy') = Cardinality(Busy) + 1
  BY <1>2, BusyFinite, FS_AddElement
<1>4. sent'[c] = sent[c] + 1 /\ job'[k] = input[c][sent'[c]]
  BY DEF Take, TypeOK
<1>5. \A l \in Busy : job'[l] = job[l]
  BY <1>2 DEF Take, TypeOK, Busy
<1>6. got' = got /\ found' = found /\ input' = input
  BY DEF Take
<1>7. Cardinality(Busy') = sent'[c] - got'[c]
  BY <1>1, <1>3, <1>4, <1>6 DEF InFlight
<1>8. ASSUME NEW i \in 1..sent'[c]
      PROVE  \/ found'[c][input'[c][i]] # Missing
             \/ \E l \in Busy' : job'[l] = input'[c][i]
  <2>1. CASE i = sent'[c]
    BY <1>2, <1>4, <1>6, <2>1
  <2>2. CASE i \in 1..sent[c]
    BY <1>2, <1>5, <1>6, <2>2 DEF InFlight
  <2>. QED
    BY <1>1, <1>4, <2>1, <2>2
<1>9. ASSUME NEW l \in Busy'
      PROVE  \E i \in 1..sent'[c] : job'[l] = input'[c][i]
  <2>1. CASE l = k
    BY <1>1, <1>4, <1>6, <2>1
  <2>2. CASE l \in Busy
    <3>1. PICK i \in 1..sent[c] : job[l] = input[c][i]
      BY <2>2 DEF InFlight
    <3>. QED
      BY <1>1, <1>4, <1>5, <1>6, <2>2, <3>1
  <2>. QED
    BY <1>2, <2>1, <2>2
<1>. QED
  BY <1>7, <1>8, <1>9 DEF InFlight

LEMMA DeliverInFlight ==
  ASSUME TypeOK, NEW k \in Workers, NEW c \in Calls, Deliver(k, c), InFlight(c)
  PROVE  InFlight(c)'
<1>1. k \in Busy /\ sent[c] \in Nat /\ got[c] \in Nat
  BY DEF Deliver, DeliverAs, Busy, TypeOK
<1>2. Busy' = Busy \ {k}
  BY DEF Deliver, DeliverAs, Busy, TypeOK
<1>3. Cardinality(Busy') = Cardinality(Busy) - 1
  BY <1>1, <1>2, BusyFinite, FS_RemoveElement
<1>4. job[k] \in Workspaces /\ reply[k] \in Replies[job[k]] /\ reply[k] # Missing
  BY NotMissing, NoWorkspaceAssumption DEF Deliver, DeliverAs, TypeOK
<1>5. /\ got'[c] = got[c] + 1 /\ sent' = sent /\ input' = input
      /\ \A w \in Workspaces :
           found'[c][w] = IF w = job[k] THEN reply[k] ELSE found[c][w]
      /\ \A l \in Busy' : job'[l] = job[l]
  BY <1>2, <1>4 DEF Deliver, DeliverAs, TypeOK, Busy
<1>6. Cardinality(Busy') = sent'[c] - got'[c]
  BY <1>1, <1>3, <1>5, BusyFinite, FS_CardinalityType DEF InFlight
<1>7. ASSUME NEW i \in 1..sent'[c]
      PROVE  \/ found'[c][input'[c][i]] # Missing
             \/ \E l \in Busy' : job'[l] = input'[c][i]
  <2>1. i \in 1..sent[c] /\ input[c][i] \in Workspaces
    BY <1>5 DEF TypeOK
  <2>2. CASE input[c][i] = job[k]
    BY <1>4, <1>5, <2>1, <2>2
  <2>3. CASE input[c][i] # job[k] /\ found[c][input[c][i]] # Missing
    BY <1>5, <2>1, <2>3
  <2>4. CASE input[c][i] # job[k] /\ \E l \in Busy : job[l] = input[c][i]
    BY <1>2, <1>5, <2>4
  <2>. QED
    BY <2>1, <2>2, <2>3, <2>4 DEF InFlight
<1>8. \A l \in Busy' : \E i \in 1..sent'[c] : job'[l] = input'[c][i]
  BY <1>2, <1>5 DEF InFlight
<1>. QED
  BY <1>6, <1>7, <1>8 DEF InFlight

LEMMA StillInFlight ==
  ASSUME NEW c \in Calls, InFlight(c), Busy' = Busy, job' = job,
         sent'[c] = sent[c], got'[c] = got[c], input'[c] = input[c], found'[c] = found[c]
  PROVE  InFlight(c)'
  BY DEF InFlight

\* A call returns only when nothing of it is in flight, and all is answered.
LEMMA AllBack ==
  ASSUME TypeOK, NEW c \in Calls, InFlight(c), Return(c)
  PROVE  /\ Busy = {}
         /\ sent[c] = Len(input[c])
         /\ \A i \in DOMAIN input[c] : found[c][input[c][i]] # Missing
         /\ Complete(c)'
<1>1. got[c] = Len(input[c]) /\ sent[c] <= Len(input[c]) /\ sent[c] \in Nat /\ got[c] \in Nat
  BY DEF Return, ReturnIf, TypeOK
<1>2. Cardinality(Busy) \in Nat /\ (Cardinality(Busy) = 0 <=> Busy = {})
  BY BusyFinite, FS_CardinalityType, FS_EmptySet
<1>3. sent[c] = Len(input[c]) /\ Busy = {}
  BY <1>1, <1>2 DEF InFlight
<1>4. DOMAIN input[c] = 1..Len(input[c])
  BY DEF TypeOK
<1>5. \A i \in DOMAIN input[c] : found[c][input[c][i]] # Missing
  BY <1>3, <1>4 DEF InFlight
<1>6. output'[c] = Ordered(c) /\ input' = input
  BY DEF Return, ReturnIf, TypeOK
<1>7. ASSUME NEW i \in DOMAIN input[c]
      PROVE  /\ Ordered(c)[i].id = input[c][i]
             /\ Ordered(c)[i].reply \in Replies[input[c][i]]
  <2>1. found[c][input[c][i]] \in Replies[input[c][i]]
    BY <1>5 DEF TypeOK
  <2>2. Ordered(c)[i] = Entry(input[c][i], found[c][input[c][i]])
    BY <1>5 DEF Ordered
  <2>. QED
    BY <2>1, <2>2 DEF Entry
<1>8. DOMAIN Ordered(c) = DOMAIN input[c]
  BY DEF Ordered
<1>9. Complete(c)'
  BY <1>6, <1>7, <1>8 DEF Complete
<1>. QED
  BY <1>3, <1>5, <1>9

-----------------------------------------------------------------------------
(* One call alone, among any number.                                        *)

(***************************************************************************)
(* No other call is open, and no feeder of a past one still sends: all     *)
(* that is in flight is of call c.                                         *)
(***************************************************************************)
OnlyCall(c) ==
  /\ phase[c] = "open"
  /\ \A d \in Open : d = c
  /\ \A d \in Calls : phase[d] = "done" => sent[d] = Len(input[d])
  /\ InFlight(c)

LEMMA OnlyCallBegins ==
  ASSUME TypeOK, NoLeftovers, NEW c \in Calls, Begin(c), Open = {}
  PROVE  OnlyCall(c)'
<1>1. Busy = {} /\ \A d \in Calls : phase[d] = "done" => sent[d] = Len(input[d])
  BY DEF NoLeftovers
<1>2. InFlight(c)'
  BY <1>1, BeginInFlight
<1>3. \A d \in Calls : /\ phase'[d] = IF d = c THEN "open" ELSE phase[d]
                       /\ d # c => input'[d] = input[d]
                       /\ sent'[d] = sent[d]
  BY DEF Begin, BeginIf, TypeOK
<1>. QED
  BY <1>1, <1>2, <1>3 DEF OnlyCall, Open

\* It stays so until the call returns, complete, or another one begins.
LEMMA OnlyCallNext ==
  ASSUME TypeOK, NEW c \in Calls, OnlyCall(c), [Next]_vars,
         \A d \in Calls : phase[d] = "new" => phase'[d] = "new"
  PROVE  OnlyCall(c)' \/ (Return(c) /\ Complete(c)')
<1>1. ASSUME NEW k \in Workers, NEW d \in Calls, Take(k, d) PROVE OnlyCall(c)'
  <2>1. d = c
    BY <1>1 DEF Take, OnlyCall, Open, TypeOK
  <2>2. InFlight(c)'
    BY <1>1, <2>1, TakeInFlight DEF OnlyCall
  <2>3. UNCHANGED <<phase, input>> /\ \A e \in Calls : e # c => sent'[e] = sent[e]
    BY <1>1, <2>1 DEF Take, TypeOK
  <2>. QED
    BY <2>2, <2>3 DEF OnlyCall, Open
<1>2. ASSUME NEW k \in Workers, NEW d \in Calls, Deliver(k, d) PROVE OnlyCall(c)'
  <2>1. d = c
    BY <1>2 DEF Deliver, DeliverAs, OnlyCall, Open
  <2>2. InFlight(c)'
    BY <1>2, <2>1, DeliverInFlight DEF OnlyCall
  <2>. QED
    BY <1>2, <2>2 DEF OnlyCall, Open, Deliver, DeliverAs
<1>3. ASSUME NEW d \in Calls, Return(d) PROVE Return(c) /\ Complete(c)'
  <2>1. d = c
    BY <1>3 DEF Return, ReturnIf, OnlyCall, Open
  <2>. QED
    BY <1>3, <2>1, AllBack DEF OnlyCall
<1>4. ASSUME Busy' = Busy, UNCHANGED <<job, phase, input, sent, got, found>>
      PROVE  OnlyCall(c)'
  BY <1>4, StillInFlight DEF OnlyCall, Open
<1>5. ASSUME NEW k \in Workers, Fetch(k) \/ Exit(k) PROVE OnlyCall(c)'
  <2>1. Busy' = Busy
    BY <1>5 DEF Fetch, FetchFrom, Exit, Busy, TypeOK
  <2>. QED
    BY <1>4, <1>5, <2>1 DEF Fetch, FetchFrom, Exit, callVars
<1>6. CASE Cancel \/ UNCHANGED vars
  <2>1. Busy' = Busy
    BY <1>6 DEF Cancel, vars, workerVars, Busy
  <2>. QED
    BY <1>4, <1>6, <2>1 DEF Cancel, vars, workerVars, callVars
<1>7. ASSUME NEW d \in Calls, Begin(d) PROVE FALSE
  BY <1>7 DEF Begin, BeginIf, TypeOK
<1>. QED
  BY <1>1, <1>2, <1>3, <1>5, <1>6, <1>7 DEF Next, WorkerStep

-----------------------------------------------------------------------------
(* One call at a time.                                                      *)

LEMMA NoneOpen ==
  ASSUME MaxOpen = 1, Cardinality(Open) < MaxOpen PROVE Open = {}
<1>1. IsFiniteSet(Open)
  BY CallsAssumption, FS_Subset DEF Open
<1>2. Cardinality(Open) \in Nat /\ (Cardinality(Open) = 0 <=> Open = {})
  BY <1>1, FS_CardinalityType, FS_EmptySet
<1>. QED
  BY <1>2

LEMMA PoolInit == Init => PoolInv
<1> SUFFICES ASSUME Init PROVE PoolInv
  OBVIOUS
<1>1. Open = {} /\ Busy = {}
  BY DEF Init, Open, Busy
<1>2. \A c \in Calls : phase[c] = "new"
  BY DEF Init
<1>. QED
  BY <1>1, <1>2 DEF PoolInv, NoLeftovers, CompleteOutput

LEMMA PoolNext ==
  ASSUME MaxOpen = 1, TypeOK, PoolInv, [Next]_vars PROVE PoolInv'
<1>1. ASSUME NEW c \in Calls, Begin(c) PROVE PoolInv'
  <2>1. Open = {} /\ Busy = {}
    BY <1>1, NoneOpen DEF Begin, BeginIf, PoolInv, NoLeftovers
  <2>2. Open' = {c} /\ Busy' = {}
    BY <1>1, <2>1 DEF Begin, BeginIf, workerVars, Open, Busy, TypeOK
  <2>3. InFlight(c)'
    BY <1>1, <2>1, BeginInFlight
  <2>4. \A d \in Calls : phase'[d] = "done" =>
          /\ phase[d] = "done" /\ input'[d] = input[d]
          /\ output'[d] = output[d] /\ sent'[d] = sent[d]
    BY <1>1 DEF Begin, BeginIf, TypeOK
  <2>. QED
    BY <2>2, <2>3, <2>4 DEF PoolInv, NoLeftovers, CompleteOutput, Complete
<1>2. ASSUME NEW k \in Workers, NEW c \in Calls, Take(k, c) PROVE PoolInv'
  <2>1. c \in Open /\ sent[c] \in Nat
    BY <1>2 DEF Take, PoolInv, Open, TypeOK
  <2>2. Open' = Open /\ Busy' # {}
    BY <1>2 DEF Take, Open, Busy, TypeOK
  <2>3. InFlight(c)'
    BY <1>2, <2>1, TakeInFlight DEF PoolInv
  <2>4. \A d \in Calls : d # c => sent'[d] = sent[d]
    BY <1>2 DEF Take, TypeOK
  <2>5. phase[c] = "open"
    BY <2>1 DEF Open
  <2>6. \A d \in Open' : d = c
    BY <2>1, <2>2 DEF PoolInv
  <2>7. CompleteOutput'
    BY <1>2 DEF Take, PoolInv, CompleteOutput, Complete
  <2>. QED
    BY <1>2, <2>1, <2>2, <2>3, <2>4, <2>5, <2>6, <2>7
       DEF Take, PoolInv, NoLeftovers
<1>3. ASSUME NEW k \in Workers, Fetch(k) PROVE PoolInv'
  <2>1. Busy' = Busy /\ Open' = Open
    BY <1>3 DEF Fetch, FetchFrom, callVars, Busy, Open, TypeOK
  <2>. QED
    BY <1>3, <2>1
       DEF Fetch, FetchFrom, callVars, PoolInv, InFlight, NoLeftovers, CompleteOutput, Complete
<1>4. ASSUME NEW k \in Workers, NEW c \in Calls, Deliver(k, c) PROVE PoolInv'
  <2>1. c \in Open /\ InFlight(c)
    BY <1>4 DEF Deliver, DeliverAs, PoolInv, Open
  <2>2. Open' = Open
    BY <1>4 DEF Deliver, DeliverAs, Open
  <2>3. InFlight(c)'
    BY <1>4, <2>1, DeliverInFlight
  <2>4. \A d \in Open' : d = c
    BY <2>1, <2>2 DEF PoolInv
  <2>5. CompleteOutput'
    BY <1>4 DEF Deliver, DeliverAs, PoolInv, CompleteOutput, Complete
  <2>. QED
    BY <1>4, <2>1, <2>2, <2>3, <2>4, <2>5 DEF Deliver, DeliverAs, PoolInv, NoLeftovers
<1>5. ASSUME NEW c \in Calls, Return(c) PROVE PoolInv'
  <2>1. c \in Open /\ InFlight(c)
    BY <1>5 DEF Return, ReturnIf, Open, PoolInv
  <2>2. Busy = {} /\ sent[c] = Len(input[c]) /\ Complete(c)'
    BY <1>5, <2>1, AllBack
  <2>3. Open' = {} /\ Busy' = Busy
    BY <1>5 DEF Return, ReturnIf, workerVars, PoolInv, Open, Busy, TypeOK
  <2>4. input' = input /\ sent' = sent
    BY <1>5 DEF Return, ReturnIf
  <2>5. \A d \in Calls : d # c => phase'[d] = phase[d] /\ output'[d] = output[d]
    BY <1>5 DEF Return, ReturnIf, TypeOK
  <2>6. CompleteOutput'
    BY <2>2, <2>4, <2>5 DEF PoolInv, CompleteOutput, Complete
  <2>7. \A d \in Calls : phase'[d] = "done" => sent'[d] = Len(input'[d])
    BY <2>2, <2>4, <2>5 DEF PoolInv
  <2>. QED
    BY <2>2, <2>3, <2>6, <2>7 DEF PoolInv, NoLeftovers
<1>6. CASE Cancel
  <2>1. Busy' = Busy /\ Open' = Open
    BY <1>6 DEF Cancel, workerVars, callVars, Busy, Open
  <2>. QED
    BY <1>6, <2>1 DEF Cancel, workerVars, callVars, PoolInv, InFlight, NoLeftovers, CompleteOutput, Complete
<1>7. ASSUME NEW k \in Workers, Exit(k) PROVE PoolInv'
  <2>1. Busy' = Busy /\ Open' = Open
    BY <1>7 DEF Exit, callVars, Busy, Open, TypeOK
  <2>. QED
    BY <1>7, <2>1
       DEF Exit, callVars, PoolInv, InFlight, NoLeftovers, CompleteOutput, Complete
<1>8. CASE UNCHANGED vars
  <2>1. Busy' = Busy /\ Open' = Open
    BY <1>8 DEF vars, Busy, Open
  <2>. QED
    BY <1>8, <2>1 DEF vars, PoolInv, InFlight, NoLeftovers, CompleteOutput, Complete
<1>. QED
  BY <1>1, <1>2, <1>3, <1>4, <1>5, <1>6, <1>7, <1>8 DEF Next, WorkerStep

LEMMA PoolCorrect == ASSUME MaxOpen = 1 PROVE Spec => [](TypeOK /\ PoolInv)
<1>1. Init => TypeOK /\ PoolInv
  BY TypeInit, PoolInit
<1>2. TypeOK /\ PoolInv /\ [Next]_vars => (TypeOK /\ PoolInv)'
  BY TypeNext, PoolNext
<1>. QED
  BY <1>1, <1>2, PTL DEF Spec

(***************************************************************************)
(* With one call at a time, a call that returned has a complete list.      *)
(***************************************************************************)
THEOREM CompleteOutputHolds == ASSUME MaxOpen = 1 PROVE Spec => []CompleteOutput
<1>1. PoolInv => CompleteOutput
  BY DEF PoolInv
<1>. QED
  BY <1>1, PoolCorrect, PTL

(***************************************************************************)
(* The invariant itself, which the runs check too.                         *)
(***************************************************************************)
THEOREM PoolInvHolds == ASSUME MaxOpen = 1 PROVE Spec => []PoolInv
  BY PoolCorrect, PTL

(***************************************************************************)
(* With one call at a time, hydrating is the fan-out its caller expects.   *)
(***************************************************************************)
THEOREM HydrateImplementsFanOut == ASSUME MaxOpen = 1 PROVE Spec => FanOutSpec
<1>1. Init => Fan!Init
  BY DEF Init, Fan!Init, Nothing, Fan!Nothing
<1>2. ASSUME TypeOK, PoolInv, [Next]_vars PROVE [Fan!Next]_(Fan!fvars)
  <2>1. ASSUME NEW c \in Calls, Begin(c) PROVE Fan!Begin(c)
    <3>1. PICK wks \in Listings : input' = [input EXCEPT ![c] = wks]
      BY <2>1 DEF Begin, BeginIf
    <3>2. wks \in Seq(Workspaces) /\ input'[c] = wks
      BY <1>2, <3>1, ListingsAssumption DEF TypeOK
    <3>. QED
      BY <2>1, <3>1, <3>2 DEF Begin, BeginIf, Fan!Begin
  <2>2. ASSUME NEW k \in Workers, NEW c \in Calls, Deliver(k, c) PROVE Fan!Answer(c)
    <3>1. c \in Open /\ k \in Busy /\ InFlight(c)
      BY <1>2, <2>2 DEF Deliver, DeliverAs, Open, Busy, PoolInv
    <3>2. PICK i \in 1..sent[c] : job[k] = input[c][i]
      BY <3>1 DEF InFlight
    <3>3. i \in DOMAIN input[c] /\ input[c][i] \in Workspaces
      BY <1>2, <3>2 DEF TypeOK
    <3>4. found'[c][job[k]] = reply[k] /\ reply[k] \in Replies[job[k]]
      BY <1>2, <2>2, <3>2, <3>3 DEF Deliver, DeliverAs, TypeOK
    <3>. QED
      BY <2>2, <3>2, <3>3, <3>4 DEF Deliver, DeliverAs, Fan!Answer
  <2>3. ASSUME NEW c \in Calls, Return(c) PROVE Fan!Return(c)
    <3>1. \A i \in DOMAIN input[c] : found[c][input[c][i]] # Missing
      BY <1>2, <2>3, AllBack DEF Return, ReturnIf, Open, PoolInv
    <3>2. Ordered(c) = [i \in DOMAIN input[c] |->
                          Fan!Entry(input[c][i], found[c][input[c][i]])]
      BY <3>1 DEF Ordered, Entry, Fan!Entry
    <3>. QED
      BY <2>3, <3>1, <3>2 DEF Return, ReturnIf, Fan!Return
  <2>4. ASSUME NEW k \in Workers, NEW c \in Calls, Take(k, c) PROVE UNCHANGED Fan!fvars
    BY <2>4 DEF Take, Fan!fvars
  <2>5. ASSUME NEW k \in Workers, Fetch(k) \/ Exit(k) PROVE UNCHANGED Fan!fvars
    BY <2>5 DEF Fetch, FetchFrom, Exit, callVars, Fan!fvars
  <2>6. CASE Cancel
    BY <2>6 DEF Cancel, callVars, Fan!fvars
  <2>7. CASE UNCHANGED vars
    BY <2>7 DEF vars, Fan!fvars
  <2>. QED
    BY <1>2, <2>1, <2>2, <2>3, <2>4, <2>5, <2>6, <2>7 DEF Next, WorkerStep, Fan!Next
<1>. QED
  BY <1>1, <1>2, PoolCorrect, PTL DEF Spec, FanOutSpec, Fan!Spec
=============================================================================
