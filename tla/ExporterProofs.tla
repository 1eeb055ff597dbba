--------------------------- MODULE ExporterProofs ---------------------------
(***************************************************************************)
(* Theorems about Exporter.  A step of the exporter is a step of the pool  *)
(* of module Hydrate, or leaves the pool alone, so what HydrateProofs      *)
(* shows of a pool with any number of overlapping calls holds of the pool  *)
(* all scrapes share.                                                      *)
(***************************************************************************)
EXTENDS Exporter, ProcessorsProofs

Shared == INSTANCE HydrateProofs WITH Listings <- {Selected(wks) : wks \in Listings},
                                      MaxOpen <- Cardinality(Calls)

-----------------------------------------------------------------------------
(* The constants of the pool are as Hydrate assumes.                        *)

LEMMA SelectedLists ==
  ASSUME NEW wks \in Listings PROVE Selected(wks) \in Seq(Workspaces)
<1>1. wks \in Seq(Workspaces)
  BY ListingsAssumption
<1>2. {i \in DOMAIN wks : wks[i] \in Names} \in SUBSET (DOMAIN wks)
  OBVIOUS
<1>. QED
  BY <1>1, <1>2, KeepKeeps, Zenon DEF Selected

LEMMA PoolCalls == Shared!CallsAssumption
  BY CallsAssumption DEF IsFiniteSet, Shared!IsFiniteSet

LEMMA PoolWorkers == Shared!WorkersAssumption
  BY WorkersAssumption DEF IsFiniteSet, Shared!IsFiniteSet

LEMMA PoolListings == Shared!ListingsAssumption
<1>1. \A wks \in Listings : Selected(wks) \in Seq(Workspaces)
  BY SelectedLists
<1>. QED
  BY <1>1

LEMMA PoolNoWorkspace == Shared!NoWorkspaceAssumption
  BY NoWorkspaceAssumption

LEMMA PoolMaxOpen == Shared!MaxOpenAssumption
<1>1. Cardinality(Calls) \in Nat /\ Cardinality(Calls) # 0
  BY CallsAssumption, FS_CardinalityType, FS_EmptySet
<1>. QED
  BY <1>1

LEMMA PoolMissing == Shared!MissingAssumption
  BY MissingAssumption, PlansAssumption

-----------------------------------------------------------------------------
(* The pool the exporter uses is the pool the theorems are about.           *)

LEMMA SameCallActions ==
  ASSUME NEW c \in Calls
  PROVE  /\ Pool!Begin(c) => Shared!Begin(c)
         /\ Pool!Return(c) => Shared!Return(c)
<1>1. Pool!Begin(c) => Shared!Begin(c)
  BY DEF Pool!Begin, Shared!Begin, Pool!BeginIf, Shared!BeginIf, Pool!Open, Shared!Open,
         Pool!workerVars, Shared!workerVars, Pool!Cardinality, Shared!Cardinality
<1>2. Pool!Return(c) => Shared!Return(c)
  BY DEF Pool!Return, Shared!Return, Pool!ReturnIf, Shared!ReturnIf, Pool!Ordered,
         Shared!Ordered, Pool!Entry, Shared!Entry, Pool!Absent, Shared!Absent,
         Pool!workerVars, Shared!workerVars
<1>. QED
  BY <1>1, <1>2

LEMMA SameWorkerActions ==
  ASSUME NEW k \in Workers
  PROVE  /\ \A c \in Calls : Pool!Take(k, c) => Shared!Take(k, c)
         /\ \A c \in Calls : Pool!Deliver(k, c) => Shared!Deliver(k, c)
         /\ Pool!Exit(k) => Shared!Exit(k)
         /\ \A replies : Pool!FetchFrom(k, replies) => Shared!FetchFrom(k, replies)
  BY DEF Pool!Take, Shared!Take, Pool!Deliver, Shared!Deliver, Pool!DeliverAs,
         Shared!DeliverAs, Pool!Exit, Shared!Exit, Pool!callVars, Shared!callVars,
         Pool!FetchFrom, Shared!FetchFrom

LEMMA SamePool ==
  /\ Pool!Init => Shared!Init
  /\ Pool!Cancel => Shared!Cancel
  /\ Pool!TypeOK <=> Shared!TypeOK
  /\ Pool!NoLeftovers <=> Shared!NoLeftovers
  /\ Pool!GoesOn <=> Shared!GoesOn
  /\ Pool!Open = Shared!Open /\ Pool!Replies = Shared!Replies
<1>1. Pool!Init => Shared!Init
  BY DEF Pool!Init, Shared!Init, Pool!Nothing, Shared!Nothing
<1>2. Pool!Cancel => Shared!Cancel
  BY DEF Pool!Cancel, Shared!Cancel, Pool!workerVars, Shared!workerVars,
         Pool!callVars, Shared!callVars
<1>3. Pool!Replies = Shared!Replies /\ Pool!AnyReply = Shared!AnyReply
  BY DEF Pool!Replies, Shared!Replies, Pool!AnyReply, Shared!AnyReply
<1>4. Pool!TypeOK <=> Shared!TypeOK
  BY <1>3 DEF Pool!TypeOK, Shared!TypeOK
<1>5. Pool!Open = Shared!Open
  BY DEF Pool!Open, Shared!Open
<1>6. Pool!NoLeftovers <=> Shared!NoLeftovers
  BY <1>5 DEF Pool!NoLeftovers, Shared!NoLeftovers, Pool!Busy, Shared!Busy
<1>7. Pool!GoesOn <=> Shared!GoesOn
  BY <1>5 DEF Pool!GoesOn, Shared!GoesOn, Pool!Moves, Shared!Moves, Pool!Busy, Shared!Busy
<1>. QED
  BY <1>1, <1>2, <1>3, <1>4, <1>5, <1>6, <1>7

-----------------------------------------------------------------------------
(* Every step is a step of the pool.                                        *)

Answering == \A w \in Workspaces : answer[w] \in PlansOf[w] \cup {NoPlan}

LEMMA PoolStep ==
  ASSUME Shared!TypeOK, Answering, [Next]_vars
  PROVE  [Shared!Next]_(Shared!vars)
<1>0. UNCHANGED poolVars => UNCHANGED Shared!vars
  BY DEF poolVars, Shared!vars
<1>1. ASSUME NEW c \in Calls, Process(c) PROVE Shared!Next
  BY <1>1, SameCallActions DEF Process, Shared!Next
<1>2. ASSUME NEW c \in Calls, Return(c) PROVE Shared!Next
  BY <1>2, SameCallActions DEF Return, Shared!Next
<1>3. ASSUME NEW k \in Workers, Fetch(k) PROVE Shared!Fetch(k)
  <2>1. state[k] = "fetch" /\ Pool!FetchFrom(k, {answer[job[k]]})
    BY <1>3 DEF Fetch
  <2>2. job[k] \in Workspaces
    BY <2>1 DEF Shared!TypeOK
  <2>3. answer[job[k]] \in Shared!Replies[job[k]]
    BY <2>2 DEF Answering, Shared!Replies
  <2>4. Shared!FetchFrom(k, {answer[job[k]]})
    BY <2>1, SameWorkerActions
  <2>. QED
    BY <2>3, <2>4 DEF Shared!Fetch, Shared!FetchFrom
<1>4. ASSUME NEW k \in Workers, WorkerStep(k) PROVE Shared!Next
  BY <1>3, <1>4, SameWorkerActions
     DEF WorkerStep, Take, Deliver, Exit, Shared!Next, Shared!WorkerStep
<1>5. CASE Cancel
  BY <1>5, SamePool DEF Cancel, Shared!Next
<1>6. ASSUME NEW w \in Workspaces, Change(w) PROVE UNCHANGED poolVars
  BY <1>6 DEF Change
<1>7. CASE PollTick \/ PollLists \/ PollExit
  BY <1>0, <1>7 DEF PollTick, PollLists, PollExit
<1>8. ASSUME NEW c \in Calls, Collect(c) \/ Send(c) \/ Answer(c) \/ Timeout(c) \/ Close(c)
      PROVE  UNCHANGED poolVars
  BY <1>8 DEF Collect, Send, Answer, AnswerFrom, Timeout, Close
<1>9. CASE UNCHANGED vars
  BY <1>0, <1>9 DEF vars
<1>. QED
  BY <1>0, <1>1, <1>2, <1>4, <1>5, <1>6, <1>7, <1>8, <1>9 DEF Next, ScrapeStep

LEMMA AnsweringNext ==
  ASSUME Answering, [Next]_vars, answer \in [Workspaces -> Pool!AnyReply]
  PROVE  Answering' /\ answer' \in [Workspaces -> Pool!AnyReply]
<1>1. ASSUME NEW w \in Workspaces, Change(w)
      PROVE  Answering' /\ answer' \in [Workspaces -> Pool!AnyReply]
  <2>1. PICK p \in PlansOf[w] \cup {NoPlan} : answer' = [answer EXCEPT ![w] = p]
    BY <1>1 DEF Change
  <2>2. p \in Pool!AnyReply
    BY <2>1 DEF Pool!AnyReply, Pool!Replies
  <2>. QED
    BY <2>1, <2>2 DEF Answering
<1>2. ASSUME UNCHANGED answer
      PROVE  Answering' /\ answer' \in [Workspaces -> Pool!AnyReply]
  BY <1>2 DEF Answering
<1>. QED
  BY <1>1, <1>2 DEF Next, vars, PollTick, PollLists, PollExit, Cancel, WorkerStep, Take,
     Fetch, Deliver, Exit, Collect, Process, ScrapeStep, Return, Built, Send, Answer,
     AnswerFrom, Timeout, Close

\* The pool in the middle of the exporter.
PoolInv ==
  /\ Shared!TypeOK /\ Shared!Balance
  /\ Answering /\ answer \in [Workspaces -> Pool!AnyReply]

LEMMA PoolInvInit == Init => PoolInv
<1> SUFFICES ASSUME Init PROVE PoolInv
  OBVIOUS
<1>1. Shared!Init
  BY SamePool DEF Init
<1>2. Shared!TypeOK /\ Shared!Balance
  BY <1>1, Shared!TypeInit, Shared!BalanceInit, PoolCalls, PoolWorkers, PoolListings,
     PoolNoWorkspace, PoolMaxOpen, PoolMissing
<1>3. NoPlan \in Pool!AnyReply
  BY DEF Pool!AnyReply
<1>4. Answering /\ answer \in [Workspaces -> Pool!AnyReply]
  BY <1>3 DEF Init, Answering
<1>. QED
  BY <1>2, <1>4 DEF PoolInv

LEMMA PoolInvNext == PoolInv /\ [Next]_vars => PoolInv'
<1> SUFFICES ASSUME PoolInv, [Next]_vars PROVE PoolInv'
  OBVIOUS
<1>1. [Shared!Next]_(Shared!vars)
  BY PoolStep DEF PoolInv
<1>2. Shared!TypeOK' /\ Shared!Balance'
  BY <1>1, Shared!TypeNext, Shared!BalanceNext, PoolCalls, PoolWorkers, PoolListings,
     PoolNoWorkspace, PoolMaxOpen, PoolMissing DEF PoolInv
<1>3. Answering' /\ answer' \in [Workspaces -> Pool!AnyReply]
  BY AnsweringNext DEF PoolInv
<1>. QED
  BY <1>2, <1>3 DEF PoolInv

LEMMA PoolHolds == Spec => []PoolInv
  BY PoolInvInit, PoolInvNext, PTL DEF Spec

LEMMA PoolIdle == ASSUME PoolInv PROVE PoolDrained
  BY Shared!CleanBetween, SamePool, PoolCalls, PoolWorkers, PoolListings,
     PoolNoWorkspace, PoolMaxOpen, PoolMissing DEF PoolInv, PoolDrained

(***************************************************************************)
(* Every behaviour of the exporter is one of the pool of module Hydrate,   *)
(* with as many overlapping calls as there are scrapes.                    *)
(***************************************************************************)
THEOREM ExporterUsesPool == Spec => Shared!Spec
<1>1. Init => Shared!Init
  BY SamePool DEF Init
<1>2. PoolInv /\ [Next]_vars => [Shared!Next]_(Shared!vars)
  BY PoolStep DEF PoolInv
<1>. QED
  BY <1>1, <1>2, PoolHolds, PTL DEF Spec, Shared!Spec

(***************************************************************************)
(* However many scrapes overlap, time out and are forgotten, the pool is   *)
(* clean whenever none is hydrating.                                       *)
(***************************************************************************)
THEOREM PoolDrainedHolds == Spec => []PoolDrained
<1>1. PoolInv => PoolDrained
  BY PoolIdle
<1>. QED
  BY <1>1, PoolHolds, PTL

(***************************************************************************)
(* A worker that holds a result always finds a scrape that receives it.    *)
(***************************************************************************)
THEOREM ResultsAreReceived == Spec => []Shared!Heard
  BY ExporterUsesPool, Shared!WorkersAreHeard, PoolCalls, PoolWorkers, PoolListings,
     PoolNoWorkspace, PoolMaxOpen, PoolMissing, PTL

(***************************************************************************)
(* Overlapping scrapes never lock the pool up while a worker is left.      *)
(***************************************************************************)
THEOREM PoolGoesOnHolds == Spec => []PoolGoesOn
<1>1. Shared!GoesOn => PoolGoesOn
  BY SamePool DEF PoolGoesOn
<1>2. Shared!Spec => []Shared!GoesOn
  BY Shared!GoesOnHolds, PoolCalls, PoolWorkers, PoolListings, PoolNoWorkspace,
     PoolMaxOpen, PoolMissing
<1>. QED
  BY <1>1, <1>2, ExporterUsesPool, PTL

-----------------------------------------------------------------------------
(* What a hydration returns, and where a scrape and its goroutine are.      *)

Entries ==
  {e \in [id : Workspaces \cup {NoWorkspace}, reply : Plan \cup {NoPlan}] :
     e.reply # NoPlan => e.id \in Workspaces}

LEMMA ListOf ==
  ASSUME NEW T, NEW n \in Nat, NEW f \in [1..n -> T] PROVE f \in Seq(T)
  OBVIOUS

LEMMA OrderedEntries ==
  ASSUME Shared!TypeOK, NEW c \in Calls
  PROVE  Pool!Ordered(c) \in Seq(Entries)
<1>1. input[c] \in Seq(Workspaces)
  BY DEF Shared!TypeOK
<1>2. DOMAIN input[c] = 1..Len(input[c]) /\ Len(input[c]) \in Nat
  BY <1>1
<1>3. ASSUME NEW i \in DOMAIN input[c] PROVE Pool!Ordered(c)[i] \in Entries
  <2> DEFINE w == input[c][i]
  <2>1. w \in Workspaces
    BY <1>1
  <2>2. found[c][w] \in Plan \cup {NoPlan, Missing}
    BY <2>1, PlansAssumption DEF Shared!TypeOK, Shared!Replies
  <2>3. Pool!Ordered(c)[i] = IF found[c][w] = Missing THEN [id |-> NoWorkspace, reply |-> NoPlan]
                             ELSE [id |-> w, reply |-> found[c][w]]
    BY DEF Pool!Ordered, Pool!Absent, Pool!Entry
  <2>. QED
    BY <2>1, <2>2, <2>3 DEF Entries
<1>4. Pool!Ordered(c) = [i \in DOMAIN input[c] |-> Pool!Ordered(c)[i]]
  BY DEF Pool!Ordered
<1>5. Pool!Ordered(c) \in [1..Len(input[c]) -> Entries]
  BY <1>2, <1>3, <1>4, Zenon
<1>. QED
  BY <1>2, <1>5, ListOf, Zenon

LEMMA MetricsType ==
  ASSUME NEW wks \in Seq(Entries) PROVE Metrics(wks) \in Seq(Samples)
<1> DEFINE S == {i \in DOMAIN wks : Reported(wks[i].reply)}
           kept == Keep(wks, S)
<1>1. S \in SUBSET (DOMAIN wks)
  OBVIOUS
<1>2. kept \in Seq(Entries) /\ \A k \in DOMAIN kept : \E i \in S : kept[k] = wks[i]
  <2> HIDE DEF S
  <2>. QED
    BY <1>1, KeepSelects, Zenon
<1>3. ASSUME NEW k \in DOMAIN kept
      PROVE  [id |-> kept[k].id, state |-> StateOf(kept[k].reply)] \in Samples
  <2>1. kept[k] \in Entries
    <3> HIDE DEF kept
    <3>. QED
      BY <1>2, <1>3
  <2>2. Reported(kept[k].reply)
    BY <1>2, <1>3
  <2>3. kept[k].id \in Workspaces
    BY <2>1, <2>2 DEF Entries, Reported
  <2>4. StateOf(kept[k].reply) \in {"ok", "drift", "drift_plan_error"}
    BY DEF StateOf
  <2>. QED
    BY <2>3, <2>4, Zenon DEF Samples
<1>4. Metrics(wks) = [k \in DOMAIN kept |-> [id |-> kept[k].id, state |-> StateOf(kept[k].reply)]]
  BY DEF Metrics
<1> DEFINE n == Len(kept)
<1>5. DOMAIN kept = 1..n /\ n \in Nat
  <2> HIDE DEF kept
  <2>. QED
    BY <1>2
<1>6. Metrics(wks) \in [1..n -> Samples]
  <2> HIDE DEF kept, n
  <2>. QED
    BY <1>3, <1>4, <1>5, Zenon
<1> HIDE DEF n
<1>. QED
  BY <1>5, <1>6, ListOf, Zenon

ScrapeType ==
  /\ scrape \in [Calls -> {"new", "select", "returned", "closed"}]
  /\ collect \in [Calls -> {"none", "list", "process", "send", "answer", "over"}]
  /\ \A c \in Calls : scrape[c] = "new" <=> collect[c] = "none"
  /\ \A c \in Calls : collect[c] = "process" <=> phase[c] = "open"

SampleType ==
  /\ metrics \in [Calls -> Seq(Samples)] /\ published \in [Calls -> Seq(Samples)]
  /\ \A c \in Calls : collect[c] = "send" <=> metrics[c] # << >>

ListType ==
  /\ timeout \in BOOLEAN /\ cache \in Listings
  /\ poll \in {"select", "listing", "over"}
  /\ crashed \in BOOLEAN /\ alone \in [Calls -> BOOLEAN]

\* Only a timeout lets a Collect return before its goroutine is over.
Joined ==
  \A c \in Calls :
    /\ scrape[c] = "returned" => timeout
    /\ scrape[c] = "closed" => timeout \/ collect[c] = "over"

ScrapeInv == ScrapeType /\ SampleType /\ ListType /\ Joined

LEMMA ScrapeInvInit == Init => ScrapeInv
<1> SUFFICES ASSUME Init PROVE ScrapeInv
  OBVIOUS
<1>1. << >> \in Seq(Samples)
  OBVIOUS
<1>2. \A c \in Calls : phase[c] = "new"
  BY DEF Init, Pool!Init
<1>. QED
  BY <1>1, <1>2 DEF Init, ScrapeInv, ScrapeType, SampleType, ListType, Joined

\* A step of other goroutines.
LEMMA ScrapeStill ==
  ASSUME ScrapeInv, ListType', UNCHANGED <<timeout, scrape, collect, metrics, published, phase>>
  PROVE  ScrapeInv'
  BY DEF ScrapeInv, ScrapeType, SampleType, Joined

LEMMA ScrapeInvNext == PoolInv /\ ScrapeInv /\ [Next]_vars => ScrapeInv'
<1> SUFFICES ASSUME PoolInv, ScrapeInv, [Next]_vars PROVE ScrapeInv'
  OBVIOUS
<1>0. ListType /\ Shared!TypeOK
  BY DEF ScrapeInv, PoolInv
<1>1. ASSUME NEW w \in Workspaces, Change(w) PROVE ScrapeInv'
  BY <1>0, <1>1, ScrapeStill DEF Change, listVars, scrapeVars, poolVars, ListType
<1>2. CASE PollTick \/ PollLists \/ PollExit
  BY <1>0, <1>2, ScrapeStill
     DEF PollTick, PollLists, PollExit, scrapeVars, poolVars, ListType
<1>3. CASE Cancel
  BY <1>0, <1>3, ScrapeStill
     DEF Cancel, Pool!Cancel, Pool!callVars, listVars, scrapeVars, ListType
<1>4. ASSUME NEW k \in Workers, WorkerStep(k) PROVE ScrapeInv'
  <2>1. phase' = phase
    BY <1>4 DEF WorkerStep, Take, Fetch, Deliver, Exit, Pool!Take, Pool!FetchFrom,
       Pool!Deliver, Pool!DeliverAs, Pool!Exit, Pool!callVars
  <2>. QED
    BY <1>0, <1>4, <2>1, ScrapeStill
       DEF WorkerStep, Take, Fetch, Deliver, Exit, listVars, scrapeVars, ListType
<1>5. CASE UNCHANGED vars
  BY <1>0, <1>5, ScrapeStill DEF vars, listVars, scrapeVars, poolVars, ListType
<1>6. ASSUME NEW c \in Calls, Collect(c) PROVE ScrapeInv'
  BY <1>6 DEF Collect, ScrapeInv, ScrapeType, SampleType, ListType, Joined, listVars, poolVars
<1>7. ASSUME NEW c \in Calls, Process(c) PROVE ScrapeInv'
  <2>1. phase[c] = "new" /\ phase' = [phase EXCEPT ![c] = "open"]
    BY <1>7 DEF Process, Pool!Begin, Pool!BeginIf
  <2>2. \A d \in Calls : phase'[d] = IF d = c THEN "open" ELSE phase[d]
    BY <1>0, <2>1 DEF Shared!TypeOK
  <2>3. /\ collect[c] = "list" /\ collect' = [collect EXCEPT ![c] = "process"]
        /\ alone' \in [Calls -> BOOLEAN]
        /\ UNCHANGED <<listVars, answer, scrape, metrics, published, crashed>>
    BY <1>0, <1>7 DEF Process, ListType
  <2>. QED
    BY <2>2, <2>3 DEF ScrapeInv, ScrapeType, SampleType, ListType, Joined, listVars
<1>8. ASSUME NEW c \in Calls, Return(c) PROVE ScrapeInv'
  <2>1. phase[c] = "open" /\ phase' = [phase EXCEPT ![c] = "done"]
        /\ output' = [output EXCEPT ![c] = Pool!Ordered(c)]
    BY <1>8 DEF Return, Pool!Return, Pool!ReturnIf
  <2>2. \A d \in Calls : phase'[d] = IF d = c THEN "done" ELSE phase[d]
    BY <1>0, <2>1 DEF Shared!TypeOK
  <2>3. output'[c] \in Seq(Entries)
    BY <1>0, <2>1, OrderedEntries DEF Shared!TypeOK
  <2>4. Metrics(output'[c]) \in Seq(Samples)
    BY <2>3, MetricsType
  <2> DEFINE made == Metrics(output'[c])
  <2>5. /\ metrics' = [metrics EXCEPT ![c] = made]
        /\ collect' = [collect EXCEPT ![c] = IF made = << >> THEN "answer" ELSE "send"]
        /\ UNCHANGED <<listVars, answer, scrape, published, crashed, since, alone>>
    <3>1. metrics' = [metrics EXCEPT ![c] = made]
      BY <1>8 DEF Return, Built
    <3>2. metrics'[c] = made
      BY <3>1 DEF ScrapeInv, SampleType
    <3>. QED
      BY <1>8, <3>1, <3>2 DEF Return, Built
  <2> HIDE DEF made
  <2>6. made \in Seq(Samples)
    BY <2>4 DEF made
  <2>7. SampleType'
    BY <2>5, <2>6 DEF ScrapeInv, ScrapeType, SampleType
  <2>8. ScrapeType' /\ ListType'
    BY <2>1, <2>2, <2>5 DEF ScrapeInv, ScrapeType, ListType, listVars
  <2>9. Joined'
    <3>1. \A d \in Calls : collect[d] = "over" => collect'[d] = "over"
      BY <2>1, <2>5 DEF ScrapeInv, ScrapeType
    <3>. QED
      BY <2>5, <3>1 DEF ScrapeInv, Joined, listVars
  <2>. QED
    BY <2>7, <2>8, <2>9 DEF ScrapeInv
<1>9. ASSUME NEW c \in Calls, Send(c) PROVE ScrapeInv'
  <2>1. CASE scrape[c] = "closed"
    <3>1. crashed' = TRUE /\ UNCHANGED <<timeout, cache, poll, alone>>
          /\ UNCHANGED <<scrape, collect, metrics, published, phase>>
      BY <1>9, <2>1 DEF Send, listVars, poolVars
    <3>. QED
      BY <1>0, <3>1, ScrapeStill DEF ListType
  <2>2. CASE scrape[c] # "closed"
    <3> DEFINE samples == metrics[c]
               rest == Tail(samples)
               more == Append(published[c], Head(samples))
    <3>1. collect[c] = "send"
      BY <1>9 DEF Send
    <3>2. samples \in Seq(Samples) /\ samples # << >> /\ published[c] \in Seq(Samples)
      BY <3>1 DEF ScrapeInv, SampleType
    <3>3. rest \in Seq(Samples) /\ more \in Seq(Samples)
      <4> HIDE DEF samples
      <4>. QED
        BY <3>2
    <3>4. /\ published' = [published EXCEPT ![c] = more]
          /\ metrics' = [metrics EXCEPT ![c] = rest]
          /\ collect' = [collect EXCEPT ![c] = IF rest = << >> THEN "answer" ELSE "send"]
          /\ crashed' = crashed
          /\ UNCHANGED <<listVars, answer, scrape, since, alone, poolVars>>
      BY <1>9, <2>2 DEF Send, ScrapeInv, SampleType
    <3> HIDE DEF samples, rest, more
    <3>5. SampleType'
      BY <3>3, <3>4 DEF ScrapeInv, ScrapeType, SampleType
    <3>6. ScrapeType' /\ ListType'
      BY <3>1, <3>4 DEF ScrapeInv, ScrapeType, ListType, listVars, poolVars
    <3>7. \A d \in Calls : collect[d] = "over" => collect'[d] = "over"
      BY <3>1, <3>4 DEF ScrapeInv, ScrapeType
    <3>8. Joined'
      BY <3>4, <3>7 DEF ScrapeInv, Joined, listVars
    <3>. QED
      BY <3>5, <3>6, <3>8 DEF ScrapeInv
  <2>. QED
    BY <2>1, <2>2
<1>10. ASSUME NEW c \in Calls, Answer(c) PROVE ScrapeInv'
  BY <1>10 DEF Answer, AnswerFrom, ScrapeInv, ScrapeType, SampleType, ListType, Joined, listVars, poolVars
<1>11. ASSUME NEW c \in Calls, Timeout(c) PROVE ScrapeInv'
  BY <1>11 DEF Timeout, ScrapeInv, ScrapeType, SampleType, ListType, Joined, listVars, poolVars
<1>12. ASSUME NEW c \in Calls, Close(c) PROVE ScrapeInv'
  BY <1>12 DEF Close, ScrapeInv, ScrapeType, SampleType, ListType, Joined, listVars, poolVars
<1>. QED
  BY <1>1, <1>2, <1>3, <1>4, <1>5, <1>6, <1>7, <1>8, <1>9, <1>10, <1>11, <1>12
     DEF Next, ScrapeStep

-----------------------------------------------------------------------------
(***************************************************************************)
(* Why no scrape reports a state older than the last time the pool was     *)
(* idle: what a worker is about to send and what the open calls have       *)
(* indexed were answers since then, and when `since' starts again nobody   *)
(* holds anything (PoolDrained).                                           *)
(***************************************************************************)
Fresh ==
  /\ since = [w \in Workspaces |-> since[w]]
  /\ \A w \in Workspaces : answer[w] \in since[w]
  /\ \A k \in Workers : state[k] = "send" => reply[k] \in since[job[k]]
  /\ \A c \in Calls, w \in Workspaces :
       /\ phase[c] = "new" => found[c][w] = Missing
       /\ phase[c] = "open" => found[c][w] \in since[w] \cup {Missing}

LEMMA FreshInit == Init => Fresh
<1> SUFFICES ASSUME Init PROVE Fresh
  OBVIOUS
<1>1. \A c \in Calls, w \in Workspaces : phase[c] = "new" /\ found[c][w] = Missing
  BY DEF Init, Pool!Init, Pool!Nothing
<1>2. \A k \in Workers : state[k] = "select"
  BY DEF Init, Pool!Init
<1>. QED
  BY <1>1, <1>2 DEF Init, Fresh

LEMMA FreshNext == PoolInv /\ PoolDrained /\ Fresh /\ [Next]_vars => Fresh'
<1> SUFFICES ASSUME PoolInv, PoolDrained, Fresh, [Next]_vars PROVE Fresh'
  OBVIOUS
<1>0. Shared!TypeOK /\ answer \in [Workspaces -> Pool!AnyReply]
  BY DEF PoolInv
<1>1. ASSUME NEW w \in Workspaces, Change(w) PROVE Fresh'
  <2>1. PICK p \in PlansOf[w] \cup {NoPlan} :
          /\ answer' = [answer EXCEPT ![w] = p]
          /\ since' = [since EXCEPT ![w] = @ \cup {p}]
    BY <1>1 DEF Change
  <2>2. UNCHANGED <<state, job, reply, phase, found>>
    BY <1>1 DEF Change, poolVars
  <2>3. \A v \in Workspaces : since'[v] = IF v = w THEN since[v] \cup {p} ELSE since[v]
    BY <2>1 DEF Fresh
  <2>4. since' = [v \in Workspaces |-> since'[v]]
    BY <2>1 DEF Fresh
  <2>5. \A k \in Workers : state[k] = "send" => job[k] \in Workspaces
    BY <1>0 DEF Shared!TypeOK
  <2>6. \A v \in Workspaces : answer'[v] \in since'[v]
    BY <1>0, <2>1, <2>3 DEF Fresh
  <2>. QED
    BY <2>2, <2>3, <2>4, <2>5, <2>6 DEF Fresh
<1>2. ASSUME UNCHANGED <<since, answer, state, job, reply, phase, found>> PROVE Fresh'
  BY <1>2 DEF Fresh
<1>3. CASE PollTick \/ PollLists \/ PollExit
  BY <1>2, <1>3 DEF PollTick, PollLists, PollExit, poolVars
<1>4. CASE Cancel
  BY <1>2, <1>4 DEF Cancel, Pool!Cancel, Pool!workerVars, Pool!callVars
<1>5. CASE UNCHANGED vars
  BY <1>2, <1>5 DEF vars, poolVars
<1>6. ASSUME NEW c \in Calls, Collect(c) \/ Send(c) \/ Answer(c) \/ Timeout(c) \/ Close(c)
      PROVE  Fresh'
  BY <1>2, <1>6 DEF Collect, Send, Answer, AnswerFrom, Timeout, Close, poolVars
<1>7. ASSUME NEW c \in Calls, Process(c) PROVE Fresh'
  <2>1. /\ phase[c] = "new" /\ phase' = [phase EXCEPT ![c] = "open"]
        /\ UNCHANGED <<found, state, job, reply, answer>>
        /\ since' = IF Pool!Open = {} THEN [w \in Workspaces |-> {answer[w]}] ELSE since
    BY <1>7 DEF Process, Pool!Begin, Pool!BeginIf, Pool!workerVars
  <2>2. \A d \in Calls : phase'[d] = IF d = c THEN "open" ELSE phase[d]
    BY <1>0, <2>1 DEF Shared!TypeOK
  <2>3. CASE Pool!Open # {}
    BY <2>1, <2>2, <2>3 DEF Fresh
  <2>4. CASE Pool!Open = {}
    <3>1. \A k \in Workers : state[k] # "send"
      BY <2>4 DEF PoolDrained, Pool!NoLeftovers, Pool!Busy
    <3>2. \A d \in Calls : phase[d] # "open"
      BY <2>4 DEF Pool!Open
    <3>. QED
      BY <2>1, <2>2, <2>4, <3>1, <3>2 DEF Fresh
  <2>. QED
    BY <2>3, <2>4
<1>8. ASSUME NEW k \in Workers, NEW c \in Calls, Pool!Take(k, c), UNCHANGED <<since, answer>>
      PROVE  Fresh'
  <2>1. /\ state' = [state EXCEPT ![k] = "fetch"] /\ UNCHANGED <<reply, phase, found>>
        /\ state[k] = "select"
        /\ \A l \in Workers : l # k => job'[l] = job[l]
    BY <1>0, <1>8 DEF Pool!Take, Shared!TypeOK
  <2>. QED
    BY <1>0, <1>8, <2>1 DEF Fresh, Shared!TypeOK
<1>9. ASSUME NEW k \in Workers, Fetch(k) PROVE Fresh'
  <2>1. /\ state[k] = "fetch" /\ reply' = [reply EXCEPT ![k] = answer[job[k]]]
        /\ state' = [state EXCEPT ![k] = "send"]
        /\ UNCHANGED <<job, phase, found, since, answer>>
    BY <1>9 DEF Fetch, Pool!FetchFrom, Pool!callVars
  <2>2. job[k] \in Workspaces
    BY <1>0, <2>1 DEF Shared!TypeOK
  <2>. QED
    BY <1>0, <2>1, <2>2 DEF Fresh, Shared!TypeOK
<1>10. ASSUME NEW k \in Workers, NEW c \in Calls, Pool!Deliver(k, c), UNCHANGED <<since, answer>>
       PROVE  Fresh'
  <2>1. /\ state[k] = "send" /\ phase[c] = "open" /\ UNCHANGED phase
        /\ found' = [found EXCEPT ![c] = [@ EXCEPT ![job[k]] = reply[k]]]
        /\ \A l \in Workers : l # k => state'[l] = state[l] /\ reply'[l] = reply[l] /\ job'[l] = job[l]
        /\ state'[k] = "select"
    BY <1>0, <1>10 DEF Pool!Deliver, Pool!DeliverAs, Shared!TypeOK
  <2>2. job[k] \in Workspaces /\ reply[k] \in since[job[k]]
    BY <1>0, <2>1 DEF Fresh, Shared!TypeOK
  <2>3. \A d \in Calls, w \in Workspaces :
          found'[d][w] = IF d = c /\ w = job[k] THEN reply[k] ELSE found[d][w]
    BY <1>0, <2>1, <2>2 DEF Shared!TypeOK
  <2>. QED
    BY <1>10, <2>1, <2>2, <2>3 DEF Fresh
<1>11. ASSUME NEW k \in Workers, Exit(k) PROVE Fresh'
  <2>1. /\ state' = [state EXCEPT ![k] = "exited"]
        /\ UNCHANGED <<since, answer, job, reply, phase, found>>
    BY <1>11 DEF Exit, Pool!Exit, Pool!callVars
  <2>. QED
    BY <1>0, <2>1 DEF Fresh, Shared!TypeOK
<1>12. ASSUME NEW c \in Calls, Return(c) PROVE Fresh'
  <2>1. /\ phase' = [phase EXCEPT ![c] = "done"]
        /\ UNCHANGED <<since, answer, state, job, reply, found>>
    BY <1>12 DEF Return, Built, Pool!Return, Pool!ReturnIf, Pool!workerVars
  <2>2. \A d \in Calls : phase'[d] = IF d = c THEN "done" ELSE phase[d]
    BY <1>0, <2>1 DEF Shared!TypeOK
  <2>. QED
    BY <2>1, <2>2 DEF Fresh
<1>13. ASSUME NEW k \in Workers, WorkerStep(k) PROVE Fresh'
  BY <1>8, <1>9, <1>10, <1>11, <1>13 DEF WorkerStep, Take, Deliver
<1>. QED
  BY <1>1, <1>3, <1>4, <1>5, <1>6, <1>7, <1>12, <1>13 DEF Next, ScrapeStep

LEMMA Inductive == Spec => [](PoolInv /\ ScrapeInv /\ Fresh)
<1>1. Init => PoolInv /\ ScrapeInv /\ Fresh
  BY PoolInvInit, ScrapeInvInit, FreshInit
<1>2. PoolInv /\ ScrapeInv /\ Fresh /\ [Next]_vars => (PoolInv /\ ScrapeInv /\ Fresh)'
  BY PoolInvNext, PoolIdle, ScrapeInvNext, FreshNext
<1>. QED
  BY <1>1, <1>2, PTL DEF Spec

(***************************************************************************)
(* The exporter, its scrapes and its pool are well formed.                 *)
(***************************************************************************)
THEOREM TypeCorrect == Spec => []TypeOK
<1>1. ASSUME PoolInv, ScrapeInv, Fresh PROVE TypeOK
  <2>1. Pool!TypeOK
    BY <1>1, SamePool DEF PoolInv
  <2>. QED
    BY <1>1, <2>1 DEF PoolInv, Answering, ScrapeInv, ScrapeType, SampleType, ListType,
                      Fresh, TypeOK
<1>. QED
  BY <1>1, Inductive, PTL

(***************************************************************************)
(* Without a timeout no goroutine outlives the Collect that started it.    *)
(***************************************************************************)
THEOREM WithinScrapeHolds == Spec => []WithinScrape
<1>1. ScrapeInv => WithinScrape
  BY DEF ScrapeInv, Joined, WithinScrape, ScrapeType
<1>. QED
  BY <1>1, Inductive, PTL

(***************************************************************************)
(* With --metrics-exporter-timeout 0 no scrape sends on a closed channel:  *)
(* only the timeout makes NoSendAfterClose false.                          *)
(***************************************************************************)
NoCrash == ~timeout => NoSendAfterClose

THEOREM NoCrashWithoutTimeout == Spec => []NoCrash
<1>1. Init => NoCrash
  BY DEF Init, NoCrash, NoSendAfterClose
<1>2. ASSUME ScrapeInv, NoCrash, [Next]_vars PROVE NoCrash'
  <2>1. ASSUME NEW c \in Calls, Send(c) PROVE NoCrash'
    <3>1. scrape[c] = "closed" => timeout
      BY <1>2, <2>1 DEF Send, ScrapeInv, Joined
    <3>2. timeout' = timeout /\ (scrape[c] # "closed" => crashed' = crashed)
      BY <2>1 DEF Send, listVars
    <3>. QED
      BY <1>2, <3>1, <3>2 DEF NoCrash, NoSendAfterClose
  <2>2. ASSUME UNCHANGED <<timeout, crashed>> PROVE NoCrash'
    BY <1>2, <2>2 DEF NoCrash, NoSendAfterClose
  <2>. QED
    BY <1>2, <2>1, <2>2
       DEF Next, vars, listVars, scrapeVars, Change, PollTick, PollLists, PollExit, Cancel,
           WorkerStep, Take, Fetch, Deliver, Exit, Collect, Process, ScrapeStep, Return,
           Built, Answer, AnswerFrom, Timeout, Close
<1>. QED
  BY <1>1, <1>2, Inductive, PTL DEF Spec

(***************************************************************************)
(* However scrapes overlap, what a scrape reports of a workspace has been  *)
(* true of that workspace since the pool was last idle.                    *)
(***************************************************************************)
THEOREM FreshReportsHolds == Spec => FreshReports
<1>1. ASSUME PoolInv, ScrapeInv, Fresh, [Next]_vars,
             NEW c \in Calls, collect[c] = "process", collect'[c] # "process"
      PROVE  ReturnsFresh(c)
  <2>0. collect \in [Calls -> {"none", "list", "process", "send", "answer", "over"}]
    BY <1>1 DEF ScrapeInv, ScrapeType
  <2>1. Return(c)
    <3>1. collect' # collect
      BY <1>1
    <3>2. ASSUME NEW d \in Calls, Collect(d) \/ Process(d) \/ Send(d) \/ Answer(d) PROVE FALSE
      <4>1. collect[d] # "process"
        BY <1>1, <3>2 DEF ScrapeInv, ScrapeType, Collect, Process, Send, Answer, AnswerFrom
      <4>2. \A e \in Calls : e # d => collect'[e] = collect[e]
        BY <2>0, <3>2 DEF Collect, Process, Send, Answer, AnswerFrom
      <4>. QED
        BY <1>1, <4>1, <4>2
    <3>3. ASSUME NEW d \in Calls, Return(d) PROVE d = c
      BY <1>1, <2>0, <3>3 DEF Return, Built
    <3>. QED
      BY <1>1, <3>1, <3>2, <3>3
         DEF Next, vars, scrapeVars, Change, PollTick, PollLists, PollExit, Cancel,
             WorkerStep, Take, Fetch, Deliver, Exit, ScrapeStep, Timeout, Close
  <2>2. phase[c] = "open" /\ output' = [output EXCEPT ![c] = Pool!Ordered(c)]
        /\ UNCHANGED <<input, since>>
    BY <2>1 DEF Return, Built, Pool!Return, Pool!ReturnIf
  <2>3. output'[c] = Pool!Ordered(c)
    BY <1>1, <2>2 DEF PoolInv, Shared!TypeOK
  <2>4. ASSUME NEW i \in DOMAIN Pool!Ordered(c)
        PROVE  \/ Pool!Ordered(c)[i] = Pool!Absent
               \/ /\ Pool!Ordered(c)[i].id = input[c][i]
                  /\ Pool!Ordered(c)[i].reply \in since[input[c][i]]
    <3> DEFINE w == input[c][i]
    <3>1. i \in DOMAIN input[c]
      BY <2>4 DEF Pool!Ordered
    <3>2. w \in Workspaces
      BY <1>1, <3>1 DEF PoolInv, Shared!TypeOK
    <3>3. Pool!Ordered(c)[i] = IF found[c][w] = Missing THEN Pool!Absent
                               ELSE [id |-> w, reply |-> found[c][w]]
      BY <3>1 DEF Pool!Ordered, Pool!Entry
    <3>4. found[c][w] \in since[w] \cup {Missing}
      BY <1>1, <2>2, <3>2 DEF Fresh
    <3>. QED
      BY <3>3, <3>4
  <2>. QED
    BY <2>3, <2>4 DEF ReturnsFresh
<1>2. ASSUME PoolInv, ScrapeInv, Fresh, [Next]_vars
      PROVE  [\A c \in Calls :
                collect[c] = "process" /\ collect'[c] # "process" => ReturnsFresh(c)]_vars
  BY <1>1, <1>2
<1>. QED
  BY <1>2, Inductive, PTL DEF Spec, FreshReports

-----------------------------------------------------------------------------
(* Scrapes whose hydration met no other.                                    *)

\* What only they are promised: a complete answer of the pool.
Lone ==
  \A c \in Calls :
    alone[c] => Shared!OnlyCall(c) \/ (phase[c] = "done" /\ Shared!Complete(c))

LEMMA LoneNext == PoolInv /\ ScrapeInv /\ Lone /\ [Next]_vars => Lone'
<1> SUFFICES ASSUME PoolInv, ScrapeInv, Lone, [Next]_vars PROVE Lone'
  OBVIOUS
<1>0. Shared!TypeOK /\ [Shared!Next]_(Shared!vars) /\ alone \in [Calls -> BOOLEAN]
  BY PoolStep DEF PoolInv, ScrapeInv, ListType
<1>1. ASSUME NEW c \in Calls, phase[c] = "done", Shared!Complete(c)
      PROVE  phase'[c] = "done" /\ Shared!Complete(c)'
  <2>1. phase'[c] = "done" /\ input'[c] = input[c] /\ output'[c] = output[c]
    BY <1>0, <1>1, Shared!DoneStays, PoolCalls, PoolWorkers, PoolListings,
       PoolNoWorkspace, PoolMaxOpen, PoolMissing
  <2>. QED
    BY <1>1, <2>1 DEF Shared!Complete
<1>2. ASSUME NEW d \in Calls, Process(d), NEW c \in Calls, alone'[c]
      PROVE  Shared!OnlyCall(c)' \/ (phase'[c] = "done" /\ Shared!Complete(c)')
  <2>1. alone' = [e \in Calls |-> IF e = d THEN Pool!Open = {}
                                  ELSE alone[e] /\ e \notin Pool!Open]
    BY <1>2 DEF Process
  <2>2. CASE c = d
    <3>1. Shared!Open = {} /\ Shared!Begin(c) /\ Shared!NoLeftovers
      BY <1>2, <2>1, <2>2, SameCallActions, SamePool, PoolIdle DEF Process, PoolDrained
    <3>. QED
      BY <1>0, <3>1, Shared!OnlyCallBegins, PoolCalls, PoolWorkers, PoolListings,
         PoolNoWorkspace, PoolMaxOpen, PoolMissing
  <2>3. CASE c # d
    <3>1. alone[c] /\ c \notin Shared!Open
      BY <1>2, <2>1, <2>3, SamePool
    <3>2. phase[c] = "done" /\ Shared!Complete(c)
      BY <3>1 DEF Lone, Shared!OnlyCall, Shared!Open
    <3>. QED
      BY <1>1, <3>2
  <2>. QED
    BY <2>2, <2>3
<1>3. ASSUME \A c \in Calls : phase[c] = "new" => phase'[c] = "new", alone' = alone,
             NEW c \in Calls, alone'[c]
      PROVE  Shared!OnlyCall(c)' \/ (phase'[c] = "done" /\ Shared!Complete(c)')
  <2>1. CASE Shared!OnlyCall(c)
    <3>1. Shared!OnlyCall(c)' \/ (Shared!Return(c) /\ Shared!Complete(c)')
      BY <1>0, <1>3, <2>1, Shared!OnlyCallNext, PoolCalls, PoolWorkers, PoolListings,
         PoolNoWorkspace, PoolMaxOpen, PoolMissing
    <3>2. Shared!Return(c) => phase'[c] = "done"
      BY <1>0 DEF Shared!Return, Shared!ReturnIf, Shared!TypeOK
    <3>. QED
      BY <3>1, <3>2
  <2>2. CASE phase[c] = "done" /\ Shared!Complete(c)
    BY <1>1, <2>2
  <2>. QED
    BY <1>3, <2>1, <2>2 DEF Lone
<1>4. ASSUME \A c \in Calls : ~Process(c)
      PROVE  alone' = alone /\ \A c \in Calls : phase[c] = "new" => phase'[c] = "new"
  <2>1. ASSUME NEW c \in Calls, Return(c)
        PROVE  alone' = alone /\ \A d \in Calls : phase[d] = "new" => phase'[d] = "new"
    BY <1>0, <2>1 DEF Return, Built, Pool!Return, Pool!ReturnIf, Shared!TypeOK
  <2>2. ASSUME NEW k \in Workers, WorkerStep(k) PROVE UNCHANGED <<alone, phase>>
    BY <2>2 DEF WorkerStep, Take, Fetch, Deliver, Exit, Pool!Take, Pool!FetchFrom,
       Pool!Deliver, Pool!DeliverAs, Pool!Exit, Pool!callVars
  <2>3. ASSUME NEW c \in Calls, Collect(c) \/ Send(c) \/ Answer(c) \/ Timeout(c) \/ Close(c)
        PROVE  UNCHANGED <<alone, phase>>
    BY <2>3 DEF Collect, Send, Answer, AnswerFrom, Timeout, Close, poolVars
  <2>4. ASSUME NEW w \in Workspaces, Change(w) PROVE UNCHANGED <<alone, phase>>
    BY <2>4 DEF Change, poolVars
  <2>5. CASE PollTick \/ PollLists \/ PollExit \/ Cancel \/ UNCHANGED vars
    BY <2>5 DEF PollTick, PollLists, PollExit, Cancel, Pool!Cancel, Pool!callVars, vars, poolVars
  <2>. QED
    BY <1>4, <2>1, <2>2, <2>3, <2>4, <2>5 DEF Next, ScrapeStep
<1>5. ASSUME NEW c \in Calls, alone'[c]
      PROVE  Shared!OnlyCall(c)' \/ (phase'[c] = "done" /\ Shared!Complete(c)')
  BY <1>2, <1>3, <1>4, <1>5
<1>. QED
  BY <1>5 DEF Lone, Shared!OnlyCall, Shared!Complete

-----------------------------------------------------------------------------
(* What a scrape has published and has still to send.                       *)

Exported ==
  \A c \in Calls :
    /\ collect[c] \in {"none", "list", "process"} => metrics[c] = << >> /\ published[c] = << >>
    /\ collect[c] \in {"send", "answer", "over"} =>
         /\ phase[c] = "done" /\ output[c] \in Seq(Entries)
         /\ published[c] \o metrics[c] = Metrics(output[c])

LEMMA HeadMoves ==
  ASSUME NEW T, NEW p \in Seq(T), NEW m \in Seq(T), m # << >>
  PROVE  Append(p, Head(m)) \o Tail(m) = p \o m
  OBVIOUS

\* A scrape that does nothing in the step keeps what it has.
LEMMA ExportedStill ==
  ASSUME PoolInv, Exported, [Next]_vars, NEW c \in Calls,
         collect'[c] = collect[c], metrics'[c] = metrics[c], published'[c] = published[c]
  PROVE  /\ collect'[c] \in {"none", "list", "process"} =>
              metrics'[c] = << >> /\ published'[c] = << >>
         /\ collect'[c] \in {"send", "answer", "over"} =>
              /\ phase'[c] = "done" /\ output'[c] = output[c] /\ output[c] \in Seq(Entries)
              /\ published'[c] \o metrics'[c] = Metrics(output[c])
<1>1. ASSUME phase[c] = "done" PROVE phase'[c] = "done" /\ output'[c] = output[c]
  BY <1>1, PoolStep, Shared!DoneStays, PoolCalls, PoolWorkers, PoolListings,
     PoolNoWorkspace, PoolMaxOpen, PoolMissing DEF PoolInv
<1>. QED
  BY <1>1 DEF Exported

\* What a scrape has still to send is what collect() built.
Kept(c) ==
  /\ collect'[c] \in {"none", "list", "process"} =>
       metrics'[c] = << >> /\ published'[c] = << >>
  /\ collect'[c] \in {"send", "answer", "over"} =>
       /\ phase'[c] = "done" /\ output'[c] \in Seq(Entries)
       /\ published'[c] \o metrics'[c] = Metrics(output'[c])

LEMMA ExportedMoves ==
  ASSUME PoolInv, ScrapeInv, Exported, [Next]_vars, NEW c \in Calls,
         Collect(c) \/ Process(c) \/ Return(c) \/ Send(c) \/ Answer(c)
  PROVE  Kept(c)
<1>0. /\ collect \in [Calls -> {"none", "list", "process", "send", "answer", "over"}]
      /\ metrics \in [Calls -> Seq(Samples)] /\ published \in [Calls -> Seq(Samples)]
      /\ Shared!TypeOK
  BY DEF ScrapeInv, ScrapeType, SampleType, PoolInv
<1>1. CASE Collect(c)
  <2>1. collect[c] = "none" /\ collect'[c] = "list" /\ UNCHANGED <<metrics, published>>
    BY <1>0, <1>1 DEF Collect, ScrapeInv, ScrapeType
  <2>. QED
    BY <2>1 DEF Exported, Kept
<1>2. CASE Process(c)
  <2>1. collect[c] = "list" /\ collect'[c] = "process" /\ UNCHANGED <<metrics, published>>
    BY <1>0, <1>2 DEF Process
  <2>. QED
    BY <2>1 DEF Exported, Kept
<1>3. CASE Return(c)
  <2>1. /\ phase[c] = "open" /\ phase' = [phase EXCEPT ![c] = "done"]
        /\ output' = [output EXCEPT ![c] = Pool!Ordered(c)]
        /\ metrics' = [metrics EXCEPT ![c] = Metrics(output'[c])]
        /\ collect' = [collect EXCEPT ![c] = IF metrics'[c] = << >> THEN "answer" ELSE "send"]
        /\ published' = published
    BY <1>3 DEF Return, Built, Pool!Return, Pool!ReturnIf
  <2>2. /\ phase'[c] = "done" /\ output'[c] = Pool!Ordered(c)
        /\ metrics'[c] = Metrics(output'[c]) /\ collect'[c] \in {"answer", "send"}
    BY <1>0, <2>1 DEF Shared!TypeOK
  <2>3. output'[c] \in Seq(Entries)
    BY <1>0, <2>2, OrderedEntries
  <2>4. metrics'[c] \in Seq(Samples)
    BY <2>2, <2>3, MetricsType
  <2>5. published'[c] = << >>
    BY <2>1 DEF Exported, ScrapeInv, ScrapeType
  <2>6. << >> \o metrics'[c] = metrics'[c]
    BY <2>4
  <2>. QED
    BY <2>2, <2>3, <2>5, <2>6 DEF Kept
<1>4. CASE Send(c)
  <2>1. collect[c] = "send" /\ phase' = phase /\ output' = output
    BY <1>4 DEF Send, poolVars
  <2>2. metrics[c] # << >>
    BY <2>1 DEF ScrapeInv, SampleType
  <2>3. phase[c] = "done" /\ output[c] \in Seq(Entries)
        /\ published[c] \o metrics[c] = Metrics(output[c])
    BY <2>1 DEF Exported
  <2>4. CASE scrape[c] = "closed"
    BY <1>4, <2>1, <2>3, <2>4 DEF Send, Kept
  <2>5. CASE scrape[c] # "closed"
    <3>1. /\ published'[c] = Append(published[c], Head(metrics[c]))
          /\ metrics'[c] = Tail(metrics[c]) /\ collect'[c] \in {"answer", "send"}
      BY <1>0, <1>4, <2>5 DEF Send
    <3>2. published'[c] \o metrics'[c] = published[c] \o metrics[c]
      BY <1>0, <2>2, <3>1, HeadMoves
    <3>. QED
      BY <2>1, <2>3, <3>1, <3>2 DEF Kept
  <2>. QED
    BY <2>4, <2>5
<1>5. CASE Answer(c)
  <2>1. /\ collect[c] = "answer" /\ collect'[c] = "over"
        /\ UNCHANGED <<metrics, published, phase, output>>
    BY <1>0, <1>5 DEF Answer, AnswerFrom, poolVars
  <2>. QED
    BY <2>1 DEF Exported, Kept
<1>. QED
  BY <1>1, <1>2, <1>3, <1>4, <1>5

LEMMA ExportedNext == PoolInv /\ ScrapeInv /\ Exported /\ [Next]_vars => Exported'
<1> SUFFICES ASSUME PoolInv, ScrapeInv, Exported, [Next]_vars, NEW c \in Calls
             PROVE  Kept(c)
  BY DEF Exported, Kept
<1>0. /\ collect \in [Calls -> {"none", "list", "process", "send", "answer", "over"}]
      /\ metrics \in [Calls -> Seq(Samples)] /\ published \in [Calls -> Seq(Samples)]
  BY DEF ScrapeInv, ScrapeType, SampleType
<1> DEFINE Moves(d) == Collect(d) \/ Process(d) \/ Return(d) \/ Send(d) \/ Answer(d)
<1>1. CASE Moves(c)
  BY <1>1, ExportedMoves
<1>2. CASE ~Moves(c)
  <2>1. ASSUME NEW d \in Calls, d # c, Moves(d)
        PROVE  /\ collect'[c] = collect[c] /\ metrics'[c] = metrics[c]
               /\ published'[c] = published[c]
    BY <1>0, <2>1 DEF Collect, Process, Return, Built, Send, Answer, AnswerFrom
  <2>2. ASSUME \A d \in Calls : ~Moves(d) PROVE UNCHANGED <<collect, metrics, published>>
    BY <2>2 DEF Next, vars, scrapeVars, Change, PollTick, PollLists, PollExit, Cancel,
       WorkerStep, Take, Fetch, Deliver, Exit, ScrapeStep, Timeout, Close
  <2>3. /\ collect'[c] = collect[c] /\ metrics'[c] = metrics[c]
        /\ published'[c] = published[c]
    <3> HIDE DEF Moves
    <3>. QED
      BY <1>2, <2>1, <2>2
  <2>. QED
    BY <2>3, ExportedStill DEF Kept
<1>. QED
  BY <1>1, <1>2

LEMMA LoneInit == Init => Lone /\ Exported
<1> SUFFICES ASSUME Init PROVE Lone /\ Exported
  OBVIOUS
<1>1. \A c \in Calls : ~alone[c]
  BY DEF Init
<1>2. \A c \in Calls : /\ collect[c] = "none"
                       /\ metrics[c] = << >> /\ published[c] = << >>
  BY DEF Init
<1>. QED
  BY <1>1, <1>2 DEF Lone, Exported

LEMMA LoneInductive == Spec => [](PoolInv /\ ScrapeInv /\ Lone /\ Exported)
<1>1. Init => Lone /\ Exported
  BY LoneInit
<1>2. PoolInv /\ ScrapeInv /\ Lone /\ Exported /\ [Next]_vars => (Lone /\ Exported)'
  BY LoneNext, ExportedNext
<1>3. Spec => [](PoolInv /\ ScrapeInv /\ Fresh)
  BY Inductive
<1>. QED
  BY <1>1, <1>2, <1>3, PTL DEF Spec

\* The metrics of a list: one for each workspace whose plan has ended.
LEMMA MetricsOfEnded ==
  ASSUME NEW wks \in Seq(Entries)
  PROVE  LET ended == {i \in DOMAIN wks : Reported(wks[i].reply)}
         IN  /\ Len(Metrics(wks)) = Cardinality(ended)
             /\ \A i \in ended : \E j \in DOMAIN Metrics(wks) :
                  Metrics(wks)[j] = [id |-> wks[i].id, state |-> StateOf(wks[i].reply)]
<1> DEFINE S == {i \in DOMAIN wks : Reported(wks[i].reply)}
           kept == Keep(wks, S)
<1>1. S \in SUBSET (DOMAIN wks)
  OBVIOUS
<1>2. kept \in Seq(Entries) /\ Len(kept) = Cardinality(S)
  <2> HIDE DEF S
  <2>. QED
    BY <1>1, KeepKeeps, Zenon
<1>3. \A i \in S : \E k \in DOMAIN kept : kept[k] = wks[i]
  <2> HIDE DEF S
  <2>. QED
    BY <1>1, KeepReaches, Zenon
<1>4. Metrics(wks) = [k \in DOMAIN kept |-> [id |-> kept[k].id, state |-> StateOf(kept[k].reply)]]
  BY DEF Metrics
<1> HIDE DEF kept
<1>5. DOMAIN Metrics(wks) = DOMAIN kept
  BY <1>4
<1>6. Len(Metrics(wks)) = Len(kept)
  <2>1. Metrics(wks) \in Seq(Samples)
    BY MetricsType
  <2>. QED
    BY <1>2, <1>5, <2>1
<1>7. \A i \in S : \E j \in DOMAIN Metrics(wks) :
        Metrics(wks)[j] = [id |-> wks[i].id, state |-> StateOf(wks[i].reply)]
  <2> HIDE DEF S
  <2>. QED
    BY <1>3, <1>4, <1>5
<1>. QED
  BY <1>2, <1>6, <1>7

(***************************************************************************)
(* Whatever other scrapes do before and after it, a scrape whose hydration *)
(* met no other has exported every workspace of its list that has an ended *)
(* plan when its Collect has been answered.                                *)
(***************************************************************************)
THEOREM LoneScrapeHolds == Spec => []LoneScrape
<1>1. ASSUME PoolInv, ScrapeInv, Lone, Exported,
             NEW c \in Calls, alone[c], collect[c] = "over"
      PROVE  LET ended == {i \in DOMAIN output[c] : Reported(output[c][i].reply)}
             IN  /\ Pool!Complete(c)
                 /\ Len(published[c]) = Cardinality(ended)
                 /\ \A i \in ended : \E j \in DOMAIN published[c] :
                      published[c][j] = [id |-> input[c][i],
                                         state |-> StateOf(output[c][i].reply)]
  <2>1. /\ phase[c] = "done" /\ output[c] \in Seq(Entries)
        /\ published[c] \o metrics[c] = Metrics(output[c])
    BY <1>1 DEF Exported
  <2>2. metrics[c] = << >> /\ published[c] \in Seq(Samples)
    BY <1>1 DEF ScrapeInv, SampleType
  <2>3. published[c] = Metrics(output[c])
    BY <2>1, <2>2
  <2>4. Shared!Complete(c)
    BY <1>1, <2>1 DEF Lone, Shared!OnlyCall, Shared!Open
  <2>5. Pool!Complete(c)
    BY <2>4, SamePool DEF Pool!Complete, Shared!Complete
  <2>6. \A i \in DOMAIN output[c] : output[c][i].id = input[c][i]
    BY <2>4 DEF Shared!Complete
  <2>. QED
    BY <2>1, <2>3, <2>5, <2>6, MetricsOfEnded
<1>2. PoolInv /\ ScrapeInv /\ Lone /\ Exported => LoneScrape
  BY <1>1 DEF LoneScrape
<1>. QED
  BY <1>2, LoneInductive, PTL
=============================================================================
