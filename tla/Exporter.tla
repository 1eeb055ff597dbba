------------------------------ MODULE Exporter ------------------------------
(***************************************************************************)
(* The metrics exporter of the controller                                  *)
(* (internal/metrics/prometheus/collector.go, and its wiring in            *)
(* cmd/tfe-drift/commands/controller.go).                                  *)
(*                                                                         *)
(* A scrape is a call of Collect.  It starts a goroutine that reads the    *)
(* cached list of workspaces, hydrates them, sends a metric for each on    *)
(* the registry's channel and then answers on resC; Collect waits for that *)
(* answer or for the timeout.  The registry closes its channel once every  *)
(* collector has returned.  The list is cached by a goroutine that polls   *)
(* Terraform Cloud and holds the write lock while it does.                 *)
(*                                                                         *)
(* All scrapes hydrate through ONE processor, hence one pool of workers    *)
(* and one pair of channels: that is module Hydrate, whose call c is the   *)
(* hydration of scrape c.  The tags, the run information and the           *)
(* timestamps of a workspace are text of its metric and left out.          *)
(***************************************************************************)
EXTENDS Processors, Integers

CONSTANTS Calls,        \* scrapes (a bound on their number)
          Workspaces,   \* workspace IDs
          Workers,      \* the worker goroutines, --fetch-workers of them
          PlansOf,      \* PlansOf[w]: the plans GetLatestCheckPlan may find
          Missing,      \* not in indexedResults
          NoWorkspace,  \* the ID of the zero model.Workspace
          Listings,     \* what listing the organisation may give
          Names,        \* the workspaces both name filters let through
          MaxScrapes    \* scrapes at once

ASSUME CallsAssumption == IsFiniteSet(Calls) /\ Calls # {}
ASSUME WorkersAssumption == IsFiniteSet(Workers) /\ Workers # {}
ASSUME ListingsAssumption == Listings \subseteq Seq(Workspaces)
ASSUME NoWorkspaceAssumption == NoWorkspace \notin Workspaces
ASSUME PlansAssumption == \A w \in Workspaces : PlansOf[w] \subseteq Plan
ASSUME MissingAssumption == Missing # NoPlan /\ Missing \notin Plan

VARIABLES timeout,    \* --metrics-exporter-timeout is not 0
          cache,      \* the cached list
          poll,       \* the polling goroutine: selecting, listing or over
          answer,     \* answer[w]: what a fetch of w's plan gives now
          scrape,     \* scrape[c]: where Collect and its registry are
          collect,    \* collect[c]: where the goroutine of Collect is
          metrics,    \* metrics[c]: what it still has to send
          published,  \* published[c]: what the registry has received
          crashed,    \* a send on a closed channel has ended the process
          since,      \* history: the answers since the pool was last idle
          alone       \* history: alone[c]: no other hydration met c's

\* The state of the pool (module Hydrate).
VARIABLES ctxDone, state, job, reply, phase, input, sent, got, found, output

\* The lists scrapes hand to the pool.
Selected(wks) == Keep(wks, {i \in DOMAIN wks : wks[i] \in Names})

Pool == INSTANCE Hydrate WITH Listings <- {Selected(wks) : wks \in Listings},
                              MaxOpen <- Cardinality(Calls)

poolVars == <<ctxDone, state, job, reply, phase, input, sent, got, found, output>>
listVars == <<timeout, cache, poll>>
scrapeVars == <<scrape, collect, metrics, published, crashed>>
vars == <<listVars, answer, scrapeVars, since, alone, poolVars>>

-----------------------------------------------------------------------------
(***************************************************************************)
(* From a plan to the state metrics of its workspace: the switch of        *)
(* collect().  A workspace without a plan, or whose plan has not ended,    *)
(* has none.                                                               *)
(***************************************************************************)
Reported(p) == p # NoPlan /\ p.status \in {"FinishedOK", "FinishedNotOK"}

StateOf(p) == IF p.status = "FinishedNotOK" THEN "drift_plan_error"
              ELSE IF p.hasChanges THEN "drift"
              ELSE "ok"

\* A variant of Metrics whose switch has no case for changes.
MetricsOfClean(wks) ==
  LET kept == Keep(wks, {i \in DOMAIN wks : /\ Reported(wks[i].reply)
                                            /\ ~wks[i].reply.hasChanges})
  IN  [i \in DOMAIN kept |->
         [id |-> kept[i].id, state |-> StateOf(kept[i].reply)]]

Metrics(wks) ==
  LET kept == Keep(wks, {i \in DOMAIN wks : Reported(wks[i].reply)})
  IN  [i \in DOMAIN kept |->
         [id |-> kept[i].id, state |-> StateOf(kept[i].reply)]]

\* Scrapes whose registry still gathers.
Gathering == {c \in Calls : scrape[c] \in {"select", "returned"}}

-----------------------------------------------------------------------------
\* NewCollector: the cache is filled before anything is served.
Init ==
  /\ Pool!Init
  /\ timeout \in BOOLEAN
  /\ cache \in Listings
  /\ poll = "select"
  /\ answer \in [Workspaces -> {NoPlan}]
  /\ scrape = [c \in Calls |-> "new"]
  /\ collect = [c \in Calls |-> "none"]
  /\ metrics = [c \in Calls |-> << >>]
  /\ published = [c \in Calls |-> << >>]
  /\ crashed = FALSE
  /\ since = [w \in Workspaces |-> {answer[w]}]
  /\ alone = [c \in Calls |-> FALSE]

(***************************************************************************)
(* Terraform Cloud: a run is created, progresses, ends; a fetch starts or  *)
(* ceases to fail (a nil plan).                                            *)
(***************************************************************************)
Change(w) ==
  /\ \E p \in PlansOf[w] \cup {NoPlan} :
       /\ answer' = [answer EXCEPT ![w] = p]
       /\ since' = [since EXCEPT ![w] = @ \cup {p}]
  /\ UNCHANGED <<listVars, scrapeVars, alone, poolVars>>

-----------------------------------------------------------------------------
(***************************************************************************)
(* The polling goroutine: a tick takes the write lock, and the lock is     *)
(* held until the list or an error is there; the end of the context ends   *)
(* it at its select.                                                       *)
(***************************************************************************)
PollTick ==
  /\ poll = "select"
  /\ poll' = "listing"
  /\ UNCHANGED <<timeout, cache, answer, scrapeVars, since, alone, poolVars>>

\* A variant: a listing that fails is tried again, with the lock held.
PollListsAtLast ==
  /\ poll = "listing"
  /\ ~ctxDone
  /\ cache' \in Listings
  /\ poll' = "select"
  /\ UNCHANGED <<timeout, answer, scrapeVars, since, alone, poolVars>>

PollLists ==
  /\ poll = "listing"
  /\ poll' = "select"
  /\ \/ cache' \in Listings /\ ~ctxDone
     \/ cache' = cache
  /\ UNCHANGED <<timeout, answer, scrapeVars, since, alone, poolVars>>

PollExit ==
  /\ poll = "select"
  /\ ctxDone
  /\ poll' = "over"
  /\ UNCHANGED <<timeout, cache, answer, scrapeVars, since, alone, poolVars>>

-----------------------------------------------------------------------------
(***************************************************************************)
(* The registry calls Collect for a scrape; the goroutine starts.          *)
(***************************************************************************)
Collect(c) ==
  /\ scrape[c] = "new"
  /\ Cardinality(Gathering) < MaxScrapes
  /\ scrape' = [scrape EXCEPT ![c] = "select"]
  /\ collect' = [collect EXCEPT ![c] = "list"]
  /\ UNCHANGED <<listVars, answer, metrics, published, crashed, since, alone>>
  /\ UNCHANGED poolVars

(***************************************************************************)
(* The goroutine has the read lock, takes the cached list, filters it by   *)
(* name and hands it to the pool.  It does not look at its context.  One   *)
(* step: it does not read the cache again, and the poll puts a new list in *)
(* the place of the old one and leaves that as it is.                      *)
(***************************************************************************)
Process(c) ==
  /\ collect[c] = "list"
  /\ poll # "listing"
  /\ Pool!Begin(c)
  /\ input'[c] = Selected(cache)
  /\ collect' = [collect EXCEPT ![c] = "process"]
  /\ since' = IF Pool!Open = {} THEN [w \in Workspaces |-> {answer[w]}] ELSE since
  /\ alone' = [d \in Calls |-> IF d = c THEN Pool!Open = {}
                               ELSE alone[d] /\ d \notin Pool!Open]
  /\ UNCHANGED <<listVars, answer, scrape, metrics, published, crashed>>

\* Steps of the pool; a fetch gives what is true at that moment.
Take(k) ==
  /\ \E c \in Calls : Pool!Take(k, c)
  /\ UNCHANGED <<listVars, answer, scrapeVars, since, alone>>

Fetch(k) ==
  /\ state[k] = "fetch"
  /\ Pool!FetchFrom(k, {answer[job[k]]})
  /\ UNCHANGED <<listVars, answer, scrapeVars, since, alone>>

Deliver(k) ==
  /\ \E c \in Calls : Pool!Deliver(k, c)
  /\ UNCHANGED <<listVars, answer, scrapeVars, since, alone>>

Exit(k) ==
  /\ Pool!Exit(k)
  /\ UNCHANGED <<listVars, answer, scrapeVars, since, alone>>

WorkerStep(k) == Take(k) \/ Fetch(k) \/ Deliver(k) \/ Exit(k)

\* The signal, or the end of the program, ends the command's context.
Cancel ==
  /\ Pool!Cancel
  /\ UNCHANGED <<listVars, answer, scrapeVars, since, alone>>

\* Process has returned: collect() builds the metrics of the scrape.
Built(c) ==
  /\ metrics' = [metrics EXCEPT ![c] = Metrics(output'[c])]
  /\ collect' = [collect EXCEPT ![c] =
                   IF metrics'[c] = << >> THEN "answer" ELSE "send"]
  /\ UNCHANGED <<listVars, answer, scrape, published, crashed, since, alone>>

\* A variant: a call that returns when one result is still to come.
ReturnEarly(c) == Pool!ReturnEarly(c) /\ Built(c)

Return(c) == Pool!Return(c) /\ Built(c)

-----------------------------------------------------------------------------
(***************************************************************************)
(* A metric is sent on the registry's channel, which receives until it is  *)
(* closed; on a closed channel a send panics, in a goroutine nobody        *)
(* recovers.                                                               *)
(***************************************************************************)
Send(c) ==
  /\ collect[c] = "send"
  /\ IF scrape[c] = "closed"
     THEN crashed' = TRUE /\ UNCHANGED <<collect, metrics, published>>
     ELSE /\ published' = [published EXCEPT ![c] = Append(@, Head(metrics[c]))]
          /\ metrics' = [metrics EXCEPT ![c] = Tail(@)]
          /\ collect' = [collect EXCEPT ![c] =
                           IF Tail(metrics[c]) = << >> THEN "answer" ELSE "send"]
          /\ crashed' = crashed
  /\ UNCHANGED <<listVars, answer, scrape, since, alone, poolVars>>

AnswerFrom(c, places) ==
  /\ collect[c] \in places
  /\ scrape[c] = "select"
  /\ scrape' = [scrape EXCEPT ![c] = "closed"]
  /\ collect' = [collect EXCEPT ![c] = IF @ = "send" THEN @ ELSE "over"]
  /\ UNCHANGED <<listVars, answer, metrics, published, crashed, since, alone>>
  /\ UNCHANGED poolVars

\* A variant: the answer is sent before the metrics.
AnswerFirst(c) == AnswerFrom(c, {"send", "answer"})

\* A variant: a goroutine without metrics ends without an answer.
AnswerIfAny(c) == published[c] # << >> /\ AnswerFrom(c, {"answer"})

(***************************************************************************)
(* The rendezvous on resC: Collect returns, and as its goroutine has sent  *)
(* all it had, the closing of the channel that follows meets nobody and is *)
(* part of this action.  Without a Collect that waits there, the goroutine *)
(* stays at "answer" for ever.                                             *)
(***************************************************************************)
Answer(c) == AnswerFrom(c, {"answer"})

(***************************************************************************)
(* The deadline of the scrape passes.  Nothing tells the goroutine: it     *)
(* goes on with its list, its metrics and its answer.                      *)
(***************************************************************************)
Timeout(c) ==
  /\ timeout
  /\ scrape[c] = "select"
  /\ scrape' = [scrape EXCEPT ![c] = "returned"]
  /\ UNCHANGED <<listVars, answer, collect, metrics, published, crashed, since>>
  /\ UNCHANGED <<alone, poolVars>>

(***************************************************************************)
(* After a timeout: all collectors of the registry have returned, it       *)
(* closes the channel and answers the scrape with what it has received.    *)
(***************************************************************************)
Close(c) ==
  /\ scrape[c] = "returned"
  /\ scrape' = [scrape EXCEPT ![c] = "closed"]
  /\ UNCHANGED <<listVars, answer, collect, metrics, published, crashed, since>>
  /\ UNCHANGED <<alone, poolVars>>

ScrapeStep(c) == Return(c) \/ Send(c) \/ Answer(c) \/ Timeout(c) \/ Close(c)

Next ==
  /\ ~crashed
  /\ \/ \E w \in Workspaces : Change(w)
     \/ PollTick \/ PollLists \/ PollExit
     \/ Cancel
     \/ \E k \in Workers : WorkerStep(k)
     \/ \E c \in Calls : Collect(c) \/ Process(c) \/ ScrapeStep(c)

Spec == Init /\ [][Next]_vars

(***************************************************************************)
(* What can run does run: goroutines, fetches and listings end, deadlines  *)
(* pass, the registry closes its channel.  A reader that waits for the     *)
(* lock gets it between two writers (sync.RWMutex lets the readers that    *)
(* wait go first when it is unlocked), and a select that finds the end of  *)
(* its context ready over and over takes it in the end: strong fairness.   *)
(* Nobody owes a scrape, a tick or a signal.                               *)
(***************************************************************************)
Fairness ==
  /\ \A k \in Workers : WF_vars(~crashed /\ WorkerStep(k))
  /\ \A c \in Calls : WF_vars(~crashed /\ ScrapeStep(c))
                      /\ SF_vars(~crashed /\ Process(c))
  /\ WF_vars(~crashed /\ PollLists)
  /\ SF_vars(~crashed /\ PollExit)

FairSpec == Spec /\ Fairness

-----------------------------------------------------------------------------
Samples == [id : Workspaces, state : {"ok", "drift", "drift_plan_error"}]

TypeOK ==
  /\ Pool!TypeOK
  /\ timeout \in BOOLEAN
  /\ cache \in Listings
  /\ poll \in {"select", "listing", "over"}
  /\ answer \in [Workspaces -> Pool!AnyReply]
  /\ \A w \in Workspaces : answer[w] \in PlansOf[w] \cup {NoPlan}
  /\ scrape \in [Calls -> {"new", "select", "returned", "closed"}]
  /\ collect \in [Calls -> {"none", "list", "process", "send", "answer", "over"}]
  /\ \A c \in Calls :
       /\ scrape[c] = "new" <=> collect[c] = "none"
       /\ collect[c] = "process" <=> phase[c] = "open"
       /\ collect[c] = "send" <=> metrics[c] # << >>
       /\ metrics[c] \in Seq(Samples) /\ published[c] \in Seq(Samples)
  /\ crashed \in BOOLEAN
  /\ \A w \in Workspaces : answer[w] \in since[w]
  /\ alone \in [Calls -> BOOLEAN]

(***************************************************************************)
(* "Return up to date data on the more relevant and dynamic data"          *)
(* (collector.go:177).  However many scrapes share the pool and whichever  *)
(* of them timed out, what a scrape exports of a workspace of its list is  *)
(* a state that workspace has had since the pool was last idle: no result  *)
(* of a past scrape is ever left over for a later one.                     *)
(***************************************************************************)
ReturnsFresh(c) ==
  \A i \in DOMAIN output'[c] :
    \/ output'[c][i] = Pool!Absent
    \/ output'[c][i].id = input[c][i] /\ output'[c][i].reply \in since[input[c][i]]

FreshReports ==
  [][\A c \in Calls :
       collect[c] = "process" /\ collect'[c] # "process" => ReturnsFresh(c)]_vars

(***************************************************************************)
(* A scrape whose hydration met no other exports, by the time its Collect  *)
(* has been answered, every workspace of its list that has an ended plan.  *)
(***************************************************************************)
LoneScrape ==
  \A c \in Calls :
    alone[c] /\ collect[c] = "over" =>
      LET ended == {i \in DOMAIN output[c] : Reported(output[c][i].reply)}
      IN  /\ Pool!Complete(c)
          /\ Len(published[c]) = Cardinality(ended)
          /\ \A i \in ended : \E j \in DOMAIN published[c] :
               published[c][j] = [id |-> input[c][i],
                                  state |-> StateOf(output[c][i].reply)]

(***************************************************************************)
(* Whatever overlaps, the pool all scrapes share is clean whenever no      *)
(* hydration is open: no worker holds a result, no feeder waits.           *)
(***************************************************************************)
PoolDrained == Pool!NoLeftovers

(***************************************************************************)
(* Scrapes that overlap, time out and take each other's results never lock *)
(* the shared pool up: while a worker is left for the open hydrations, one *)
(* of them, its feeder or a worker has a step to take, and a worker that   *)
(* holds a result finds a hydration that receives it.                      *)
(***************************************************************************)
PoolGoesOn == Pool!GoesOn

(***************************************************************************)
(* Without a timeout, no goroutine outlives its scrape: none reads the     *)
(* list, uses the pool or sends when its Collect has returned.             *)
(***************************************************************************)
WithinScrape ==
  ~timeout =>
    \A c \in Calls : scrape[c] \in {"returned", "closed"} => collect[c] = "over"

(***************************************************************************)
(* "That way we can wait until done or timeout" (collector.go:97): after   *)
(* the timeout the goroutine is gone or harmless.  Violated: it sends on   *)
(* the channel the registry has closed.                                    *)
(***************************************************************************)
NoSendAfterClose == ~crashed

(***************************************************************************)
(* Every scrape comes back, even one that waits for the list's lock, and   *)
(* with a timeout even when the workers have left: the registry is idle    *)
(* again and again, as scrapes are bounded in number.                      *)
(***************************************************************************)
ScrapesReturn == []<>(Gathering = {} \/ crashed \/ (ctxDone /\ ~timeout))

(***************************************************************************)
(* After the end of the context the workers and the polling goroutine end, *)
(* whatever scrapes were open: a worker that holds a result finds a call   *)
(* that receives it.                                                       *)
(***************************************************************************)
ExporterStops ==
  ctxDone ~>
    crashed \/ (poll = "over" /\ \A k \in Workers : state[k] = "exited")
=============================================================================
