# A TLA+ specification of tfe-drift

`tfe-drift` looks for drift in the workspaces of a Terraform Cloud / Enterprise
organisation. It lists workspaces, asks for the latest drift detection run of
each, decides which ones are due, creates a plan-only run for those, waits for
the runs and reports. It works as a command that does this once (`run`) or as a
long-running process that does it at an interval and serves Prometheus metrics
(`controller`).

This directory holds TLA+ modules translated from the Go source, TLC
configurations that check them, and theorems checked by TLAPS. Paths below are
relative to the root of the repository.

    tlc -config hydrate.cfg MCHydrate        # model-check one run
    tlapm DetectorProofs.tla                 # check the proofs of a module

`PROJECT.json` lists the runs, for every definition the lines of code it stands
for, for every property a mutation of the code that breaks it, and the hazards
the properties are aimed at.

## 1. Inventory

### The parts of the program

| Part | Code | State it keeps | Operations |
| --- | --- | --- | --- |
| Plan model, status mapping | `internal/model/model.go`, `internal/storage/tfe/tfe.go:179-224` | none | map a TFE run to a plan |
| Sequential processors | `internal/workspace/process/{process,filter,sort,result}.go` | none, each rewrites a list | include / exclude by name, filter queued, filter recent, sort, limit, exit code, JSON |
| Hydrate processor | `.../process/hydrate.go` | two unbuffered channels and N worker goroutines, made once and shared by all calls | `Process`: fan out, collect, reorder |
| Wait processor | `.../process/wait.go` | per call: a channel, one goroutine, ticker and timeout per workspace | `Process`: wait for every run |
| Create processor, dry-run repository | `.../process/run.go`, `internal/storage/tfe/tfe.go` | none | create a run for each workspace, in order |
| Cycle | `cmd/tfe-drift/commands/run.go`, `internal/controller/controller.go` | the list being worked on | one pass of the chain; the controller's loop |
| TFE repository | `internal/storage/tfe/{tfe,client}.go` | none of its own, the state is in Terraform Cloud | list workspaces by pages, create, read and find runs |
| Metrics collector | `internal/metrics/prometheus/collector.go` | cached workspace list behind an RWMutex, a poll goroutine | `Collect` per scrape, with a timeout |
| Controller command | `cmd/tfe-drift/commands/controller.go` | a run group, an HTTP server | start and stop the detector, the exporter and the server |
| Process lifecycle | `cmd/tfe-drift/main.go` | root context, run group | signals, exit code |
| Flags, version | `cmd/tfe-drift/commands/{commands,version}.go` | none | parsing |
| Logging, build info, errors | `internal/{log,info,internalerrors}` | none | - |
| Fake repository | `internal/storage/fake/fake.go` | none | random data for a developer flag |

### How they interact

A `Processor` takes a list of workspaces and returns a list; a chain applies
them one after the other in one goroutine. The chain of `run` and of the
controller is

    list - include - exclude - HYDRATE - not queued - not recent -
    oldest first - limit - CREATE - WAIT - result (run only)

The processors in capitals talk to Terraform Cloud. Hydrate and wait are
concurrent inside; create is a loop. The metrics chain is
`include - exclude - HYDRATE`, on a hydrate processor of its own, and every
scrape calls it from a new goroutine (`collector.go:99`), so several calls
share the same two channels there. The detector and the collector share
nothing but Terraform Cloud. Nothing is persisted locally: what a restarted
process knows is what Terraform Cloud answers.

### What is hard here

- **Shared channels.** Hydrate counts results instead of matching them to a
  call. That is right only while the pool is empty between calls and one call
  is open at a time.
- **Check, then act.** The decision that a workspace is idle and due is taken on
  an answer fetched earlier, and used when its run is created, after all the
  others were hydrated, filtered, sorted and created.
- **Failures that are only logged.** A failed fetch becomes "never planned"; a
  failed creation keeps the older plan; a failed or timed-out wait keeps the
  plan as it was. The chain goes on, and later processors read these values.
- **A lost answer, a crash, a restart** between creating runs and waiting.
- **Waiting**: a ticker, a timeout, a cancellation and reads that fail race in
  one `select`, and a goroutine per workspace must hand over its result.
- **Order of the chain**: limiting before sorting, or waiting on the wrong plan,
  would still look plausible in a unit test of one processor.
- **Scrapes** that overlap, that outlive their timeout, and that go on with the
  shared pool and a closed channel when nobody waits for them any more.
- **Shutdown** in mid-cycle: two nested run groups, nested contexts, and goroutines
  that look at different ones.
- **The limit over many cycles**: whether each workspace gets its turn depends on
  what earlier cycles did, and on what fails for ever.

`hazards` in `PROJECT.json` lists them at the line where each bites.

### What makes each component correct

| Component | Properties |
| --- | --- |
| Hydrate | every call returns each position's own workspace with an answer about it, in order; the pool is empty between calls; calls and workers end |
| Wait | as Hydrate, and: an outcome reported without error is final; no goroutine is left; the call returns once every wait has a reason to end |
| Cycle | never a run on top of one that is queued or running, nor within `--not-before`, whatever fails but a fetch; oldest first even with a limit; the exit code is true to the runs, and no alarm is false whatever fails; the cycle ends |
| Processors | filters keep, sorting permutes; the order is by last plan and stable |
| Exporter | what a scrape exports is fresh; a scrape that meets no other is complete; overlapping or slow scrapes leave the pool clean; scrapes return; pool and poll end |
| Shutdown | when the process exits its actors, cycles and the server's `Shutdown` are over; the exit code is true; after a signal every actor ends |
| Rotation | under the limit every workspace gets its turn again and again, the oldest first |

## 2. Modules

| Module | Models | Notes |
| --- | --- | --- |
| `FanOut` | abstract: a call hands over a list, gets an answer for each member in any order, returns them in the list's order | the contract of hydrate and of wait |
| `Hydrate` | `hydrate.go` | detailed; implements `FanOut` |
| `Wait` | `wait.go` | detailed; implements `FanOut`; extends `Runs` |
| `Plans` | plan statuses, mapping of runs | data |
| `Processors` | filters, sort, limit, exit code, JSON `ok` | operators on lists, written without recursion |
| `Runs` | Terraform Cloud as `client.go` and `tfe.go` use it | external: clock, runs of each workspace, their progress |
| `DriftChecks` | abstract: when a workspace may get a new run | the scheduling promise of the project's README |
| `Detector` | `run.go`, `controller.go`, `process/run.go` and the chain | implements `DriftChecks` |
| `Rotation` | the scheduling part of the chain, over endless cycles | extends `Processors` |
| `Exporter` | `collector.go` and its wiring in `controller.go` | composes with `Hydrate` (INSTANCE) |
| `Shutdown` | `main.go`, the run group of `controller.go`, the loop of `internal/controller` | |
| `MCHydrate`, `MCWait`, `MCDetector`, `MCRotation`, `MCExporter`, `MCShutdown` | instances for TLC | |
| `HydrateProofs` | theorems about `Hydrate` | |
| `ProcessorsProofs` | theorems about the operators of `Processors` | |
| `RunsProofs` | lemmas about `Plans` and `Runs` | for the next two |
| `WaitProofs` | theorems about `Wait` | |
| `DetectorProofs` | theorems about `Detector` | uses `ProcessorsProofs` |
| `RotationProofs` | theorems about `Rotation` | uses `ProcessorsProofs` |
| `ExporterProofs` | theorems about `Exporter` | uses the theorems of `HydrateProofs` through INSTANCE |
| `ShutdownProofs` | theorems about `Shutdown` | |

`Detector` extends `Processors` and `Runs`, and `Wait` extends `Runs`. `Detector`
does not embed `Hydrate` and `Wait`: it uses the contract both are shown to
implement (each position gets its own answer, in any order, and the next
processor starts when all have one). What is left of their concurrency in
`Detector` is that answers are taken one at a time, in any order, at different
moments, while runs and clock move in between.

### Hydrate

`state[k]` is where worker goroutine `k` is: in its `select`, in
`GetLatestCheckPlan`, or sending on `res`. `phase[c]`, `sent[c]`, `got[c]` and
`found[c]` are the local state of call `c` of `Process`: the position of its
feeder goroutine, the number of results received, and `indexedResults`. A
rendezvous on an unbuffered channel is one action of both sides: `Take` (feeder
and worker), `Deliver` (worker and call). `Deliver(k, c)` is enabled for *any*
open call, because a result does not say whose it is. The feeder keeps going
after its call has returned. A missing key of `indexedResults` is the zero
`model.Workspace`, as in Go. `Cancel` is the end of the context the processor
was *constructed* with; only the workers look at it (`Process`'s own context is
unused, and the fetch gets `context.Background()`).

### Wait

One goroutine per position: `first` read, then `poll`ing at ticks, then `send`.
A ticker is a channel of capacity one that drops ticks. `Expire(i)` is the
`context.WithTimeout` of that goroutine, `Cancel` the end of the caller's
context. When a tick and the end of the context are both ready the select may
take either; a read under an ended context fails. The list a call is given may
hold plans of older runs (what a failed creation leaves).

### Runs and Plans

A run is a creation time, the status string of the API and whether it has
changes; a workspace's runs are a sequence, oldest first. Only the runs that
carry this detector's ID are kept: `ListRuns` searches for that ID, and the
repository relies on the newest coming first, with page size 1. A run moves from
any status that has not ended to any status in `RunStatuses`, and may learn at
any time that it has changes. Time is a counter; creation takes the time of the
moment.

### Detector

`pc[d]`, `wks[d]` and `todo[d]` say which networked processor of the chain
detector `d` is in, its list and the positions still to do. `Start` lists and
filters by name; `Hydrate(d, i)` reads one position; `Schedule` applies the four
sequential processors in one step (nothing else can be observed between them);
`Create(d, i)` is one turn of the loop, in order; `WaitEnds` and `WaitFails` end
the wait of one position; `Report` is the result processor and the exit code of
`main.go`. The fault actions are `ListFails`, `HydrateFails`, `CreateFails`, the
second disjunct of `Create` (the run exists, its answer is lost), `WaitFails`, the
second of `Report` (the JSON result cannot be written: code 1) and `Crash`; the
constant `Faults` says which are possible in a run. A cycle that gets no list
(`OverUnlisted`) makes the run command return an error and a controller wait for its
next tick. A controller has no result processor and always ends with code 0. A dry-run detector reads
instead of creating, as `dryRunRepository` does.

`eligible` and `trouble` are history variables: the workspaces the cycle did not
find queued, and whether it has logged an error. No guard reads them.

No listing names a workspace twice (`ListingsAssumption`). Hydrate and wait index
by ID, so such a list is theirs to look at: `Hydrate` and `Wait` have it. For the
cycle it would mean a second turn for a workspace (see Not modelled).

### Rotation

`Detector` bounds its cycles; `Rotation` does not, to ask what the limit does in
the long run. It keeps of a cycle what schedules: `Choose` is list, hydrate,
filter, sort and limit with the operators of `Processors`, `Create` and
`CreateFails` are turns of the creating loop, `RunEnds` and `Tick` the world. The
next cycle may start at any time. Clock and creation times would grow for ever, so
time is kept as the `age` of each workspace's last run, and of that only what the
processors can tell apart: below `NotBefore` the age itself, from there on its rank
among the ages (`Quotient`). The filter compares an age with `NotBefore` and the
sort compares two ages, and both give the same answer on the quotient. A workspace
in `Broken` may fail in every request, for ever.

### Exporter

`scrape[c]` is where `Collect` and the registry that called it are: in the `select`
of `collector.go:112`, `returned`, or with its channel `closed`. `collect[c]` is
where the goroutine is that `Collect` has started: before the read lock, in
`Process`, sending metrics, sending its `answer` on `resC`. The hydration of scrape
`c` is call `c` of module `Hydrate`, whose actions are used as they are, so all
scrapes share its workers, channels and in-flight results. `Timeout` changes
`scrape[c]` only: nothing on the goroutine's way looks at its context. A fetch
gives `answer[w]`, what Terraform Cloud would say now, which `Change` moves.
`poll = "listing"` is the write lock. `Metrics` is the switch of `collect()`.
`since` and `alone` are history variables. The registry (client_golang) is
external: it receives until its collectors have returned and then closes the
channel, as `Gather` does; a send on the closed channel is `crashed`.

### Shutdown

Two run groups (oklog/run, external): `main.go`'s with the signal actor and the
command, and inside the controller command one with the detector, the HTTP server
and the watcher of the context. `result[a]` is what an actor has returned,
`first[g]` the one a group returned for, `asked[g]` how many interrupts it has
called. `ended` holds the contexts that were cancelled; the detector's derives from
the command's. A cycle is the processor it is in, and each processor looks at the
context the code gives it: a listing fails under an ended one, creations and waits
end, hydrate ignores it (`Ended(Cycler)` appears in no guard of `Hydrate`) while
its *workers* leave when the command's ends. `Stuck` is a hydration that is open
then; one of an empty list returns, workers or not (`List`). `request` is whether a
request is open at the HTTP server. The server's interrupt is three steps:
`CloseServer` calls `Shutdown`, `ServerCloses` is `ListenAndServe` coming back on
that, and `Drained` is `Shutdown` coming back - with no request open, after five
seconds (`drain = "late"`), or at once if the command's context has ended (`"cut"`);
only then the group goes on to the next interrupt. `Modes` are the run command and the controller with and without detector.

## 3. What the runs check

| Run | Instance | Shows |
| --- | --- | --- |
| `hydrate` | 2 calls in turn, 2 workers, lists `<<>>`, both orders of two workspaces, one listed twice | `CompleteOutput`, `NoLeftovers`, `PoolInv` (the inductive invariant of the proofs), `FanOutSpec` (refinement), `CallsReturn`, `WorkersStop` |
| `hydrate_shared` | as above, 2 calls at once | violation of `CompleteOutput`, see Findings |
| `wait` | 2 positions, no run / old run / new run, reads may fail | `FanOutSpec`, `FinishedIsEnded`, `NoGoroutineLeft`, `CallReturns` |
| `detector` | 1 detector, 3 workspaces (1 excluded by name), limit 1, 3 cycles, every fault but a failing fetch | `DriftChecksSpec` (refinement), `KnowledgeInv` (the inductive invariant of the proofs), `NoSecondQueuedRun`, `OldestFirst`, `CleanVerdict`, `AlarmIsReal`, `CycleEnds` |
| `detector_degraded` | a detector and a dry-run controller side by side, no limit, an include filter, failing fetches, waits that time out | `SureInv` (what the proofs rest on), `NoErrorNoSecondRun`, `CleanVerdict` |
| `detector_fetch_error` | as `detector`, fetches may fail | violation of `NoSecondQueuedRun` |
| `detector_unlisted` | as `detector`, runs may be in a status the mapping does not list | violation of `CleanVerdict` |
| `rotation` | 4 workspaces, 1 broken, limit 2, `--not-before` 1, endless cycles | `AllChecked`, `OldestChosen`, `NoOvertaking` |
| `exporter` | 2 scrapes at once over a list that changes between one workspace and another beside an excluded one, 1 worker, with and without timeout | `LoneScrape`, `PoolDrained`, `PoolGoesOn`, `WithinScrape`, `FreshReports`, `ScrapesReturn`, `ExporterStops` |
| `exporter_timeout` | 1 scrape, 1 workspace | violation of `NoSendAfterClose` |
| `shutdown` | all three modes | `GracefulExit`, `ExitCodeTrue`, `ProcessEnds`, `DetectorEnds` |
| `shutdown_listen` | the two controller modes | violation of `ServerErrorExits` |

Each passing run also checks its module's type invariant `TypeOK`, but for
`detector_degraded`, as `detector` does.

**Bounds and why they are enough.** Two workers and three positions make every
interleaving of taking, fetching and delivering out of order possible, and leave
one workspace waiting in the feeder while both workers are busy; a second call
sees whatever the first leaves behind. A workspace listed twice makes two results
share an index. With `MaxCycles = 3` a first cycle creates a run, a second one
meets it queued or running, and a third one finds it ended; `MaxClock = 3` with
`NotBefore = 1` reaches both sides of the comparison and equality. `MaxPlans = 1`
against two eligible workspaces makes the limit choose. The bounds are
`MaxClock` (a guard of `Tick`), `MaxCycles` (a guard of `Start`), `Calls`,
`MaxOpen` (a guard of `Begin`), `MaxPositions` and `MaxScrapes` (a guard of
`Collect`; `Calls` bounds the scrapes altogether).

In `exporter` a second scrape is what it takes to share the pool, and to meet what
a timed-out one leaves; one worker is enough because overtaking among workers is
`hydrate`'s question, and the lists may be poll's old or new one for either scrape.
In `rotation` the broken workspace can hold one of two places of the limit for
ever, so three others have to rotate through what is left; with two broken ones, or
a limit of one, they starve (see Findings). `Shutdown` has no bound: its states are
finitely many.

`CHECK_DEADLOCK FALSE` is set in all of them because each bounded system really
stops: all calls made and no signal, or all cycles done and time at its bound.

**Fairness.** In `Hydrate` and `Wait`: weak fairness of each goroutine's own step
(Go's scheduler runs what can run, and an HTTP request ends by an answer or an
error) and of a running ticker. Nothing makes a call begin, the context end, a
timeout pass or a run progress; `CallReturns` says which of those it needs as its
hypothesis. In `Detector`: weak fairness of a cycle in progress, whose waits end
by `--wait-timeout` if not otherwise; `CycleEnds` therefore depends on `WaitFails`
being possible (`late` or `read` in `Faults`). Nothing makes a cycle start.

In `Rotation` cycles are started again and again (cron, `--detect-interval`), time
passes, and for a workspace that is not broken runs end and creations that are
tried again and again succeed in the end (strong fairness of `Create`): that is what
"not broken" means. In `Exporter`: weak fairness of workers, scrapes and a listing
under way; strong fairness of `Process`, as `sync.RWMutex` lets the readers that
wait go before the next writer, and of `PollExit`, as a Go `select` with several
cases ready picks at random. Deadlines pass. No scrape and no tick is owed. In
`Shutdown`: weak fairness of everything that runs by itself (requests to
Terraform Cloud end by their timeouts, the drain by its own), strong fairness of the detector's choice of `ctx.Done()`
over a tick, for the same reason. Signals, failures, ticks and the
answer to an open request are never owed, so `ProcessEnds` has to start from a signal
for a controller, and `ServerErrorExits` is about behaviours without any.

**Why `PoolInv`, `KnowledgeInv` and `SureInv` are checked as invariants too.** They
are the strengthenings the proofs use: TLC agreeing with them on the small instances came
first.

## 4. What is proved

Eight modules of proofs, for every value of the constants.

### HydrateProofs

| Theorem | Statement | Assumptions |
| --- | --- | --- |
| `TypeCorrect` | `Spec => []TypeOK` | finite non-empty `Workers`, finite `Calls`, `NoWorkspace` not an ID |
| `NoLeftoversHolds` | `Spec => []NoLeftovers` | the above, `Missing` not an answer; any `MaxOpen` |
| `WorkersAreHeard` | `Spec => []Heard` | same |
| `CompleteOutputHolds` | `Spec => []CompleteOutput` | the above, and one call at a time (`MaxOpen = 1`) |
| `PoolInvHolds` | `Spec => []PoolInv` | same |
| `HydrateImplementsFanOut` | `Spec => FanOutSpec` | same |
| `GoesOnHolds` | `Spec => []GoesOn` | as `NoLeftoversHolds`: any `MaxOpen` |
| `NeverMixedUpHolds` | `Spec => []NeverMixedUp` | same |

`TypeCorrect` needs no bound on the callers: a worker's reply is always about the
workspace it holds. Neither do `NoLeftovers` and `Heard` (a worker that holds a
result has an open call that still wants one). They rest on `Balance`: what all
calls have sent is what all calls have got plus what busy workers hold, and a call
that is done has got as many as its list is long. A call never sends more than its
list, so with no call open, nothing can be held; and while something is held some
open call has got less than it sent. Who gets whose result does not matter.

`GoesOn` is the other half: the pool does not lock up. Suppose a call is open, a
worker is left and nothing can move. No worker is busy, or it would fetch or be
heard; an idle worker takes from any feeder that still has something, so every call
has sent its whole list; then no call has got more than it has sent, and by `Balance`
(`AllGot`) each has got all of it, so the open call can return. The condition that a
worker is left is what a signal takes away (the hazard at `hydrate.go:41`).
`NeverMixedUp` says what overlapping calls can still count on: an entry may be
missing, but never holds another workspace, or an answer about another one.

It does matter for `CompleteOutput`, which rests on `PoolInv`. `CompleteOutput` alone is not
inductive: to know that a call that has received as many results as its list is
long has received one for *each* of its workspaces, one must know that none of
the results was left over from an earlier call, and that no worker still holds
one of its own. `InFlight` says so by counting: the busy workers are as many as
the workspaces sent and not got back, each holds a workspace of the open call,
and each workspace sent is indexed or held. Then `got = Len(input)` forces
`sent = Len(input)` and no busy worker, hence everything is indexed, and the pool
is again as a new call expects it. The same argument is stated once more for one call
among many (`OnlyCall`), for the exporter. With `MaxOpen = 2` the counting breaks
(`hydrate_shared`), so the assumption cannot be dropped.

The refinement is proved step by step: `Begin` and `Return` map to the actions of
the same name, `Deliver` to `Answer`, all others to stuttering; `AllBack` gives
the guard of `FanOut`'s `Return`.

### ProcessorsProofs

| Theorem | Statement |
| --- | --- |
| `ArrangeLists` | `Arrange(S, R)` lists a finite `S` in the order `R`, for any strict total order |
| `KeepKeeps` | a filter keeps the chosen positions, all of them, in order |
| `SortByOldestSorts` | sorting is a stable permutation by the time of the last plan |
| `LimitKeepsOldest` | what sorting and limiting a list leave out, or place later, is no older than what they keep before it |

`Arrange` takes the position with `k - 1` predecessors, so the point is that every
rank is taken by exactly one position: ranks lie in `0..Cardinality(S)-1`
(`RankBounded`), increase along the order (`RankIncreases`), and so, by counting,
leave no gap (`RanksTaken`). `LimitKeepsOldest` is why the chain sorts before it
limits: an element of the list is before position `k` of the result, or has a last
plan no older than the one at `k`. `Selection(a, b)`, that `a` takes elements of `b` at
different positions, composes along the chain and is what `DetectorProofs` uses of
it.

### DetectorProofs

| Theorem | Statement | Assumptions |
| --- | --- | --- |
| `TypeCorrect` | `Spec => []TypeOK` | those named in `Detector` |
| `KnowledgeStays` | `Spec => []KnowledgeInv` | those, and `Reliable` |
| `DetectorImplementsDriftChecks` | `Spec => DriftChecksSpec` | same |
| `NoSecondRun` | `Spec => NoSecondQueuedRun` | same |
| `OldestFirstHolds` | `Spec => OldestFirst` | same |
| `SureStaysSure` | `Spec => []SureInv` | `ListedStatuses` |
| `NoErrorNoSecondRunHolds` | `Spec => NoErrorNoSecondRun` | `ListedStatuses`, each creating detector `Alone` |
| `CleanVerdictHolds` | `Spec => CleanVerdict` | `ListedStatuses`, each reporting detector `Alone` |
| `AlarmIsRealHolds` | `Spec => AlarmIsReal` | those named in `Detector` |

`Reliable` says that fetches of latest plans do not fail, that runs are only in
statuses `mapTFEStatus2Model` lists, and that at most one detector creates runs
(any number may look on with `--dry-run`). Everything else may go wrong: listing,
creating and reading may fail, answers may be lost, waits time out and detectors
crash. The first two conditions cannot be dropped (`detector_fetch_error`,
`detector_unlisted`); what two creating detectors do is under Findings.

`NoSecondQueuedRun` is a fact about the moment a run is created, and the decision
was taken on an answer fetched long before. `KnowledgeInv` carries it over: (1) of
a workspace's runs all but the newest have ended, so the newest speaks for all;
(2) while hydrating, a position that is done reflects the newest run - its
creation time, and that it has ended if the plan is not waiting; (3) while
creating, every position still to do has a workspace that is idle and due; (4) no
workspace is at two positions. (2) becomes (3) in `Schedule`, where the filters
ask just what (2) knows. (3) survives the creations of the same cycle because of
(4), the progress of runs and the clock because ended runs stay ended and the past
only recedes, and a lost answer because the position is done all the same. (1)
survives a creation because of (3).

`OldestFirst` is about the same moment and looks at the other workspaces. `TurnsInv`
says of every position still to create that its plan has the time of its workspace's
newest run, and that each workspace the cycle did not find queued has a place before
it or a newest run that is no older. `Schedule` establishes it: for what passed the
filters by `LimitKeepsOldest`, and what the recent filter dropped is younger than what
it let pass. A creation keeps it because a new run only makes its workspace younger,
and a workspace has one place. At a turn the places before it have had theirs.

`SureStaysSure` and the two theorems after it do without the first condition: fetches may fail, with
everything else. `Alone(d)` is that all other detectors are dry runs, and
`ListedStatuses` is the second condition. `KnowledgeInv` is false then, as a failed
fetch makes a cycle create a run beside one that is running, and after that the newest
run no longer speaks for the older ones. What is left is said per cycle, for cycles
that have logged no error (`SureInv`), and of the newest run only: a hydrated position
reflects it, a position still to create comes after one that has ended, a created one
is the newest, a waited one is that run as it ended. Each fault sets `trouble` in the
step in which it happens, and the filters turn the first of these into the second. The
induction needs that a cycle has each workspace once (`CleanInv`): otherwise the run
created for one position would outdate what is known of another. `NoErrorNoSecondRun`
is the second fact at a creation, and `CleanVerdict` the last one at `Report`, where
the exit code is computed from the positions and the promise is about the runs (or is
1, where the JSON result may fail to be written).

`AlarmIsReal` does without all conditions: any status, any fault, any number of
detectors, errors or none. It rests on `TruePlans`: a plan in a list says nothing bad
that is not so of some run of its workspace - changes only if that run has changes,
finished not OK only if it ended so. It holds when the plan is read (`TellsTrue`), and
stays true as a run that has changes keeps them and a bad end is final (`Advance` in
`RunsProofs`). A fault leaves a plan behind that is older than it should be, never one
that is worse than its run.

### RotationProofs

| Theorem | Statement | Assumptions |
| --- | --- | --- |
| `TypeCorrect` | `Spec => []TypeOK` | those named in `Rotation` |
| `OldestChosenHolds` | `Spec => OldestChosen` | same |
| `NoOvertakingHolds` | `Spec => NoOvertaking` | those, and `NotBefore # 0` |

The first part is about `Quotient`: it keeps the order of any two ages, and yields none
above `Never`, by counting the ages below one. The second is what a cycle chooses
(`ChosenTurns`). `OldestChosen` follows by counting: if a due workspace is left out, the
limit is full, and each of its places went to another workspace that is broken or not
younger (`FS_Injection`). It is the part of `AllChecked` that is about one cycle, and says
where the hypothesis of `AllChecked` comes from. The third is `OrderInv`: a workspace
that was overtaken is older than the one that got the run (`Remembered`), so in every
later list that has both it comes first, by `LimitKeepsOldest` (`Ahead`). `NotBefore # 0`
is what makes it strictly older: whoever is passed over was due, so its last run is at
least `NotBefore` old when the other's begins. With `NotBefore = 0` both may have the
age 0, as time in the model may stand still between two creations, and a tie may go
either way.

### WaitProofs

| Theorem | Statement | Assumptions |
| --- | --- | --- |
| `TypeCorrect` | `Spec => []TypeOK` | those named in `Wait`, `Runs`, `Plans` |
| `NoGoroutineLeftHolds` | `Spec => []NoGoroutineLeft` | same |
| `FinishedIsEndedHolds` | `Spec => []FinishedIsEnded` | those, and `ListedStatuses` |
| `WaitImplementsFanOut` | `Spec => FanOutSpec` | those named |
| `HandOverHolds` | `Spec => []HandOver` | same |

`WaitInv` adds two things to the types. `Counted`: the results received are as many
as the goroutines that have handed theirs over, so a call that has as many as its
list is long has left no goroutine behind. `Owned`: every plan the call holds, in
its list, in a goroutine or indexed, is the newest run of its workspace, and what
was handed over is indexed. `Owned` is what makes putting the results back by ID
harmless for the refinement, even if a workspace is listed twice. `HandOver` follows
from `Counted` too: a goroutine that has its result finds its call receiving, and a
call that receives has a goroutine that will send. `FinishedIsEnded`
needs `ListedStatuses`, that runs are only in statuses the mapping lists; without
it, it is false, as a run in an unlisted status is taken for finished.

### ExporterProofs

| Theorem | Statement | Assumptions |
| --- | --- | --- |
| `ExporterUsesPool` | `Spec => Shared!Spec` | those named in `Exporter` |
| `PoolDrainedHolds` | `Spec => []PoolDrained` | same |
| `ResultsAreReceived` | `Spec => []Shared!Heard` | same |
| `TypeCorrect` | `Spec => []TypeOK` | same |
| `WithinScrapeHolds` | `Spec => []WithinScrape` | same |
| `FreshReportsHolds` | `Spec => FreshReports` | same |
| `LoneScrapeHolds` | `Spec => []LoneScrape` | same |
| `PoolGoesOnHolds` | `Spec => []PoolGoesOn` | same |
| `NoCrashWithoutTimeout` | `Spec => [](~timeout => NoSendAfterClose)` | same |

`Shared` is an instance of `HydrateProofs` with as many overlapping calls as there
are scrapes. That the exporter's constants satisfy what `Hydrate` assumes is proved
first (`PoolCalls` to `PoolMissing`), and that every step of the exporter is a step
of the pool or leaves it alone. So the theorems about any number of overlapping
calls hold of the exporter's pool. `FreshReports` needs more: everything in the
pool, held or indexed, is a state since the pool was last idle. That is preserved
except when `since` is reset, at a `Process` that finds no hydration open; and there
`PoolDrained` says that the pool has nothing that could be stale.
`WithinScrape` rests on `Joined`: only a timeout lets a `Collect` return before its
goroutine is over. So does `NoCrashWithoutTimeout`, the other side of finding 4.

`LoneScrape` rests on two invariants. `Lone`: a scrape no other has met so far is the
only open call of the pool, with its workspaces in flight accounted for
(`Shared!OnlyCall`), or has returned a complete list. It starts with `PoolDrained`,
which holds whatever scrapes overlapped before, and lasts until the next `Process`,
which ends `alone` or comes after the return. `Exported`: what a scrape has published,
followed by what it has still to send, is what `collect()` built of its list
(`Metrics`), so nothing is dropped on the way to the registry. That `Metrics` has one
sample for each ended plan, and no other, is `MetricsOfEnded`, by `KeepKeeps` and
`KeepReaches`.

### ShutdownProofs

| Theorem | Statement | Assumptions |
| --- | --- | --- |
| `TypeCorrect` | `Spec => []TypeOK` | those named in `Shutdown` |
| `GracefulExitHolds` | `Spec => []GracefulExit` | same |
| `ExitCodeTrueHolds` | `Spec => []ExitCodeTrue` | same |

The states are finitely many and TLC has seen all of them, so these theorems are not
about larger instances; they are there for the argument. `Standing` says who can
still run: the controller's actors only while the command does, a cycle only while
its actor does, and the process exits only when main's two have returned. `Answers`
says what each actor can have returned, and why a watcher's 0 is not mistaken for
the command's code: a context ends only after main's group has its first, so while
the command is that first one, the watcher has not been. `Draining` says that the
group gets past the server's interrupt only with `Shutdown` back, and that a group which
had to stop has called all interrupts before its command returns; at the exit, then,
`Shutdown` is back, and with a request still open it cannot be because none was.

**Only model-checked:** all liveness (`CallsReturn`, `WorkersStop`, `CallReturns`,
`CycleEnds`, `AllChecked`, `ScrapesReturn`, `ExporterStops`, `ProcessEnds`,
`DetectorEnds`: fairness and `ENABLED` are beyond the prover). Every invariant and
every action property the passing runs check is proved. Of the liveness properties
`GoesOn` and `HandOver` are the part that is about states: who waits is never alone.

## 5. Findings

1. **Concurrent scrapes share results** (`hydrate_shared`). The metrics chain has
   one hydrate processor, and every scrape calls it from its own goroutine. With
   two calls open, a call takes the other's results, reaches its count, and
   returns the zero `Workspace` for its own. `hydrate_test.go:32` only has one
   call at a time.
2. **A failed fetch doubles a run** (`detector_fetch_error`). The nil plan of a
   failed fetch means "never planned": past both filters, first in the order.
   A workspace whose run is queued gets a second one, against `README.md:186`.
   `NoErrorNoSecondRun` (proved) says what still holds: a cycle that has logged no error
   never does this.
3. **Unlisted statuses count as finished** (`detector_unlisted`). TFE statuses the
   mapping does not list (policy checks, cost estimation, ...) become `Unknown`,
   which the queue filter takes for not queued and the wait for finished; the exit
   code may be 0 while the run goes on (`README.md:232`).
4. **A scrape that times out crashes the controller** (`exporter_timeout`).
   `Collect` returns at its deadline, the registry closes the channel, and the
   goroutine, which no deadline reaches, sends its metrics on it when its hydration
   ends. The comment at `collector.go:96` promises to wait "until done or timeout".
5. **A server that cannot listen does not end the controller** (`shutdown_listen`).
   With the address in use, `ListenAndServe` returns, the group interrupts everyone
   and waits for all: the detector stops, but the watcher (`controller.go:257`) waits
   for the command's context, which ends only by a signal. The process neither works
   nor exits (`README.md:233`: code 1). `ServerErrorExits` is about behaviours without
   a signal, as one would release the watcher; the counterexample ends with the watcher
   as the only actor of its group left.

Seen while modelling, and not runs. The first three are what the hypotheses of
`ProcessEnds`, `AllChecked` and `CleanVerdict` exclude:

- A SIGTERM during a hydration takes the workers, and the call, which looks at no
  context, never returns (`Stuck`, `hydrate.go:41`): the process hangs. `ProcessEnds`
  says that this is the only way a signalled process does.
- When as many workspaces as the limit fail for ever, no other one is ever checked
  again (the hypothesis of `AllChecked`): without a run they stay the oldest.
- A wait that times out leads to exit code 0: the error is logged and dropped, and the
  plan it leaves is neither drift nor failure (`CleanVerdict` is about cycles without a
  logged error; `AlarmIsReal` about the other direction).
- The server's drain derives its five seconds from a context that a signal has already
  ended, so it does not wait for open requests (`drain = "cut"`).
- A second signal is dropped, as nobody reads the channel any more; a `run` that was
  signalled exits with 0 even if its cycle then ends with drift, because its group
  returns what the signal actor returned.
- A negative `--limit-max-plans` makes `wks[:max]` panic.
- Two installations with the same detector ID that overlap both create a run.
- A failed run with changes is drift for the exit code and an error for the metrics.
- A goroutine whose `Collect` timed out stays at `resC <- err` for ever; every scrape
  sorts the same tag slices in place.

## 6. Not modelled, and why

- Text: names, tags, URLs, messages, JSON layout, durations and `FinishedAt`, which
  are carried to the output and decided upon nowhere. A regular expression is the
  set of workspaces it matches.
- The difference between the local clock (`FilterDriftDetectionsBefore`) and the
  server's (creation times): one clock.
- The HTTP client's retries: a request succeeds, fails, or succeeds and loses its
  answer.
- Fake repository, flags, logging, build information: no behaviour of their own.
- Paging of `ListWorkspaces`: a listing is an error or a list. Its pages are
  read one after the other while workspaces come and go, so one may be named twice or
  not at all; what Terraform Cloud guarantees about that is not in the repository,
  and the modules would only show what one assumes of it. `Hydrate` and `Wait` allow a
  workspace twice in a list, `Detector` does not.
- Two installations or cron runs that overlap and both create: `Detector` can express
  them (two detectors without dry-run), the promise fails, and none is documented.
- Tags, and the race of scrapes that sort the same tag slices: text of a label.
- The number of samples per workspace: the six metrics of a workspace are one sample
  with its state, sent in one step.

## 7. Plan

Done, in this order, each with its runs and most with their proofs:

1. `FanOut`, `Hydrate`, `HydrateProofs`: shared state and concurrency at their
   densest, and what the rest of the chain rests on.
2. `Plans`, `Processors`, `Runs`, `DriftChecks`, `Detector`, with `ProcessorsProofs`
   and `DetectorProofs`: the promise to the organisation.
3. `Wait`, `RunsProofs`, `WaitProofs`.
4. `Exporter`, `ExporterProofs`: scrapes on the shared pool.
5. `Shutdown`, `ShutdownProofs`: how the process ends.
6. `Rotation`, `RotationProofs`: what the limit does in the long run.

What is left: `OldestFirst` for cycles that logged no error while fetches may fail, as
was done for `NoErrorNoSecondRun`; and a `Listing` module, if a promise about paging is
ever stated.
