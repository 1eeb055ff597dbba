------------------------------ MODULE Hydrate -------------------------------
(***************************************************************************)
(* NewHydrateLatestDetectionPlanProcessor                                  *)
(* (internal/workspace/process/hydrate.go).                                *)
(*                                                                         *)
(* The constructor makes ONE pair of unbuffered channels, jobs and res, and *)
(* starts the worker goroutines on them; every call of Process uses that   *)
(* same pair.  A call starts a feeder goroutine that sends its workspaces  *)
(* on jobs, receives as many results as it has workspaces, whoever they    *)
(* are for, indexes them by workspace ID, and builds its output in the     *)
(* order of its input.  A workspace that is not indexed becomes the zero   *)
(* model.Workspace (Go's map lookup of a missing key).                     *)
(*                                                                         *)
(* A channel rendezvous is one action: the worker's receive from jobs with *)
(* some feeder's send (Take), the worker's send on res with some call's    *)
(* receive (Deliver).  MaxOpen says how many calls the callers have open   *)
(* at the same time: 1 for the detector's chain (controller.go calls       *)
(* Process from one goroutine), more for the metrics chain, which every    *)
(* scrape calls from a goroutine of its own (collector.go:96).             *)
(***************************************************************************)
EXTENDS Integers, Sequences, FiniteSets

CONSTANTS Calls,        \* the calls of Process (a bound on their number)
          Workspaces,   \* workspace IDs
          Workers,      \* the worker goroutines, --fetch-workers of them
          PlansOf,      \* PlansOf[w]: what GetLatestCheckPlan can find for w
          NoPlan,       \* a nil plan: ErrNotExist or a logged error
          Missing,      \* not in indexedResults
          NoWorkspace,  \* the ID of the zero model.Workspace
          Listings,     \* the lists a caller passes
          MaxOpen       \* calls open at once

ASSUME CallsAssumption == IsFiniteSet(Calls)
ASSUME WorkersAssumption == IsFiniteSet(Workers) /\ Workers # {}
ASSUME ListingsAssumption == Listings \subseteq Seq(Workspaces)
ASSUME NoWorkspaceAssumption == NoWorkspace \notin Workspaces
ASSUME MaxOpenAssumption == MaxOpen \in Nat \ {0}
ASSUME MissingAssumption ==
  Missing # NoPlan /\ \A w \in Workspaces : Missing \notin PlansOf[w]

VARIABLES ctxDone,  \* the construction context is cancelled
          state,    \* state[k]: what worker k does
          job,      \* job[k]: the workspace worker k holds
          reply,    \* reply[k]: the plan worker k has fetched for it
          phase,    \* phase[c]: not begun, open or done
          input,    \* input[c]: wks
          sent,     \* sent[c]: how many of wks the feeder has sent
          got,      \* got[c]: how many results the call has received
          found,    \* found[c]: indexedResults
          output    \* output[c]: newWks

workerVars == <<state, job, reply>>
callVars == <<phase, input, sent, got, found, output>>
vars == <<ctxDone, state, job, reply, phase, input, sent, got, found, output>>

(***************************************************************************)
(* What a fetch can put on a workspace: one of its own plans, or nil.      *)
(***************************************************************************)
Replies == [w \in Workspaces |-> PlansOf[w] \cup {NoPlan}]

\* A workspace of newWks; Absent is the zero model.Workspace.
Entry(w, p) == [id |-> w, reply |-> p]
Absent == Entry(NoWorkspace, NoPlan)

Nothing == [w \in Workspaces |-> Missing]

Open == {c \in Calls : phase[c] = "open"}

\* The workers that hold a workspace.
Busy == {k \in Workers : state[k] \in {"fetch", "send"}}

Init ==
  /\ ctxDone = FALSE
  /\ state = [k \in Workers |-> "select"]
  /\ job = [k \in Workers |-> NoWorkspace]
  /\ reply = [k \in Workers |-> NoPlan]
  /\ phase = [c \in Calls |-> "new"]
  /\ input = [c \in Calls |-> << >>]
  /\ sent = [c \in Calls |-> 0]
  /\ got = [c \in Calls |-> 0]
  /\ found = [c \in Calls |-> Nothing]
  /\ output = [c \in Calls |-> << >>]

BeginIf(c, room) ==
  /\ phase[c] = "new"
  /\ room
  /\ phase' = [phase EXCEPT ![c] = "open"]
  /\ \E wks \in Listings : input' = [input EXCEPT ![c] = wks]
  /\ UNCHANGED <<ctxDone, sent, got, found, output>>
  /\ UNCHANGED workerVars

\* A variant: a caller that does not wait for its turn.
BeginBesideAnother(c) == BeginIf(c, TRUE)

(***************************************************************************)
(* Process is called: the feeder goroutine exists from here on.            *)
(***************************************************************************)
Begin(c) == BeginIf(c, Cardinality(Open) < MaxOpen)

(***************************************************************************)
(* Worker k's select takes a workspace from the feeder of call c.  The     *)
(* feeder does not end with its call: it only ends when all are sent.      *)
(***************************************************************************)
Take(k, c) ==
  /\ state[k] = "select"
  /\ phase[c] # "new"
  /\ sent[c] < Len(input[c])
  /\ sent' = [sent EXCEPT ![c] = @ + 1]
  /\ state' = [state EXCEPT ![k] = "fetch"]
  /\ job' = [job EXCEPT ![k] = input[c][sent[c] + 1]]
  /\ UNCHANGED <<ctxDone, reply, phase, input, got, found, output>>

FetchFrom(k, replies) ==
  /\ state[k] = "fetch"
  /\ \E p \in replies : reply' = [reply EXCEPT ![k] = p]
  /\ state' = [state EXCEPT ![k] = "send"]
  /\ UNCHANGED <<ctxDone, job>>
  /\ UNCHANGED callVars

\* Variants: the plan of any workspace; a worker that quits when it gets none.
FetchOfAnother(k) == \E w \in Workspaces : FetchFrom(k, Replies[w])
FetchOrQuit(k) ==
  \/ FetchFrom(k, PlansOf[job[k]])
  \/ /\ state[k] = "fetch"
     /\ state' = [state EXCEPT ![k] = "exited"]
     /\ UNCHANGED <<ctxDone, job, reply>>
     /\ UNCHANGED callVars

(***************************************************************************)
(* GetLatestCheckPlan with context.Background(): nothing interrupts it.    *)
(* No plan, or an error, leaves a nil plan.                                *)
(***************************************************************************)
Fetch(k) == FetchFrom(k, Replies[job[k]])

\* Call c receives the result of worker k and indexes it under w.
DeliverAs(k, c, w) ==
  /\ state[k] = "send"
  /\ phase[c] = "open"
  /\ got[c] < Len(input[c])
  /\ got' = [got EXCEPT ![c] = @ + 1]
  /\ found' = [found EXCEPT ![c] = [@ EXCEPT ![w] = reply[k]]]
  /\ state' = [state EXCEPT ![k] = "select"]
  /\ job' = [job EXCEPT ![k] = NoWorkspace]
  /\ reply' = [reply EXCEPT ![k] = NoPlan]
  /\ UNCHANGED <<ctxDone, phase, input, sent, output>>

\* A variant: results are indexed in the order they come.
DeliverByPosition(k, c) == DeliverAs(k, c, input[c][got[c] + 1])

(***************************************************************************)
(* Worker k's result is received by call c, any call that still waits for  *)
(* results: res is shared, and a result does not say whose it is.          *)
(***************************************************************************)
Deliver(k, c) == DeliverAs(k, c, job[k])

\* "Set results in the correct order": the order of the input, by ID.
Ordered(c) ==
  [i \in DOMAIN input[c] |->
     LET w == input[c][i]
     IN  IF found[c][w] = Missing THEN Absent ELSE Entry(w, found[c][w])]

ReturnIf(c, ready) ==
  /\ phase[c] = "open"
  /\ ready
  /\ phase' = [phase EXCEPT ![c] = "done"]
  /\ output' = [output EXCEPT ![c] = Ordered(c)]
  /\ UNCHANGED <<ctxDone, input, sent, got, found>>
  /\ UNCHANGED workerVars

\* Variants: one result too few; until every ID is indexed; until the end of
\* the context.
ReturnEarly(c) == ReturnIf(c, got[c] + 1 >= Len(input[c]))
ReturnWhenIndexed(c) ==
  ReturnIf(c, \A i \in DOMAIN input[c] : found[c][input[c][i]] # Missing)
ReturnOnCancel(c) == ReturnIf(c, got[c] = Len(input[c]) \/ ctxDone)

Return(c) == ReturnIf(c, got[c] = Len(input[c]))

(***************************************************************************)
(* The construction context ends: a signal, or the program's end.  Only    *)
(* the workers' select looks at it; feeders and open calls do not.         *)
(***************************************************************************)
Cancel ==
  /\ ~ctxDone
  /\ ctxDone' = TRUE
  /\ UNCHANGED workerVars
  /\ UNCHANGED callVars

Exit(k) ==
  /\ ctxDone
  /\ state[k] = "select"
  /\ state' = [state EXCEPT ![k] = "exited"]
  /\ UNCHANGED <<ctxDone, job, reply>>
  /\ UNCHANGED callVars

WorkerStep(k) ==
  \/ \E c \in Calls : Take(k, c)
  \/ Fetch(k)
  \/ \E c \in Calls : Deliver(k, c)
  \/ Exit(k)

Next ==
  \/ \E c \in Calls : Begin(c) \/ Return(c)
  \/ \E k \in Workers : WorkerStep(k)
  \/ Cancel

Spec == Init /\ [][Next]_vars

(***************************************************************************)
(* Goroutines that can run do run, and every fetch ends, by an answer or   *)
(* by an error of the HTTP client.  Nobody owes a Begin or a Cancel.       *)
(***************************************************************************)
Fairness ==
  /\ \A k \in Workers : WF_vars(WorkerStep(k))
  /\ \A c \in Calls : WF_vars(Return(c))

FairSpec == Spec /\ Fairness

-----------------------------------------------------------------------------
AnyReply == {NoPlan} \cup (UNION {Replies[w] : w \in Workspaces})

TypeOK ==
  /\ ctxDone \in BOOLEAN
  /\ state \in [Workers -> {"select", "fetch", "send", "exited"}]
  /\ job \in [Workers -> Workspaces \cup {NoWorkspace}]
  /\ reply \in [Workers -> AnyReply]
  /\ \A k \in Workers :
       /\ (state[k] \in {"fetch", "send"}) <=> (job[k] # NoWorkspace)
       /\ state[k] = "send" => reply[k] \in Replies[job[k]]
       /\ state[k] # "send" => reply[k] = NoPlan
  /\ phase \in [Calls -> {"new", "open", "done"}]
  /\ input \in [Calls -> Seq(Workspaces)]
  /\ sent \in [Calls -> Nat]
  /\ got \in [Calls -> Nat]
  /\ \A c \in Calls : sent[c] <= Len(input[c]) /\ got[c] <= Len(input[c])
  /\ \A c \in Calls : phase[c] = "new" => sent[c] = 0 /\ got[c] = 0
  /\ found \in [Calls -> [Workspaces -> AnyReply \cup {Missing}]]
  /\ \A c \in Calls, w \in Workspaces : found[c][w] \in Replies[w] \cup {Missing}
  /\ DOMAIN output = Calls

(***************************************************************************)
(* "Having workspaces should hydrate with the latest drift detection       *)
(* plans" (hydrate_test.go:32): a call that returned has, at every         *)
(* position, the workspace the caller put there, with an answer about that *)
(* workspace, and never the zero workspace.                                *)
(***************************************************************************)
Complete(c) ==
  /\ DOMAIN output[c] = DOMAIN input[c]
  /\ \A i \in DOMAIN input[c] :
       /\ output[c][i].id = input[c][i]
       /\ output[c][i].reply \in Replies[input[c][i]]

CompleteOutput == \A c \in Calls : phase[c] = "done" => Complete(c)

(***************************************************************************)
(* Between two calls the pool is as it was built: no worker still holds a  *)
(* workspace, and no feeder of a past call still waits to send one.  This  *)
(* is what lets the next call count results instead of matching them.      *)
(***************************************************************************)
NoLeftovers ==
  Open = {} =>
    /\ Busy = {}
    /\ \A c \in Calls : phase[c] = "done" => sent[c] = Len(input[c])

(***************************************************************************)
(* However many calls overlap, the pool never locks up with work left: as  *)
(* long as a worker is there for the open calls, or holds a workspace, the *)
(* other side of some rendezvous is ready, a fetch is on its way, or a     *)
(* call has all its results.  Calls that take each other's results do not  *)
(* leave one of them waiting for a result that was never to come.          *)
(***************************************************************************)
Moves ==
  \/ \E k \in Workers : state[k] = "fetch"
  \/ \E k \in Workers, c \in Open : state[k] = "send" /\ got[c] < Len(input[c])
  \/ \E k \in Workers, c \in Calls :
       state[k] = "select" /\ phase[c] # "new" /\ sent[c] < Len(input[c])
  \/ \E c \in Open : got[c] = Len(input[c])

GoesOn ==
  Busy # {} \/ (Open # {} /\ \E k \in Workers : state[k] # "exited") => Moves

(***************************************************************************)
(* Why both hold when one call is open at a time (the inductive invariant  *)
(* of HydrateProofs): the workspaces the open call has sent and not got    *)
(* back are exactly those the busy workers hold, as many as there are busy *)
(* workers, so the count of results reaches the length of the list when no *)
(* worker is busy and every workspace has its answer.                      *)
(***************************************************************************)
InFlight(c) ==
  /\ Cardinality(Busy) = sent[c] - got[c]
  /\ \A i \in 1..sent[c] :
       \/ found[c][input[c][i]] # Missing
       \/ \E k \in Busy : job[k] = input[c][i]
  /\ \A k \in Busy : \E i \in 1..sent[c] : job[k] = input[c][i]

PoolInv ==
  /\ \A c, d \in Open : c = d
  /\ \A c \in Open : InFlight(c)
  /\ NoLeftovers
  /\ \A c \in Calls : phase[c] = "done" => sent[c] = Len(input[c])
  /\ CompleteOutput

(***************************************************************************)
(* The shared pool is a fan-out: replies are those of FanOut, and a call   *)
(* returns as FanOut's Return does.                                        *)
(***************************************************************************)
Fan == INSTANCE FanOut

FanOutSpec == Fan!Spec

(***************************************************************************)
(* A call that is open returns, unless the construction context ends.      *)
(***************************************************************************)
CallsReturn ==
  \A c \in Calls : phase[c] = "open" ~> (phase[c] = "done" \/ ctxDone)

(***************************************************************************)
(* After the context ends every worker goroutine ends, whatever call was   *)
(* open: none is left sending to nobody.                                   *)
(***************************************************************************)
WorkersStop == ctxDone ~> \A k \in Workers : state[k] = "exited"
=============================================================================
