-------------------------------- MODULE Wait --------------------------------
(***************************************************************************)
(* One call of NewDriftDetectionPlanWaitProcessor                          *)
(* (internal/workspace/process/wait.go).                                   *)
(*                                                                         *)
(* The call makes a channel of its own and starts one goroutine for every  *)
(* workspace of its list.  A workspace without a plan is sent back as it   *)
(* is.  Any other reads its run once, then at every tick of a ticker,      *)
(* until the run is not waiting any more, a read fails, or the goroutine's *)
(* context ends: its own timeout, or the context of the call.  The call    *)
(* receives one result per position and indexes them by workspace ID.      *)
(*                                                                         *)
(* The runs move while they are waited for (Runs.tla).  The plan a         *)
(* workspace comes with is its latest run, as it was when the call began:  *)
(* just created or, where creating failed, an older one.                   *)
(***************************************************************************)
EXTENDS Runs, Integers, FiniteSets

CONSTANTS Listings,  \* the workspaces a list may have
          MaxPositions,  \* a bound on their length
          Histories, \* Histories[w]: the runs w may have when the call is made
          Missing,   \* not in indexedWks
          ReadFails  \* whether GetCheckPlan may fail on its own

ASSUME ListingsAssumption ==
  Listings \subseteq Seq(Workspaces) /\ \A list \in Listings : Len(list) <= MaxPositions
\* The clock starts at 1.
ASSUME HistoriesAssumption ==
  \A w \in Workspaces : \A h \in Histories[w] :
    h \in Seq(Run) /\ \A n \in DOMAIN h : h[n].createdAt = 1
ASSUME ReadFailsAssumption == ReadFails \in BOOLEAN
ASSUME MissingAssumption == Missing # NoPlan /\ Missing \notin Plan

VARIABLES ctxDone,  \* the context of the call has ended
          phase,    \* of the call: new, open or done
          wks,      \* the list the call was given
          waiter,   \* waiter[i]: what the goroutine of position i does
          expired,  \* expired[i]: its timeout has passed
          ticked,   \* ticked[i]: its ticker's channel (capacity 1) is full
          result,   \* result[i]: the waitResult it sends
          got,      \* results received
          indexed,  \* indexedWks: the plan of each workspace received
          output    \* newWks

waiterVars == <<waiter, expired, ticked, result>>
vars == <<clock, runs, ctxDone, phase, wks, waiter, expired, ticked, result,
          got, indexed, output>>

Positions == DOMAIN wks

Result(plan, err) == [plan |-> plan, err |-> err]

Init ==
  /\ clock = 1
  /\ runs \in {r \in [Workspaces -> UNION {Histories[w] : w \in Workspaces}] :
               \A w \in Workspaces : r[w] \in Histories[w]}
  /\ ctxDone = FALSE
  /\ phase = "new"
  /\ wks = << >>
  /\ waiter = << >>
  /\ expired = << >>
  /\ ticked = << >>
  /\ result = << >>
  /\ got = 0
  /\ indexed = [w \in Workspaces |-> Missing]
  /\ output = << >>

\* Process is called: a goroutine is started for every workspace.
BeginWith(withoutPlan) ==
  /\ phase = "new"
  /\ phase' = "open"
  /\ \E list \in Listings :
       LET plan(i) == LatestPlan(list[i])
       IN  /\ wks' = [i \in DOMAIN list |-> [id |-> list[i], plan |-> plan(i)]]
           /\ waiter' = [i \in DOMAIN list |->
                           IF plan(i) = NoPlan THEN withoutPlan ELSE "first"]
           /\ result' = [i \in DOMAIN list |-> Result(plan(i), FALSE)]
           /\ expired' = [i \in DOMAIN list |-> FALSE]
           /\ ticked' = [i \in DOMAIN list |-> FALSE]
  /\ UNCHANGED <<rvars, ctxDone, got, indexed, output>>

\* A variant: a missing plan is waited for too.
BeginWaitingForAll == BeginWith("first")

\* "If no plan to check, no need to wait."
Begin == BeginWith("send")

-----------------------------------------------------------------------------
CtxDone(i) == ctxDone \/ expired[i]

\* The run position i waits for, as GetCheckPlan reads it now.
GetCheckPlan(i) ==
  LET wk == wks[i] IN mapPlanTFE2Model(wk.plan.id, runs[wk.id][wk.plan.id])

\* The goroutine has its plan, or an error: then the workspace keeps the
\* plan it came with.
Finish(i, r) ==
  /\ waiter' = [waiter EXCEPT ![i] = "send"]
  /\ result' = [result EXCEPT ![i] = r]

KeepsPlan(i) == Result(wks[i].plan, TRUE)

\* A variant: whatever the read answers ends the wait.
ReadOnce(i) == ~CtxDone(i) /\ Finish(i, Result(GetCheckPlan(i), FALSE))

\* A read that answers, which takes a context that has not ended (the HTTP
\* client refuses any other): anything but Waiting ends the wait.
Read(i) ==
  LET plan == GetCheckPlan(i)
  IN  /\ ~CtxDone(i)
      /\ IF plan.status # "Waiting"
         THEN Finish(i, Result(plan, FALSE))
         ELSE waiter' = [waiter EXCEPT ![i] = "poll"] /\ UNCHANGED result

\* A variant: a read that fails is tried again at the next tick.
ReadErrorRetried(i) ==
  /\ CtxDone(i) \/ ReadFails
  /\ waiter' = [waiter EXCEPT ![i] = "poll"]
  /\ UNCHANGED result

\* A read that fails, because of its context or on its own.
ReadError(i) ==
  /\ CtxDone(i) \/ ReadFails
  /\ Finish(i, KeepsPlan(i))

FirstRead(i) ==
  /\ waiter[i] = "first"
  /\ Read(i) \/ ReadError(i)
  /\ UNCHANGED <<rvars, ctxDone, phase, wks, expired, ticked, got, indexed, output>>

\* The select of waitForPlan takes the tick.
Poll(i) ==
  /\ waiter[i] = "poll"
  /\ ticked[i]
  /\ ticked' = [ticked EXCEPT ![i] = FALSE]
  /\ Read(i) \/ ReadError(i)
  /\ UNCHANGED <<rvars, ctxDone, phase, wks, expired, got, indexed, output>>

\* The select of waitForPlan takes the end of the context.
GiveUp(i) ==
  /\ waiter[i] = "poll"
  /\ CtxDone(i)
  /\ Finish(i, KeepsPlan(i))
  /\ UNCHANGED <<rvars, ctxDone, phase, wks, expired, ticked, got, indexed, output>>

\* The call receives the result of position i and indexes it under w.
ReceiveAs(i, w) ==
  /\ phase = "open"
  /\ got < Len(wks)
  /\ waiter[i] = "send"
  /\ waiter' = [waiter EXCEPT ![i] = "done"]
  /\ got' = got + 1
  /\ indexed' = [indexed EXCEPT ![w] = result[i].plan]
  /\ UNCHANGED <<rvars, ctxDone, phase, wks, expired, ticked, result, output>>

\* A variant: results are indexed in the order they come.
ReceiveInOrder(i) == ReceiveAs(i, wks[got + 1].id)

Receive(i) == ReceiveAs(i, wks[i].id)

ReturnIf(ready) ==
  /\ phase = "open"
  /\ ready
  /\ phase' = "done"
  /\ output' = [i \in Positions |-> [id |-> wks[i].id, plan |-> indexed[wks[i].id]]]
  /\ UNCHANGED <<rvars, ctxDone, wks, waiterVars, got, indexed>>

\* A variant: the end of the context ends the call.
ReturnOnCancel == ReturnIf(got = Len(wks) \/ ctxDone)

Return == ReturnIf(got = Len(wks))

-----------------------------------------------------------------------------
\* time.NewTicker: the channel holds one tick, later ones are dropped.
TickerFires(i) ==
  /\ waiter[i] = "poll"
  /\ ~ticked[i]
  /\ ticked' = [ticked EXCEPT ![i] = TRUE]
  /\ UNCHANGED <<rvars, ctxDone, phase, wks, waiter, expired, result, got, indexed, output>>

\* context.WithTimeout ends the context of position i.
Expire(i) ==
  /\ waiter[i] \in {"first", "poll"}
  /\ ~expired[i]
  /\ expired' = [expired EXCEPT ![i] = TRUE]
  /\ UNCHANGED <<rvars, ctxDone, phase, wks, waiter, ticked, result, got, indexed, output>>

Cancel ==
  /\ ~ctxDone
  /\ ctxDone' = TRUE
  /\ UNCHANGED <<rvars, phase, wks, waiterVars, got, indexed, output>>

WaiterStep(i) == FirstRead(i) \/ Poll(i) \/ GiveUp(i) \/ Receive(i)

Next ==
  \/ Begin
  \/ \E i \in Positions : WaiterStep(i) \/ TickerFires(i) \/ Expire(i)
  \/ Return
  \/ Cancel
  \/ \E w \in Workspaces :
       /\ RunProgress(w)
       /\ UNCHANGED <<ctxDone, phase, wks, waiterVars, got, indexed, output>>

Spec == Init /\ [][Next]_vars

(***************************************************************************)
(* Goroutines that can run do run, reads end and tickers tick.  Nothing    *)
(* is assumed of the runs, the timeout or the context: the properties say  *)
(* which of them they need.                                                *)
(***************************************************************************)
Fairness ==
  /\ WF_vars(Return)
  /\ \A i \in 1..MaxPositions :
       /\ WF_vars(i \in Positions /\ WaiterStep(i))
       /\ WF_vars(i \in Positions /\ TickerFires(i))

FairSpec == Spec /\ Fairness

-----------------------------------------------------------------------------
TypeOK ==
  /\ RunsTypeOK
  /\ ctxDone \in BOOLEAN
  /\ phase \in {"new", "open", "done"}
  /\ wks \in Seq([id : Workspaces, plan : Plan \cup {NoPlan}])
  /\ waiter \in [Positions -> {"first", "poll", "send", "done"}]
  /\ expired \in [Positions -> BOOLEAN]
  /\ ticked \in [Positions -> BOOLEAN]
  /\ result \in [Positions -> [plan : Plan \cup {NoPlan}, err : BOOLEAN]]
  /\ got = Cardinality({i \in Positions : waiter[i] = "done"})
  \* Only a workspace with a plan is waited for.
  /\ \A i \in Positions : waiter[i] \in {"first", "poll"} => wks[i].plan # NoPlan
  /\ indexed \in [Workspaces -> Plan \cup {NoPlan, Missing}]

(***************************************************************************)
(* A call leaves no goroutine behind: when it has returned, each of them   *)
(* has handed its result over, none is blocked on a channel nobody reads.  *)
(***************************************************************************)
NoGoroutineLeft == phase = "done" => \A i \in Positions : waiter[i] = "done"

(***************************************************************************)
(* A workspace whose wait reported no error carries the outcome of its     *)
(* run: the run has ended, and the plan is what it ended as.               *)
(* "If not waiting, we are finished." (wait.go:112)                        *)
(***************************************************************************)
FinishedIsEnded ==
  \A i \in Positions :
    (waiter[i] \in {"send", "done"} /\ ~result[i].err /\ wks[i].plan # NoPlan) =>
       /\ Ended(runs[wks[i].id][wks[i].plan.id])
       /\ result[i].plan = GetCheckPlan(i)

(***************************************************************************)
(* The call is a fan-out: each position comes back with an answer about    *)
(* its own workspace, or the plan it came with.                            *)
(***************************************************************************)
Call == "call"

OwnPlans ==
  [w \in Workspaces |->
     {NoPlan} \cup {p \in Plan : \E h \in Histories[w] : p.id = Len(h)}]

Fan ==
  INSTANCE FanOut WITH
    Calls   <- {Call},
    Replies <- OwnPlans,
    phase   <- [c \in {Call} |-> phase],
    input   <- [c \in {Call} |-> [i \in Positions |-> wks[i].id]],
    found   <- [c \in {Call} |-> indexed],
    output  <- [c \in {Call} |->
                  [i \in DOMAIN output |->
                     [id |-> output[i].id, reply |-> output[i].plan]]]

FanOutSpec == Fan!Spec

(***************************************************************************)
(* The call returns once every wait has a reason to end: no plan, an ended *)
(* run, a timeout that passed, or the end of the context.                  *)
(***************************************************************************)
Released(i) ==
  \/ wks[i].plan = NoPlan
  \/ Ended(runs[wks[i].id][wks[i].plan.id])
  \/ CtxDone(i)

CallReturns ==
  (phase = "open" /\ \A i \in Positions : Released(i)) ~> phase = "done"
=============================================================================
