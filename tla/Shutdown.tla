------------------------------ MODULE Shutdown ------------------------------
(***************************************************************************)
(* How the process starts and ends: the run groups of                      *)
(* cmd/tfe-drift/main.go (signals, the command) and of                     *)
(* cmd/tfe-drift/commands/controller.go (detector, HTTP server, a watcher  *)
(* of the command's context), the loop of                                  *)
(* internal/controller/controller.go, and the contexts that tie them.      *)
(*                                                                         *)
(* A run group (github.com/oklog/run, external) runs its actors; when the  *)
(* first one returns it calls every actor's interrupt function, in order,  *)
(* waits until all have returned, and returns what the first one returned. *)
(*                                                                         *)
(* A cycle (Detector.tla) is kept as the processor it is in.  The worker   *)
(* goroutines of the hydrate processor (Hydrate.tla) leave when the        *)
(* COMMAND's context ends; a hydration that is open then never returns.    *)
(***************************************************************************)
EXTENDS Naturals, Sequences

CONSTANTS Modes,      \* the ways to start it: a subset of AllModes
          NoActor

\* The run command; the controller with and without --disable-drift-detector.
AllModes == {"run", "controller", "exporter"}

ASSUME ModesAssumption == Modes \subseteq AllModes
ASSUME NoActorAssumption ==
  NoActor \notin {"signals", "command", "detector", "server", "watcher"}

VARIABLES mode,
          sigC,       \* the channel of capacity one of signal.Notify
          exitClosed, \* exitC is closed
          ended,      \* the contexts that have ended
          result,     \* result[a]: what actor a returned, Running before
          first,      \* first[g]: the actor of group g that returned first
          asked,      \* asked[g]: how many interrupts group g has called
          cycle,      \* where the detection cycle is
          workersGone,\* the workers of its hydrate processor have left
          exit,       \* the exit code, Running before
          verdict,    \* history: what the result processor concluded
          request,    \* a request is open at the HTTP server
          drain       \* its Shutdown: "no", "on", or how it came back

vars == <<mode, sigC, exitClosed, ended, result, first, asked, cycle,
          workersGone, exit, verdict, request, drain>>

groupVars == <<exitClosed, asked, exit, request, drain>>

\* Values of result and exit: an exit code, or one of these.
Running == 4
NotStarted == 5

Main == <<"signals", "command">>

\* The actors of the controller command, in the order they are added.
Controller ==
  CASE mode = "controller" -> <<"detector", "server", "watcher">>
    [] mode = "exporter"   -> <<"server", "watcher">>
    [] OTHER               -> << >>

Actors == [main |-> Main, controller |-> Controller]

Groups == {"main", "controller"}

GroupOf(a) == IF a \in {"signals", "command"} THEN "main" ELSE "controller"

Over == exit # Running

\* Actor a returns: an error is the exit code it leads to, nil is 0.
Returns(a, code) ==
  /\ result[a] = Running
  /\ result' = [result EXCEPT ![a] = code]
  /\ first' = [first EXCEPT ![GroupOf(a)] = IF @ = NoActor THEN a ELSE @]

-----------------------------------------------------------------------------
(***************************************************************************)
(* The actor that executes cycles, and the context it executes them with:  *)
(* the detector's is derived from the command's.                           *)
(***************************************************************************)
Cycler == IF mode = "run" THEN "command" ELSE "detector"

Ended(ctx) == ctx \in ended \/ "command" \in ended

Init ==
  /\ mode \in Modes
  /\ sigC = FALSE
  /\ exitClosed = FALSE
  /\ ended = {}
  /\ result = [a \in {"signals", "command", "detector", "server", "watcher"} |->
                 IF GroupOf(a) = "main" THEN Running ELSE NotStarted]
  /\ first = [g \in Groups |-> NoActor]
  /\ asked = [g \in Groups |-> 0]
  /\ cycle = IF mode = "run" THEN "list" ELSE "off"
  /\ workersGone = FALSE
  /\ exit = Running
  /\ verdict = Running
  /\ request = FALSE
  /\ drain = "no"

\* SIGTERM or SIGINT; one that finds the channel full is dropped.
Signal ==
  /\ sigC' = TRUE
  /\ UNCHANGED <<mode, ended, result, first, cycle, workersGone, verdict>>
  /\ UNCHANGED groupVars

\* The first actor of main.go: a signal, or its interrupt.
Signals ==
  /\ \/ sigC /\ sigC' = FALSE
     \/ exitClosed /\ UNCHANGED sigC
  /\ Returns("signals", 0)
  /\ UNCHANGED <<mode, ended, cycle, workersGone, verdict>>
  /\ UNCHANGED groupVars

-----------------------------------------------------------------------------
(***************************************************************************)
(* The controller command starts its actors, unless the metrics collector  *)
(* cannot fill its cache.                                                  *)
(***************************************************************************)
SetupFails ==
  /\ mode # "run"
  /\ result["server"] = NotStarted
  /\ Returns("command", 1)
  /\ UNCHANGED <<mode, sigC, ended, cycle, workersGone, verdict>>
  /\ UNCHANGED groupVars

Setup ==
  /\ mode # "run"
  /\ result["command"] = Running
  /\ result["server"] = NotStarted
  /\ ~Ended("command")
  /\ result' = [a \in DOMAIN result |->
                  IF \E i \in DOMAIN Controller : Controller[i] = a
                  THEN Running ELSE result[a]]
  /\ cycle' = IF mode = "controller" THEN "list" ELSE "off"
  /\ UNCHANGED <<mode, sigC, ended, first, workersGone, verdict>>
  /\ UNCHANGED groupVars

-----------------------------------------------------------------------------
(***************************************************************************)
(* A cycle.  What it does after an error: the run command returns it, the  *)
(* controller logs it and waits for the next tick.                         *)
(***************************************************************************)
GoesTo(processor) ==
  /\ cycle' = processor
  /\ UNCHANGED <<mode, sigC, ended, result, first, workersGone, verdict>>
  /\ UNCHANGED groupVars

RunReturns(code) ==
  /\ mode = "run"
  /\ cycle' = "off"
  /\ Returns("command", code)
  /\ UNCHANGED <<mode, sigC, ended, workersGone>>
  /\ UNCHANGED groupVars

\* A request whose context has ended fails.  Names that leave no workspace
\* leave nothing to hydrate either.
List ==
  /\ cycle = "list"
  /\ ~Ended(Cycler)
  /\ \E processor \in {"hydrate", "create"} : GoesTo(processor)

\* An error of the listing, or no workspace at all.
ListFails ==
  /\ cycle = "list"
  /\ \/ RunReturns(1) /\ UNCHANGED verdict
     \/ mode = "controller" /\ GoesTo("select")

Hydrate == cycle = "hydrate" /\ ~workersGone /\ GoesTo("create")

WorkersLeave ==
  /\ Ended("command")
  /\ ~workersGone
  /\ workersGone' = TRUE
  /\ UNCHANGED <<mode, sigC, ended, result, first, cycle, verdict>>
  /\ UNCHANGED groupVars

\* Every creation succeeds or its error is logged.
Create == cycle = "create" /\ GoesTo("wait")

\* A variant: a wait does not look at its context.
WaitForRuns == cycle = "wait" /\ ~Ended(Cycler)
               /\ GoesTo(IF mode = "run" THEN "report" ELSE "select")

\* Every wait ends: its run, an error, the timeout or the context.
Wait == cycle = "wait" /\ GoesTo(IF mode = "run" THEN "report" ELSE "select")

\* A variant: the command is not left with its verdict.
ReportAndGoOn ==
  /\ cycle = "report"
  /\ \E code \in {0, 2, 3} : verdict' = code /\ Returns("command", code)
  /\ UNCHANGED <<mode, sigC, ended, cycle, workersGone>>
  /\ UNCHANGED groupVars

\* The result processors: drift, failed plans, or neither; or the JSON result
\* cannot be written.
Report ==
  /\ cycle = "report"
  /\ \/ \E code \in {0, 2, 3} : verdict' = code /\ RunReturns(code)
     \/ RunReturns(1) /\ UNCHANGED verdict

\* The select of DriftDetector.Run: a tick, or the end of the context, either
\* of them when both are ready.
DetectorTick == cycle = "select" /\ GoesTo("list")

StopsOn(over) ==
  /\ cycle = "select"
  /\ over
  /\ cycle' = "off"
  /\ Returns("detector", 1)
  /\ UNCHANGED <<mode, sigC, ended, workersGone, verdict>>
  /\ UNCHANGED groupVars

\* A variant: Run is given the command's context.
DetectorStopsWithCommand == StopsOn("command" \in ended)

DetectorStops == StopsOn(Ended("detector"))

-----------------------------------------------------------------------------
(***************************************************************************)
(* The HTTP server.  ListenAndServe returns an error of the listener, or   *)
(* ErrServerClosed as soon as the interrupt has called Shutdown.           *)
(***************************************************************************)
ServerReturns ==
  /\ Returns("server", 1)
  /\ UNCHANGED <<mode, sigC, ended, cycle, workersGone, verdict>>
  /\ UNCHANGED groupVars

ServerFails == result["server"] = Running /\ ServerReturns

ServerCloses == drain # "no" /\ ServerReturns

RequestsAre(open) ==
  /\ request' = open
  /\ UNCHANGED <<mode, sigC, exitClosed, ended, result, first, asked, cycle>>
  /\ UNCHANGED <<workersGone, exit, verdict, drain>>

AcceptRequest == result["server"] = Running /\ drain = "no" /\ RequestsAre(TRUE)

AnswerRequest == request /\ RequestsAre(FALSE)

\* The actor of group g whose interrupt is next.
Due(g) == Actors[g][asked[g] + 1]

Interrupting(g) == first[g] # NoActor /\ asked[g] < Len(Actors[g])

DrainIs(progress) ==
  /\ drain' = progress
  /\ UNCHANGED <<mode, sigC, exitClosed, ended, result, first, asked, cycle>>
  /\ UNCHANGED <<workersGone, exit, verdict, request>>

\* The interrupt of the server calls Shutdown, which stops the listener.
CloseServer ==
  /\ Interrupting("controller")
  /\ Due("controller") = "server"
  /\ drain = "no"
  /\ DrainIs("on")

(***************************************************************************)
(* Shutdown comes back when no request is open, or when 5 seconds have     *)
(* passed, or at once when the command's context has ended, as it derives  *)
(* its own from that.  The last two errors are logged.                     *)
(***************************************************************************)
Drained ==
  /\ drain = "on"
  /\ \/ ~request /\ DrainIs("done")
     \/ request /\ ~Ended("command") /\ DrainIs("late")
     \/ request /\ Ended("command") /\ DrainIs("cut")

\* "In case we are stopped from the upper level context": <-ctx.Done().
Watcher ==
  /\ Ended("command")
  /\ Returns("watcher", 0)
  /\ UNCHANGED <<mode, sigC, ended, cycle, workersGone, verdict>>
  /\ UNCHANGED groupVars

-----------------------------------------------------------------------------
(***************************************************************************)
(* The run groups.  An interrupt closes exitC, cancels a context, has the  *)
(* server drained or, the watcher's, does nothing.                         *)
(***************************************************************************)
Interrupt(g) ==
  /\ Interrupting(g)
  /\ Due(g) = "server" => drain \notin {"no", "on"}
  /\ asked' = [asked EXCEPT ![g] = @ + 1]
  /\ exitClosed' = (exitClosed \/ Due(g) = "signals")
  /\ ended' = ended \cup ({Due(g)} \cap {"command", "detector"})
  /\ UNCHANGED <<mode, sigC, result, first, cycle, workersGone, exit, verdict>>
  /\ UNCHANGED <<request, drain>>

AllReturned(g) == \A i \in DOMAIN Actors[g] : result[Actors[g][i]] \notin {Running, NotStarted}

\* The group of the controller has stopped: the command returns its error.
ControllerReturns ==
  /\ result["server"] # NotStarted
  /\ asked["controller"] = Len(Controller)
  /\ AllReturned("controller")
  /\ Returns("command", result[first["controller"]])
  /\ UNCHANGED <<mode, sigC, ended, cycle, workersGone, verdict>>
  /\ UNCHANGED groupVars

ExitWith(code, ready) ==
  /\ first["main"] # NoActor
  /\ asked["main"] = Len(Main)
  /\ ready
  /\ exit' = code
  /\ UNCHANGED <<mode, sigC, exitClosed, ended, result, first, asked, cycle>>
  /\ UNCHANGED <<workersGone, verdict, request, drain>>

\* Variants: the group does not wait; it returns any actor's error.
ExitAtOnce == ExitWith(result[first["main"]], TRUE)
ExitWithAny == \E i \in DOMAIN Main : ExitWith(result[Main[i]], AllReturned("main"))

\* main: the process ends with the code of what its group returned.
Exit == ExitWith(result[first["main"]], AllReturned("main"))

Cycle ==
  \/ List \/ ListFails \/ Hydrate \/ Create \/ Wait \/ Report

Next ==
  /\ ~Over
  /\ \/ Signal \/ Signals
     \/ Setup \/ SetupFails
     \/ Cycle \/ WorkersLeave \/ DetectorTick \/ DetectorStops
     \/ AcceptRequest \/ AnswerRequest
     \/ ServerFails \/ ServerCloses \/ CloseServer \/ Drained
     \/ Watcher
     \/ \E g \in Groups : Interrupt(g)
     \/ ControllerReturns \/ Exit

Spec == Init /\ [][Next]_vars

(***************************************************************************)
(* Every goroutine that can run does; requests, waits and the drain end by *)
(* their timeouts.  A select that finds the end of its context ready again *)
(* and again takes it in the end, as Go chooses at random.  No signal, no  *)
(* tick, no failure and no answer to a request is owed.                    *)
(***************************************************************************)
Fairness ==
  /\ WF_vars(~Over /\ Signals)
  /\ WF_vars(~Over /\ (Setup \/ SetupFails))
  /\ WF_vars(~Over /\ Cycle)
  /\ WF_vars(~Over /\ WorkersLeave)
  /\ SF_vars(~Over /\ DetectorStops)
  /\ WF_vars(~Over /\ ServerCloses)
  /\ WF_vars(~Over /\ CloseServer)
  /\ WF_vars(~Over /\ Drained)
  /\ WF_vars(~Over /\ Watcher)
  /\ \A g \in Groups : WF_vars(~Over /\ Interrupt(g))
  /\ WF_vars(~Over /\ ControllerReturns)
  /\ WF_vars(~Over /\ Exit)

FairSpec == Spec /\ Fairness
-----------------------------------------------------------------------------
Codes == 0..3

\* A hydration that is open when its workers have left.
Stuck == cycle = "hydrate" /\ workersGone

TypeOK ==
  /\ mode \in Modes
  /\ sigC \in BOOLEAN /\ exitClosed \in BOOLEAN /\ workersGone \in BOOLEAN
  /\ ended \subseteq {"command", "detector"}
  /\ result \in [{"signals", "command", "detector", "server", "watcher"} ->
                   Codes \cup {Running, NotStarted}]
  /\ first \in [Groups -> DOMAIN result \cup {NoActor}]
  /\ \A g \in Groups : first[g] # NoActor =>
       GroupOf(first[g]) = g /\ result[first[g]] \in Codes
  /\ asked \in [Groups -> Nat]
  /\ \A g \in Groups : asked[g] <= Len(Actors[g])
  /\ cycle # "off" => result[Cycler] = Running
  /\ cycle \in {"off", "list", "hydrate", "create", "wait", "report", "select"}
  /\ exit \in Codes \cup {Running}
  /\ verdict \in {0, 2, 3, Running}
  /\ request \in BOOLEAN
  /\ drain \in {"no", "on", "done", "late", "cut"}

(***************************************************************************)
(* No actor and no cycle is cut off: when the process exits, every actor   *)
(* that was started has returned, no cycle is between creating runs and    *)
(* waiting for them, and Shutdown of the server has come back; a request   *)
(* that is still open is one it has given up, with an error in the log.    *)
(***************************************************************************)
GracefulExit ==
  Over => /\ cycle = "off" /\ drain # "on"
          /\ \A a \in DOMAIN result : result[a] # Running
          /\ request => drain \in {"late", "cut"}

(***************************************************************************)
(* "0: If everything is as it should.  1: ...  2: If there was any drift.  *)
(* 3: ..." (README.md:232): the code of a process nobody has signalled is  *)
(* the verdict of its cycle, or 1 when it has none; and 2 and 3 are never  *)
(* said without that verdict.                                              *)
(***************************************************************************)
ExitCodeTrue ==
  Over =>
    /\ exit \in {2, 3} => verdict = exit
    /\ first["main"] = "command" /\ mode = "run" =>
         exit = IF verdict = Running THEN 1 ELSE verdict
    /\ first["main"] = "command" /\ mode # "run" => exit = 1

(***************************************************************************)
(* A run command ends, and any process ends after a signal - unless the    *)
(* end of the context takes the workers from an open hydration.            *)
(***************************************************************************)
ProcessEnds == (mode = "run" \/ sigC) ~> (Over \/ Stuck)

(***************************************************************************)
(* Once its context has ended, by a signal or because the server failed,   *)
(* the detector stops, whatever the ticker does; and if only its own       *)
(* context has ended, in the middle of a hydration too.                    *)
(***************************************************************************)
DetectorEnds ==
  Ended("detector") ~> (cycle = "off" \/ (Stuck /\ "command" \in ended))

(***************************************************************************)
(* "1: If there was an error executing tfe-drift" (README.md:233): a       *)
(* controller whose server fails exits, without a signal to help it.       *)
(* Violated: its group waits for the watcher, which waits for a context    *)
(* nobody ends.                                                            *)
(***************************************************************************)
ServerErrorExits ==
  [](~sigC) => (first["controller"] = "server" ~> Over)
=============================================================================
