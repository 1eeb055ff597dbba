--------------------------- MODULE ShutdownProofs ---------------------------
(***************************************************************************)
(* Theorems about Shutdown: in every mode, what has returned when the      *)
(* process exits, and what its exit code says.                             *)
(***************************************************************************)
EXTENDS Shutdown, TLAPS

ActorNames == {"signals", "command", "detector", "server", "watcher"}

LEMMA ActorsOf ==
  /\ Actors["main"] = <<"signals", "command">>
  /\ Actors["controller"] = Controller
  /\ mode = "controller" => Controller = <<"detector", "server", "watcher">>
  /\ mode = "exporter" => Controller = <<"server", "watcher">>
  /\ mode = "run" => Controller = << >>
  BY DEF Actors, Main, Controller

LEMMA ModeOf == mode \in Modes => mode \in {"run", "controller", "exporter"}
  BY ModesAssumption DEF AllModes

LEMMA SomeActor == \A a \in ActorNames : a # NoActor
  BY NoActorAssumption DEF ActorNames

-----------------------------------------------------------------------------
(* Type correctness.                                                        *)

ResultType == result \in [ActorNames -> Codes \cup {Running, NotStarted}]

FirstType ==
  /\ first \in [Groups -> ActorNames \cup {NoActor}]
  /\ \A g \in Groups : first[g] # NoActor =>
       GroupOf(first[g]) = g /\ result[first[g]] \in Codes

CycleType ==
  /\ cycle # "off" => result[Cycler] = Running
  /\ cycle \in {"off", "list", "hydrate", "create", "wait", "report", "select"}

AskedType ==
  /\ asked \in [Groups -> Nat]
  /\ \A g \in Groups : asked[g] <= Len(Actors[g])

PlainType ==
  /\ mode \in Modes
  /\ sigC \in BOOLEAN /\ exitClosed \in BOOLEAN /\ workersGone \in BOOLEAN
  /\ ended \subseteq {"command", "detector"}
  /\ exit \in Codes \cup {Running}
  /\ verdict \in {0, 2, 3, Running}
  /\ request \in BOOLEAN
  /\ drain \in {"no", "on", "done", "late", "cut"}

LEMMA TypeParts ==
  TypeOK <=> ResultType /\ FirstType /\ CycleType /\ AskedType /\ PlainType
<1>1. ResultType => DOMAIN result = ActorNames
  BY DEF ResultType
<1>2. ResultType <=> result \in [{"signals", "command", "detector", "server", "watcher"} ->
                                   Codes \cup {Running, NotStarted}]
  BY DEF ResultType, ActorNames
<1>. QED
  BY <1>1, <1>2 DEF TypeOK, FirstType, CycleType, AskedType, PlainType

LEMMA CodeValues == Codes = {0, 1, 2, 3} /\ Running = 4 /\ NotStarted = 5
  BY DEF Codes, Running, NotStarted

\* An actor that returns: the results and the first of its group.
LEMMA ReturnsEffect ==
  ASSUME ResultType, FirstType, NEW a \in ActorNames, NEW code \in Codes,
         Returns(a, code)
  PROVE  /\ ResultType' /\ FirstType'
         /\ result[a] = Running
         /\ \A b \in ActorNames : result'[b] = IF b = a THEN code ELSE result[b]
         /\ \A g \in Groups : first'[g] = IF g = GroupOf(a) /\ first[g] = NoActor
                                          THEN a ELSE first[g]
<1>1. GroupOf(a) \in Groups
  BY DEF GroupOf, Groups
<1>2. result[a] = Running /\ result' = [result EXCEPT ![a] = code]
  BY DEF Returns
<1>3. first' = [first EXCEPT ![GroupOf(a)] = IF @ = NoActor THEN a ELSE @]
  BY DEF Returns
<1>4. \A b \in ActorNames : result'[b] = IF b = a THEN code ELSE result[b]
  BY <1>2 DEF ResultType
<1>5. \A g \in Groups : first'[g] = IF g = GroupOf(a) /\ first[g] = NoActor
                                    THEN a ELSE first[g]
  BY <1>1, <1>3 DEF FirstType
<1>6. ResultType'
  BY <1>2 DEF ResultType
<1>7. first' \in [Groups -> ActorNames \cup {NoActor}]
  BY <1>3 DEF FirstType
<1>8. ASSUME NEW g \in Groups, first'[g] # NoActor
      PROVE  GroupOf(first'[g]) = g /\ result'[first'[g]] \in Codes
  <2>1. CASE g = GroupOf(a) /\ first[g] = NoActor
    BY <1>4, <1>5, <2>1
  <2>2. CASE ~(g = GroupOf(a) /\ first[g] = NoActor)
    <3>1. first'[g] = first[g]
      BY <1>5, <2>2
    <3>2. first[g] \in ActorNames /\ GroupOf(first[g]) = g /\ result[first[g]] \in Codes
      BY <1>8, <3>1 DEF FirstType
    <3>. QED
      BY <1>4, <3>1, <3>2
  <2>. QED
    BY <2>1, <2>2
<1>. QED
  BY <1>2, <1>4, <1>5, <1>6, <1>7, <1>8 DEF FirstType

-----------------------------------------------------------------------------
(***************************************************************************)
(* The inductive invariant.  Standing says which actors can still run: the *)
(* controller's only while the command does, and its process only exits    *)
(* when its own two have returned.  Answers says what each actor returns,  *)
(* and that a watcher only returns when main's group has somebody to thank *)
(* for it: while the command is the first to return, no context ended.     *)
(* Draining says that the server is drained before its interrupt is over,  *)
(* and that a command whose group had to stop returns after all of them.   *)
(***************************************************************************)
Standing ==
  /\ result["server"] = NotStarted =>
       result["detector"] = NotStarted /\ result["watcher"] = NotStarted
  /\ mode = "run" => result["server"] = NotStarted
  /\ mode # "controller" => result["detector"] = NotStarted
  /\ result["command"] # Running =>
       \A a \in {"detector", "server", "watcher"} : result[a] # Running
  /\ Over => /\ result["signals"] # Running /\ result["command"] # Running
             /\ first["main"] # NoActor /\ exit = result[first["main"]]

Answers ==
  /\ result["signals"] \in {Running, 0}
  /\ mode = "run" =>
       IF result["command"] = Running THEN verdict = Running
       ELSE result["command"] = IF verdict = Running THEN 1 ELSE verdict
  /\ mode # "run" => verdict = Running /\ result["command"] \in {Running, 0, 1}
  /\ result["detector"] \in {Running, NotStarted, 1}
  /\ result["server"] \in {Running, NotStarted, 1}
  /\ result["watcher"] \in {Running, NotStarted, 0}
  /\ result["watcher"] = 0 => "command" \in ended
  /\ "command" \in ended => first["main"] # NoActor
  /\ mode # "run" /\ first["main"] = "command" => result["command"] = 1
  /\ \A a \in {"detector", "server", "watcher"} :
       result[a] \in Codes => first["controller"] # NoActor

\* The place of the server among the actors of its group.
ServerPlace == IF mode = "controller" THEN 2 ELSE 1

Draining ==
  /\ asked["controller"] >= ServerPlace => drain \notin {"no", "on"}
  /\ drain # "no" => first["controller"] # NoActor
  /\ request => drain # "done" /\ result["server"] # NotStarted
  /\ result["server"] = NotStarted => first["controller"] = NoActor
  /\ result["command"] # Running /\ first["controller"] # NoActor =>
       asked["controller"] = Len(Controller)

ShutdownInv ==
  /\ ResultType /\ FirstType /\ CycleType /\ AskedType /\ PlainType
  /\ Standing /\ Answers /\ Draining

LEMMA InvInit == Init => ShutdownInv
<1> SUFFICES ASSUME Init PROVE ShutdownInv
  OBVIOUS
<1>0. mode \in {"run", "controller", "exporter"}
  BY ModeOf DEF Init
<1>1. ResultType /\ \A a \in ActorNames :
        result[a] = IF a \in {"signals", "command"} THEN Running ELSE NotStarted
  BY DEF Init, ResultType, ActorNames, GroupOf
<1>2. FirstType /\ \A g \in Groups : first[g] = NoActor
  BY DEF Init, FirstType
<1>3. AskedType
  <2>1. Len(Actors["main"]) = 2 /\ Len(Actors["controller"]) \in Nat
    BY <1>0, ActorsOf
  <2>. QED
    BY <2>1 DEF Init, AskedType, Groups
<1>4. CycleType
  BY <1>1 DEF Init, CycleType, Cycler, ActorNames
<1>5. PlainType
  BY DEF Init, PlainType
<1>6. Standing
  BY <1>1, <1>2, CodeValues DEF Init, Standing, Over, ActorNames
<1>7. Answers
  BY <1>1, <1>2, CodeValues, SomeActor DEF Init, Answers, Groups, ActorNames
<1>8. Draining
  BY <1>2 DEF Init, Draining, ServerPlace, Groups
<1>. QED
  BY <1>1, <1>2, <1>3, <1>4, <1>5, <1>6, <1>7, <1>8 DEF ShutdownInv

\* A step that moves no actor.
LEMMA QuietStep ==
  ASSUME ResultType, FirstType, AskedType, PlainType, Standing, Answers, Draining,
         UNCHANGED <<mode, ended, result, first, verdict>>, UNCHANGED groupVars,
         sigC' \in BOOLEAN, workersGone' \in BOOLEAN, CycleType'
  PROVE  ShutdownInv'
<1>1. ResultType' /\ FirstType' /\ PlainType'
  BY DEF ResultType, FirstType, PlainType, groupVars
<1>2. AskedType'
  BY DEF AskedType, groupVars, Actors, Main, Controller
<1>3. Standing' /\ Answers' /\ Draining'
  BY DEF Standing, Answers, Draining, ServerPlace, Controller, Over, groupVars
<1>. QED
  BY <1>1, <1>2, <1>3 DEF ShutdownInv

\* A step of the open requests or of the drain.
LEMMA DrainStep ==
  ASSUME ResultType, FirstType, CycleType, AskedType, PlainType, Standing, Answers,
         UNCHANGED <<mode, sigC, exitClosed, ended, result, first, asked, cycle>>,
         UNCHANGED <<workersGone, exit, verdict>>,
         request' \in BOOLEAN, drain' \in {"no", "on", "done", "late", "cut"},
         Draining'
  PROVE  ShutdownInv'
<1>1. ResultType' /\ FirstType' /\ CycleType' /\ PlainType'
  BY DEF ResultType, FirstType, CycleType, Cycler, PlainType
<1>2. AskedType'
  BY DEF AskedType, Actors, Main, Controller
<1>3. Standing' /\ Answers'
  BY DEF Standing, Answers, Over
<1>. QED
  BY <1>1, <1>2, <1>3 DEF ShutdownInv

\* A step in which an actor returns, and what it may return.
LEMMA ReturnStep ==
  ASSUME ~Over, ResultType, FirstType, AskedType, PlainType, Standing, Answers, Draining,
         NEW a \in ActorNames, NEW code \in Codes, Returns(a, code),
         UNCHANGED <<mode, ended, workersGone>>, UNCHANGED groupVars,
         sigC' \in BOOLEAN, CycleType',
         verdict' \in {0, 2, 3, Running},
         a = "signals" => code = 0,
         a \in {"detector", "server"} => code = 1,
         a = "watcher" => code = 0 /\ "command" \in ended,
         a # "command" \/ mode # "run" => verdict' = verdict,
         a = "command" =>
           first["controller"] = NoActor \/ asked["controller"] = Len(Controller),
         a = "command" /\ mode = "run" =>
           code = IF verdict' = Running THEN 1 ELSE verdict',
         a = "command" /\ mode # "run" =>
           /\ code \in {0, 1}
           /\ first["main"] = NoActor => code = 1
           /\ \A b \in {"detector", "server", "watcher"} : result[b] # Running
  PROVE  ShutdownInv'
<1>1. /\ ResultType' /\ FirstType'
      /\ result[a] = Running
      /\ \A b \in ActorNames : result'[b] = IF b = a THEN code ELSE result[b]
      /\ \A g \in Groups : first'[g] = IF g = GroupOf(a) /\ first[g] = NoActor
                                       THEN a ELSE first[g]
  BY ReturnsEffect
<1>2. PlainType'
  BY DEF PlainType, groupVars
<1>3. AskedType'
  BY DEF AskedType, groupVars, Actors, Main, Controller
<1>4. mode' = mode /\ ended' = ended /\ exit' = exit /\ exit = Running
  BY DEF groupVars, Over
<1>5. /\ result'["signals"] = IF a = "signals" THEN code ELSE result["signals"]
      /\ result'["command"] = IF a = "command" THEN code ELSE result["command"]
      /\ result'["detector"] = IF a = "detector" THEN code ELSE result["detector"]
      /\ result'["server"] = IF a = "server" THEN code ELSE result["server"]
      /\ result'["watcher"] = IF a = "watcher" THEN code ELSE result["watcher"]
  BY <1>1 DEF ActorNames
<1>6. code # Running /\ code # NotStarted
  BY CodeValues
<1>7. Standing'
  BY <1>1, <1>4, <1>5, <1>6, CodeValues DEF Standing, Over
<1>8. /\ first'["main"] = IF a \in {"signals", "command"} /\ first["main"] = NoActor
                          THEN a ELSE first["main"]
      /\ first'["controller"] = IF a \notin {"signals", "command"} /\ first["controller"] = NoActor
                                THEN a ELSE first["controller"]
  BY <1>1 DEF Groups, GroupOf
<1>9. a # NoActor
  BY SomeActor
<1>10. Answers'
  <2>1. /\ result'["signals"] \in {Running, 0}
        /\ result'["detector"] \in {Running, NotStarted, 1}
        /\ result'["server"] \in {Running, NotStarted, 1}
        /\ result'["watcher"] \in {Running, NotStarted, 0}
    BY <1>5 DEF Answers
  <2>2. mode' = "run" =>
          IF result'["command"] = Running THEN verdict' = Running
          ELSE result'["command"] = IF verdict' = Running THEN 1 ELSE verdict'
    BY <1>1, <1>4, <1>5, <1>6 DEF Answers
  <2>3. mode' # "run" => verdict' = Running /\ result'["command"] \in {Running, 0, 1}
    BY <1>4, <1>5 DEF Answers
  <2>4. result'["watcher"] = 0 => "command" \in ended'
    BY <1>4, <1>5 DEF Answers
  <2>5. "command" \in ended' => first'["main"] # NoActor
    BY <1>4, <1>8, <1>9 DEF Answers
  <2>6. mode' # "run" /\ first'["main"] = "command" => result'["command"] = 1
    <3>1. CASE a = "command"
      <4>1. result["command"] = Running
        BY <1>1, <3>1
      <4>2. mode # "run" => first["main"] # "command"
        BY <4>1, CodeValues DEF Answers
      <4>. QED
        BY <1>4, <1>5, <1>8, <3>1, <4>2
    <3>2. CASE a # "command"
      BY <1>4, <1>5, <1>8, <3>2 DEF Answers
    <3>. QED
      BY <3>1, <3>2
  <2>7. \A b \in {"detector", "server", "watcher"} :
          result'[b] \in Codes => first'["controller"] # NoActor
    BY <1>5, <1>8, <1>9 DEF Answers, ActorNames
  <2>. QED
    BY <2>1, <2>2, <2>3, <2>4, <2>5, <2>6, <2>7 DEF Answers
<1>11. Draining'
  <2>1. /\ mode' = mode /\ asked' = asked /\ drain' = drain /\ request' = request
        /\ Controller' = Controller /\ ServerPlace' = ServerPlace
    BY <1>4 DEF groupVars, Controller, ServerPlace
  <2>2. drain' # "no" => first'["controller"] # NoActor
    BY <1>8, <1>9, <2>1 DEF Draining
  <2>3. result'["server"] = NotStarted => first'["controller"] = NoActor
    <3>1. ASSUME result'["server"] = NotStarted PROVE a \in {"signals", "command"}
      BY <1>1, <1>5, <1>6, <3>1, CodeValues DEF Standing, ActorNames
    <3>. QED
      BY <1>5, <1>6, <1>8, <3>1 DEF Draining
  <2>4. result'["command"] # Running /\ first'["controller"] # NoActor =>
          asked["controller"] = Len(Controller)
    <3>1. CASE a = "command"
      BY <1>8, <3>1
    <3>2. CASE a # "command" /\ result["command"] # Running
      <4>1. a = "signals"
        BY <1>1, <3>2 DEF Standing, ActorNames
      <4>. QED
        BY <1>8, <3>2, <4>1 DEF Draining
    <3>3. CASE a # "command" /\ result["command"] = Running
      BY <1>5, <3>3
    <3>. QED
      BY <3>1, <3>2, <3>3
  <2>5. request' => drain' # "done" /\ result'["server"] # NotStarted
    <3>1. result["server"] # NotStarted => result'["server"] # NotStarted
      BY <1>5, CodeValues DEF ActorNames
    <3>. QED
      BY <2>1, <3>1 DEF Draining
  <2>. QED
    BY <2>1, <2>2, <2>3, <2>4, <2>5 DEF Draining
<1>. QED
  BY <1>1, <1>2, <1>3, <1>7, <1>10, <1>11 DEF ShutdownInv

LEMMA ReturnCycle ==
  ASSUME ResultType, FirstType, CycleType, UNCHANGED mode,
         NEW a \in ActorNames, NEW code \in Codes, Returns(a, code),
         cycle' = "off" \/ (cycle' = cycle /\ a # Cycler)
  PROVE  CycleType'
<1>1. \A b \in ActorNames : result'[b] = IF b = a THEN code ELSE result[b]
  BY ReturnsEffect
<1>2. Cycler' = Cycler /\ Cycler \in ActorNames
  BY DEF Cycler, ActorNames
<1>. QED
  BY <1>1, <1>2 DEF CycleType

\* The controller command starts its actors.
LEMMA SetupStep ==
  ASSUME ~Over, FirstType, AskedType, PlainType, Standing, Answers, Draining, ResultType',
         mode \in {"controller", "exporter"},
         result["command"] = Running, result["server"] = NotStarted,
         result'["signals"] = result["signals"], result'["command"] = Running,
         result'["detector"] = IF mode = "controller" THEN Running ELSE result["detector"],
         result'["server"] = Running, result'["watcher"] = Running,
         cycle' = IF mode = "controller" THEN "list" ELSE "off",
         UNCHANGED <<mode, sigC, ended, first, workersGone, verdict>>,
         UNCHANGED groupVars
  PROVE  ShutdownInv'
<1>1. exit' = exit /\ exit = Running
  BY DEF groupVars, Over
<1>2. result["detector"] = NotStarted /\ result["watcher"] = NotStarted
  BY DEF Standing
<1>3. \A a \in ActorNames : result[a] \in Codes => result'[a] = result[a]
  BY <1>2, CodeValues DEF ActorNames
<1>4. FirstType'
  <2>1. first' \in [Groups -> ActorNames \cup {NoActor}]
    BY DEF FirstType
  <2>2. ASSUME NEW g \in Groups, first[g] # NoActor
        PROVE  GroupOf(first[g]) = g /\ result'[first[g]] \in Codes
    BY <1>3, <2>2 DEF FirstType
  <2>. QED
    BY <2>1, <2>2 DEF FirstType
<1>5. CycleType' /\ PlainType'
  BY <1>1 DEF CycleType, Cycler, PlainType, groupVars
<1>6. AskedType'
  BY DEF AskedType, groupVars, Actors, Main, Controller
<1>7. Standing'
  BY <1>1, CodeValues DEF Standing, Over
<1>8. Answers'
  BY <1>2, CodeValues DEF Answers
<1>9. Draining'
  BY <1>1, CodeValues DEF Draining, ServerPlace, Controller, groupVars
<1>. QED
  BY <1>4, <1>5, <1>6, <1>7, <1>8, <1>9 DEF ShutdownInv

LEMMA InvNext == ShutdownInv /\ [Next]_vars => ShutdownInv'
<1> SUFFICES ASSUME ShutdownInv, [Next]_vars PROVE ShutdownInv'
  OBVIOUS
<1>0. /\ ResultType /\ FirstType /\ CycleType /\ AskedType /\ PlainType
      /\ Standing /\ Answers /\ Draining
      /\ mode \in {"run", "controller", "exporter"}
  BY ModeOf DEF ShutdownInv, PlainType
<1>a. /\ "signals" \in ActorNames /\ "command" \in ActorNames /\ "detector" \in ActorNames
      /\ "server" \in ActorNames /\ "watcher" \in ActorNames
  BY DEF ActorNames
<1>b. sigC \in BOOLEAN /\ workersGone \in BOOLEAN /\ verdict \in {0, 2, 3, Running}
  BY <1>0 DEF PlainType
<1>c. Cycler = IF mode = "run" THEN "command" ELSE "detector"
  BY DEF Cycler
<1>1. CASE Signal
  BY <1>0, <1>1, <1>b, QuietStep DEF Signal, CycleType, Cycler
<1>2. CASE ~Over /\ Signals
  <2>1. Returns("signals", 0) /\ 0 \in Codes /\ UNCHANGED <<mode, ended, cycle, workersGone, verdict>>
    BY <1>2, CodeValues DEF Signals
  <2>2. CycleType'
    BY <1>0, <1>a, <1>c, <2>1, ReturnCycle
  <2>3. sigC' \in BOOLEAN /\ UNCHANGED groupVars
    BY <1>2, <1>b DEF Signals
  <2>. QED
    BY <1>0, <1>2, <1>a, <1>b, <2>1, <2>2, <2>3, ReturnStep
<1>3. CASE ~Over /\ SetupFails
  <2>1. /\ Returns("command", 1) /\ 1 \in Codes /\ mode # "run"
        /\ UNCHANGED <<mode, sigC, ended, cycle, workersGone, verdict>> /\ UNCHANGED groupVars
    BY <1>3, CodeValues DEF SetupFails
  <2>2. CycleType'
    BY <1>0, <1>a, <1>c, <2>1, ReturnCycle
  <2>3. /\ \A b \in {"detector", "server", "watcher"} : result[b] # Running
        /\ first["controller"] = NoActor
    BY <1>0, <1>3, CodeValues DEF SetupFails, Standing, Draining
  <2>. QED
    BY <1>0, <1>3, <1>a, <1>b, <2>1, <2>2, <2>3, ReturnStep
<1>4. CASE ~Over /\ Setup
  <2>1. \A a \in ActorNames : result'[a] = IF \E i \in DOMAIN Controller : Controller[i] = a
                                           THEN Running ELSE result[a]
    BY <1>0, <1>4 DEF Setup, ResultType
  <2>2. ResultType'
    BY <1>0, <1>4 DEF Setup, ResultType
  <2>3. CASE mode = "controller"
    <3>1. /\ result'["signals"] = result["signals"] /\ result'["command"] = result["command"]
          /\ result'["detector"] = Running /\ result'["server"] = Running
          /\ result'["watcher"] = Running
      BY <1>a, <2>1, <2>3, ActorsOf
    <3>. QED
      BY <1>0, <1>4, <2>2, <2>3, <3>1, CodeValues, SetupStep DEF Setup
  <2>4. CASE mode = "exporter"
    <3>1. /\ result'["signals"] = result["signals"] /\ result'["command"] = result["command"]
          /\ result'["detector"] = result["detector"] /\ result'["server"] = Running
          /\ result'["watcher"] = Running
      BY <1>a, <2>1, <2>4, ActorsOf
    <3>. QED
      BY <1>0, <1>4, <2>2, <2>4, <3>1, CodeValues, SetupStep DEF Setup
  <2>. QED
    BY <1>0, <1>4, <2>3, <2>4 DEF Setup
<1>5. ASSUME NEW p \in {"list", "hydrate", "create", "wait", "report", "select"},
             cycle # "off", GoesTo(p)
      PROVE  ShutdownInv'
  BY <1>0, <1>5, <1>b, QuietStep DEF GoesTo, CycleType, Cycler
<1>6. ASSUME NEW code \in {0, 1, 2, 3}, ~Over, RunReturns(code), cycle # "off",
             code = IF verdict' = Running THEN 1 ELSE verdict',
             verdict' \in {0, 2, 3, Running}
      PROVE  ShutdownInv'
  <2>1. /\ Returns("command", code) /\ code \in Codes /\ mode = "run" /\ cycle' = "off"
        /\ UNCHANGED <<mode, sigC, ended, workersGone>> /\ UNCHANGED groupVars
    BY <1>6, CodeValues DEF RunReturns
  <2>2. CycleType'
    BY <1>0, <1>a, <2>1, ReturnCycle
  <2>3. first["controller"] = NoActor
    BY <1>0, <2>1 DEF Standing, Draining
  <2>. QED
    BY <1>0, <1>6, <1>a, <1>b, <2>1, <2>2, <2>3, ReturnStep
<1>7. CASE WorkersLeave
  BY <1>0, <1>7, <1>b, QuietStep DEF WorkersLeave, CycleType, Cycler
<1>8. CASE ~Over /\ DetectorStops
  <2>1. /\ Returns("detector", 1) /\ 1 \in Codes /\ cycle' = "off"
        /\ UNCHANGED <<mode, sigC, ended, workersGone, verdict>> /\ UNCHANGED groupVars
    BY <1>8, CodeValues DEF DetectorStops, StopsOn
  <2>2. CycleType'
    BY <1>0, <1>a, <2>1, ReturnCycle
  <2>. QED
    BY <1>0, <1>8, <1>a, <1>b, <2>1, <2>2, ReturnStep
<1>9. CASE ~Over /\ (ServerFails \/ ServerCloses)
  <2>1. /\ Returns("server", 1) /\ 1 \in Codes
        /\ UNCHANGED <<mode, sigC, ended, cycle, workersGone, verdict>> /\ UNCHANGED groupVars
    BY <1>9, CodeValues DEF ServerFails, ServerCloses, ServerReturns
  <2>2. CycleType'
    BY <1>0, <1>a, <1>c, <2>1, ReturnCycle
  <2>. QED
    BY <1>0, <1>9, <1>a, <1>b, <2>1, <2>2, ReturnStep
<1>10. CASE ~Over /\ Watcher
  <2>1. /\ Returns("watcher", 0) /\ 0 \in Codes /\ "command" \in ended
        /\ UNCHANGED <<mode, sigC, ended, cycle, workersGone, verdict>> /\ UNCHANGED groupVars
    BY <1>10, CodeValues DEF Watcher, Ended
  <2>2. CycleType'
    BY <1>0, <1>a, <1>c, <2>1, ReturnCycle
  <2>. QED
    BY <1>0, <1>10, <1>a, <1>b, <2>1, <2>2, ReturnStep
<1>11. ASSUME ~Over, NEW g \in Groups, Interrupt(g) PROVE ShutdownInv'
  <2>1. /\ UNCHANGED <<mode, sigC, result, first, cycle, workersGone, exit, verdict>>
        /\ UNCHANGED <<request, drain>>
        /\ first[g] # NoActor /\ asked[g] < Len(Actors[g])
        /\ asked' = [asked EXCEPT ![g] = @ + 1]
        /\ exitClosed' \in BOOLEAN
    BY <1>0, <1>11 DEF Interrupt, Interrupting, PlainType
  <2>a. /\ asked \in [Groups -> Nat] /\ Len(Actors[g]) \in Nat
        /\ Len(Controller) \in Nat
    BY <1>0, ActorsOf DEF AskedType, Groups
  <2>2. AskedType'
    <3>1. Actors' = Actors
      BY <2>1 DEF Actors, Main, Controller
    <3>. QED
      BY <1>0, <2>1, <2>a, <3>1 DEF AskedType
  <2>b. g = "controller" =>
          /\ asked[g] + 1 \in 1..Len(Controller)
          /\ Due(g) = Controller[asked[g] + 1]
    BY <2>1, <2>a, ActorsOf DEF Due
  <2>3. ended' \subseteq {"command", "detector"}
    BY <1>0, <1>11 DEF Interrupt, PlainType
  <2>4. "command" \in ended => "command" \in ended'
    BY <1>11 DEF Interrupt
  <2>5. "command" \in ended' => first'["main"] # NoActor
    <3>1. CASE g = "main"
      BY <2>1, <3>1
    <3>2. CASE g = "controller"
      <4>1. Due(g) # "command"
        BY <1>0, <2>b, <3>2, ActorsOf
      <4>2. ended' \subseteq ended \cup {"detector"}
        BY <1>11, <4>1 DEF Interrupt
      <4>. QED
        BY <1>0, <2>1, <4>2 DEF Answers
    <3>. QED
      BY <1>11, <3>1, <3>2 DEF Groups
  <2>6. ResultType' /\ FirstType' /\ CycleType' /\ PlainType'
    BY <1>0, <2>1, <2>3 DEF ResultType, FirstType, CycleType, Cycler, PlainType
  <2>7. Standing' /\ Answers'
    BY <1>0, <2>1, <2>4, <2>5 DEF Standing, Answers, Over
  <2>8. Draining'
    <3>1. ServerPlace' = ServerPlace /\ Controller' = Controller
      BY <2>1 DEF ServerPlace, Controller
    <3>2. CASE g = "main"
      <4>1. asked'["controller"] = asked["controller"]
        BY <2>1, <2>a, <3>2 DEF Groups
      <4>. QED
        BY <1>0, <2>1, <3>1, <4>1 DEF Draining
    <3>3. CASE g = "controller"
      <4>1. /\ asked'["controller"] = asked["controller"] + 1
            /\ asked["controller"] \in Nat
        BY <2>1, <2>a, <3>3 DEF Groups
      <4>2. ASSUME asked["controller"] + 1 = ServerPlace PROVE Due(g) = "server"
        BY <1>0, <2>b, <3>3, <4>2, ActorsOf DEF ServerPlace
      <4>3. asked'["controller"] >= ServerPlace => drain \notin {"no", "on"}
        BY <1>0, <1>11, <4>1, <4>2 DEF Draining, ServerPlace, Interrupt
      <4>4. asked["controller"] # Len(Controller)
        BY <2>b, <3>3, <4>1, <2>a
      <4>. QED
        BY <1>0, <2>1, <3>1, <4>3, <4>4 DEF Draining
    <3>. QED
      BY <1>11, <3>2, <3>3 DEF Groups
  <2>. QED
    BY <2>2, <2>6, <2>7, <2>8 DEF ShutdownInv
<1>12. CASE ~Over /\ ControllerReturns
  <2>1. /\ result["server"] # NotStarted /\ AllReturned("controller")
        /\ Returns("command", result[first["controller"]])
        /\ asked["controller"] = Len(Controller)
        /\ UNCHANGED <<mode, sigC, ended, cycle, workersGone, verdict>> /\ UNCHANGED groupVars
    BY <1>12 DEF ControllerReturns
  <2>2. mode \in {"controller", "exporter"}
    BY <1>0, <2>1 DEF Standing
  <2>3. \A b \in {"detector", "server", "watcher"} : result[b] # Running
    <3>1. CASE mode = "controller"
      BY <2>1, <3>1, ActorsOf DEF AllReturned
    <3>2. CASE mode = "exporter"
      BY <1>0, <2>1, <3>2, CodeValues, ActorsOf DEF AllReturned, Standing
    <3>. QED
      BY <2>2, <3>1, <3>2
  <2>4. result["server"] \in Codes /\ first["controller"] # NoActor
    BY <1>0, <2>1, <2>3, CodeValues DEF Answers
  <2>5. /\ result[first["controller"]] \in Codes
        /\ first["controller"] \in {"detector", "server", "watcher"}
    BY <1>0, <2>4 DEF FirstType, Groups, GroupOf, ActorNames
  <2>6. result[first["controller"]] \in {0, 1}
    BY <1>0, <2>5, CodeValues DEF Answers
  <2>7. first["main"] = NoActor => result[first["controller"]] = 1
    BY <1>0, <2>5, CodeValues DEF Answers
  <2>8. CycleType'
    BY <1>0, <1>a, <1>c, <2>1, <2>2, <2>5, ReturnCycle
  <2>. QED
    BY <1>0, <1>12, <1>a, <1>b, <2>1, <2>2, <2>3, <2>5, <2>6, <2>7, <2>8, ReturnStep
<1>13. CASE ~Over /\ Exit
  <2>1. /\ first["main"] # NoActor /\ AllReturned("main") /\ exit' = result[first["main"]]
        /\ UNCHANGED <<mode, sigC, exitClosed, ended, result, first, asked, cycle,
                       workersGone, verdict, request, drain>>
    BY <1>13 DEF Exit, ExitWith
  <2>2. result["signals"] # Running /\ result["command"] # Running
    BY <2>1, ActorsOf DEF AllReturned
  <2>3. exit' \in Codes
    BY <1>0, <2>1 DEF FirstType, Groups
  <2>4. ResultType' /\ FirstType' /\ CycleType' /\ PlainType' /\ Answers'
    BY <1>0, <2>1, <2>3 DEF ResultType, FirstType, CycleType, Cycler, PlainType, Answers
  <2>5. AskedType'
    BY <1>0, <2>1 DEF AskedType, Actors, Main, Controller
  <2>6. Standing' /\ Draining'
    BY <1>0, <2>1, <2>2 DEF Standing, Draining, ServerPlace, Controller, Over
  <2>. QED
    BY <2>4, <2>5, <2>6 DEF ShutdownInv
<1>14. CASE UNCHANGED vars
  BY <1>0, <1>14, <1>b, QuietStep DEF vars, groupVars, CycleType, Cycler
<1>15. CASE ~Over /\ Cycle
  <2>1. CASE List \/ Hydrate \/ Create \/ Wait
    BY <1>5, <2>1 DEF List, Hydrate, Create, Wait
  <2>2. CASE ListFails
    <3>1. cycle # "off"
      BY <2>2 DEF ListFails
    <3>2. CASE RunReturns(1) /\ UNCHANGED verdict
      <4>1. result["command"] = Running /\ mode = "run"
        BY <3>2 DEF RunReturns, Returns
      <4>2. verdict = Running
        BY <1>0, <4>1 DEF Answers
      <4>. QED
        BY <1>6, <1>15, <3>1, <3>2, <4>2, CodeValues
    <3>3. CASE GoesTo("select")
      BY <1>5, <3>1, <3>3
    <3>. QED
      BY <2>2, <3>2, <3>3 DEF ListFails
  <2>3. CASE Report
    <3>1. cycle # "off"
      BY <2>3 DEF Report
    <3>2. CASE RunReturns(1) /\ UNCHANGED verdict
      <4>1. result["command"] = Running /\ mode = "run"
        BY <3>2 DEF RunReturns, Returns
      <4>2. verdict = Running
        BY <1>0, <4>1 DEF Answers
      <4>. QED
        BY <1>6, <1>15, <3>1, <3>2, <4>2, CodeValues
    <3>3. ASSUME NEW code \in {0, 2, 3}, verdict' = code, RunReturns(code)
          PROVE  ShutdownInv'
      BY <1>6, <1>15, <3>1, <3>3, CodeValues
    <3>. QED
      BY <2>3, <3>2, <3>3 DEF Report
  <2>. QED
    BY <1>15, <2>1, <2>2, <2>3 DEF Cycle
<1>16. CASE DetectorTick
  BY <1>5, <1>16 DEF DetectorTick
<1>17. CASE AcceptRequest \/ AnswerRequest
  <2>1. drain' = drain /\ request' \in BOOLEAN
    BY <1>17 DEF AcceptRequest, AnswerRequest, RequestsAre
  <2>2. request' => drain # "done" /\ result["server"] # NotStarted
    BY <1>0, <1>17, CodeValues DEF AcceptRequest, AnswerRequest, RequestsAre, Draining
  <2>3. Draining'
    BY <1>0, <1>17, <2>1, <2>2 DEF AcceptRequest, AnswerRequest, RequestsAre, Draining,
                                   ServerPlace, Controller
  <2>. QED
    BY <1>0, <1>17, <2>1, <2>3, DrainStep DEF AcceptRequest, AnswerRequest, RequestsAre, PlainType
<1>18. CASE CloseServer \/ Drained
  <2>1. /\ Draining' /\ request' = request
        /\ drain' \in {"on", "done", "late", "cut"}
    BY <1>0, <1>18 DEF CloseServer, Drained, DrainIs, Interrupting, Draining, ServerPlace,
                       Controller
  <2>. QED
    BY <1>0, <1>18, <2>1, DrainStep DEF CloseServer, Drained, DrainIs, PlainType
<1>. QED
  BY <1>1, <1>2, <1>3, <1>4, <1>7, <1>8, <1>9, <1>10, <1>11, <1>12, <1>13, <1>14, <1>15,
     <1>16, <1>17, <1>18 DEF Next

LEMMA Inductive == Spec => []ShutdownInv
  BY InvInit, InvNext, PTL DEF Spec

(***************************************************************************)
(* The state of the two run groups is well formed: in particular a group's *)
(* first actor has returned, and a cycle has a running actor to run it.    *)
(***************************************************************************)
THEOREM TypeCorrect == Spec => []TypeOK
<1>1. ShutdownInv => TypeOK
  BY TypeParts DEF ShutdownInv
<1>. QED
  BY <1>1, Inductive, PTL

(***************************************************************************)
(* However the process was started and whichever actor stopped first, no   *)
(* actor, no cycle and no Shutdown of the server is left when it exits,    *)
(* and no open request that Shutdown has not given up.                     *)
(***************************************************************************)
THEOREM GracefulExitHolds == Spec => []GracefulExit
<1>1. ASSUME ShutdownInv PROVE GracefulExit
  <2>0. SUFFICES ASSUME Over
                 PROVE  /\ cycle = "off" /\ drain # "on"
                        /\ \A a \in ActorNames : result[a] # Running
                        /\ request => drain \in {"late", "cut"}
    BY <1>1 DEF GracefulExit, ShutdownInv, ResultType
  <2>1. \A a \in ActorNames : result[a] # Running
    BY <1>1, <2>0 DEF ShutdownInv, Standing, ActorNames
  <2>2. Cycler \in ActorNames
    BY DEF Cycler, ActorNames
  <2>3. cycle = "off"
    BY <1>1, <2>1, <2>2 DEF ShutdownInv, CycleType
  <2>4. result["server"] # NotStarted => drain \notin {"no", "on"}
    <3>1. SUFFICES ASSUME result["server"] # NotStarted PROVE drain \notin {"no", "on"}
      OBVIOUS
    <3>2. first["controller"] # NoActor
      BY <1>1, <2>1, <3>1 DEF ShutdownInv, ResultType, Answers, ActorNames
    <3>3. asked["controller"] = Len(Controller)
      BY <1>1, <2>0, <3>2 DEF ShutdownInv, Standing, Draining
    <3>4. mode \in {"controller", "exporter"}
      BY <1>1, <3>1, ModeOf DEF ShutdownInv, PlainType, Standing
    <3>5. Len(Controller) >= ServerPlace
      BY <3>4, ActorsOf DEF ServerPlace
    <3>. QED
      BY <1>1, <3>3, <3>5 DEF ShutdownInv, Draining
  <2>5. drain = "on" => result["server"] # NotStarted
    BY <1>1 DEF ShutdownInv, Draining
  <2>6. request => drain \in {"late", "cut"}
    BY <1>1, <2>4 DEF ShutdownInv, Draining, PlainType
  <2>. QED
    BY <2>1, <2>3, <2>4, <2>5, <2>6
<1>. QED
  BY <1>1, Inductive, PTL

(***************************************************************************)
(* The exit code of the process is what the README says of it, except that *)
(* a signalled process may end with 0 whatever its cycle has found.        *)
(***************************************************************************)
THEOREM ExitCodeTrueHolds == Spec => []ExitCodeTrue
<1>1. ASSUME ShutdownInv PROVE ExitCodeTrue
  <2>0. SUFFICES ASSUME Over
                 PROVE  /\ exit \in {2, 3} => verdict = exit
                        /\ first["main"] = "command" /\ mode = "run" =>
                             exit = IF verdict = Running THEN 1 ELSE verdict
                        /\ first["main"] = "command" /\ mode # "run" => exit = 1
    BY DEF ExitCodeTrue
  <2>1. /\ Standing /\ Answers /\ FirstType
        /\ exit = result[first["main"]] /\ first["main"] # NoActor
        /\ result["command"] # Running /\ result["signals"] # Running
    BY <1>1, <2>0 DEF ShutdownInv, Standing
  <2>2. first["main"] \in {"signals", "command"}
    BY <2>1 DEF FirstType, Groups, GroupOf, ActorNames
  <2>. QED
    BY <2>1, <2>2, CodeValues DEF Answers
<1>. QED
  BY <1>1, Inductive, PTL
=============================================================================
