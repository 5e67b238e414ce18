---------------------------- MODULE DaemonProofs ----------------------------
(***************************************************************************)
(* The daemon for any configuration, any documents and any number of       *)
(* products and threads.  ProductionGateway: what serves was live and is   *)
(* not stopped, what is stopped is stopped completely, and the process     *)
(* ends only then.  DaemonStartup: the service is given every configured   *)
(* product once, with the scales that the exchange lists, and a request    *)
(* always has a result.                                                    *)
(***************************************************************************)
EXTENDS ProductionGateway, DaemonStartup, FiniteSetTheorems, TLAPS


-----------------------------------------------------------------------------
(* The gateway.                                                             *)


\* Where the main thread is inside start(), and any thread inside the shutdown:
\* both under lifecycle_mutex_.
StartSteps ==
    {"first_check", "starting", "results", "poll_stop", "poll_failures",
     "poll_live", "poll_clock", "check_before_bind", "bind",
     "check_after_bind", "serve"}

ShutdownSteps == {"stop_server", "stop_products", "finish"}

\* The mutex: one thread at most is inside.
HolderIsInside ==
    \A t \in Threads :
        pc[t] \in StartSteps \cup ShutdownSteps <=> lifecycle = t

\* state_ tells what the holder is doing.
StateFollowsHolder ==
    /\ state = "Starting" <=> pc["main"] \in StartSteps
    /\ state = "Stopping" <=> \E t \in Threads : pc[t] \in ShutdownSteps

\* Until the shutdown has come to the products none of them is stopped.
NoneStoppedEarly ==
    \/ state \in {"Constructed", "Starting", "Serving"}
    \/ \E t \in Threads : pc[t] = "stop_server"
    => \A p \in Products : product[p] # "stopped"

\* The passes of the readiness poll: what it has seen live has been live.
PollIsHonest ==
    /\ \A p \in Products : product[p] = "live" => p \in wasLive
    /\ pc["main"] \in {"poll_live", "poll_clock"} /\ all_live
        => Products \ todo \subseteq wasLive
    /\ pc["main"] = "poll_clock" => todo = {}
    /\ pc["main"] \in {"check_before_bind", "bind", "check_after_bind", "serve"}
        => Products \subseteq wasLive

\* The server is bound from Binds to the first step of a shutdown.
BoundWhen ==
    server = "bound" =>
        /\ Products \subseteq wasLive
        /\ \/ pc["main"] \in {"check_after_bind", "serve"}
           \/ state = "Serving"
           \/ \E t \in Threads : pc[t] = "stop_server"

\* The shutdown leaves behind it what it has stopped.
ShutdownLeaves ==
    /\ \A t \in Threads :
        /\ pc[t] = "stop_products"
            => /\ server = "down"
               /\ \A p \in Products \ todo : product[p] = "stopped"
        /\ pc[t] = "finish"
            => server = "down" /\ \A p \in Products : product[p] = "stopped"
    /\ state = "Stopped"
        => server = "down" /\ \A p \in Products : product[p] = "stopped"

\* start() answers StopRequested, and the process success, only after a request.
SuccessIsAsked ==
    code = "StopRequested" \/ verdict = "success" => StopSeen

\* The process ends behind the gateway.
ExitIsLast == pc["main"] = "exit" => state = "Stopped"

IInv ==
    /\ TypeOK /\ HolderIsInside /\ StateFollowsHolder /\ NoneStoppedEarly
    /\ PollIsHonest /\ BoundWhen /\ ShutdownLeaves /\ SuccessIsAsked
    /\ ExitIsLast

-----------------------------------------------------------------------------
(* One lemma per part of the invariant.                                      *)

\* The main thread in start(), and around it.
StartActions ==
    \/ EntersStart \/ FirstCheck \/ (\E p \in Products : StartsProduct(p))
    \/ AllStarted \/ ChecksResults \/ PollChecksStop
    \/ (\E p \in Products : PollLooksForFailure(p)) \/ FailuresChecked
    \/ (\E p \in Products : PollLooksForLive(p)) \/ LiveChecked
    \/ PollChecksClock \/ ChecksStop("check_before_bind", "bind") \/ Binds
    \/ ChecksStop("check_after_bind", "serve") \/ Serves \/ StartThrows

DaemonActions ==
    \/ StartFailed \/ ReportsServing \/ SignalReceived \/ ReportsStopped
    \/ Destroys \/ ObservationThrows

\* Threads go where the code sends them; only the main thread starts.
LEMMA ControlStep ==
    ASSUME IInv, [Next]_vars PROVE ControlOK'
<1> USE GatewayAssumption DEF IInv, TypeOK, ControlOK, MainSteps, StopSteps,
      Threads, RollsBack, MainGoes, Goes, Leaves, Returned, lifecycleVars,
      startVars, aroundVars
<1>1. CASE StartActions
  BY <1>1 DEF StartActions, EntersStart, FirstCheck, StartsProduct,
     AllStarted, ChecksResults, PollChecksStop, PollLooksForFailure,
     FailuresChecked, PollLooksForLive, LiveChecked, PollChecksClock,
     ChecksStop, Binds, Serves, StartThrows
<1>2. CASE DaemonActions
  BY <1>2 DEF DaemonActions, StartFailed, ReportsServing, SignalReceived,
     ReportsStopped, Destroys, ObservationThrows
<1>3. ASSUME NEW t \in Threads,
             \/ RequestsStop(t) \/ EntersStop(t) \/ StopsServer(t)
             \/ (\E p \in Products : StopsProduct(t, p))
             \/ ProductsStopped(t) \/ FinishesStop(t)
       PROVE  ControlOK'
  BY <1>3 DEF RequestsStop, EntersStop, StopsServer, StopsProduct,
     ProductsStopped, FinishesStop
<1>4. CASE \/ (\E p \in Products : ProductChanges(p)) \/ DeadlinePasses
           \/ SignalArrives \/ UNCHANGED vars
  BY <1>4 DEF ProductChanges, DeadlinePasses, SignalArrives, vars
<1>5. ASSUME NEW t \in Stoppers, CallsStop(t)
       PROVE  ControlOK'
  BY <1>5 DEF CallsStop
<1> QED
  BY <1>1, <1>2, <1>3, <1>4, <1>5 DEF Next, MainStep, StopStep, Exited,
     StartActions, DaemonActions

\* The flags stay Boolean.
LEMMA FlagsStep ==
    ASSUME IInv, [Next]_vars PROVE FlagsOK'
<1> USE GatewayAssumption DEF IInv, TypeOK, FlagsOK, RollsBack, MainGoes,
      Goes, Leaves, Returned, lifecycleVars, startVars, aroundVars
<1>1. CASE \/ EntersStart \/ FirstCheck
           \/ (\E p \in Products : StartsProduct(p)) \/ AllStarted
           \/ ChecksResults \/ PollChecksStop
           \/ (\E p \in Products : PollLooksForFailure(p))
           \/ FailuresChecked
  BY Zenon, <1>1 DEF EntersStart, FirstCheck, StartsProduct, AllStarted,
     ChecksResults, PollChecksStop, PollLooksForFailure, FailuresChecked
<1>2. CASE \/ (\E p \in Products : PollLooksForLive(p)) \/ LiveChecked
           \/ PollChecksClock \/ ChecksStop("check_before_bind", "bind")
           \/ Binds \/ ChecksStop("check_after_bind", "serve") \/ Serves
           \/ StartThrows
  BY Zenon, <1>2 DEF PollLooksForLive, LiveChecked, PollChecksClock,
     ChecksStop, Binds, Serves, StartThrows
<1>3. CASE DaemonActions
  BY Zenon, <1>3 DEF DaemonActions, StartFailed, ReportsServing,
     SignalReceived, ReportsStopped, Destroys, ObservationThrows
<1>4. ASSUME NEW t \in Threads,
             \/ RequestsStop(t) \/ EntersStop(t) \/ StopsServer(t)
             \/ (\E p \in Products : StopsProduct(t, p))
             \/ ProductsStopped(t) \/ FinishesStop(t)
       PROVE  FlagsOK'
  BY Zenon, <1>4 DEF RequestsStop, EntersStop, StopsServer, StopsProduct,
     ProductsStopped, FinishesStop
<1>5. CASE \/ (\E p \in Products : ProductChanges(p)) \/ DeadlinePasses
           \/ SignalArrives \/ UNCHANGED vars
  BY Zenon, <1>5 DEF ProductChanges, DeadlinePasses, SignalArrives, vars
<1>6. ASSUME NEW t \in Stoppers, CallsStop(t)
       PROVE  FlagsOK'
  BY Zenon, <1>6 DEF CallsStop
<1> QED
  BY <1>1, <1>2, <1>3, <1>4, <1>5, <1>6 DEF Next, MainStep, StopStep, Exited,
     StartActions, DaemonActions

\* The rest of the type invariant.
LEMMA DataStep ==
    ASSUME DataOK, [Next]_vars PROVE DataOK'
<1> USE GatewayAssumption DEF DataOK, GatewayStates, StartCodes,
      ProductStates, RollsBack, MainGoes, Goes, Leaves, Returned,
      lifecycleVars, startVars, aroundVars
<1>1. CASE StartActions
  BY <1>1 DEF StartActions, EntersStart, FirstCheck, StartsProduct,
     AllStarted, ChecksResults, PollChecksStop, PollLooksForFailure,
     FailuresChecked, PollLooksForLive, LiveChecked, PollChecksClock,
     ChecksStop, Binds, Serves, StartThrows
<1>2. CASE DaemonActions
  BY <1>2 DEF DaemonActions, StartFailed, ReportsServing, SignalReceived,
     ReportsStopped, Destroys, ObservationThrows
<1>3. ASSUME NEW t \in Threads,
             \/ RequestsStop(t) \/ EntersStop(t) \/ StopsServer(t)
             \/ (\E p \in Products : StopsProduct(t, p))
             \/ ProductsStopped(t) \/ FinishesStop(t)
       PROVE  DataOK'
  BY <1>3 DEF RequestsStop, EntersStop, StopsServer, StopsProduct,
     ProductsStopped, FinishesStop
<1>4. CASE \/ (\E p \in Products : ProductChanges(p)) \/ DeadlinePasses
           \/ SignalArrives \/ UNCHANGED vars
  BY <1>4 DEF ProductChanges, DeadlinePasses, SignalArrives, vars
<1>5. ASSUME NEW t \in Stoppers, CallsStop(t)
       PROVE  DataOK'
  BY <1>5 DEF CallsStop
<1> QED
  BY <1>1, <1>2, <1>3, <1>4, <1>5 DEF Next, MainStep, StopStep, Exited,
     StartActions, DaemonActions

\* lifecycle_mutex_ is taken on the way in and released on the way out.
LEMMA HolderStep ==
    ASSUME IInv, [Next]_vars PROVE HolderIsInside'
<1> USE GatewayAssumption DEF IInv, TypeOK, ControlOK, HolderIsInside,
      Threads, StartSteps, ShutdownSteps, StopSteps, RollsBack, MainGoes,
      Goes, Leaves, Returned, lifecycleVars, startVars, aroundVars
<1>1. CASE StartActions
  BY <1>1 DEF StartActions, EntersStart, FirstCheck, StartsProduct,
     AllStarted, ChecksResults, PollChecksStop, PollLooksForFailure,
     FailuresChecked, PollLooksForLive, LiveChecked, PollChecksClock,
     ChecksStop, Binds, Serves, StartThrows
<1>2. CASE DaemonActions
  BY <1>2 DEF DaemonActions, StartFailed, ReportsServing, SignalReceived,
     ReportsStopped, Destroys, ObservationThrows
<1>3. ASSUME NEW t \in Threads,
             \/ RequestsStop(t) \/ EntersStop(t) \/ StopsServer(t)
             \/ (\E p \in Products : StopsProduct(t, p))
             \/ ProductsStopped(t) \/ FinishesStop(t)
       PROVE  HolderIsInside'
  BY <1>3 DEF RequestsStop, EntersStop, StopsServer, StopsProduct,
     ProductsStopped, FinishesStop
<1>4. CASE \/ (\E p \in Products : ProductChanges(p)) \/ DeadlinePasses
           \/ SignalArrives \/ UNCHANGED vars
  BY <1>4 DEF ProductChanges, DeadlinePasses, SignalArrives, vars
<1>5. ASSUME NEW t \in Stoppers, CallsStop(t)
       PROVE  HolderIsInside'
  BY <1>5 DEF CallsStop
<1> QED
  BY <1>1, <1>2, <1>3, <1>4, <1>5 DEF Next, MainStep, StopStep, Exited,
     StartActions, DaemonActions

\* state_ is written by the holder, with its step.
LEMMA StateStep ==
    ASSUME IInv, [Next]_vars PROVE StateFollowsHolder'
<1> USE GatewayAssumption DEF IInv, TypeOK, ControlOK, StateFollowsHolder,
      HolderIsInside, Threads, StartSteps, ShutdownSteps, StopSteps,
      RollsBack, MainGoes, Goes, Leaves, Returned, lifecycleVars, startVars,
      aroundVars
<1>1. CASE StartActions
  BY <1>1 DEF StartActions, EntersStart, FirstCheck, StartsProduct,
     AllStarted, ChecksResults, PollChecksStop, PollLooksForFailure,
     FailuresChecked, PollLooksForLive, LiveChecked, PollChecksClock,
     ChecksStop, Binds, Serves, StartThrows
<1>2. CASE DaemonActions
  BY <1>2 DEF DaemonActions, StartFailed, ReportsServing, SignalReceived,
     ReportsStopped, Destroys, ObservationThrows
<1>3. ASSUME NEW t \in Threads,
             \/ RequestsStop(t) \/ EntersStop(t) \/ StopsServer(t)
             \/ (\E p \in Products : StopsProduct(t, p))
             \/ ProductsStopped(t) \/ FinishesStop(t)
       PROVE  StateFollowsHolder'
  BY <1>3 DEF RequestsStop, EntersStop, StopsServer, StopsProduct,
     ProductsStopped, FinishesStop
<1>4. CASE \/ (\E p \in Products : ProductChanges(p)) \/ DeadlinePasses
           \/ SignalArrives \/ UNCHANGED vars
  BY <1>4 DEF ProductChanges, DeadlinePasses, SignalArrives, vars
<1>5. ASSUME NEW t \in Stoppers, CallsStop(t)
       PROVE  StateFollowsHolder'
  BY <1>5 DEF CallsStop
<1> QED
  BY <1>1, <1>2, <1>3, <1>4, <1>5 DEF Next, MainStep, StopStep, Exited,
     StartActions, DaemonActions

\* A product is stopped only behind the server.
LEMMA NoneStoppedStep ==
    ASSUME IInv, [Next]_vars PROVE NoneStoppedEarly'
<1> USE GatewayAssumption DEF IInv, TypeOK, ControlOK, DataOK, GatewayStates,
      NoneStoppedEarly, StateFollowsHolder, HolderIsInside, Threads,
      StartSteps, ShutdownSteps, StopSteps, RollsBack, MainGoes, Goes, Leaves,
      Returned, lifecycleVars, startVars, aroundVars
<1>1. CASE StartActions
  BY <1>1 DEF StartActions, EntersStart, FirstCheck, StartsProduct,
     AllStarted, ChecksResults, PollChecksStop, PollLooksForFailure,
     FailuresChecked, PollLooksForLive, LiveChecked, PollChecksClock,
     ChecksStop, Binds, Serves, StartThrows
<1>2. CASE DaemonActions
  BY <1>2 DEF DaemonActions, StartFailed, ReportsServing, SignalReceived,
     ReportsStopped, Destroys, ObservationThrows
<1>3. ASSUME NEW t \in Threads,
             \/ RequestsStop(t) \/ EntersStop(t) \/ StopsServer(t)
             \/ (\E p \in Products : StopsProduct(t, p))
             \/ ProductsStopped(t) \/ FinishesStop(t)
       PROVE  NoneStoppedEarly'
  BY <1>3 DEF RequestsStop, EntersStop, StopsServer, StopsProduct,
     ProductsStopped, FinishesStop
<1>4. CASE \/ (\E p \in Products : ProductChanges(p)) \/ DeadlinePasses
           \/ SignalArrives \/ UNCHANGED vars
  BY <1>4 DEF ProductChanges, DeadlinePasses, SignalArrives, vars
<1>5. ASSUME NEW t \in Stoppers, CallsStop(t)
       PROVE  NoneStoppedEarly'
  BY <1>5 DEF CallsStop
<1> QED
  BY <1>1, <1>2, <1>3, <1>4, <1>5 DEF Next, MainStep, StopStep, Exited,
     StartActions, DaemonActions

\* wasLive grows with what the poll sees, and the poll starts over with todo.
LEMMA PollStep ==
    ASSUME IInv, [Next]_vars PROVE PollIsHonest'
<1> USE GatewayAssumption DEF IInv, TypeOK, ControlOK, DataOK, PollIsHonest,
      HolderIsInside, Threads, StartSteps, ShutdownSteps, StopSteps,
      RollsBack, MainGoes, Goes, Leaves, Returned, lifecycleVars, startVars,
      aroundVars
<1>1. CASE \/ EntersStart \/ FirstCheck
           \/ (\E p \in Products : StartsProduct(p)) \/ AllStarted
           \/ ChecksResults \/ PollChecksStop
           \/ (\E p \in Products : PollLooksForFailure(p))
           \/ FailuresChecked
  BY <1>1 DEF EntersStart, FirstCheck, StartsProduct, AllStarted,
     ChecksResults, PollChecksStop, PollLooksForFailure, FailuresChecked
<1>2. ASSUME NEW p \in Products, PollLooksForLive(p)
       PROVE  PollIsHonest'
  <2>1. all_live' => all_live /\ product[p] = "live"
    BY Zenon, <1>2 DEF PollLooksForLive
  <2>2. /\ pc["main"] = "poll_live" /\ todo' = todo \ {p}
        /\ UNCHANGED <<pc, product, wasLive>>
    BY <1>2 DEF PollLooksForLive
  <2> QED BY <2>1, <2>2
<1>3. CASE \/ LiveChecked \/ PollChecksClock
           \/ ChecksStop("check_before_bind", "bind")
  BY <1>3 DEF LiveChecked, PollChecksClock, ChecksStop
<1>4. CASE \/ Binds \/ ChecksStop("check_after_bind", "serve") \/ Serves
           \/ StartThrows
  BY <1>4 DEF Binds, ChecksStop, Serves, StartThrows
<1>5. CASE DaemonActions
  BY <1>5 DEF DaemonActions, StartFailed, ReportsServing, SignalReceived,
     ReportsStopped, Destroys, ObservationThrows
<1>6. ASSUME NEW t \in Threads,
             \/ RequestsStop(t) \/ EntersStop(t) \/ StopsServer(t)
             \/ (\E p \in Products : StopsProduct(t, p))
             \/ ProductsStopped(t) \/ FinishesStop(t)
       PROVE  PollIsHonest'
  BY <1>6 DEF RequestsStop, EntersStop, StopsServer, StopsProduct,
     ProductsStopped, FinishesStop
<1>7. CASE \/ (\E p \in Products : ProductChanges(p)) \/ DeadlinePasses
           \/ SignalArrives \/ UNCHANGED vars
  BY <1>7 DEF ProductChanges, DeadlinePasses, SignalArrives, vars
<1>8. ASSUME NEW t \in Stoppers, CallsStop(t)
       PROVE  PollIsHonest'
  BY <1>8 DEF CallsStop
<1> QED
  BY <1>1, <1>2, <1>3, <1>4, <1>5, <1>6, <1>7, <1>8
  DEF Next, MainStep, StopStep, Exited, StartActions, DaemonActions

\* The server is bound behind the poll and down before the products.
LEMMA BoundStep ==
    ASSUME IInv, [Next]_vars PROVE BoundWhen'
<1> USE GatewayAssumption DEF IInv, TypeOK, ControlOK, BoundWhen,
      PollIsHonest, StateFollowsHolder, HolderIsInside, Threads, StartSteps,
      ShutdownSteps, StopSteps, RollsBack, MainGoes, Goes, Leaves, Returned,
      lifecycleVars, startVars, aroundVars
<1>1. CASE StartActions
  BY <1>1 DEF StartActions, EntersStart, FirstCheck, StartsProduct,
     AllStarted, ChecksResults, PollChecksStop, PollLooksForFailure,
     FailuresChecked, PollLooksForLive, LiveChecked, PollChecksClock,
     ChecksStop, Binds, Serves, StartThrows
<1>2. CASE DaemonActions
  BY <1>2 DEF DaemonActions, StartFailed, ReportsServing, SignalReceived,
     ReportsStopped, Destroys, ObservationThrows
<1>3. ASSUME NEW t \in Threads,
             \/ RequestsStop(t) \/ EntersStop(t) \/ StopsServer(t)
             \/ (\E p \in Products : StopsProduct(t, p))
             \/ ProductsStopped(t) \/ FinishesStop(t)
       PROVE  BoundWhen'
  BY <1>3 DEF RequestsStop, EntersStop, StopsServer, StopsProduct,
     ProductsStopped, FinishesStop
<1>4. CASE \/ (\E p \in Products : ProductChanges(p)) \/ DeadlinePasses
           \/ SignalArrives \/ UNCHANGED vars
  BY <1>4 DEF ProductChanges, DeadlinePasses, SignalArrives, vars
<1>5. ASSUME NEW t \in Stoppers, CallsStop(t)
       PROVE  BoundWhen'
  BY <1>5 DEF CallsStop
<1> QED
  BY <1>1, <1>2, <1>3, <1>4, <1>5 DEF Next, MainStep, StopStep, Exited,
     StartActions, DaemonActions

\* The shutdown works through the products, and nothing undoes it.
LEMMA ShutdownStep ==
    ASSUME IInv, [Next]_vars PROVE ShutdownLeaves'
<1> USE GatewayAssumption DEF IInv, TypeOK, ControlOK, DataOK, ShutdownLeaves,
      StateFollowsHolder, HolderIsInside, Threads, StartSteps, ShutdownSteps,
      StopSteps, RollsBack, MainGoes, Goes, Leaves, Returned, lifecycleVars,
      startVars, aroundVars
<1>1. CASE StartActions
  BY <1>1 DEF StartActions, EntersStart, FirstCheck, StartsProduct,
     AllStarted, ChecksResults, PollChecksStop, PollLooksForFailure,
     FailuresChecked, PollLooksForLive, LiveChecked, PollChecksClock,
     ChecksStop, Binds, Serves, StartThrows
<1>2. CASE DaemonActions
  BY <1>2 DEF DaemonActions, StartFailed, ReportsServing, SignalReceived,
     ReportsStopped, Destroys, ObservationThrows
<1>3. ASSUME NEW t \in Threads,
             \/ RequestsStop(t) \/ EntersStop(t) \/ StopsServer(t)
             \/ (\E p \in Products : StopsProduct(t, p))
             \/ ProductsStopped(t) \/ FinishesStop(t)
       PROVE  ShutdownLeaves'
  BY <1>3 DEF RequestsStop, EntersStop, StopsServer, StopsProduct,
     ProductsStopped, FinishesStop
<1>4. CASE \/ (\E p \in Products : ProductChanges(p)) \/ DeadlinePasses
           \/ SignalArrives \/ UNCHANGED vars
  BY <1>4 DEF ProductChanges, DeadlinePasses, SignalArrives, vars
<1>5. ASSUME NEW t \in Stoppers, CallsStop(t)
       PROVE  ShutdownLeaves'
  BY <1>5 DEF CallsStop
<1> QED
  BY <1>1, <1>2, <1>3, <1>4, <1>5 DEF Next, MainStep, StopStep, Exited,
     StartActions, DaemonActions

\* A request to stop is never taken back.
LEMMA SuccessStep ==
    ASSUME IInv, [Next]_vars PROVE SuccessIsAsked'
<1> USE GatewayAssumption DEF IInv, TypeOK, ControlOK, SuccessIsAsked,
      StopSeen, RollsBack, MainGoes, Goes, Leaves, Returned, lifecycleVars,
      startVars, aroundVars
<1>1. CASE StartActions
  BY <1>1 DEF StartActions, EntersStart, FirstCheck, StartsProduct,
     AllStarted, ChecksResults, PollChecksStop, PollLooksForFailure,
     FailuresChecked, PollLooksForLive, LiveChecked, PollChecksClock,
     ChecksStop, Binds, Serves, StartThrows
<1>2. CASE DaemonActions
  BY <1>2 DEF DaemonActions, StartFailed, ReportsServing, SignalReceived,
     ReportsStopped, Destroys, ObservationThrows
<1>3. ASSUME NEW t \in Threads,
             \/ RequestsStop(t) \/ EntersStop(t) \/ StopsServer(t)
             \/ (\E p \in Products : StopsProduct(t, p))
             \/ ProductsStopped(t) \/ FinishesStop(t)
       PROVE  SuccessIsAsked'
  BY <1>3 DEF RequestsStop, EntersStop, StopsServer, StopsProduct,
     ProductsStopped, FinishesStop
<1>4. CASE \/ (\E p \in Products : ProductChanges(p)) \/ DeadlinePasses
           \/ SignalArrives \/ UNCHANGED vars
  BY <1>4 DEF ProductChanges, DeadlinePasses, SignalArrives, vars
<1>5. ASSUME NEW t \in Stoppers, CallsStop(t)
       PROVE  SuccessIsAsked'
  BY <1>5 DEF CallsStop
<1> QED
  BY <1>1, <1>2, <1>3, <1>4, <1>5 DEF Next, MainStep, StopStep, Exited,
     StartActions, DaemonActions

\* The main thread leaves through the destructor's stop(), and Stopped is final.
LEMMA ExitStep ==
    ASSUME IInv, [Next]_vars PROVE ExitIsLast'
<1> USE GatewayAssumption DEF IInv, TypeOK, ControlOK, ExitIsLast,
      StateFollowsHolder, HolderIsInside, Threads, StartSteps, ShutdownSteps,
      StopSteps, RollsBack, MainGoes, Goes, Leaves, Returned, lifecycleVars,
      startVars, aroundVars
<1>1. CASE StartActions
  BY <1>1 DEF StartActions, EntersStart, FirstCheck, StartsProduct,
     AllStarted, ChecksResults, PollChecksStop, PollLooksForFailure,
     FailuresChecked, PollLooksForLive, LiveChecked, PollChecksClock,
     ChecksStop, Binds, Serves, StartThrows
<1>2. CASE DaemonActions
  BY <1>2 DEF DaemonActions, StartFailed, ReportsServing, SignalReceived,
     ReportsStopped, Destroys, ObservationThrows
<1>3. ASSUME NEW t \in Threads,
             \/ RequestsStop(t) \/ EntersStop(t) \/ StopsServer(t)
             \/ (\E p \in Products : StopsProduct(t, p))
             \/ ProductsStopped(t) \/ FinishesStop(t)
       PROVE  ExitIsLast'
  BY <1>3 DEF RequestsStop, EntersStop, StopsServer, StopsProduct,
     ProductsStopped, FinishesStop
<1>4. CASE \/ (\E p \in Products : ProductChanges(p)) \/ DeadlinePasses
           \/ SignalArrives \/ UNCHANGED vars
  BY <1>4 DEF ProductChanges, DeadlinePasses, SignalArrives, vars
<1>5. ASSUME NEW t \in Stoppers, CallsStop(t)
       PROVE  ExitIsLast'
  BY <1>5 DEF CallsStop
<1> QED
  BY <1>1, <1>2, <1>3, <1>4, <1>5 DEF Next, MainStep, StopStep, Exited,
     StartActions, DaemonActions

-----------------------------------------------------------------------------

\* The invariant is inductive.
THEOREM GatewayInvariant == Spec => []IInv
<1>1. Init => IInv
  <2> SUFFICES ASSUME Init PROVE IInv
    OBVIOUS
  <2> USE GatewayAssumption DEF Init, Threads
  <2>1. ControlOK /\ DataOK
    BY DEF ControlOK, DataOK, MainSteps, StopSteps, GatewayStates, StartCodes,
       ProductStates
  <2>2. FlagsOK
    BY DEF FlagsOK
  <2> QED
    BY <2>1, <2>2 DEF IInv, TypeOK, HolderIsInside, StateFollowsHolder,
       NoneStoppedEarly, PollIsHonest, BoundWhen, ShutdownLeaves,
       SuccessIsAsked, ExitIsLast, StartSteps, ShutdownSteps
<1>2. IInv /\ [Next]_vars => IInv'
  BY ControlStep, FlagsStep, DataStep, HolderStep, StateStep, NoneStoppedStep,
     PollStep, BoundStep, ShutdownStep, SuccessStep, ExitStep DEF IInv, TypeOK
<1> QED BY <1>1, <1>2, PTL DEF Spec

\* Types, for any number of products and threads.
THEOREM GatewayTypes == Spec => []TypeOK
<1>1. IInv => TypeOK
  BY DEF IInv
<1> QED BY <1>1, GatewayInvariant, PTL

\* A bound server has only products that were live and none that is stopped:
\* the poll does not lose a product that was never ready, and the shutdown
\* drains the handlers before it stops what they refer to.
THEOREM ServerTheorem == Spec => []ServerWithinProducts
<1>1. IInv => ServerWithinProducts
  <2> SUFFICES ASSUME IInv, server = "bound", NEW p \in Products
               PROVE  p \in wasLive /\ product[p] # "stopped"
    BY DEF ServerWithinProducts
  <2>1. p \in wasLive
    BY DEF IInv, BoundWhen
  <2>2. CASE pc["main"] \in {"check_after_bind", "serve"}
    BY <2>1, <2>2 DEF IInv, StateFollowsHolder, StartSteps, NoneStoppedEarly
  <2>3. CASE state = "Serving" \/ \E t \in Threads : pc[t] = "stop_server"
    BY <2>1, <2>3 DEF IInv, NoneStoppedEarly
  <2> QED BY <2>2, <2>3 DEF IInv, BoundWhen
<1> QED BY <1>1, GatewayInvariant, PTL

\* rollback(), stop() and the destructor all leave a gateway without a server
\* and with every product stopped, whoever called them and however often.
THEOREM StoppedTheorem == Spec => []StoppedIsComplete
<1>1. IInv => StoppedIsComplete
  BY DEF IInv, ShutdownLeaves, StoppedIsComplete
<1> QED BY <1>1, GatewayInvariant, PTL

\* run_production_service() returns with the gateway stopped, on its error paths
\* too, and reports success only when somebody asked it to stop.
THEOREM ExitTheorem == Spec => []ExitIsClean
<1>1. IInv => ExitIsClean
  BY DEF IInv, ExitIsLast, SuccessIsAsked, ExitIsClean
<1> QED BY <1>1, GatewayInvariant, PTL

-----------------------------------------------------------------------------
(* Induction and extrema, from the theorems on cardinalities.               *)

\* A nonempty set of naturals has a smallest element: the numbers from it on up
\* to a member are as many as the interval they must be.
LEMMA SmallestElement ==
    ASSUME NEW S \in SUBSET Nat, NEW m \in S
    PROVE  \E k \in S : \A x \in S : k <= x
<1> DEFINE T == {x \in 0 .. m : \E y \in S : y <= x}
           k == m + 1 - Cardinality(T)
<1>1. /\ m \in Nat /\ IsFiniteSet(0 .. m) /\ Cardinality(0 .. m) = m + 1
      /\ m \in T /\ T \subseteq 0 .. m
  <2>1. m \in Nat
    OBVIOUS
  <2> QED BY <2>1, FS_Interval
<1>2. IsFiniteSet(T) /\ Cardinality(T) \in Nat /\ Cardinality(T) <= m + 1
  BY <1>1, FS_Subset, FS_CardinalityType
<1>3. Cardinality(T) # 0
  BY <1>1, <1>2, FS_EmptySet
<1>4. k \in 0 .. m
  BY <1>1, <1>2, <1>3
<1> HIDE DEF k
<1>5. \A x, y \in 0 .. m : x \in T /\ x <= y => y \in T
  OBVIOUS
<1>6. k \in T
  <2>1. SUFFICES ASSUME k \notin T PROVE FALSE
    OBVIOUS
  <2>2. T \subseteq k + 1 .. m
    BY <1>1, <1>4, <1>5, <2>1
  <2>3. IsFiniteSet(k + 1 .. m) /\ Cardinality(k + 1 .. m) = m - k
    <3>1. k + 1 \in Int /\ m \in Int
      BY <1>1, <1>4
    <3>2. /\ IsFiniteSet(k + 1 .. m)
          /\ Cardinality(k + 1 .. m) = IF k + 1 > m THEN 0 ELSE m - (k + 1) + 1
      BY <3>1, FS_Interval
    <3>3. (IF k + 1 > m THEN 0 ELSE m - (k + 1) + 1) = m - k
      BY <1>1, <1>4
    <3> QED BY <3>2, <3>3
  <2>4. Cardinality(T) <= m - k
    <3>1. T \in SUBSET (k + 1 .. m)
      BY <2>2
    <3>2. Cardinality(T) <= Cardinality(k + 1 .. m)
      BY <2>3, <3>1, FS_Subset
    <3> QED BY <2>3, <3>2
  <2> QED BY <1>1, <1>2, <1>4, <2>4 DEF k
<1>7. ASSUME NEW x \in T PROVE k <= x
  <2>1. SUFFICES ASSUME x < k PROVE FALSE
    BY <1>1, <1>4
  <2>2. x .. m \subseteq T
    BY <1>1, <1>5
  <2>3. IsFiniteSet(x .. m) /\ Cardinality(x .. m) = m - x + 1
    <3>1. x \in Int /\ m \in Int /\ x <= m
      BY <1>1
    <3> QED BY <3>1, FS_Interval
  <2>4. m - x + 1 <= Cardinality(T)
    BY <1>2, <2>2, <2>3, FS_Subset
  <2> QED BY <1>1, <1>2, <1>4, <2>1, <2>4 DEF k
<1>8. PICK y \in S : y <= k
  BY <1>6
<1>9. y \in T
  BY <1>4, <1>8
<1>10. y = k
  BY <1>4, <1>7, <1>8, <1>9
<1>11. ASSUME NEW x \in S PROVE k <= x
  BY <1>1, <1>4, <1>7
<1> QED BY <1>8, <1>10, <1>11

\* Induction, with the property as a set.
LEMMA Induction ==
    ASSUME NEW S, 0 \in S, \A n \in Nat : n \in S => n + 1 \in S
    PROVE  Nat \subseteq S
<1> SUFFICES ASSUME NEW m \in Nat, m \notin S PROVE FALSE
  OBVIOUS
<1>1. PICK k \in Nat \ S : \A x \in Nat \ S : k <= x
  <2>1. m \in Nat \ S /\ Nat \ S \in SUBSET Nat
    OBVIOUS
  <2> QED BY <2>1, SmallestElement
<1>2. k # 0 /\ k - 1 \in Nat
  BY <1>1
<1>3. k - 1 \in S
  BY <1>1, <1>2
<1>4. (k - 1) + 1 \in S
  BY <1>2, <1>3
<1> QED BY <1>1, <1>4

\* Max of a nonempty bounded set of naturals is its largest element.
LEMMA MaxFacts ==
    ASSUME NEW n \in Nat, NEW S \in SUBSET (0 .. n), S # {}
    PROVE  Max(S) \in S /\ \A x \in S : x <= Max(S)
<1> DEFINE R == {n - x : x \in S}
<1>1. PICK s \in S : TRUE
  OBVIOUS
<1>2. R \in SUBSET Nat /\ n - s \in R
  OBVIOUS
<1>3. PICK k \in R : \A x \in R : k <= x
  BY <1>2, SmallestElement
<1>4. PICK y \in S : k = n - y
  BY <1>3
<1>5. \A x \in S : n - x \in R
  OBVIOUS
<1>6. \A x \in S : x <= y
  BY <1>3, <1>4, <1>5
<1>7. \E x \in S : \A z \in S : x >= z
  BY <1>6
<1>8. Max(S) = CHOOSE x \in S : \A z \in S : x >= z
  BY DEF Max
<1> QED BY <1>7, <1>8

\* Min of a set with a smallest element is that element.
LEMMA MinFacts ==
    ASSUME NEW S \in SUBSET Nat, NEW k \in S, \A x \in S : k <= x
    PROVE  Min(S) = k
<1>1. Min(S) = CHOOSE x \in S : \A z \in S : x =< z
  BY DEF Min
<1>2. /\ Min(S) \in S
      /\ \A z \in S : Min(S) <= z
  BY <1>1
<1>3. Min(S) <= k /\ k <= Min(S) /\ Min(S) \in Nat /\ k \in Nat
  BY <1>2
<1> QED BY <1>3

-----------------------------------------------------------------------------
(* Strings of digits.                                                       *)

\* g holds what the first digits of d stand for, behind first.
Digitwise(g, first, L, d) ==
    g = [i \in 0 .. L |-> IF i = 0 THEN first ELSE 10 * g[i - 1] + d[i]]

\* Such a function can be built digit by digit.
LEMMA DigitwiseExists ==
    ASSUME NEW first \in Nat, NEW L \in Nat, NEW d \in [1 .. L -> Nat]
    PROVE  \E g : Digitwise(g, first, L, d)
<1> DEFINE Is(g, n) == \A i \in 0 .. n : g[i] = IF i = 0 THEN first
                                               ELSE 10 * g[i - 1] + d[i]
           Built(n) == \E g \in [0 .. n -> Nat] : Is(g, n)
           S == {n \in Nat : n <= L => Built(n)}
<1>1. 0 \in S
  <2>1. [i \in 0 .. 0 |-> first] \in [0 .. 0 -> Nat]
    OBVIOUS
  <2>2. Is([i \in 0 .. 0 |-> first], 0)
    OBVIOUS
  <2>3. Built(0)
    BY <2>1, <2>2
  <2> HIDE DEF Built
  <2> QED BY <2>3
<1>2. ASSUME NEW n \in Nat, n \in S PROVE n + 1 \in S
  <2>1. SUFFICES ASSUME n + 1 <= L PROVE Built(n + 1)
    <3> HIDE DEF Built
    <3> QED OBVIOUS
  <2>2. Built(n)
    <3> HIDE DEF Built
    <3> QED BY <1>2, <2>1
  <2>3. PICK g \in [0 .. n -> Nat] : Is(g, n)
    BY <2>2
  <2> DEFINE h == [i \in 0 .. n + 1 |-> IF i = n + 1 THEN 10 * g[n] + d[n + 1]
                                        ELSE g[i]]
  <2>4. g[n] \in Nat /\ d[n + 1] \in Nat
    BY <2>1, <2>3
  <2>5. ASSUME NEW i \in 0 .. n + 1
        PROVE  /\ h[i] \in Nat
               /\ h[i] = IF i = 0 THEN first ELSE 10 * h[i - 1] + d[i]
    <3>1. CASE i = n + 1
      <4>1. h[i] = 10 * g[n] + d[n + 1] /\ h[i - 1] = g[n] /\ i # 0
        BY <3>1
      <4> QED BY <2>4, <3>1, <4>1
    <3>2. CASE i \in 0 .. n
      <4>1. h[i] = g[i] /\ g[i] \in Nat
        BY <2>3, <3>2
      <4>2. i # 0 => h[i - 1] = g[i - 1]
        BY <3>2
      <4>3. g[i] = IF i = 0 THEN first ELSE 10 * g[i - 1] + d[i]
        BY <2>3, <3>2
      <4> QED BY <4>1, <4>2, <4>3
    <3> QED BY <3>1, <3>2
  <2>6. h \in [0 .. n + 1 -> Nat]
    BY <2>5
  <2> QED BY <2>5, <2>6
<1>3. L \in S
  <2> HIDE DEF S
  <2> QED BY <1>1, <1>2, Induction
<1>4. Built(L)
  <2> HIDE DEF Built
  <2> QED BY <1>3
<1>5. PICK g \in [0 .. L -> Nat] : Is(g, L)
  BY <1>4
<1>6. Digitwise(g, first, L, d)
  BY <1>5 DEF Digitwise
<1> QED BY <1>6

\* What such a function holds is natural.
LEMMA DigitwiseType ==
    ASSUME NEW first \in Nat, NEW L \in Nat, NEW d \in [1 .. L -> Nat], NEW g,
           \A i \in 0 .. L : g[i] = IF i = 0 THEN first ELSE 10 * g[i - 1] + d[i]
    PROVE  \A i \in 0 .. L : g[i] \in Nat
<1> DEFINE S == {n \in Nat : n <= L => g[n] \in Nat}
<1>1. 0 \in S
  OBVIOUS
<1>2. ASSUME NEW n \in Nat, n \in S PROVE n + 1 \in S
  <2>1. SUFFICES ASSUME n + 1 <= L PROVE g[n + 1] \in Nat
    OBVIOUS
  <2>2. g[n] \in Nat /\ d[n + 1] \in Nat
    BY <1>2, <2>1
  <2>3. n + 1 \in 0 .. L /\ (n + 1) - 1 = n /\ n + 1 # 0
    BY <2>1
  <2>4. g[n + 1] = 10 * g[n] + d[n + 1]
    BY <2>3
  <2> QED BY <2>2, <2>4
<1>3. Nat \subseteq S
  <2> HIDE DEF S
  <2> QED BY <1>1, <1>2, Induction
<1> QED BY <1>3

\* The value of a digit string grows by one digit at a time.
LEMMA ValuesFacts ==
    ASSUME NEW digits \in Seq(0 .. 9)
    PROVE  /\ \A i \in 0 .. Len(digits) : Values(digits)[i] \in Nat
           /\ Values(digits)[0] = 0
           /\ \A i \in 1 .. Len(digits) :
                Values(digits)[i] = 10 * Values(digits)[i - 1] + digits[i]
<1> DEFINE L == Len(digits)
           Is(g) == g = [i \in 0 .. L |-> IF i = 0 THEN 0
                                          ELSE 10 * g[i - 1] + digits[i]]
<1>1. L \in Nat /\ digits \in [1 .. L -> Nat]
  OBVIOUS
<1>2. \E g : Is(g)
  <2>1. PICK g : Digitwise(g, 0, L, digits)
    <3> HIDE DEF L
    <3> QED BY <1>1, DigitwiseExists
  <2>2. Is(g)
    BY <2>1 DEF Digitwise
  <2> QED BY <2>2
<1>3. Values(digits) = CHOOSE g : Is(g)
  BY DEF Values
<1>4. Is(Values(digits))
  BY <1>2, <1>3
<1> DEFINE v == Values(digits)
<1> HIDE DEF v, L
<1>5. \A i \in 0 .. L : v[i] = IF i = 0 THEN 0 ELSE 10 * v[i - 1] + digits[i]
  BY <1>4 DEF v
<1>6. \A i \in 0 .. L : v[i] \in Nat
  BY <1>1, <1>5, DigitwiseType
<1>7. v[0] = 0 /\ \A i \in 1 .. L : v[i] = 10 * v[i - 1] + digits[i]
  BY <1>1, <1>5
<1> QED BY <1>6, <1>7 DEF v, L

\* Powers of ten.
LEMMA PowersFacts ==
    ASSUME NEW n \in Nat
    PROVE  /\ \A i \in 0 .. n : Powers(n)[i] \in Nat /\ Powers(n)[i] > 0
           /\ Powers(n)[0] = 1
           /\ \A i \in 1 .. n : Powers(n)[i] = 10 * Powers(n)[i - 1]
<1> DEFINE Is(g) == g = [i \in 0 .. n |-> IF i = 0 THEN 1 ELSE 10 * g[i - 1]]
           zeros == [i \in 1 .. n |-> 0]
<1>1. \E g : Is(g)
  <2>1. zeros \in [1 .. n -> Nat]
    OBVIOUS
  <2>2. PICK g : Digitwise(g, 1, n, zeros)
    <3> HIDE DEF zeros
    <3> QED BY <2>1, DigitwiseExists
  <2>3. \A i \in 0 .. n : g[i] = IF i = 0 THEN 1 ELSE 10 * g[i - 1] + zeros[i]
    BY <2>2 DEF Digitwise
  <2>4. \A i \in 0 .. n : g[i] \in Nat
    <3> HIDE DEF zeros
    <3> QED BY <2>1, <2>3, DigitwiseType
  <2>5. ASSUME NEW i \in 0 .. n
        PROVE  (IF i = 0 THEN 1 ELSE 10 * g[i - 1] + zeros[i])
                    = IF i = 0 THEN 1 ELSE 10 * g[i - 1]
    BY <2>4
  <2>6. Is(g)
    BY <2>2, <2>5 DEF Digitwise
  <2> QED BY <2>6
<1>2. Powers(n) = CHOOSE g : Is(g)
  BY DEF Powers
<1>3. Is(Powers(n))
  BY <1>1, <1>2
<1> DEFINE p == Powers(n)
           S == {i \in Nat : i <= n => p[i] \in Nat /\ p[i] > 0}
<1> HIDE DEF p
<1>4. \A i \in 0 .. n : p[i] = IF i = 0 THEN 1 ELSE 10 * p[i - 1]
  BY <1>3 DEF p
<1>5. 0 \in S
  BY <1>4
<1>6. ASSUME NEW i \in Nat, i \in S PROVE i + 1 \in S
  <2>1. SUFFICES ASSUME i + 1 <= n PROVE p[i + 1] \in Nat /\ p[i + 1] > 0
    OBVIOUS
  <2>2. p[i] \in Nat /\ p[i] > 0
    BY <1>6, <2>1
  <2>3. i + 1 \in 0 .. n /\ (i + 1) - 1 = i /\ i + 1 # 0
    BY <2>1
  <2>4. p[i + 1] = 10 * p[i]
    BY <1>4, <2>3
  <2> QED BY <2>2, <2>4
<1>7. Nat \subseteq S
  <2> HIDE DEF S
  <2> QED BY <1>5, <1>6, Induction
<1>8. \A i \in 0 .. n : p[i] \in Nat /\ p[i] > 0
  BY <1>7
<1>9. p[0] = 1 /\ \A i \in 1 .. n : p[i] = 10 * p[i - 1]
  BY <1>4
<1> QED BY <1>8, <1>9 DEF p

\* What the last j digits add to the digits before them: nothing exactly when
\* they are all zero.
SplitsAt(digits, n, j) ==
    \E r \in Nat :
        /\ Values(digits)[Len(digits)]
                = Values(digits)[Len(digits) - j] * Powers(n)[j] + r
        /\ r < Powers(n)[j]
        /\ r = 0 <=> \A i \in Len(digits) - j + 1 .. Len(digits) : digits[i] = 0

\* Every number splits at every digit.
LEMMA Remainder ==
    ASSUME NEW digits \in Seq(0 .. 9), NEW n \in Nat, n <= Len(digits),
           NEW j \in 0 .. n
    PROVE  SplitsAt(digits, n, j)
<1> DEFINE L == Len(digits)
           v == Values(digits)
           p == Powers(n)
           Zero(k) == \A i \in L - k + 1 .. L : digits[i] = 0
           Left(k) == \E r \in Nat : /\ v[L] = v[L - k] * p[k] + r
                                     /\ r < p[k] /\ (r = 0 <=> Zero(k))
           S == {k \in Nat : k <= n => Left(k)}
<1>1. L \in Nat /\ n <= L /\ \A i \in 1 .. L : digits[i] \in 0 .. 9
  OBVIOUS
<1>2. /\ \A i \in 0 .. L : v[i] \in Nat
      /\ \A i \in 1 .. L : v[i] = 10 * v[i - 1] + digits[i]
  BY ValuesFacts
<1>3. /\ \A i \in 0 .. n : p[i] \in Nat /\ p[i] > 0
      /\ p[0] = 1 /\ \A i \in 1 .. n : p[i] = 10 * p[i - 1]
  BY PowersFacts
<1> HIDE DEF L, v, p
<1>4. 0 \in S
  <2>1. v[L] \in Nat /\ v[L - 0] * p[0] = v[L] /\ p[0] = 1
    BY <1>1, <1>2, <1>3
  <2>2. Zero(0)
    BY <1>1
  <2>3. Left(0)
    BY <2>1, <2>2
  <2> HIDE DEF Left
  <2> QED BY <2>3
<1>5. ASSUME NEW k \in Nat, k \in S PROVE k + 1 \in S
  <2>1. SUFFICES ASSUME k + 1 <= n PROVE Left(k + 1)
    <3> HIDE DEF Left
    <3> QED OBVIOUS
  <2>2. Left(k)
    <3> HIDE DEF Left
    <3> QED BY <1>5, <2>1
  <2>3. PICK r \in Nat : /\ v[L] = v[L - k] * p[k] + r
                         /\ r < p[k] /\ (r = 0 <=> Zero(k))
    BY <2>2
  <2> DEFINE c == digits[L - k]
             w == v[L - (k + 1)]
             q == p[k]
             s == c * q + r
  <2>4. /\ L - k \in 1 .. L /\ L - (k + 1) \in 0 .. L /\ k + 1 \in 1 .. n
        /\ k \in 0 .. n /\ (L - k) - 1 = L - (k + 1) /\ (k + 1) - 1 = k
    BY <1>1, <2>1
  <2>5. /\ c \in 0 .. 9 /\ w \in Nat /\ q \in Nat /\ q > 0
        /\ v[L - k] = 10 * w + c /\ p[k + 1] = 10 * q
    BY <1>1, <1>2, <1>3, <2>4
  <2>6. Zero(k + 1) <=> c = 0 /\ Zero(k)
    <3>1. \A i \in Int : i \in L - (k + 1) + 1 .. L <=>
                         i = L - k \/ i \in L - k + 1 .. L
      BY <1>1, <2>4
    <3>2. Zero(k + 1) <=> \A i \in Int : i \in L - (k + 1) + 1 .. L => digits[i] = 0
      BY <1>1
    <3>3. Zero(k) <=> \A i \in Int : i \in L - k + 1 .. L => digits[i] = 0
      BY <1>1
    <3>4. L - k \in Int
      BY <1>1
    <3> HIDE DEF Zero
    <3> QED BY <3>1, <3>2, <3>3, <3>4
  <2> HIDE DEF Zero, c, w, q
  <2>7. v[L] = (10 * w + c) * q + r
    BY <2>3, <2>5 DEF q
  <2>8. r < q
    BY <2>3 DEF q
  <2>9. s \in Nat /\ v[L] = w * (10 * q) + s /\ s < 10 * q
    BY <2>5, <2>7, <2>8
  <2>10. s = 0 <=> c = 0 /\ r = 0
    BY <2>5
  <2>11. v[L] = v[L - (k + 1)] * p[k + 1] + s /\ s < p[k + 1]
    BY <2>5, <2>9 DEF w
  <2>12. s = 0 <=> Zero(k + 1)
    BY <2>3, <2>6, <2>10
  <2> HIDE DEF s
  <2> QED BY <2>9, <2>11, <2>12
<1>6. j \in S
  <2> HIDE DEF S
  <2> QED BY <1>4, <1>5, Induction
<1>7. Left(j)
  <2> HIDE DEF Left
  <2> QED BY <1>6
<1> QED BY <1>7 DEF SplitsAt, L, v, p

\* A multiple has no remainder.
LEMMA NoRemainder ==
    ASSUME NEW a \in Nat, NEW b \in Nat, NEW p \in Nat, NEW r \in Nat, r < p,
           a * p = b * p + r
    PROVE  r = 0
<1>1. CASE a <= b
  <2>1. a * p <= b * p
    BY <1>1
  <2> QED BY <2>1
<1>2. CASE a >= b + 1
  <2>1. a * p >= b * p + p
    BY <1>2
  <2> QED BY <2>1
<1> QED BY <1>1, <1>2

\* The digits before and after the point, as one string.
LEMMA DigitsFacts ==
    ASSUME NEW q \in Quanta
    PROVE  LET digits == q.whole \o q.fraction
               W == Len(q.whole)
               n == Len(q.fraction)
           IN  /\ digits \in Seq(0 .. 9) /\ W \in Nat /\ n \in Nat
               /\ Len(digits) = W + n
               /\ \A i \in 1 .. W : digits[i] = q.whole[i]
               /\ \A i \in 1 .. n : digits[W + i] = q.fraction[i]
               /\ DOMAIN q.whole = 1 .. W /\ DOMAIN q.fraction = 1 .. n
<1> DEFINE s == q.whole
           t == q.fraction
<1>1. s \in Seq(0 .. 9) /\ t \in Seq(0 .. 9)
  BY DEF Quanta
<1> HIDE DEF s, t
<1>2. /\ Len(s) \in Nat /\ Len(t) \in Nat
      /\ DOMAIN s = 1 .. Len(s) /\ DOMAIN t = 1 .. Len(t)
  BY <1>1
<1>3. s \o t \in Seq(0 .. 9) /\ Len(s \o t) = Len(s) + Len(t)
  BY <1>1
<1>4. ASSUME NEW i \in 1 .. Len(s) PROVE (s \o t)[i] = s[i]
  BY <1>1, <1>2
<1>5. ASSUME NEW i \in 1 .. Len(t) PROVE (s \o t)[Len(s) + i] = t[i]
  BY <1>1, <1>2
<1> QED BY <1>2, <1>3, <1>4, <1>5 DEF s, t

\* A quantum can be written with d decimals exactly when its digits behind the
\* d-th are zero.
LEMMA WritableFacts ==
    ASSUME NEW q \in Quanta, NEW d \in 0 .. Len(q.fraction)
    PROVE  LET n == Len(q.fraction) IN
           (\E k \in 0 .. Units(q) : Units(q) = k * Powers(n)[n - d])
                <=> \A i \in d + 1 .. n : q.fraction[i] = 0
<1> DEFINE n == Len(q.fraction)
           W == Len(q.whole)
           digits == q.whole \o q.fraction
           L == Len(digits)
           j == n - d
           p == Powers(n)[j]
           b == Values(digits)[L - j]
           units == Values(digits)[L]
<1>1. Units(q) = units
  BY DEF Units
<1>2. /\ digits \in Seq(0 .. 9) /\ L = W + n /\ W \in Nat /\ n \in Nat
      /\ \A i \in 1 .. n : digits[W + i] = q.fraction[i]
      /\ d \in 0 .. n
  BY DigitsFacts
<1> HIDE DEF digits, n, W
<1>3. j \in 0 .. n /\ n <= L /\ L \in Nat
  <2> HIDE DEF L
  <2> QED BY <1>2
<1>4. PICK r \in Nat : /\ units = b * p + r /\ r < p
                       /\ r = 0 <=> \A i \in L - j + 1 .. L : digits[i] = 0
  <2>1. SplitsAt(digits, n, j)
    <3> HIDE DEF j
    <3> QED BY <1>2, <1>3, Remainder
  <2> QED BY <2>1 DEF SplitsAt
<1>5. b \in Nat /\ units \in Nat /\ p \in Nat /\ p > 0
  <2>1. L - j \in 0 .. L /\ L \in 0 .. L
    <3> HIDE DEF L, j
    <3> QED BY <1>2, <1>3
  <2>2. b \in Nat /\ units \in Nat
    <3> HIDE DEF j
    <3> QED BY <1>2, <2>1, ValuesFacts
  <2> QED BY <1>2, <1>3, <2>2, PowersFacts
<1>6. (\A i \in L - j + 1 .. L : digits[i] = 0)
        <=> \A i \in d + 1 .. n : q.fraction[i] = 0
  <2> HIDE DEF L
  <2>1. ASSUME \A i \in L - j + 1 .. L : digits[i] = 0, NEW i \in d + 1 .. n
        PROVE  q.fraction[i] = 0
    <3>1. W + i \in L - j + 1 .. L /\ i \in 1 .. n
      BY <1>2, <1>3
    <3> QED BY <1>2, <2>1, <3>1
  <2>2. ASSUME \A i \in d + 1 .. n : q.fraction[i] = 0, NEW i \in L - j + 1 .. L
        PROVE  digits[i] = 0
    <3>1. i - W \in d + 1 .. n /\ i - W \in 1 .. n /\ W + (i - W) = i
      BY <1>2, <1>3
    <3> QED BY <1>2, <2>2, <3>1
  <2> QED BY <2>1, <2>2
<1> HIDE DEF units, b, p, L, j
<1>7. ASSUME NEW k \in 0 .. units, units = k * p PROVE r = 0
  <2>1. k \in Nat /\ k * p = b * p + r /\ r < p
    BY <1>4, <1>5, <1>7
  <2> QED BY <1>5, <2>1, NoRemainder
<1>8. ASSUME r = 0 PROVE b \in 0 .. units /\ units = b * p
  BY <1>4, <1>5, <1>8
<1>9. (\E k \in 0 .. units : units = k * p) <=> r = 0
  BY <1>7, <1>8
<1>10. (\E k \in 0 .. units : units = k * p)
        <=> \A i \in d + 1 .. n : q.fraction[i] = 0
  BY <1>4, <1>6, <1>9
<1> QED BY <1>1, <1>10 DEF p, j, n

\* A quantum is positive exactly when it has a digit other than zero.
LEMMA PositiveFacts ==
    ASSUME NEW q \in Quanta
    PROVE  Units(q) > 0 <=> Significant(q.whole) \cup Significant(q.fraction) # {}
<1> DEFINE W == Len(q.whole)
           n == Len(q.fraction)
           digits == q.whole \o q.fraction
           L == Len(digits)
<1>1. Units(q) = Values(digits)[L]
  BY DEF Units
<1>2. /\ digits \in Seq(0 .. 9) /\ L = W + n /\ W \in Nat /\ n \in Nat
      /\ \A i \in 1 .. W : digits[i] = q.whole[i]
      /\ \A i \in 1 .. n : digits[W + i] = q.fraction[i]
      /\ DOMAIN q.whole = 1 .. W /\ DOMAIN q.fraction = 1 .. n
  BY DigitsFacts
<1> HIDE DEF digits, n, W
<1>3. (\E i \in 1 .. L : digits[i] # 0)
        <=> Significant(q.whole) \cup Significant(q.fraction) # {}
  <2> HIDE DEF L
  <2>1. ASSUME NEW i \in Significant(q.whole)
        PROVE  \E j \in 1 .. L : digits[j] # 0
    <3>1. i \in 1 .. W /\ q.whole[i] # 0
      BY <1>2 DEF Significant
    <3>2. digits[i] = q.whole[i] /\ i \in 1 .. L
      BY <1>2, <3>1
    <3> QED BY <3>1, <3>2
  <2>2. ASSUME NEW i \in Significant(q.fraction)
        PROVE  \E j \in 1 .. L : digits[j] # 0
    <3>1. i \in 1 .. n /\ q.fraction[i] # 0
      BY <1>2 DEF Significant
    <3>2. digits[W + i] = q.fraction[i] /\ W + i \in 1 .. L
      BY <1>2, <3>1
    <3> QED BY <3>1, <3>2
  <2>3. ASSUME NEW i \in 1 .. L, digits[i] # 0
        PROVE  Significant(q.whole) \cup Significant(q.fraction) # {}
    <3>1. CASE i \in 1 .. W
      <4>1. i \in Significant(q.whole)
        BY <1>2, <2>3, <3>1 DEF Significant
      <4> QED BY <4>1
    <3>2. CASE i \notin 1 .. W
      <4>1. i - W \in 1 .. n /\ W + (i - W) = i
        BY <1>2, <3>2
      <4>2. q.fraction[i - W] # 0
        BY <1>2, <2>3, <4>1
      <4>3. i - W \in Significant(q.fraction)
        BY <1>2, <4>1, <4>2 DEF Significant
      <4> QED BY <4>3
    <3> QED BY <3>1, <3>2
  <2> QED BY <2>1, <2>2, <2>3
<1>4. PICK r \in Nat :
            /\ Values(digits)[L] = Values(digits)[L - L] * Powers(L)[L] + r
            /\ r = 0 <=> \A i \in L - L + 1 .. L : digits[i] = 0
  <2>1. L \in Nat /\ L <= Len(digits) /\ L \in 0 .. L
    BY <1>2
  <2>2. SplitsAt(digits, L, L)
    BY <1>2, <2>1, Remainder
  <2> QED BY <2>2 DEF SplitsAt
<1>5. L - L = 0 /\ L - L + 1 = 1 /\ L \in 0 .. L /\ L \in Nat
  <2> HIDE DEF L
  <2> QED BY <1>2
<1>6. Values(digits)[0] = 0 /\ Powers(L)[L] \in Nat
  BY <1>2, <1>5, ValuesFacts, PowersFacts
<1>7. Values(digits)[L] = r
  <2>1. Values(digits)[L] = 0 * Powers(L)[L] + r
    BY <1>4, <1>5, <1>6
  <2> QED BY <1>6, <2>1
<1>8. r = 0 <=> ~\E i \in 1 .. L : digits[i] # 0
  BY <1>4, <1>5
<1> QED BY <1>1, <1>3, <1>7, <1>8

\* decimal_scale_from_quantum() accepts exactly the positive decimals that need no
\* more decimals than a scale holds, and gives the number that they need.
THEOREM ScaleTheorem ==
    ASSUME NEW q \in Quanta
    PROVE  LET result == decimal_scale_from_quantum(q) IN
           /\ result.ok
                <=> q.plain /\ Units(q) > 0 /\ Decimals(q) <= MaxScale
           /\ result.ok => result.scales = <<Decimals(q)>>
           /\ Decimals(q) \in Nat
<1> DEFINE significant == Significant(q.fraction)
           scale == IF significant = {} THEN 0 ELSE Max(significant)
           n == Len(q.fraction)
           Writable(d) == \E k \in 0 .. Units(q) : Units(q) = k * Powers(n)[n - d]
           D == {d \in 0 .. n : Writable(d)}
           result == decimal_scale_from_quantum(q)
<1>1. /\ result.ok <=> /\ q.plain /\ Significant(q.whole) \cup significant # {}
                      /\ ~(scale > MaxScale)
      /\ result.ok => result.scales = <<scale>>
  <2>1. /\ Failure.ok = FALSE /\ Success(<<scale>>).ok = TRUE
        /\ Success(<<scale>>).scales = <<scale>>
    BY DEF Failure, Success
  <2>2. q.plain \in BOOLEAN
    BY DEF Quanta
  <2> QED BY <2>1, <2>2 DEF decimal_scale_from_quantum
<1> HIDE DEF result
<1>2. /\ n \in Nat /\ DOMAIN q.fraction = 1 .. n
      /\ significant \in SUBSET (0 .. n)
      /\ \A i \in significant : i \in 1 .. n /\ q.fraction[i] # 0
      /\ \A i \in 1 .. n : i \notin significant => q.fraction[i] = 0
  BY DEF Quanta, Significant
<1>3. /\ scale \in 0 .. n /\ (scale # 0 => scale \in significant)
      /\ \A i \in significant : i <= scale
  <2> HIDE DEF significant, n
  <2>1. CASE significant = {}
    BY <1>2, <2>1
  <2>2. CASE significant # {}
    <3>1. /\ Max(significant) \in significant
          /\ \A i \in significant : i <= Max(significant)
      BY <1>2, <2>2, MaxFacts
    <3> QED BY <1>2, <2>2, <3>1
  <2> QED BY <2>1, <2>2
<1> HIDE DEF scale
<1>4. \A d \in 0 .. n : Writable(d) <=> \A i \in d + 1 .. n : q.fraction[i] = 0
  BY WritableFacts
<1> HIDE DEF Writable
<1>5. scale \in D
  <2>1. ASSUME NEW i \in scale + 1 .. n PROVE q.fraction[i] = 0
    <3> HIDE DEF significant
    <3>1. i \in 1 .. n /\ i \notin significant
      BY <1>2, <1>3
    <3> QED BY <1>2, <3>1
  <2> QED BY <1>3, <1>4, <2>1
<1>6. ASSUME NEW d \in D PROVE scale <= d
  <2>1. SUFFICES ASSUME d < scale PROVE FALSE
    BY <1>2, <1>3
  <2>2. scale \in d + 1 .. n /\ scale \in significant
    BY <1>2, <1>3, <2>1
  <2>3. q.fraction[scale] = 0
    BY <1>4, <2>2
  <2> HIDE DEF significant
  <2> QED BY <1>2, <2>2, <2>3
<1>7. D \in SUBSET Nat
  BY <1>2
<1>8. Min(D) = scale
  <2> HIDE DEF D
  <2> QED BY <1>5, <1>6, <1>7, MinFacts
<1>9. Decimals(q) = Min(D)
  BY DEF Decimals, Writable
<1>10. Min(D) \in Nat
  BY <1>5, <1>7, <1>8
<1>11. scale = Decimals(q)
  BY <1>8, <1>9
<1>12. ~(Decimals(q) > MaxScale) <=> Decimals(q) <= MaxScale
  BY <1>9, <1>10, ScaleAssumption
<1>13. Units(q) > 0 <=> Significant(q.whole) \cup significant # {}
  BY PositiveFacts
<1> HIDE DEF D, significant
<1> QED BY <1>1, <1>9, <1>10, <1>11, <1>12, <1>13 DEF result

-----------------------------------------------------------------------------
(* The configuration in canonical order.                                    *)

MarketKeyRecords == [market : {1, 2}, symbol : Nat]

\* MarketKeyLess is a strict total order.
LEMMA KeyOrder ==
    ASSUME NEW a \in MarketKeyRecords, NEW b \in MarketKeyRecords,
           NEW c \in MarketKeyRecords
    PROVE  /\ ~MarketKeyLess(a, a)
           /\ MarketKeyLess(a, b) => ~MarketKeyLess(b, a)
           /\ MarketKeyLess(a, b) \/ MarketKeyLess(b, a) \/ a = b
           /\ MarketKeyLess(a, b) /\ MarketKeyLess(b, c) => MarketKeyLess(a, c)
<1>1. /\ a.market \in Nat /\ b.market \in Nat /\ c.market \in Nat
      /\ a.symbol \in Nat /\ b.symbol \in Nat /\ c.symbol \in Nat
  BY DEF MarketKeyRecords
<1>2. a.market = b.market /\ a.symbol = b.symbol => a = b
  BY DEF MarketKeyRecords
<1> QED BY <1>1, <1>2 DEF MarketKeyLess

\* Any list of keys can be sorted: a key goes to the position that counts the
\* keys up to it, equal keys by where they were.
LEMMA OrderExists ==
    ASSUME NEW s \in Seq(MarketKeyRecords)
    PROVE  Orders(s) # {}
<1> DEFINE n == Len(s)
           Before(i, j) == MarketKeyLess(s[i], s[j]) \/ (s[i] = s[j] /\ i <= j)
           Upto(i) == {j \in 1 .. n : Before(j, i)}
           rank == [i \in 1 .. n |-> Cardinality(Upto(i))]
           order == [k \in 1 .. n |-> CHOOSE i \in 1 .. n : rank[i] = k]
<1>1. n \in Nat /\ DOMAIN s = 1 .. n /\ \A i \in 1 .. n : s[i] \in MarketKeyRecords
  OBVIOUS
<1> HIDE DEF n
<1>2. IsFiniteSet(1 .. n) /\ Cardinality(1 .. n) = n
  <2>1. 1 \in Int /\ n \in Int
    BY <1>1
  <2>2. Cardinality(1 .. n) = IF 1 > n THEN 0 ELSE n - 1 + 1
    BY <2>1, FS_Interval
  <2>3. (IF 1 > n THEN 0 ELSE n - 1 + 1) = n
    BY <1>1
  <2> QED BY <2>1, <2>2, <2>3, FS_Interval
<1>3. ASSUME NEW i \in 1 .. n, NEW j \in 1 .. n, NEW k \in 1 .. n
      PROVE  /\ Before(i, i) /\ (Before(i, j) \/ Before(j, i))
             /\ Before(i, j) /\ Before(j, i) => i = j
             /\ Before(i, j) /\ Before(j, k) => Before(i, k)
  <2>1. /\ s[i] \in MarketKeyRecords /\ s[j] \in MarketKeyRecords
        /\ s[k] \in MarketKeyRecords /\ i \in Nat /\ j \in Nat /\ k \in Nat
    BY <1>1
  <2>2. Before(i, i)
    BY <2>1
  <2>3. Before(i, j) \/ Before(j, i)
    BY <2>1, KeyOrder
  <2>4. Before(i, j) /\ Before(j, i) => i = j
    BY <2>1, KeyOrder
  <2>5. Before(i, j) /\ Before(j, k) => Before(i, k)
    BY <2>1, KeyOrder
  <2> QED BY <2>2, <2>3, <2>4, <2>5
<1>4. ASSUME NEW i \in 1 .. n, NEW j \in 1 .. n
      PROVE  MarketKeyLess(s[i], s[j]) => Before(i, j) /\ i # j
  BY <1>1, KeyOrder
<1> HIDE DEF Before
<1>5. ASSUME NEW i \in 1 .. n
      PROVE  /\ IsFiniteSet(Upto(i)) /\ Cardinality(Upto(i)) \in 1 .. n
  <2>1. Upto(i) \in SUBSET (1 .. n) /\ i \in Upto(i)
    BY <1>3
  <2>2. /\ IsFiniteSet(Upto(i)) /\ Cardinality(Upto(i)) \in Nat
        /\ Cardinality(Upto(i)) <= n
    BY <1>2, <2>1, FS_Subset, FS_CardinalityType
  <2>3. Cardinality(Upto(i)) # 0
    BY <2>1, <2>2, FS_EmptySet
  <2> QED BY <1>1, <2>2, <2>3
<1>6. ASSUME NEW i \in 1 .. n, NEW j \in 1 .. n, Before(i, j), i # j
      PROVE  Cardinality(Upto(i)) < Cardinality(Upto(j))
  <2>1. Upto(i) \in SUBSET Upto(j)
    BY <1>3, <1>6
  <2>2. j \in Upto(j) /\ j \notin Upto(i)
    BY <1>3, <1>6
  <2>3. /\ Cardinality(Upto(i)) <= Cardinality(Upto(j))
        /\ Cardinality(Upto(i)) # Cardinality(Upto(j))
    <3> HIDE DEF Upto
    <3> QED BY <1>5, <2>1, <2>2, FS_Subset
  <2>4. Cardinality(Upto(i)) \in 1 .. n /\ Cardinality(Upto(j)) \in 1 .. n
    BY <1>5
  <2> QED BY <1>1, <2>3, <2>4
<1>7. /\ rank \in [1 .. n -> 1 .. n]
      /\ \A i, j \in 1 .. n : Before(i, j) /\ i # j => rank[i] < rank[j]
  <2> HIDE DEF Upto
  <2> QED BY <1>5, <1>6
<1> HIDE DEF rank, Upto
<1>8. ASSUME NEW i \in 1 .. n, NEW j \in 1 .. n, rank[i] = rank[j] PROVE i = j
  <2>1. rank[i] \in Nat /\ rank[j] \in Nat
    BY <1>1, <1>7
  <2> QED BY <1>3, <1>7, <1>8, <2>1
<1>9. rank \in Injection(1 .. n, 1 .. n)
  BY <1>7, <1>8 DEF Injection, IsInjective
<1>10. rank \in Surjection(1 .. n, 1 .. n)
  BY <1>2, <1>9, FS_Injection
<1>11. \A k \in 1 .. n : \E i \in 1 .. n : rank[i] = k
  BY <1>10 DEF Surjection
<1>12. /\ order \in [1 .. n -> 1 .. n]
       /\ \A k \in 1 .. n : rank[order[k]] = k
  BY <1>11
<1> HIDE DEF order
<1>13. ASSUME NEW k \in 1 .. n PROVE \E i \in 1 .. n : order[i] = k
  <2>1. rank[k] \in 1 .. n /\ order[rank[k]] \in 1 .. n
    BY <1>7, <1>12
  <2>2. rank[order[rank[k]]] = rank[k]
    BY <1>12, <2>1
  <2> QED BY <1>8, <2>1, <2>2
<1>14. ASSUME NEW i \in 1 .. n, NEW j \in 1 .. n, i < j,
              MarketKeyLess(s[order[j]], s[order[i]])
       PROVE  FALSE
  <2>1. order[i] \in 1 .. n /\ order[j] \in 1 .. n
    BY <1>12
  <2>2. Before(order[j], order[i]) /\ order[j] # order[i]
    BY <1>4, <1>14, <2>1
  <2>3. rank[order[j]] < rank[order[i]]
    BY <1>7, <2>1, <2>2
  <2>4. j < i
    BY <1>12, <2>3
  <2> QED BY <1>1, <1>14, <2>4
<1>15. order \in Orders(s)
  BY <1>1, <1>12, <1>13, <1>14 DEF Orders
<1> QED BY <1>15

\* A sequence holds the elements of another, each where it was or elsewhere.
Permutes(s, t) ==
    \E p \in [1 .. Len(s) -> 1 .. Len(s)] :
        /\ \A k \in 1 .. Len(s) : \E i \in 1 .. Len(s) : p[i] = k
        /\ \A i, j \in 1 .. Len(s) : p[i] = p[j] => i = j
        /\ \A i \in 1 .. Len(s) : t[i] = s[p[i]]

\* Sorted() keeps the length and the keys, and leaves none less than one before.
LEMMA SortedFacts ==
    ASSUME NEW s \in Seq(MarketKeyRecords)
    PROVE  /\ Permutes(s, Sorted(s))
           /\ Sorted(s) \in Seq(MarketKeyRecords) /\ Len(Sorted(s)) = Len(s)
           /\ \A i, j \in 1 .. Len(s) :
                i < j => ~MarketKeyLess(Sorted(s)[j], Sorted(s)[i])
<1> DEFINE order == CHOOSE p \in Orders(s) : TRUE
<1>1. order \in Orders(s)
  BY OrderExists
<1>2. Sorted(s) = [i \in DOMAIN s |-> s[order[i]]]
  BY DEF Sorted
<1> HIDE DEF order
<1>3. /\ DOMAIN s = 1 .. Len(s) /\ Len(s) \in Nat
      /\ \A i \in 1 .. Len(s) : s[i] \in MarketKeyRecords
  OBVIOUS
<1>4. /\ order \in [1 .. Len(s) -> 1 .. Len(s)]
      /\ \A k \in 1 .. Len(s) : \E i \in 1 .. Len(s) : order[i] = k
      /\ \A i, j \in 1 .. Len(s) :
            i < j => ~MarketKeyLess(s[order[j]], s[order[i]])
  BY <1>1, <1>3 DEF Orders
<1>5. Sorted(s) \in [1 .. Len(s) -> MarketKeyRecords]
  BY <1>2, <1>3, <1>4
<1>6. Sorted(s) \in Seq(MarketKeyRecords) /\ Len(Sorted(s)) = Len(s)
  BY <1>3, <1>5
<1>7. \A i, j \in 1 .. Len(s) : order[i] = order[j] => i = j
  <2>1. order \in Surjection(1 .. Len(s), 1 .. Len(s))
    BY <1>4 DEF Surjection
  <2>2. IsFiniteSet(1 .. Len(s))
    <3>1. 1 \in Int /\ Len(s) \in Int
      BY <1>3
    <3> QED BY <3>1, FS_Interval
  <2>3. order \in Injection(1 .. Len(s), 1 .. Len(s))
    BY <2>1, <2>2, FS_Surjection
  <2> QED BY <2>3 DEF Injection, IsInjective
<1>8. Permutes(s, Sorted(s))
  BY <1>2, <1>3, <1>4, <1>7 DEF Permutes
<1> QED BY <1>2, <1>3, <1>4, <1>6, <1>8

\* The keys of one market's symbols.
LEMMA MarketKeysFacts ==
    ASSUME NEW market \in {1, 2}, NEW symbols \in Seq(Nat)
    PROVE  /\ MarketKeys(market, symbols) \in Seq(MarketKeyRecords)
           /\ Len(MarketKeys(market, symbols)) = Len(symbols)
<1> DEFINE n == Len(symbols)
           result == MarketKeys(market, symbols)
<1>1. n \in Nat /\ DOMAIN symbols = 1 .. n /\ \A i \in 1 .. n : symbols[i] \in Nat
  OBVIOUS
<1>2. result = [i \in 1 .. n |-> [market |-> market, symbol |-> symbols[i]]]
  BY <1>1 DEF MarketKeys
<1>3. ASSUME NEW i \in 1 .. n
      PROVE  [market |-> market, symbol |-> symbols[i]] \in MarketKeyRecords
  BY <1>1 DEF MarketKeyRecords
<1>4. result \in [1 .. n -> MarketKeyRecords]
  BY <1>2, <1>3
<1> HIDE DEF n, result
<1>5. result \in Seq(MarketKeyRecords) /\ Len(result) = n
  BY <1>1, <1>4
<1> QED BY <1>5 DEF n, result

\* One sequence behind another.
LEMMA ConcatFacts ==
    ASSUME NEW T, NEW s \in Seq(T), NEW t \in Seq(T)
    PROVE  /\ s \o t \in Seq(T) /\ Len(s) \in Nat /\ Len(t) \in Nat
           /\ Len(s \o t) = Len(s) + Len(t)
           /\ \A i \in 1 .. Len(s) : (s \o t)[i] = s[i]
           /\ \A i \in 1 .. Len(t) : (s \o t)[Len(s) + i] = t[i]
<1>1. s \o t \in Seq(T)
  OBVIOUS
<1>2. Len(s) \in Nat /\ Len(t) \in Nat
  OBVIOUS
<1>3. Len(s \o t) = Len(s) + Len(t)
  OBVIOUS
<1>4. ASSUME NEW i \in 1 .. Len(s) PROVE (s \o t)[i] = s[i]
  BY <1>2
<1>5. ASSUME NEW i \in 1 .. Len(t) PROVE (s \o t)[Len(s) + i] = t[i]
  BY <1>2
<1> QED BY <1>1, <1>2, <1>3, <1>4, <1>5

\* The elements of two sequences, one after the other.
LEMMA ToSetConcat ==
    ASSUME NEW T, NEW s \in Seq(T), NEW t \in Seq(T)
    PROVE  ToSet(s \o t) = ToSet(s) \cup ToSet(t)
<1> DEFINE u == s \o t
<1>1. /\ Len(u) = Len(s) + Len(t) /\ Len(s) \in Nat /\ Len(t) \in Nat
      /\ \A i \in 1 .. Len(s) : u[i] = s[i]
      /\ \A i \in 1 .. Len(t) : u[Len(s) + i] = t[i]
      /\ u \in Seq(T)
  BY ConcatFacts
<1> HIDE DEF u
<1>2. /\ DOMAIN u = 1 .. Len(u) /\ DOMAIN s = 1 .. Len(s)
      /\ DOMAIN t = 1 .. Len(t)
  BY <1>1
<1>3. ASSUME NEW i \in 1 .. Len(u)
      PROVE  \/ \E j \in 1 .. Len(s) : u[i] = s[j]
             \/ \E j \in 1 .. Len(t) : u[i] = t[j]
  <2>1. CASE i <= Len(s)
    <3>1. i \in 1 .. Len(s)
      BY <1>1, <2>1
    <3> QED BY <1>1, <3>1
  <2>2. CASE i > Len(s)
    <3>1. i - Len(s) \in 1 .. Len(t) /\ Len(s) + (i - Len(s)) = i
      BY <1>1, <2>2
    <3>2. u[i] = t[i - Len(s)]
      BY <1>1, <3>1
    <3> QED BY <3>1, <3>2
  <2> QED BY <1>1, <2>1, <2>2
<1>4. ASSUME NEW j \in 1 .. Len(s) PROVE \E i \in 1 .. Len(u) : u[i] = s[j]
  <2>1. j \in 1 .. Len(u) /\ u[j] = s[j]
    BY <1>1
  <2> QED BY <2>1
<1>5. ASSUME NEW j \in 1 .. Len(t) PROVE \E i \in 1 .. Len(u) : u[i] = t[j]
  <2>1. Len(s) + j \in 1 .. Len(u) /\ u[Len(s) + j] = t[j]
    BY <1>1
  <2> QED BY <2>1
<1>6. /\ ToSet(u) = {u[i] : i \in 1 .. Len(u)}
      /\ ToSet(s) = {s[i] : i \in 1 .. Len(s)}
      /\ ToSet(t) = {t[i] : i \in 1 .. Len(t)}
  BY <1>2 DEF ToSet
<1>7. ToSet(u) = ToSet(s) \cup ToSet(t)
  BY <1>3, <1>4, <1>5, <1>6
<1> QED BY <1>7 DEF u

\* load_daemon_config() accepts exactly the readable files with a permitted number
\* of products and none of them twice, and returns their keys in canonical order.
THEOREM ConfigTheorem ==
    ASSUME NEW file \in Configs
    PROVE  LET result == load_daemon_config(file)
               listed == MarketKeys(1, file.spot) \o MarketKeys(2, file.usdm)
           IN  /\ result # <<>>
                    <=> /\ file.valid /\ Len(listed) \in 1 .. MaxProducts
                        /\ \A i, j \in 1 .. Len(listed) :
                                listed[i] = listed[j] => i = j
               /\ result # <<>> =>
                    /\ result \in Seq(MarketKeyRecords)
                    /\ Len(result) = Len(file.spot) + Len(file.usdm)
                    /\ \A i, j \in 1 .. Len(result) :
                            i < j => MarketKeyLess(result[i], result[j])
                    /\ ToSet(result) = ToSet(MarketKeys(1, file.spot))
                                        \cup ToSet(MarketKeys(2, file.usdm))
<1> DEFINE spot == MarketKeys(1, file.spot)
           usdm == MarketKeys(2, file.usdm)
           listed == spot \o usdm
           sorted == Sorted(listed)
           n == Len(listed)
           result == load_daemon_config(file)
           Fits == file.valid /\ n \in 1 .. MaxProducts
           NoNeighbours == \A i \in 1 .. n - 1 : sorted[i] # sorted[i + 1]
           Distinct == \A i, j \in 1 .. n : listed[i] = listed[j] => i = j
<1>1. file.spot \in Seq(Nat) /\ file.usdm \in Seq(Nat)
  BY StartupAssumption
<1>2. spot \in Seq(MarketKeyRecords) /\ Len(spot) = Len(file.spot)
  BY <1>1, MarketKeysFacts
<1>3. usdm \in Seq(MarketKeyRecords) /\ Len(usdm) = Len(file.usdm)
  BY <1>1, MarketKeysFacts
<1>4. result = IF Fits /\ NoNeighbours THEN sorted ELSE <<>>
  BY DEF load_daemon_config
<1> HIDE DEF spot, usdm, result
<1>5. /\ listed \in Seq(MarketKeyRecords) /\ n = Len(spot) + Len(usdm)
      /\ ToSet(listed) = ToSet(spot) \cup ToSet(usdm)
  <2>1. spot \in Seq(MarketKeyRecords) /\ usdm \in Seq(MarketKeyRecords)
    BY <1>2, <1>3
  <2>2. listed \in Seq(MarketKeyRecords) /\ n = Len(spot) + Len(usdm)
    BY <2>1, ConcatFacts
  <2>3. ToSet(listed) = ToSet(spot) \cup ToSet(usdm)
    BY <2>1, ToSetConcat
  <2> QED BY <2>2, <2>3
<1> HIDE DEF listed
<1>6. /\ sorted \in Seq(MarketKeyRecords) /\ Len(sorted) = n
      /\ \A i, j \in 1 .. n : i < j => ~MarketKeyLess(sorted[j], sorted[i])
      /\ Permutes(listed, sorted)
  BY <1>5, SortedFacts
<1>7. /\ n \in Nat /\ \A i \in 1 .. n : sorted[i] \in MarketKeyRecords
      /\ DOMAIN sorted = 1 .. n /\ DOMAIN listed = 1 .. n
  BY <1>5, <1>6
<1>8. PICK p \in [1 .. n -> 1 .. n] :
            /\ \A k \in 1 .. n : \E i \in 1 .. n : p[i] = k
            /\ \A i, j \in 1 .. n : p[i] = p[j] => i = j
            /\ \A i \in 1 .. n : sorted[i] = listed[p[i]]
  BY <1>6 DEF Permutes
<1> HIDE DEF sorted, n
<1>9. ASSUME NoNeighbours, NEW i \in 1 .. n, NEW j \in 1 .. n, i < j
      PROVE  MarketKeyLess(sorted[i], sorted[j])
  <2>1. i \in 1 .. n - 1 /\ i + 1 \in 1 .. n /\ i < i + 1 /\ i + 1 <= j
    BY <1>7, <1>9
  <2>2. sorted[i] # sorted[i + 1] /\ ~MarketKeyLess(sorted[i + 1], sorted[i])
    BY <1>6, <1>9, <2>1
  <2>3. /\ sorted[i] \in MarketKeyRecords /\ sorted[i + 1] \in MarketKeyRecords
        /\ sorted[j] \in MarketKeyRecords
    BY <1>7, <2>1
  <2>4. MarketKeyLess(sorted[i], sorted[i + 1])
    BY <2>2, <2>3, KeyOrder
  <2>5. i + 1 = j \/ ~MarketKeyLess(sorted[j], sorted[i + 1])
    BY <1>6, <1>7, <2>1
  <2>6. sorted[i + 1] = sorted[j] \/ MarketKeyLess(sorted[i + 1], sorted[j])
    BY <2>3, <2>5, KeyOrder
  <2> QED BY <2>3, <2>4, <2>6, KeyOrder
<1>10. NoNeighbours => Distinct
  <2> SUFFICES ASSUME NoNeighbours, NEW i \in 1 .. n, NEW j \in 1 .. n,
                      listed[i] = listed[j]
               PROVE  i = j
    OBVIOUS
  <2>1. PICK k \in 1 .. n : p[k] = i
    BY <1>8
  <2>2. PICK m \in 1 .. n : p[m] = j
    BY <1>8
  <2>3. sorted[k] = sorted[m] /\ sorted[k] \in MarketKeyRecords
    BY <1>7, <1>8, <2>1, <2>2
  <2>4. ~MarketKeyLess(sorted[k], sorted[m]) /\ ~MarketKeyLess(sorted[m], sorted[k])
    BY <2>3, KeyOrder
  <2>5. k = m
    <3> HIDE DEF NoNeighbours
    <3>1. ~(k < m) /\ ~(m < k)
      BY <1>9, <2>4
    <3> QED BY <1>7, <3>1
  <2> QED BY <2>1, <2>2, <2>5
<1>11. Distinct => NoNeighbours
  <2> SUFFICES ASSUME Distinct, NEW i \in 1 .. n - 1, sorted[i] = sorted[i + 1]
               PROVE  FALSE
    OBVIOUS
  <2>1. i \in 1 .. n /\ i + 1 \in 1 .. n /\ i # i + 1
    BY <1>7
  <2>2. p[i] \in 1 .. n /\ p[i + 1] \in 1 .. n
    BY <1>8, <2>1
  <2>3. listed[p[i]] = listed[p[i + 1]]
    BY <1>8, <2>1
  <2>4. p[i] = p[i + 1]
    BY <2>2, <2>3
  <2> QED BY <1>8, <2>1, <2>4
<1>12. Fits => sorted # <<>>
  <2> SUFFICES ASSUME Fits, sorted = <<>> PROVE FALSE
    OBVIOUS
  <2>1. n >= 1 /\ Len(sorted) = 0
    BY <1>7
  <2> QED BY <1>6, <1>7, <2>1
<1>13. ToSet(sorted) = ToSet(listed)
  <2>1. /\ ToSet(sorted) = {sorted[i] : i \in 1 .. n}
        /\ ToSet(listed) = {listed[i] : i \in 1 .. n}
    BY <1>7 DEF ToSet
  <2>2. \A i \in 1 .. n : \E j \in 1 .. n : sorted[i] = listed[j]
    BY <1>8
  <2>3. \A j \in 1 .. n : \E i \in 1 .. n : sorted[i] = listed[j]
    BY <1>8
  <2>4. ToSet(sorted) \subseteq ToSet(listed)
    BY <2>1, <2>2
  <2>5. ToSet(listed) \subseteq ToSet(sorted)
    BY <2>1, <2>3
  <2> QED BY <2>4, <2>5
<1> HIDE DEF NoNeighbours, Distinct, Fits
<1>14. result # <<>> <=> Fits /\ Distinct
  BY <1>4, <1>10, <1>11, <1>12
<1>15. ASSUME result # <<>> PROVE result = sorted /\ NoNeighbours
  BY <1>4, <1>15
<1>16. ASSUME result # <<>>, NEW i \in 1 .. n, NEW j \in 1 .. n, i < j
       PROVE  MarketKeyLess(sorted[i], sorted[j])
  BY <1>9, <1>15, <1>16
<1>17. /\ Len(sorted) = Len(file.spot) + Len(file.usdm)
       /\ ToSet(sorted) = ToSet(spot) \cup ToSet(usdm)
  BY <1>2, <1>3, <1>5, <1>6, <1>13
<1> QED BY <1>6, <1>14, <1>15, <1>16, <1>17
        DEF result, Fits, Distinct, n, listed, spot, usdm

-----------------------------------------------------------------------------
(* The parsers.                                                             *)

\* The size in an entry's one filter of a type.
FilterSize(entry, type) ==
    (CHOOSE f \in ToSet(entry.filters) : f.type = type).size

\* The elements of a sequence.
LEMMA ElementType ==
    ASSUME NEW T, NEW s \in Seq(T), NEW i \in 1 .. Len(s)
    PROVE  s[i] \in T
OBVIOUS

\* Two sequences of one element, one after the other.
LEMMA PairFacts ==
    ASSUME NEW x, NEW y
    PROVE  <<x>> \o <<y>> = <<x, y>>
<1> DEFINE T == {x, y}
           s == <<x>>
           t == <<y>>
           both == s \o t
           pair == <<x, y>>
<1>1. /\ s \in Seq(T) /\ t \in Seq(T)
      /\ Len(s) = 1 /\ Len(t) = 1 /\ s[1] = x /\ t[1] = y
  OBVIOUS
<1>2. /\ pair \in Seq(T) /\ Len(pair) = 2 /\ pair[1] = x /\ pair[2] = y
  OBVIOUS
<1> HIDE DEF s, t, T, pair
<1>3. both \in Seq(T)
  <2>1. s \in Seq(T) /\ t \in Seq(T)
    BY <1>1
  <2> QED BY <2>1
<1>4. Len(both) = 2
  <2>1. s \in Seq(T) /\ t \in Seq(T)
    BY <1>1
  <2>2. Len(s \o t) = Len(s) + Len(t)
    BY <2>1
  <2> QED BY <1>1, <2>2
<1>5. both[1] = x /\ both[2] = y
  BY <1>1
<1> HIDE DEF both
<1>6. both = pair
  BY <1>2, <1>3, <1>4, <1>5
<1> QED BY <1>6 DEF s, t, both, pair

\* A set of positions that counts one has one element, and Min finds it.
LEMMA OnePosition ==
    ASSUME NEW n \in Nat, NEW S \in SUBSET (1 .. n), Cardinality(S) = 1
    PROVE  Min(S) \in S /\ \A i \in S : i = Min(S)
<1>1. IsFiniteSet(1 .. n)
  <2>1. 1 \in Int /\ n \in Int
    OBVIOUS
  <2> QED BY <2>1, FS_Interval
<1>2. IsFiniteSet(S)
  BY <1>1, FS_Subset
<1>3. PICK k : S = {k}
  BY <1>2, FS_Singleton
<1>4. S \in SUBSET Nat /\ k \in S /\ \A x \in S : k <= x
  BY <1>3
<1>5. Min(S) = k
  BY <1>4, MinFacts
<1> QED BY <1>3, <1>5

\* What the loop over the filters finds is the filter of the type.
LEMMA FilterFacts ==
    ASSUME NEW entry \in Entries, NEW type, HasFilter(entry, type)
    PROVE  /\ FilterSize(entry, type) \in Quanta
           /\ Scale(entry, type)
                = decimal_scale_from_quantum(FilterSize(entry, type))
<1> DEFINE F == Filters(entry, type)
           n == Len(entry.filters)
           k == Min(F)
           T == [type : STRING, sized : BOOLEAN, size : Quanta]
<1>1. entry.filters \in Seq(T)
  BY DEF Entries
<1>2. n \in Nat /\ DOMAIN entry.filters = 1 .. n
  BY <1>1
<1>3. F \in SUBSET (1 .. n) /\ Cardinality(F) = 1
  BY <1>2 DEF HasFilter, Filters
<1>4. k \in F /\ \A i \in F : i = k
  <2> HIDE DEF F, n
  <2> QED BY <1>2, <1>3, OnePosition
<1> HIDE DEF k
<1>5. /\ k \in 1 .. n /\ entry.filters[k] \in T /\ entry.filters[k].type = type
      /\ \A i \in 1 .. n : entry.filters[i].type = type => i = k
  <2>1. k \in 1 .. n /\ entry.filters[k].type = type
    BY <1>2, <1>4 DEF Filters
  <2>2. \A i \in 1 .. n : entry.filters[i].type = type => i = k
    BY <1>2, <1>4 DEF Filters
  <2>3. entry.filters[k] \in T
    <3> HIDE DEF T
    <3> QED BY <1>1, <2>1, ElementType
  <2> QED BY <2>1, <2>2, <2>3
<1>6. \A f \in ToSet(entry.filters) : f.type = type <=> f = entry.filters[k]
  BY <1>2, <1>5 DEF ToSet
<1>7. entry.filters[k] \in ToSet(entry.filters)
  BY <1>2, <1>5 DEF ToSet
<1>8. FilterSize(entry, type) = entry.filters[k].size
  BY <1>6, <1>7 DEF FilterSize
<1>9. entry.filters[k].size \in Quanta
  BY <1>5
<1> QED BY <1>8, <1>9 DEF Scale, k

\* A numeric specification gives the decimals of the entry's two sizes.
LEMMA NumericFacts ==
    ASSUME NEW entry \in Entries, NumericSpec(entry).ok
    PROVE  LET price == FilterSize(entry, "PRICE_FILTER")
               lot == FilterSize(entry, "LOT_SIZE")
           IN  /\ NumericSpec(entry).scales = <<Decimals(price), Decimals(lot)>>
               /\ NumericSpec(entry).scales \in Seq(Nat)
               /\ Units(price) > 0
<1> DEFINE price == FilterSize(entry, "PRICE_FILTER")
           lot == FilterSize(entry, "LOT_SIZE")
           P == Scale(entry, "PRICE_FILTER")
           Q == Scale(entry, "LOT_SIZE")
<1>1. /\ HasFilter(entry, "PRICE_FILTER") /\ HasFilter(entry, "LOT_SIZE")
      /\ P.ok /\ Q.ok /\ NumericSpec(entry).scales = P.scales \o Q.scales
  <2>1. /\ Failure.ok = FALSE
        /\ Success(P.scales \o Q.scales).scales = P.scales \o Q.scales
    BY DEF Failure, Success
  <2> QED BY <2>1 DEF NumericSpec
<1>2. /\ price \in Quanta /\ P = decimal_scale_from_quantum(price)
      /\ lot \in Quanta /\ Q = decimal_scale_from_quantum(lot)
  BY <1>1, FilterFacts
<1>3. /\ P.scales = <<Decimals(price)>>
      /\ Decimals(price) \in Nat /\ Units(price) > 0
  BY <1>1, <1>2, ScaleTheorem
<1>4. Q.scales = <<Decimals(lot)>> /\ Decimals(lot) \in Nat
  BY <1>1, <1>2, ScaleTheorem
<1>5. <<Decimals(price)>> \o <<Decimals(lot)>> = <<Decimals(price), Decimals(lot)>>
  BY PairFacts
<1>6. <<Decimals(price), Decimals(lot)>> \in Seq(Nat)
  BY <1>3, <1>4
<1> QED BY <1>1, <1>3, <1>4, <1>5, <1>6

\* A symbol that is listed once has one entry, which Listing() returns.
LEMMA ListingFacts ==
    ASSUME NEW document \in ExchangeDocuments, NEW symbol,
           ListedOnce(document, symbol)
    PROVE  \E i \in DOMAIN document.symbols :
                /\ \A j \in DOMAIN document.symbols :
                        document.symbols[j].symbol = symbol <=> i = j
                /\ Listing(document, symbol) = document.symbols[i]
                /\ document.symbols[i] \in Entries
<1> DEFINE L == Listings(document, symbol)
           n == Len(document.symbols)
           k == Min(L)
<1>1. document.symbols \in Seq(Entries)
  BY DEF ExchangeDocuments
<1>2. n \in Nat /\ DOMAIN document.symbols = 1 .. n
  BY <1>1
<1>3. L \in SUBSET (1 .. n) /\ Cardinality(L) = 1
  BY <1>2 DEF ListedOnce, Listings
<1>4. k \in L /\ \A i \in L : i = k
  <2> HIDE DEF L, n
  <2> QED BY <1>2, <1>3, OnePosition
<1>5. Listing(document, symbol) = document.symbols[k]
  BY DEF Listing
<1> HIDE DEF k
<1>6. /\ k \in 1 .. n
      /\ \A j \in 1 .. n : document.symbols[j].symbol = symbol <=> k = j
  BY <1>2, <1>4 DEF Listings
<1>7. document.symbols[k] \in Entries
  BY <1>1, <1>2, <1>6
<1> QED BY <1>2, <1>5, <1>6, <1>7

\* The entry of a symbol, in the words of IsListed.
ListedAs(document, symbol, kind, scales) ==
    /\ scales \in Seq(Nat)
    /\ \E i \in DOMAIN document.symbols :
        /\ \A j \in DOMAIN document.symbols :
                document.symbols[j].symbol = symbol <=> i = j
        /\ document.symbols[i].status = "TRADING"
        /\ document.symbols[i].kind = kind
        /\ scales = <<Decimals(FilterSize(document.symbols[i], "PRICE_FILTER")),
                      Decimals(FilterSize(document.symbols[i], "LOT_SIZE"))>>
        /\ Units(FilterSize(document.symbols[i], "PRICE_FILTER")) > 0

\* parse_exchange_info() and parse_usdm_exchange_info() return what is listed.
LEMMA ParserFacts ==
    ASSUME NEW document \in ExchangeDocuments, NEW symbol
    PROVE  /\ parse_exchange_info(document, symbol).ok
                => ListedAs(document, symbol, "spot",
                            parse_exchange_info(document, symbol).scales)
           /\ parse_usdm_exchange_info(document, symbol).ok
                => ListedAs(document, symbol, "PERPETUAL",
                            parse_usdm_exchange_info(document, symbol).scales)
<1>0. Failure.ok = FALSE
  BY DEF Failure
<1>1. ASSUME parse_exchange_info(document, symbol).ok
      PROVE  ListedAs(document, symbol, "spot",
                      parse_exchange_info(document, symbol).scales)
  <2>1. /\ ListedOnce(document, symbol)
        /\ SpotAllowed(Listing(document, symbol))
        /\ parse_exchange_info(document, symbol)
            = NumericSpec(Listing(document, symbol))
    BY <1>0, <1>1 DEF parse_exchange_info
  <2>2. PICK i \in DOMAIN document.symbols :
                /\ \A j \in DOMAIN document.symbols :
                        document.symbols[j].symbol = symbol <=> i = j
                /\ Listing(document, symbol) = document.symbols[i]
                /\ document.symbols[i] \in Entries
    BY <2>1, ListingFacts
  <2>3. NumericSpec(document.symbols[i]).ok
    BY <1>1, <2>1, <2>2
  <2>4. /\ document.symbols[i].status = "TRADING"
        /\ document.symbols[i].kind = "spot"
    BY <2>1, <2>2 DEF SpotAllowed
  <2> QED BY <2>1, <2>2, <2>3, <2>4, NumericFacts DEF ListedAs
<1>2. ASSUME parse_usdm_exchange_info(document, symbol).ok
      PROVE  ListedAs(document, symbol, "PERPETUAL",
                      parse_usdm_exchange_info(document, symbol).scales)
  <2>1. /\ ListedOnce(document, symbol)
        /\ UsdMAllowed(Listing(document, symbol))
        /\ parse_usdm_exchange_info(document, symbol)
            = NumericSpec(Listing(document, symbol))
    BY <1>0, <1>2 DEF parse_usdm_exchange_info
  <2>2. PICK i \in DOMAIN document.symbols :
                /\ \A j \in DOMAIN document.symbols :
                        document.symbols[j].symbol = symbol <=> i = j
                /\ Listing(document, symbol) = document.symbols[i]
                /\ document.symbols[i] \in Entries
    BY <2>1, ListingFacts
  <2>3. NumericSpec(document.symbols[i]).ok
    BY <1>2, <2>1, <2>2
  <2>4. /\ document.symbols[i].status = "TRADING"
        /\ document.symbols[i].kind = "PERPETUAL"
    BY <2>1, <2>2 DEF UsdMAllowed
  <2> QED BY <2>1, <2>2, <2>3, <2>4, NumericFacts DEF ListedAs
<1> QED BY <1>1, <1>2

-----------------------------------------------------------------------------
(* What the service is given.                                               *)

\* main() keeps the keys of its configuration.
KeysAreLoaded ==
    /\ config \in Configs /\ keys \in Seq(MarketKeyRecords)
    /\ step \notin {"config", "exited"}
        => keys # <<>> /\ keys = load_daemon_config(config)

ResolvedAt(i) ==
    /\ Specification(keys[i]).ok
    /\ products[i] = [key |-> keys[i], scales |-> Specification(keys[i]).scales]

\* The products so far are those of the first keys, in their order.
ProductsAreResolved ==
    /\ bodies \in [{1, 2} -> ExchangeDocuments]
    /\ products \in Seq([key : MarketKeyRecords, scales : Seq(Nat)])
    /\ step \notin {"resolve", "service", "exited"} => products = <<>>
    /\ step = "service" => Len(products) = Len(keys)
    /\ Len(products) <= Len(keys)
    /\ \A i \in 1 .. Len(products) : ResolvedAt(i)

MetadataInv == KeysAreLoaded /\ ProductsAreResolved

\* A specification is that of its key's entry in its market's document.
LEMMA SpecificationFacts ==
    ASSUME NEW key \in MarketKeyRecords, bodies \in [{1, 2} -> ExchangeDocuments],
           Specification(key).ok
    PROVE  ListedAs(bodies[key.market], key.symbol,
                    IF key.market = 1 THEN "spot" ELSE "PERPETUAL",
                    Specification(key).scales)
<1>0. /\ Failure.ok = FALSE /\ key.market \in {1, 2}
      /\ bodies[1] \in ExchangeDocuments /\ bodies[2] \in ExchangeDocuments
  BY DEF Failure, MarketKeyRecords
<1>1. CASE key.market = 1
  <2>1. Specification(key) = parse_exchange_info(bodies[1], key.symbol)
    BY <1>0, <1>1 DEF Specification
  <2> QED BY <1>0, <1>1, <2>1, ParserFacts
<1>2. CASE key.market = 2
  <2>1. Specification(key) = parse_usdm_exchange_info(bodies[2], key.symbol)
    BY <1>0, <1>2 DEF Specification
  <2> QED BY <1>0, <1>2, <2>1, ParserFacts
<1> QED BY <1>0, <1>1, <1>2

\* A sequence with one element more.
LEMMA AppendFacts ==
    ASSUME NEW T, NEW s \in Seq(T), NEW x \in T
    PROVE  /\ Append(s, x) \in Seq(T) /\ Len(s) \in Nat
           /\ Len(Append(s, x)) = Len(s) + 1
           /\ \A i \in 1 .. Len(s) : Append(s, x)[i] = s[i]
           /\ Append(s, x)[Len(s) + 1] = x
OBVIOUS

\* The steps of the request and of the signals are none of the metadata's.
MetadataUnchanged == UNCHANGED <<step, config, keys, bodies, products>>

\* What leaves the metadata alone keeps their invariant.
LEMMA MetadataStutter ==
    ASSUME MetadataInv, MetadataUnchanged
    PROVE  MetadataInv'
BY DEF MetadataInv, MetadataUnchanged, KeysAreLoaded, ProductsAreResolved,
       ResolvedAt, Specification

\* The step to the next phase, or to the exit, with nothing else changed.
LEMMA MetadataControl ==
    ASSUME MetadataInv, UNCHANGED <<config, keys, bodies, products>>,
           \/ step' = "exited"
           \/ step # "exited" /\ step # "config" /\ products = <<>>
                /\ step' \in {"fetch", "fetchUsdM", "resolve"}
           \/ step = "resolve" /\ step' = "service" /\ Len(products) = Len(keys)
    PROVE  MetadataInv'
BY DEF MetadataInv, KeysAreLoaded, ProductsAreResolved, ResolvedAt,
       Specification

\* LoadsConfig.
LEMMA MetadataLoads ==
    ASSUME MetadataInv, LoadsConfig
    PROVE  MetadataInv'
<1>1. /\ keys' = load_daemon_config(config) /\ config' = config /\ bodies' = bodies
      /\ products = <<>> /\ products' = <<>> /\ config \in Configs
      /\ step' = IF keys' = <<>> THEN "exited" ELSE "preflight"
  BY DEF MetadataInv, KeysAreLoaded, ProductsAreResolved, LoadsConfig, Exits
<1>2. keys' \in Seq(MarketKeyRecords)
  <2>1. CASE keys' = <<>>
    BY <2>1
  <2>2. CASE keys' # <<>>
    BY <1>1, <2>2, ConfigTheorem
  <2> QED BY <2>1, <2>2
<1>3. KeysAreLoaded'
  BY <1>1, <1>2 DEF KeysAreLoaded
<1>4. ProductsAreResolved'
  <2>1. Len(products') = 0 /\ Len(keys') \in Nat
    BY <1>1, <1>2
  <2>2. products' \in Seq([key : MarketKeyRecords, scales : Seq(Nat)])
    BY <1>1
  <2>3. step' \notin {"service"}
    BY <1>1
  <2>4. bodies' \in [{1, 2} -> ExchangeDocuments]
    BY <1>1 DEF MetadataInv, ProductsAreResolved
  <2> QED BY <1>1, <2>1, <2>2, <2>3, <2>4 DEF ProductsAreResolved
<1> QED BY <1>3, <1>4 DEF MetadataInv

\* RunReturns, which stores a document before anything is resolved.
LEMMA MetadataReturns ==
    ASSUME MetadataInv, RunReturns
    PROVE  MetadataInv'
<1>1. CASE UNCHANGED bodies
  <2>1. \/ step' = "exited"
        \/ step \in {"fetch", "fetchUsdM"} /\ step' \in {"fetchUsdM", "resolve"}
    BY DEF RunReturns, AtFetch, NextFetch, Exits
  <2>2. step \in {"fetch", "fetchUsdM"} => products = <<>>
    BY DEF MetadataInv, ProductsAreResolved
  <2>3. UNCHANGED <<config, keys, products>>
    BY DEF RunReturns
  <2> QED BY <1>1, <2>1, <2>2, <2>3, MetadataControl
<1>2. CASE bodies' # bodies
  <2>1. PICK document \in Documents[Market] :
            bodies' = [bodies EXCEPT ![Market] = document]
    BY <1>2 DEF RunReturns
  <2>2. /\ step \in {"fetch", "fetchUsdM"} /\ step' \in {"fetchUsdM", "resolve"}
        /\ UNCHANGED <<config, keys, products>>
    BY <1>2 DEF RunReturns, AtFetch, NextFetch
  <2>3. Market \in {1, 2} /\ document \in ExchangeDocuments
    BY <2>1, <2>2, StartupAssumption DEF Market
  <2>4. bodies' \in [{1, 2} -> ExchangeDocuments] /\ products = <<>>
    BY <2>1, <2>2, <2>3 DEF MetadataInv, ProductsAreResolved
  <2>5. KeysAreLoaded'
    BY <2>2 DEF MetadataInv, KeysAreLoaded
  <2>6. /\ products' \in Seq([key : MarketKeyRecords, scales : Seq(Nat)])
        /\ Len(products') = 0 /\ Len(products') <= Len(keys')
    BY <2>2, <2>4 DEF MetadataInv, ProductsAreResolved
  <2>7. ProductsAreResolved'
    BY <2>2, <2>4, <2>6 DEF ProductsAreResolved
  <2> QED BY <2>5, <2>7 DEF MetadataInv
<1> QED BY <1>1, <1>2

\* ResolvesKey.
LEMMA MetadataResolves ==
    ASSUME MetadataInv, ResolvesKey
    PROVE  MetadataInv'
<1> DEFINE n == Len(products)
           key == keys[n + 1]
           spec == Specification(key)
           resolved == [key |-> key, scales |-> spec.scales]
           T == [key : MarketKeyRecords, scales : Seq(Nat)]
<1>1. /\ step = "resolve" /\ n < Len(keys)
      /\ UNCHANGED <<config, keys, bodies>>
      /\ \/ spec.ok /\ products' = Append(products, resolved) /\ step' = step
         \/ step' = "exited" /\ products' = products
  BY DEF ResolvesKey, Exits
<1>2. CASE step' = "exited" /\ products' = products
  BY <1>1, <1>2, MetadataControl
<1>3. CASE spec.ok /\ products' = Append(products, resolved) /\ step' = step
  <2>1. /\ n \in Nat /\ Len(keys) \in Nat /\ n + 1 \in 1 .. Len(keys)
        /\ keys \in Seq(MarketKeyRecords) /\ products \in Seq(T)
        /\ bodies \in [{1, 2} -> ExchangeDocuments]
    BY <1>1 DEF MetadataInv, KeysAreLoaded, ProductsAreResolved
  <2>2. key \in MarketKeyRecords
    BY <2>1, ElementType
  <2>3. spec.scales \in Seq(Nat)
    BY <1>3, <2>1, <2>2, SpecificationFacts DEF ListedAs
  <2>4. resolved \in T
    BY <2>2, <2>3
  <2> HIDE DEF resolved, T, spec
  <2>5. /\ products' \in Seq(T) /\ Len(products') = n + 1
        /\ \A i \in 1 .. n : products'[i] = products[i]
        /\ products'[n + 1] = resolved
    BY <1>3, <2>1, <2>4, AppendFacts
  <2>6. ASSUME NEW i \in 1 .. n + 1 PROVE ResolvedAt(i)'
    <3>1. Specification(keys[i])' = Specification(keys[i]) /\ keys' = keys
      BY <1>1 DEF Specification
    <3>2. CASE i = n + 1
      BY <1>3, <2>5, <3>1, <3>2 DEF ResolvedAt, resolved, spec
    <3>3. CASE i \in 1 .. n
      <4>1. ResolvedAt(i)
        BY <3>3 DEF MetadataInv, ProductsAreResolved
      <4> QED BY <2>5, <3>1, <3>3, <4>1 DEF ResolvedAt
    <3> QED BY <2>1, <3>2, <3>3
  <2>7. KeysAreLoaded'
    BY <1>1, <1>3 DEF MetadataInv, KeysAreLoaded
  <2>8. ProductsAreResolved'
    <3>1. /\ bodies' \in [{1, 2} -> ExchangeDocuments]
          /\ products' \in Seq([key : MarketKeyRecords, scales : Seq(Nat)])
          /\ step' = "resolve" /\ Len(products') <= Len(keys')
      BY <1>1, <1>3, <2>1, <2>5 DEF T
    <3> QED BY <2>5, <2>6, <3>1 DEF ProductsAreResolved
  <2> QED BY <2>7, <2>8 DEF MetadataInv
<1> QED BY <1>1, <1>2, <1>3

\* Every step of the startup keeps the metadata invariant.
LEMMA MetadataStep ==
    ASSUME MetadataInv, [StartupNext]_startupVars
    PROVE  MetadataInv'
<1>1. CASE LoadsConfig
  BY <1>1, MetadataLoads
<1>2. CASE BlocksSignals
  <2>1. /\ step = "preflight" /\ step' \in {"fetch", "exited"} /\ products = <<>>
        /\ UNCHANGED <<config, keys, bodies, products>>
    BY <1>2 DEF BlocksSignals, Exits, MetadataInv, ProductsAreResolved
  <2> QED BY <2>1, MetadataControl
<1>3. CASE SkipsFetch
  <2>1. /\ step \in {"fetch", "fetchUsdM"} /\ products = <<>>
        /\ step' \in {"fetchUsdM", "resolve"}
        /\ UNCHANGED <<config, keys, bodies, products>>
    BY <1>3 DEF SkipsFetch, AtFetch, NextFetch, MetadataInv, ProductsAreResolved
  <2> QED BY <2>1, MetadataControl
<1>4. CASE RunReturns
  BY <1>4, MetadataReturns
<1>5. CASE ResolvesKey
  BY <1>5, MetadataResolves
<1>6. CASE EntersService
  <2>1. /\ step = "resolve" /\ step' \in {"service", "exited"}
        /\ Len(products) = Len(keys)
        /\ UNCHANGED <<config, keys, bodies, products>>
    BY <1>6 DEF EntersService, Exits
  <2> QED BY <2>1, MetadataControl
<1>7. CASE MetadataUnchanged
  BY <1>7, MetadataStutter
<1>8. StartsFetch => MetadataUnchanged
  BY DEF StartsFetch, MetadataUnchanged
<1>9. ReactorTurn => MetadataUnchanged
  BY DEF ReactorTurn, fetchUnchanged, MetadataUnchanged
<1>10. StageDone \/ StageTimesOut => MetadataUnchanged
  BY DEF StageDone, StageTimesOut, fetchUnchanged, MetadataUnchanged
<1>11. TimerBecomesDue \/ (\E result \in {"ok", "failed"} : IoBecomesDue(result))
        => MetadataUnchanged
  BY DEF TimerBecomesDue, IoBecomesDue, fetchUnchanged, MetadataUnchanged
<1>12. TerminationArrives \/ WaiterSeesSignal => MetadataUnchanged
  BY DEF TerminationArrives, WaiterSeesSignal, MetadataUnchanged
<1>13. Over \/ UNCHANGED startupVars => MetadataUnchanged
  BY DEF Over, startupVars, MetadataUnchanged
<1> QED BY <1>1, <1>2, <1>3, <1>4, <1>5, <1>6, <1>7, <1>8, <1>9, <1>10, <1>11,
           <1>12, <1>13 DEF StartupNext, Main

\* What has been resolved when the service starts is what is listed.
LEMMA ListedFromInvariant ==
    ASSUME MetadataInv
    PROVE  ServesWhatIsListed
<1> SUFFICES ASSUME step = "service" PROVE ServesWhatIsListed
  BY DEF ServesWhatIsListed
<1>1. /\ config \in Configs /\ keys \in Seq(MarketKeyRecords)
      /\ keys # <<>> /\ keys = load_daemon_config(config)
  BY DEF MetadataInv, KeysAreLoaded
<1>2. /\ Len(keys) = Len(config.spot) + Len(config.usdm)
      /\ \A i, j \in 1 .. Len(keys) : i < j => MarketKeyLess(keys[i], keys[j])
      /\ ToSet(keys) = ToSet(MarketKeys(1, config.spot))
                        \cup ToSet(MarketKeys(2, config.usdm))
  BY <1>1, ConfigTheorem
<1>3. /\ bodies \in [{1, 2} -> ExchangeDocuments]
      /\ DOMAIN products = 1 .. Len(keys) /\ Len(products) = Len(keys)
      /\ \A i \in 1 .. Len(keys) : ResolvedAt(i)
  BY DEF MetadataInv, ProductsAreResolved
<1>4. ASSUME NEW i \in DOMAIN products PROVE IsListed(products[i])
  <2>1. i \in 1 .. Len(keys) /\ keys[i] \in MarketKeyRecords
    BY <1>1, <1>3, ElementType
  <2> DEFINE key == keys[i]
             scales == Specification(key).scales
             kind == IF key.market = 1 THEN "spot" ELSE "PERPETUAL"
  <2>2. products[i] = [key |-> key, scales |-> scales] /\ Specification(key).ok
    BY <1>3, <2>1 DEF ResolvedAt
  <2>3. ListedAs(bodies[key.market], key.symbol, kind, scales)
    BY <1>3, <2>1, <2>2, SpecificationFacts
  <2>4. products[i].key = key /\ products[i].scales = scales
    BY <2>2
  <2> HIDE DEF key, scales
  <2> QED BY <2>3, <2>4 DEF IsListed, ListedAs, FilterSize
<1>5. ASSUME NEW i \in DOMAIN products, NEW j \in DOMAIN products, i < j
      PROVE  MarketKeyLess(products[i].key, products[j].key)
  <2>1. i \in 1 .. Len(keys) /\ j \in 1 .. Len(keys)
    BY <1>3
  <2>2. products[i].key = keys[i] /\ products[j].key = keys[j]
    BY <1>3, <2>1 DEF ResolvedAt
  <2> QED BY <1>2, <1>5, <2>1, <2>2
<1>6. {products[i].key : i \in DOMAIN products} = ToSet(keys)
  <2>1. \A i \in 1 .. Len(keys) : products[i].key = keys[i]
    BY <1>3 DEF ResolvedAt
  <2>2. ToSet(keys) = {keys[i] : i \in 1 .. Len(keys)}
    BY <1>1 DEF ToSet
  <2> QED BY <1>3, <2>1, <2>2
<1> QED BY <1>2, <1>3, <1>4, <1>5, <1>6 DEF ServesWhatIsListed

\* The service is only ever given every configured product once, in canonical
\* order, with the scales that its own market's document implies.
THEOREM ListedTheorem == StartupSpec => []ServesWhatIsListed
<1>1. StartupInit => MetadataInv
  <2> SUFFICES ASSUME StartupInit PROVE MetadataInv
    OBVIOUS
  <2>1. [valid |-> FALSE, symbols |-> <<>>] \in ExchangeDocuments
    BY DEF ExchangeDocuments
  <2>2. bodies \in [{1, 2} -> ExchangeDocuments]
    BY <2>1 DEF StartupInit
  <2>3. KeysAreLoaded
    BY DEF StartupInit, KeysAreLoaded
  <2>4. products = <<>> /\ Len(products) = 0 /\ Len(keys) = 0 /\ step = "config"
    BY DEF StartupInit
  <2>5. ProductsAreResolved
    BY <2>2, <2>4 DEF ProductsAreResolved
  <2> QED BY <2>3, <2>5 DEF MetadataInv
<1>2. MetadataInv /\ [StartupNext]_startupVars => MetadataInv'
  BY MetadataStep
<1>3. MetadataInv => ServesWhatIsListed
  BY ListedFromInvariant
<1> QED BY <1>1, <1>2, <1>3, PTL DEF StartupSpec

-----------------------------------------------------------------------------
(* The request.                                                             *)

WaitRecords == [generation : Nat, stage : Nat, due : BOOLEAN]

Handlers ==
    [kind : {"io", "timer"}, outcome : {"ok", "failed", "aborted"},
     wait : WaitRecords]

TimerRecords == [generation : Nat, wait : WaitRecords]

Gets ==
    [stage : Nat, timer : TimerRecords,
     io : {"none", "waiting", "ok", "failed", "aborted"},
     ready : Seq(Handlers), done : BOOLEAN,
     result : {"none", "body", "failed", "timeout"}, blamed : Nat]

HasIo(ready) == \E i \in 1 .. Len(ready) : ready[i].kind = "io"

\* A timer's handler in the queue is not from the future, and if it is current it
\* is about the stage that is running.
TimersFit(ready, generation, stage) ==
    \A i \in 1 .. Len(ready) :
        ready[i].kind = "timer" =>
            /\ ready[i].wait.generation <= generation
            /\ ready[i].wait.generation = generation
                => ready[i].wait.stage = stage

\* A request whose timer and queue belong to the stage it is in.
Consistent(g) ==
    /\ g \in Gets
    /\ g.done <=> g.result # "none"
    /\ g.timer.wait # NoWait
        => /\ g.timer.wait.generation = g.timer.generation
           /\ g.timer.wait.stage = g.stage
    /\ TimersFit(g.ready, g.timer.generation, g.stage)
    /\ g.result = "timeout" => g.blamed = g.stage

\* A request that is over, or that the io_context still owes a call's handler.
Owed(g) == g.done \/ g.io # "none" \/ HasIo(g.ready)

FetchInv ==
    /\ Consistent(get) /\ (get # NoGet => Owed(get))
    /\ outcome # "NoResult"

\* What follows the head of a queue.
LEMMA TailFacts ==
    ASSUME NEW T, NEW s \in Seq(T), s # <<>>
    PROVE  /\ Tail(s) \in Seq(T) /\ Len(s) \in Nat /\ Len(s) > 0
           /\ Len(Tail(s)) = Len(s) - 1 /\ Head(s) = s[1] /\ s[1] \in T
           /\ \A i \in 1 .. Len(Tail(s)) : Tail(s)[i] = s[i + 1]
OBVIOUS

\* The queue's handlers fit when those of its parts do.
LEMMA FitConcat ==
    ASSUME NEW s \in Seq(Handlers), NEW t \in Seq(Handlers),
           NEW generation \in Nat, NEW stage \in Nat,
           TimersFit(s, generation, stage), TimersFit(t, generation, stage)
    PROVE  /\ TimersFit(s \o t, generation, stage)
           /\ HasIo(s) \/ HasIo(t) => HasIo(s \o t)
<1> DEFINE u == s \o t
<1>1. /\ u \in Seq(Handlers) /\ Len(s) \in Nat /\ Len(t) \in Nat
      /\ Len(u) = Len(s) + Len(t)
      /\ \A i \in 1 .. Len(s) : u[i] = s[i]
      /\ \A i \in 1 .. Len(t) : u[Len(s) + i] = t[i]
  BY ConcatFacts
<1> HIDE DEF u
<1>2. ASSUME NEW i \in 1 .. Len(u)
      PROVE  \/ i \in 1 .. Len(s) /\ u[i] = s[i]
             \/ i - Len(s) \in 1 .. Len(t) /\ u[i] = t[i - Len(s)]
  <2>1. CASE i <= Len(s)
    BY <1>1, <2>1
  <2>2. CASE i > Len(s)
    <3>1. i - Len(s) \in 1 .. Len(t) /\ Len(s) + (i - Len(s)) = i
      BY <1>1, <2>2
    <3> QED BY <1>1, <3>1
  <2> QED BY <1>1, <2>1, <2>2
<1>3. TimersFit(u, generation, stage)
  BY <1>2 DEF TimersFit
<1>4. HasIo(s) => HasIo(u)
  <2> SUFFICES ASSUME NEW i \in 1 .. Len(s), s[i].kind = "io" PROVE HasIo(u)
    BY DEF HasIo
  <2>1. i \in 1 .. Len(u) /\ u[i] = s[i]
    BY <1>1
  <2> QED BY <2>1 DEF HasIo
<1>5. HasIo(t) => HasIo(u)
  <2> SUFFICES ASSUME NEW i \in 1 .. Len(t), t[i].kind = "io" PROVE HasIo(u)
    BY DEF HasIo
  <2>1. Len(s) + i \in 1 .. Len(u) /\ u[Len(s) + i] = t[i]
    BY <1>1
  <2> QED BY <2>1 DEF HasIo
<1> QED BY <1>3, <1>4, <1>5 DEF u

\* Running a handler takes it from the queue; only an io handler takes an io
\* handler.
LEMMA FitTail ==
    ASSUME NEW s \in Seq(Handlers), s # <<>>,
           NEW generation \in Nat, NEW stage \in Nat,
           TimersFit(s, generation, stage)
    PROVE  /\ TimersFit(Tail(s), generation, stage)
           /\ HasIo(s) /\ Head(s).kind # "io" => HasIo(Tail(s))
<1> DEFINE u == Tail(s)
<1>1. /\ u \in Seq(Handlers) /\ Len(s) \in Nat /\ Len(s) > 0
      /\ Len(u) = Len(s) - 1 /\ Head(s) = s[1]
      /\ \A i \in 1 .. Len(u) : u[i] = s[i + 1]
  BY TailFacts
<1> HIDE DEF u
<1>2. ASSUME NEW i \in 1 .. Len(u) PROVE i + 1 \in 1 .. Len(s) /\ u[i] = s[i + 1]
  BY <1>1
<1>3. TimersFit(u, generation, stage)
  BY <1>2 DEF TimersFit
<1>4. ASSUME HasIo(s), Head(s).kind # "io" PROVE HasIo(u)
  <2>1. PICK i \in 1 .. Len(s) : s[i].kind = "io"
    BY <1>4 DEF HasIo
  <2>2. i # 1 /\ i - 1 \in 1 .. Len(u) /\ (i - 1) + 1 = i
    BY <1>1, <1>4, <2>1
  <2>3. u[i - 1] = s[i]
    BY <1>1, <2>2
  <2> QED BY <2>1, <2>2, <2>3 DEF HasIo
<1> QED BY <1>3, <1>4 DEF u

\* A later generation makes every handler in the queue stale.
LEMMA FitLater ==
    ASSUME NEW s \in Seq(Handlers), NEW generation \in Nat, NEW stage \in Nat,
           NEW later \in Nat, later > generation, NEW other \in Nat,
           TimersFit(s, generation, stage)
    PROVE  TimersFit(s, later, other)
<1>1. ASSUME NEW i \in 1 .. Len(s), s[i].kind = "timer"
      PROVE  s[i].wait.generation <= generation /\ s[i].wait.generation \in Nat
  <2>1. s[i] \in Handlers
    BY ElementType
  <2> QED BY <1>1, <2>1 DEF TimersFit, Handlers, WaitRecords
<1>2. ASSUME NEW i \in 1 .. Len(s), s[i].kind = "timer"
      PROVE  s[i].wait.generation < later
  BY <1>1, <1>2
<1>3. ASSUME NEW i \in 1 .. Len(s), s[i].kind = "timer"
      PROVE  s[i].wait.generation <= later /\ s[i].wait.generation # later
  <2>1. s[i].wait.generation \in Nat /\ s[i].wait.generation < later
    BY <1>1, <1>2, <1>3
  <2> QED BY <2>1
<1> QED BY <1>3 DEF TimersFit

\* disarm_timeout() leaves nothing in the queue current.
LEMMA DisarmStep ==
    ASSUME NEW g, Consistent(g)
    PROVE  LET h == [g EXCEPT !.timer = DisarmTimeout(@)] IN
           /\ Consistent(h) /\ h.done = g.done /\ h.stage = g.stage
           /\ h.io = g.io /\ h.ready = g.ready
<1> DEFINE h == [g EXCEPT !.timer = DisarmTimeout(@)]
           n == g.timer.generation
<1>1. g \in Gets /\ n \in Nat /\ g.stage \in Nat /\ g.ready \in Seq(Handlers)
  BY DEF Consistent, Gets, TimerRecords
<1>2. DisarmTimeout(g.timer) \in TimerRecords
  BY <1>1 DEF NoWait, WaitRecords, TimerRecords, DisarmTimeout
<1>3. h \in Gets
  BY <1>1, <1>2 DEF Gets
<1>4. /\ h.timer = [generation |-> n + 1, wait |-> NoWait]
      /\ h.stage = g.stage /\ h.io = g.io /\ h.ready = g.ready
      /\ h.done = g.done /\ h.result = g.result /\ h.blamed = g.blamed
  BY <1>1 DEF Gets, DisarmTimeout
<1> HIDE DEF h
<1>5. TimersFit(h.ready, n + 1, h.stage)
  <2>1. n + 1 \in Nat /\ n + 1 > n /\ h.stage \in Nat
    BY <1>1, <1>4
  <2>2. TimersFit(g.ready, n, g.stage)
    BY DEF Consistent
  <2> QED BY <1>1, <1>4, <2>1, <2>2, FitLater
<1>6. h.timer.generation = n + 1 /\ h.timer.wait = NoWait
  BY <1>4
<1>7. Consistent(h)
  BY <1>3, <1>4, <1>5, <1>6 DEF Consistent
<1> QED BY <1>4, <1>7 DEF h

\* BeginStage: a call is outstanding, and its timer is about it.
LEMMA BeginStep ==
    ASSUME NEW g, Consistent(g), ~g.done, NEW stage \in Nat
    PROVE  Consistent(BeginStage(g, stage)) /\ Owed(BeginStage(g, stage))
<1> DEFINE h == BeginStage(g, stage)
           n == g.timer.generation
           wait == [generation |-> n + 1, stage |-> stage, due |-> FALSE]
<1>1. g \in Gets /\ n \in Nat /\ g.stage \in Nat /\ g.ready \in Seq(Handlers)
  BY DEF Consistent, Gets, TimerRecords
<1>2. ArmTimeout(g.timer, stage) \in TimerRecords
  BY <1>1 DEF WaitRecords, TimerRecords, ArmTimeout
<1>3. h \in Gets
  BY <1>1, <1>2 DEF Gets, BeginStage
<1>4. /\ h.timer = [generation |-> n + 1, wait |-> wait]
      /\ h.stage = stage /\ h.io = "waiting" /\ h.ready = g.ready
      /\ h.done = g.done /\ h.result = g.result
  BY <1>1 DEF Gets, BeginStage, ArmTimeout
<1> HIDE DEF h
<1>5. TimersFit(h.ready, n + 1, h.stage)
  <2>1. n + 1 \in Nat /\ n + 1 > n /\ h.stage \in Nat
    BY <1>1, <1>4
  <2>2. TimersFit(g.ready, n, g.stage)
    BY DEF Consistent
  <2> QED BY <1>1, <1>4, <2>1, <2>2, FitLater
<1>6. /\ h.timer.generation = n + 1 /\ h.timer.wait.generation = n + 1
      /\ h.timer.wait.stage = stage
  BY <1>4
<1>7. h.result = "none"
  BY <1>4 DEF Consistent
<1>8. Consistent(h)
  BY <1>3, <1>4, <1>5, <1>6, <1>7 DEF Consistent
<1> QED BY <1>4, <1>8 DEF h, Owed

\* Finish: there is a result, and a timeout is that of the stage.
LEMMA FinishStep ==
    ASSUME NEW g, Consistent(g), ~g.done, NEW blamed \in Nat,
           NEW result \in {"body", "failed", "timeout"},
           result = "timeout" => blamed = g.stage
    PROVE  Consistent(Finish(g, result, blamed)) /\ Owed(Finish(g, result, blamed))
<1> DEFINE h == Finish(g, result, blamed)
           n == g.timer.generation
<1>1. /\ g \in Gets /\ n \in Nat /\ g.stage \in Nat /\ g.ready \in Seq(Handlers)
      /\ g.result = "none"
  BY DEF Consistent, Gets, TimerRecords
<1>2. DisarmTimeout(g.timer) \in TimerRecords
  BY <1>1 DEF NoWait, WaitRecords, TimerRecords, DisarmTimeout
<1>3. h \in Gets
  BY <1>1, <1>2 DEF Gets, Finish
<1>4. /\ h.timer = [generation |-> n + 1, wait |-> NoWait]
      /\ h.stage = g.stage /\ h.ready = g.ready
      /\ h.done = TRUE /\ h.result = result /\ h.blamed = blamed
  BY <1>1 DEF Gets, Finish, DisarmTimeout
<1> HIDE DEF h
<1>5. TimersFit(h.ready, n + 1, h.stage)
  <2>1. n + 1 \in Nat /\ n + 1 > n /\ h.stage \in Nat
    BY <1>1, <1>4
  <2>2. TimersFit(g.ready, n, g.stage)
    BY DEF Consistent
  <2> QED BY <1>1, <1>4, <2>1, <2>2, FitLater
<1>6. h.timer.generation = n + 1 /\ h.timer.wait = NoWait
  BY <1>4
<1>7. Consistent(h)
  BY <1>3, <1>4, <1>5, <1>6 DEF Consistent
<1> QED BY <1>4, <1>7 DEF h, Owed

\* A handler is taken from the queue.
LEMMA TakenStep ==
    ASSUME Consistent(get), get.ready # <<>>
    PROVE  /\ Consistent(Taken) /\ Taken.done = get.done /\ Taken.stage = get.stage
           /\ Head(get.ready) \in Handlers
           /\ TimersFit(<<Head(get.ready)>>, get.timer.generation, get.stage)
           /\ Taken.timer = get.timer
           /\ Owed(get) /\ Head(get.ready).kind # "io" => Owed(Taken)
           /\ get.done => Owed(Taken)
<1> DEFINE h == Taken
           n == get.timer.generation
<1>1. /\ get \in Gets /\ n \in Nat /\ get.stage \in Nat
      /\ get.ready \in Seq(Handlers) /\ TimersFit(get.ready, n, get.stage)
  BY DEF Consistent, Gets, TimerRecords
<1>2. /\ Tail(get.ready) \in Seq(Handlers) /\ Head(get.ready) = get.ready[1]
      /\ get.ready[1] \in Handlers /\ 1 \in 1 .. Len(get.ready)
  BY <1>1, TailFacts
<1>3. h \in Gets
  BY <1>1, <1>2 DEF Gets, Taken
<1>4. /\ h.timer = get.timer /\ h.stage = get.stage /\ h.io = get.io
      /\ h.ready = Tail(get.ready)
      /\ h.done = get.done /\ h.result = get.result /\ h.blamed = get.blamed
  BY <1>1 DEF Gets, Taken
<1> HIDE DEF h
<1>5. /\ TimersFit(h.ready, n, h.stage)
      /\ HasIo(get.ready) /\ Head(get.ready).kind # "io" => HasIo(h.ready)
  BY <1>1, <1>4, FitTail
<1>6. Consistent(h)
  BY <1>3, <1>4, <1>5 DEF Consistent
<1>7. TimersFit(<<Head(get.ready)>>, n, get.stage)
  <2> DEFINE s == <<Head(get.ready)>>
  <2>1. Len(s) = 1 /\ s[1] = get.ready[1]
    BY <1>2
  <2> HIDE DEF s
  <2>2. \A i \in 1 .. Len(s) : s[i] = get.ready[1]
    BY <2>1
  <2> QED BY <1>1, <1>2, <2>2 DEF TimersFit, s
<1>8. (Owed(get) /\ Head(get.ready).kind # "io") \/ get.done => Owed(h)
  BY <1>4, <1>5 DEF Owed
<1> QED BY <1>2, <1>4, <1>6, <1>7, <1>8 DEF h

\* A request that has not been started.
LEMMA NoGetFacts == Consistent(NoGet) /\ ~NoGet.done /\ NoGet.stage \in Nat
<1>1. NoWait \in WaitRecords
  BY DEF NoWait, WaitRecords
<1>2. NewTimer \in TimerRecords /\ NewTimer.wait = NoWait
  BY <1>1 DEF NewTimer, TimerRecords
<1>3. /\ NoGet.stage = 0 /\ NoGet.timer = NewTimer /\ NoGet.ready = <<>>
      /\ NoGet.done = FALSE /\ NoGet.result = "none"
  BY DEF NoGet
<1>4. NoGet \in Gets
  BY <1>2 DEF NoGet, Gets
<1>5. TimersFit(NoGet.ready, NoGet.timer.generation, NoGet.stage)
  BY <1>3 DEF TimersFit
<1> QED BY <1>2, <1>3, <1>4, <1>5 DEF Consistent

\* A call's result, or the timer's, becomes due.
LEMMA DueStep ==
    ASSUME FetchInv,
           \/ \E result \in {"ok", "failed"} : IoBecomesDue(result)
           \/ TimerBecomesDue
    PROVE  FetchInv'
<1>1. /\ Consistent(get) /\ outcome # "NoResult" /\ get \in Gets
      /\ get.timer \in TimerRecords
  BY DEF FetchInv, Consistent, Gets
<1>2. ASSUME NEW result \in {"ok", "failed"}, IoBecomesDue(result)
      PROVE  FetchInv'
  <2> DEFINE h == [get EXCEPT !.io = result]
  <2>1. get' = h /\ outcome' = outcome
    BY <1>2 DEF IoBecomesDue, fetchUnchanged
  <2>2. h \in Gets
    BY <1>1 DEF Gets
  <2>3. /\ h.timer = get.timer /\ h.stage = get.stage /\ h.ready = get.ready
        /\ h.done = get.done /\ h.result = get.result /\ h.blamed = get.blamed
        /\ h.io = result
    BY <1>1 DEF Gets
  <2> HIDE DEF h
  <2>4. Consistent(h)
    BY <1>1, <2>2, <2>3 DEF Consistent
  <2>5. Owed(h)
    BY <2>3 DEF Owed
  <2> QED BY <1>1, <2>1, <2>4, <2>5 DEF FetchInv
<1>3. ASSUME TimerBecomesDue PROVE FetchInv'
  <2> DEFINE timer == Expires(get.timer)
             h == [get EXCEPT !.timer = timer]
  <2>1. get' = h /\ outcome' = outcome /\ get.timer.wait # NoWait
    BY <1>3 DEF TimerBecomesDue, fetchUnchanged
  <2>2. /\ timer \in TimerRecords /\ timer.generation = get.timer.generation
        /\ timer.wait.generation = get.timer.wait.generation
        /\ timer.wait.stage = get.timer.wait.stage
    BY <1>1 DEF TimerRecords, WaitRecords, Expires
  <2> HIDE DEF timer
  <2>3. h \in Gets
    BY <1>1, <2>2 DEF Gets
  <2>4. /\ h.timer = timer /\ h.stage = get.stage /\ h.ready = get.ready
        /\ h.done = get.done /\ h.result = get.result /\ h.blamed = get.blamed
        /\ h.io = get.io
    BY <1>1 DEF Gets
  <2> HIDE DEF h
  <2>5. Consistent(h)
    BY <1>1, <2>1, <2>2, <2>3, <2>4 DEF Consistent
  <2>6. get # NoGet
    BY <2>1 DEF NoGet, NewTimer
  <2>7. Owed(h)
    BY <2>4, <2>6 DEF Owed, FetchInv
  <2> QED BY <1>1, <2>1, <2>5, <2>7 DEF FetchInv
<1> QED BY <1>2, <1>3

\* ReactorTurn: what is due moves to the queue, and is still owed from there.
LEMMA TurnStep ==
    ASSUME FetchInv, ReactorTurn
    PROVE  FetchInv'
<1> DEFINE due == get.timer.wait.due
           io == IF IoDue THEN <<[kind |-> "io", outcome |-> get.io,
                                  wait |-> NoWait]>> ELSE <<>>
           expired == IF due THEN <<[kind |-> "timer", outcome |-> "ok",
                                     wait |-> get.timer.wait]>> ELSE <<>>
           timer == IF due THEN CancelTimer(get.timer) ELSE get.timer
           h == [get EXCEPT !.ready = @ \o io \o expired,
                            !.io = IF IoDue THEN "none" ELSE @,
                            !.timer = timer]
           n == get.timer.generation
<1>1. get' = h /\ outcome' = outcome /\ (IoDue \/ due)
  BY DEF ReactorTurn, fetchUnchanged
<1>2. /\ Consistent(get) /\ outcome # "NoResult" /\ get \in Gets
      /\ get.timer \in TimerRecords /\ n \in Nat /\ get.stage \in Nat
      /\ get.ready \in Seq(Handlers) /\ get.timer.wait \in WaitRecords
      /\ TimersFit(get.ready, n, get.stage)
  BY DEF FetchInv, Consistent, Gets, TimerRecords
<1>3. NoWait \in WaitRecords /\ NoWait.due = FALSE
  BY DEF NoWait, WaitRecords
<1>4. due => /\ get.timer.wait.generation = n /\ get.timer.wait.stage = get.stage
             /\ get.timer.wait # NoWait
  BY <1>2, <1>3 DEF Consistent
<1>5. /\ timer \in TimerRecords /\ timer.generation = n
      /\ timer.wait \in {NoWait, get.timer.wait}
  BY <1>2, <1>3 DEF TimerRecords, CancelTimer
<1>6. io \in Seq(Handlers) /\ TimersFit(io, n, get.stage) /\ (IoDue => HasIo(io))
  <2> DEFINE x == [kind |-> "io", outcome |-> get.io, wait |-> NoWait]
  <2>1. CASE IoDue
    <3>1. x \in Handlers /\ x.kind = "io"
      BY <1>3, <2>1 DEF IoDue, Handlers
    <3>2. io = <<x>>
      BY <2>1
    <3> HIDE DEF x, io
    <3>3. <<x>> \in Seq(Handlers) /\ Len(<<x>>) = 1 /\ <<x>>[1] = x
      BY <3>1
    <3> QED BY <3>1, <3>2, <3>3 DEF TimersFit, HasIo
  <2>2. CASE ~IoDue
    BY <2>2 DEF TimersFit
  <2> QED BY <2>1, <2>2
<1>7. expired \in Seq(Handlers) /\ TimersFit(expired, n, get.stage)
  <2> DEFINE x == [kind |-> "timer", outcome |-> "ok", wait |-> get.timer.wait]
  <2>1. CASE due
    <3>1. /\ x \in Handlers /\ x.wait.generation = n /\ x.wait.stage = get.stage
      BY <1>2, <1>4, <2>1 DEF Handlers
    <3>2. expired = <<x>>
      BY <2>1
    <3> HIDE DEF x, expired
    <3>3. <<x>> \in Seq(Handlers) /\ Len(<<x>>) = 1 /\ <<x>>[1] = x
      BY <3>1
    <3> QED BY <1>2, <3>1, <3>2, <3>3 DEF TimersFit
  <2>2. CASE ~due
    BY <2>2 DEF TimersFit
  <2> QED BY <2>1, <2>2
<1> HIDE DEF io, expired, timer
<1> DEFINE first == get.ready \o io
           ready == first \o expired
<1>8. /\ first \in Seq(Handlers) /\ TimersFit(first, n, get.stage)
      /\ HasIo(get.ready) \/ HasIo(io) => HasIo(first)
  BY <1>2, <1>6, FitConcat, ConcatFacts
<1> HIDE DEF first
<1>9. /\ ready \in Seq(Handlers) /\ TimersFit(ready, n, get.stage)
      /\ HasIo(first) => HasIo(ready)
  BY <1>2, <1>7, <1>8, FitConcat, ConcatFacts
<1> HIDE DEF ready
<1>10. h = [get EXCEPT !.ready = ready, !.io = IF IoDue THEN "none" ELSE @,
                       !.timer = timer]
  BY DEF first, ready
<1>11. h \in Gets
  BY <1>2, <1>5, <1>9, <1>10 DEF Gets
<1>12. /\ h.timer = timer /\ h.stage = get.stage /\ h.ready = ready
       /\ h.done = get.done /\ h.result = get.result /\ h.blamed = get.blamed
       /\ h.io = IF IoDue THEN "none" ELSE get.io
  BY <1>2, <1>10 DEF Gets
<1> HIDE DEF h
<1>13. Consistent(h)
  <2>1. timer.wait # NoWait
            => timer.wait.generation = n /\ timer.wait.stage = get.stage
    BY <1>2, <1>5 DEF Consistent
  <2> QED BY <1>2, <1>5, <1>9, <1>11, <1>12, <2>1 DEF Consistent
<1>14. get # NoGet
  BY <1>1, <1>3 DEF NoGet, NewTimer, IoDue
<1>15. Owed(h)
  <2>1. CASE IoDue
    BY <1>6, <1>8, <1>9, <1>12, <2>1 DEF Owed
  <2>2. CASE ~IoDue
    BY <1>8, <1>9, <1>12, <1>14, <2>2 DEF Owed, FetchInv
  <2> QED BY <2>1, <2>2
<1> QED BY <1>1, <1>2, <1>13, <1>15 DEF FetchInv

\* StageDone.
LEMMA DoneStep ==
    ASSUME FetchInv, StageDone
    PROVE  FetchInv'
<1> DEFINE g == [Taken EXCEPT !.timer = DisarmTimeout(@)]
<1>1. /\ get.ready # <<>> /\ outcome' = outcome /\ outcome # "NoResult"
      /\ Consistent(get)
  BY DEF StageDone, Runs, fetchUnchanged, FetchInv
<1>2. /\ Consistent(Taken) /\ Taken.done = get.done /\ Taken.stage = get.stage
      /\ get.done => Owed(Taken)
  BY <1>1, TakenStep
<1>3. Consistent(g) /\ g.done = get.done /\ g.stage = get.stage
  BY <1>2, DisarmStep
<1>4. get.stage \in Nat /\ get.stage + 1 \in Nat
  BY <1>1 DEF Consistent, Gets
<1>5. \/ get.done /\ get' = Taken
      \/ ~get.done /\ get' = BeginStage(g, get.stage + 1)
      \/ ~get.done /\ \E result \in {"body", "failed"} :
                            get' = Finish(g, result, get.stage)
  BY DEF StageDone
<1> HIDE DEF g
<1>6. Consistent(get') /\ Owed(get')
  <2>1. CASE get.done /\ get' = Taken
    BY <1>2, <2>1
  <2>2. CASE ~get.done /\ get' = BeginStage(g, get.stage + 1)
    BY <1>3, <1>4, <2>2, BeginStep
  <2>3. ASSUME ~get.done, NEW result \in {"body", "failed"},
               get' = Finish(g, result, get.stage)
        PROVE  Consistent(get') /\ Owed(get')
    BY <1>3, <1>4, <2>3, FinishStep
  <2> QED BY <1>5, <2>1, <2>2, <2>3
<1> QED BY <1>1, <1>6 DEF FetchInv

\* StageTimesOut: a wait that is current is about the stage that is running.
LEMMA TimesOutStep ==
    ASSUME FetchInv, StageTimesOut
    PROVE  FetchInv'
<1> DEFINE wait == Head(get.ready).wait
<1>1. /\ get.ready # <<>> /\ outcome' = outcome /\ outcome # "NoResult"
      /\ Consistent(get) /\ Head(get.ready).kind = "timer"
  BY DEF StageTimesOut, Runs, fetchUnchanged, FetchInv
<1>2. /\ Consistent(Taken) /\ Taken.done = get.done /\ Taken.stage = get.stage
      /\ Head(get.ready) \in Handlers
      /\ TimersFit(<<Head(get.ready)>>, get.timer.generation, get.stage)
      /\ Owed(get) /\ Head(get.ready).kind # "io" => Owed(Taken)
  BY <1>1, TakenStep
<1>3. /\ wait.generation = get.timer.generation => wait.stage = get.stage
      /\ wait.stage \in Nat
  <2> DEFINE x == Head(get.ready)
  <2> HIDE DEF x
  <2>1. Len(<<x>>) = 1 /\ <<x>>[1] = x /\ 1 \in 1 .. 1
    OBVIOUS
  <2>2. /\ x \in Handlers /\ x.kind = "timer"
        /\ TimersFit(<<x>>, get.timer.generation, get.stage)
    BY <1>1, <1>2 DEF x
  <2>3. x.wait.generation = get.timer.generation => x.wait.stage = get.stage
    BY <2>1, <2>2 DEF TimersFit
  <2>4. x.wait.stage \in Nat
    BY <2>2 DEF Handlers, WaitRecords
  <2> QED BY <2>3, <2>4 DEF x
<1>4. get # NoGet
  BY <1>1 DEF NoGet
<1>5. \/ get' = Taken
      \/ /\ ~get.done /\ wait.generation = get.timer.generation
         /\ get' = Finish(Taken, "timeout", wait.stage)
  BY DEF StageTimesOut, IsCurrent
<1> HIDE DEF wait
<1>6. Consistent(get') /\ Owed(get')
  <2>1. CASE get' = Taken
    BY <1>1, <1>2, <1>4, <2>1 DEF FetchInv
  <2>2. CASE /\ ~get.done /\ wait.generation = get.timer.generation
             /\ get' = Finish(Taken, "timeout", wait.stage)
    BY <1>2, <1>3, <2>2, FinishStep
  <2> QED BY <1>5, <2>1, <2>2
<1> QED BY <1>1, <1>6 DEF FetchInv

\* RunReturns: a request that the io_context owes nothing has its result.
LEMMA ReturnsStep ==
    ASSUME FetchInv, RunReturns
    PROVE  FetchInv'
<1>1. /\ Consistent(get) /\ Owed(get) /\ outcome # "NoResult"
      /\ get.ready = <<>> /\ get.io = "none"
  BY DEF FetchInv, RunReturns
<1>2. ~HasIo(get.ready)
  BY <1>1 DEF HasIo
<1>3. get.result # "none"
  BY <1>1, <1>2 DEF Owed, Consistent
<1>4. \/ get' = NoGet /\ outcome' = outcome
      \/ get' = get /\ outcome' = "FetchFailed"
  BY <1>3 DEF RunReturns, Exits
<1>5. CASE get' = NoGet /\ outcome' = outcome
  BY <1>1, <1>5, NoGetFacts DEF FetchInv
<1>6. CASE get' = get /\ outcome' = "FetchFailed"
  BY <1>1, <1>6 DEF FetchInv
<1> QED BY <1>4, <1>5, <1>6

\* Every step of the startup keeps the request's invariant.
LEMMA FetchStep ==
    ASSUME FetchInv, [StartupNext]_startupVars
    PROVE  FetchInv'
<1> DEFINE Other == get' = get /\ (outcome' = outcome \/ outcome' # "NoResult")
<1>1. CASE Other
  BY <1>1 DEF FetchInv
<1>2. CASE StartsFetch
  <2>1. /\ outcome' = outcome /\ outcome # "NoResult"
        /\ get' \in {BeginStage(NoGet, 1), Finish(NoGet, "failed", 0)}
    BY <1>2 DEF StartsFetch, FetchInv
  <2>2. Consistent(BeginStage(NoGet, 1)) /\ Owed(BeginStage(NoGet, 1))
    BY NoGetFacts, BeginStep
  <2>3. /\ Consistent(Finish(NoGet, "failed", 0))
        /\ Owed(Finish(NoGet, "failed", 0))
    BY NoGetFacts, FinishStep
  <2> QED BY <2>1, <2>2, <2>3 DEF FetchInv
<1>3. CASE \/ \E result \in {"ok", "failed"} : IoBecomesDue(result)
           \/ TimerBecomesDue
  BY <1>3, DueStep
<1>4. CASE ReactorTurn
  BY <1>4, TurnStep
<1>5. CASE StageDone
  BY <1>5, DoneStep
<1>6. CASE StageTimesOut
  BY <1>6, TimesOutStep
<1>7. CASE RunReturns
  BY <1>7, ReturnsStep
<1>8. LoadsConfig \/ BlocksSignals \/ SkipsFetch => Other
  BY DEF LoadsConfig, BlocksSignals, SkipsFetch, Exits
<1>9. ResolvesKey \/ EntersService => Other
  BY DEF ResolvesKey, EntersService, Exits
<1>10. TerminationArrives \/ WaiterSeesSignal => Other
  BY DEF TerminationArrives, WaiterSeesSignal
<1>11. Over \/ UNCHANGED startupVars => Other
  BY DEF Over, startupVars
<1> QED BY <1>1, <1>2, <1>3, <1>4, <1>5, <1>6, <1>7, <1>8, <1>9, <1>10, <1>11
        DEF StartupNext, Main

\* A request always has a result when its io_context runs dry, and a timeout is
\* blamed on the stage that was running: a handler of an earlier stage's timer
\* may still run, but its generation is over.
THEOREM FetchTheorem == StartupSpec => []FetchIsAnswered
<1>1. StartupInit => FetchInv
  BY NoGetFacts DEF StartupInit, FetchInv
<1>2. FetchInv /\ [StartupNext]_startupVars => FetchInv'
  BY FetchStep
<1>3. FetchInv => FetchIsAnswered
  BY DEF FetchInv, Consistent, FetchIsAnswered
<1> QED BY <1>1, <1>2, <1>3, PTL DEF StartupSpec
=============================================================================
