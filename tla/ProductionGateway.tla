-------------------------- MODULE ProductionGateway --------------------------
(***************************************************************************)
(* ProductionGateway (src/production/production_gateway.cpp) in the daemon *)
(* that owns it (daemon_runtime.cpp, termination_signals.cpp): start with  *)
(* its readiness poll and rollback, stop, and the way the process ends.    *)
(*                                                                         *)
(* The daemon's main thread runs start(), waits for a signal, stops and    *)
(* destroys the gateway.  Other threads may call stop() at any moment, the *)
(* signal thread records signals, and the products (RecoveryCoordinator,   *)
(* MarketRuntime) change by themselves.  The gRPC server is what           *)
(* GrpcService describes: bound, or down once shutdown() has returned.     *)
(***************************************************************************)
EXTENDS Naturals, FiniteSets

CONSTANTS
    Products,   \* the products of the ConfiguredProductRuntimeSet
    Stoppers    \* threads that call stop() beside the main thread

ASSUME GatewayAssumption ==
    Products # {} /\ "main" \notin Stoppers /\ "nobody" \notin Stoppers

VARIABLES
    state,            \* state_
    stop_requested,   \* stop_requested_
    lifecycle,        \* the thread that holds lifecycle_mutex_, or "nobody"
    pc,               \* where each thread is
    resume,           \* where the main thread goes after a shutdown
    code,             \* the StartCode start() returns ("threw": an exception)
    todo,             \* products the current loop has not reached yet
    started,          \* products whose start() answered Started
    all_live,         \* all_live of the readiness pass
    late,             \* startup_now_() has reached the deadline
    product,          \* the state of each product
    wasLive,          \* the products that have been live (history)
    server,           \* the gRPC server
    signal,           \* signal_ of TerminationSignals once requested_
    verdict           \* the process's exit code

lifecycleVars == <<state, stop_requested, lifecycle>>
startVars == <<code, started, all_live>>
vars == <<lifecycleVars, pc, resume, startVars, todo, late, product, wasLive,
          server, signal, verdict>>

Threads == {"main"} \cup Stoppers

GatewayStates == {"Constructed", "Starting", "Serving", "Stopping", "Stopped"}

StartCodes ==
    {"None", "Serving", "StopRequested", "ProductStartFailed",
     "ProductInitialFailure", "InitialStartupTimeout", "GrpcBindFailed",
     "AlreadyStarted", "threw"}

MainSteps ==
    {"start", "first_check", "starting", "results", "poll_stop",
     "poll_failures", "poll_live", "poll_clock", "check_before_bind", "bind",
     "check_after_bind", "serve", "started", "await_signal", "stopped",
     "leaving", "exit"}

StopSteps == {"idle", "request_stop", "lock", "stop_server", "stop_products",
              "finish", "done"}

\* starting: no book yet; faulted: the runtime is Faulted, and the coordinator
\* may still recover it; failed: recovery is terminal.
ProductStates == {"idle", "starting", "live", "faulted", "failed", "stopped"}

Init ==
    /\ state = "Constructed" /\ stop_requested = FALSE /\ lifecycle = "nobody"
    /\ pc = [t \in Threads |-> IF t = "main" THEN "start" ELSE "idle"]
    /\ resume = "start"
    /\ code = "None" /\ todo = {} /\ started = {} /\ all_live = FALSE
    /\ late = FALSE
    /\ product = [p \in Products |-> "idle"] /\ wasLive = {}
    /\ server = "none"
    /\ signal = "none"
    /\ verdict = "running"

-----------------------------------------------------------------------------
(* What happens around the gateway.                                          *)

\* Recovery and runtime of one product.
ProductChanges(p) ==
    /\ \E next \in ProductStates :
        /\ \/ product[p] = "starting" /\ next \in {"live", "faulted", "failed"}
           \/ product[p] = "live" /\ next \in {"starting", "faulted", "failed"}
           \/ product[p] = "faulted" /\ next \in {"starting", "failed"}
        /\ product' = [product EXCEPT ![p] = next]
        /\ wasLive' = IF next = "live" THEN wasLive \cup {p} ELSE wasLive
    /\ UNCHANGED <<lifecycleVars, pc, resume, startVars, todo, late, server,
                   signal, verdict>>

DeadlinePasses ==
    /\ ~late /\ pc["main"] \in {"starting", "results", "poll_stop",
                                "poll_failures", "poll_live", "poll_clock"}
    /\ late' = TRUE
    /\ UNCHANGED <<lifecycleVars, pc, resume, startVars, todo, product, wasLive,
                   server, signal, verdict>>

\* TerminationSignals::loop(): the first SIGINT or SIGTERM is kept; a sigwait
\* error replaces it and ends the loop.
SignalArrives ==
    /\ \E received \in {"term", "error"} :
        /\ signal = "none" \/ (signal = "term" /\ received = "error")
        /\ signal' = received
    /\ UNCHANGED <<lifecycleVars, pc, resume, startVars, todo, late, product,
                   wasLive, server, verdict>>

-----------------------------------------------------------------------------
(* start(), on the main thread.                                              *)

aroundVars == <<late, product, wasLive, server, signal>>

MainGoes(step) == pc' = [pc EXCEPT !["main"] = step]

\* rollback() and the return of start() with this code.
RollsBack(result) ==
    /\ code' = result
    /\ state' = "Stopping"
    /\ resume' = "started"
    /\ MainGoes("stop_server")
    /\ UNCHANGED <<stop_requested, lifecycle, todo, started, all_live,
                   aroundVars, verdict>>

StopSeen == stop_requested \/ signal # "none"

\* start() without the lifecycle mutex.
EntersStartUnlocked ==
    /\ pc["main"] = "start"
    /\ state = "Constructed"
    /\ state' = "Starting" /\ lifecycle' = lifecycle
    /\ MainGoes("first_check")
    /\ UNCHANGED <<stop_requested, resume, startVars, todo, aroundVars, verdict>>

EntersStart ==
    /\ pc["main"] = "start" /\ lifecycle = "nobody"
    /\ IF state = "Constructed"
       THEN /\ state' = "Starting" /\ lifecycle' = "main"
            /\ MainGoes("first_check")
            /\ UNCHANGED code
       ELSE /\ code' = "AlreadyStarted"
            /\ MainGoes("started")
            /\ UNCHANGED <<state, lifecycle>>
    /\ UNCHANGED <<stop_requested, resume, todo, started, all_live, aroundVars,
                   verdict>>

FirstCheck ==
    /\ pc["main"] = "first_check"
    /\ \/ StopSeen /\ RollsBack("StopRequested")
       \/ /\ ~StopSeen
          /\ todo' = Products
          /\ MainGoes("starting")
          /\ UNCHANGED <<lifecycleVars, resume, startVars, aroundVars, verdict>>

\* products_.start(): every product is started, whatever the others answered.
StartsProduct(p) ==
    /\ pc["main"] = "starting" /\ p \in todo
    /\ todo' = todo \ {p}
    /\ \E ok \in BOOLEAN :
        /\ started' = IF ok THEN started \cup {p} ELSE started
        /\ product' = [product EXCEPT ![p] = IF ok THEN "starting" ELSE "failed"]
    /\ UNCHANGED <<lifecycleVars, pc, resume, code, all_live, late, wasLive,
                   server, signal, verdict>>

AllStarted ==
    /\ pc["main"] = "starting" /\ todo = {}
    /\ MainGoes("results")
    /\ UNCHANGED <<lifecycleVars, resume, startVars, todo, aroundVars, verdict>>

ChecksResults ==
    /\ pc["main"] = "results"
    /\ \/ started # Products /\ RollsBack("ProductStartFailed")
       \/ /\ started = Products
          /\ MainGoes("poll_stop")
          /\ UNCHANGED <<lifecycleVars, resume, startVars, todo, aroundVars,
                         verdict>>

\* A readiness poll that looks only at the products and the clock.
PollIgnoresStop ==
    /\ pc["main"] = "poll_stop"
    /\ todo' = Products
    /\ MainGoes("poll_failures")
    /\ UNCHANGED <<lifecycleVars, resume, startVars, aroundVars, verdict>>

PollChecksStop ==
    /\ pc["main"] = "poll_stop"
    /\ \/ StopSeen /\ RollsBack("StopRequested")
       \/ /\ ~StopSeen
          /\ todo' = Products
          /\ MainGoes("poll_failures")
          /\ UNCHANGED <<lifecycleVars, resume, startVars, aroundVars, verdict>>

\* initial_failure() of one product; an owner that does not answer at once has
\* not failed.
PollLooksForFailure(p) ==
    /\ pc["main"] = "poll_failures" /\ p \in todo
    /\ \/ /\ product[p] \in {"faulted", "failed"}
          /\ RollsBack("ProductInitialFailure")
       \/ /\ todo' = todo \ {p}
          /\ UNCHANGED <<lifecycleVars, pc, resume, startVars, aroundVars,
                         verdict>>

FailuresChecked ==
    /\ pc["main"] = "poll_failures" /\ todo = {}
    /\ todo' = Products
    /\ all_live' = TRUE
    /\ MainGoes("poll_live")
    /\ UNCHANGED <<lifecycleVars, resume, code, started, aroundVars, verdict>>

\* The last product alone decides.
PollLooksForLastLive(p) ==
    /\ pc["main"] = "poll_live" /\ p \in todo
    /\ todo' = todo \ {p}
    /\ \E seen \in BOOLEAN :
        /\ seen => product[p] = "live"
        /\ all_live' = seen
    /\ UNCHANGED <<lifecycleVars, pc, resume, code, started, aroundVars, verdict>>

\* initial_live() of one product.
PollLooksForLive(p) ==
    /\ pc["main"] = "poll_live" /\ p \in todo
    /\ todo' = todo \ {p}
    /\ \E seen \in BOOLEAN :
        /\ seen => product[p] = "live"
        /\ all_live' = (all_live /\ seen)
    /\ UNCHANGED <<lifecycleVars, pc, resume, code, started, aroundVars, verdict>>

LiveChecked ==
    /\ pc["main"] = "poll_live" /\ todo = {}
    /\ MainGoes("poll_clock")
    /\ UNCHANGED <<lifecycleVars, resume, startVars, todo, aroundVars, verdict>>

\* The deadline goes before readiness; otherwise wait a moment and poll again.
PollChecksClock ==
    /\ pc["main"] = "poll_clock"
    /\ \/ late /\ RollsBack("InitialStartupTimeout")
       \/ /\ ~late
          /\ MainGoes(IF all_live THEN "check_before_bind" ELSE "poll_stop")
          /\ UNCHANGED <<lifecycleVars, resume, startVars, todo, aroundVars,
                         verdict>>

ChecksStop(step, next) ==
    /\ pc["main"] = step
    /\ \/ StopSeen /\ RollsBack("StopRequested")
       \/ /\ ~StopSeen
          /\ MainGoes(next)
          /\ UNCHANGED <<lifecycleVars, resume, startVars, todo, aroundVars,
                         verdict>>

Binds ==
    /\ pc["main"] = "bind"
    /\ \/ RollsBack("GrpcBindFailed")
       \/ /\ server' = "bound"
          /\ MainGoes("check_after_bind")
          /\ UNCHANGED <<lifecycleVars, resume, startVars, todo, late, product,
                         wasLive, signal, verdict>>

Serves ==
    /\ pc["main"] = "serve"
    /\ state' = "Serving" /\ lifecycle' = "nobody"
    /\ code' = "Serving"
    /\ MainGoes("started")
    /\ UNCHANGED <<stop_requested, resume, todo, started, all_live, aroundVars,
                   verdict>>

\* A step of start() throws: the catch block rolls back and rethrows.
StartThrows ==
    /\ pc["main"] \in {"first_check", "starting", "results", "poll_stop",
                       "poll_failures", "poll_live", "poll_clock",
                       "check_before_bind", "bind", "check_after_bind"}
    /\ RollsBack("threw")

-----------------------------------------------------------------------------
(* stop() on any thread, and the shutdown it shares with rollback().         *)

Goes(t, step) == pc' = [pc EXCEPT ![t] = step]

InDestructor == pc["main"] = "exit" \/ resume = "exit"

\* A thread calls stop(), not later than the gateway's destructor.
CallsStop(t) ==
    /\ pc[t] = "idle" /\ ~InDestructor
    /\ Goes(t, "request_stop")
    /\ UNCHANGED <<lifecycleVars, resume, startVars, todo, aroundVars, verdict>>

\* request_stop(), before the lifecycle mutex is asked for.
RequestsStop(t) ==
    /\ pc[t] = "request_stop"
    /\ stop_requested' = TRUE
    /\ Goes(t, "lock")
    /\ UNCHANGED <<state, lifecycle, resume, startVars, todo, aroundVars, verdict>>

Returned(t) == IF t = "main" THEN resume ELSE "done"

EntersStop(t) ==
    /\ pc[t] = "lock" /\ lifecycle = "nobody"
    /\ IF state = "Stopped"
       THEN /\ Goes(t, Returned(t))
            /\ UNCHANGED <<state, lifecycle>>
       ELSE /\ state' = "Stopping" /\ lifecycle' = t
            /\ Goes(t, "stop_server")
    /\ UNCHANGED <<stop_requested, resume, startVars, todo, aroundVars, verdict>>

\* server_.shutdown(), which also shuts every publication down.
StopsServer(t) ==
    /\ pc[t] = "stop_server"
    /\ server' = "down"
    /\ todo' = Products
    /\ Goes(t, "stop_products")
    /\ UNCHANGED <<lifecycleVars, resume, startVars, late, product, wasLive,
                   signal, verdict>>

\* products_.stop(): the publications are shut already; recovery().stop() joins
\* the threads of one product after another.
StopsProduct(t, p) ==
    /\ pc[t] = "stop_products" /\ p \in todo
    /\ todo' = todo \ {p}
    /\ product' = [product EXCEPT ![p] = "stopped"]
    /\ UNCHANGED <<lifecycleVars, pc, resume, startVars, late, wasLive, server,
                   signal, verdict>>

ProductsStopped(t) ==
    /\ pc[t] = "stop_products" /\ todo = {}
    /\ Goes(t, "finish")
    /\ UNCHANGED <<lifecycleVars, resume, startVars, todo, aroundVars, verdict>>

FinishesStop(t) ==
    /\ pc[t] = "finish"
    /\ state' = "Stopped" /\ lifecycle' = "nobody"
    /\ Goes(t, Returned(t))
    /\ UNCHANGED <<stop_requested, resume, startVars, todo, aroundVars, verdict>>

StopStep(t) ==
    \/ RequestsStop(t) \/ EntersStop(t) \/ StopsServer(t)
    \/ \E p \in Products : StopsProduct(t, p)
    \/ ProductsStopped(t) \/ FinishesStop(t)

-----------------------------------------------------------------------------
(* run_production_service().                                                 *)

Leaves(exit) ==
    /\ MainGoes("leaving")
    /\ verdict' = exit
    /\ UNCHANGED <<lifecycleVars, resume, startVars, todo, aroundVars>>

\* start() gave anything but Serving, or threw.
StartFailed ==
    /\ pc["main"] = "started" /\ code # "Serving"
    /\ Leaves(IF code = "StopRequested" THEN "success" ELSE "failure")

ReportsServing ==
    /\ pc["main"] = "started" /\ code = "Serving"
    /\ MainGoes("await_signal")
    /\ UNCHANGED <<lifecycleVars, resume, startVars, todo, aroundVars, verdict>>

\* observe() throws when an owner does not answer within a second.
ObservationThrows ==
    /\ pc["main"] \in {"started", "stopped"}
    /\ Leaves("failure")

\* signals.wait() returns.
SignalReceived ==
    /\ pc["main"] = "await_signal" /\ signal # "none"
    /\ verdict' = IF signal = "error" THEN "failure" ELSE "success"
    /\ resume' = "stopped"
    /\ MainGoes("request_stop")
    /\ UNCHANGED <<lifecycleVars, startVars, todo, aroundVars>>

ReportsStopped ==
    /\ pc["main"] = "stopped"
    /\ Leaves(verdict)

\* The process ends without the destructor's stop().
DestroysWithoutStop ==
    /\ pc["main"] = "leaving"
    /\ resume' = "exit"
    /\ MainGoes("exit")
    /\ UNCHANGED <<lifecycleVars, startVars, todo, aroundVars, verdict>>

\* ~ProductionGateway() calls stop(); every other caller has returned.
Destroys ==
    /\ pc["main"] = "leaving"
    /\ \A t \in Stoppers : pc[t] \in {"idle", "done"}
    /\ resume' = "exit"
    /\ MainGoes("request_stop")
    /\ UNCHANGED <<lifecycleVars, startVars, todo, aroundVars, verdict>>

MainStep ==
    \/ EntersStart \/ FirstCheck \/ (\E p \in Products : StartsProduct(p))
    \/ AllStarted \/ ChecksResults \/ PollChecksStop
    \/ (\E p \in Products : PollLooksForFailure(p)) \/ FailuresChecked
    \/ (\E p \in Products : PollLooksForLive(p)) \/ LiveChecked
    \/ PollChecksClock \/ ChecksStop("check_before_bind", "bind") \/ Binds
    \/ ChecksStop("check_after_bind", "serve") \/ Serves
    \/ StartFailed \/ ReportsServing \/ SignalReceived \/ ReportsStopped
    \/ Destroys

Exited == pc["main"] = "exit" /\ UNCHANGED vars

Next ==
    \/ MainStep \/ StartThrows \/ ObservationThrows
    \/ \E t \in Threads : StopStep(t)
    \/ \E t \in Stoppers : CallsStop(t)
    \/ \E p \in Products : ProductChanges(p)
    \/ DeadlinePasses \/ SignalArrives
    \/ Exited

Spec == Init /\ [][Next]_vars

\* Threads run; neither the clock, nor the products, nor a signal need come.
FairSpec ==
    /\ Spec
    /\ WF_vars(MainStep)
    /\ \A t \in Threads : WF_vars(StopStep(t))

-----------------------------------------------------------------------------
(* Properties.                                                               *)

\* Where the threads are.
ControlOK ==
    /\ pc \in [Threads -> MainSteps \cup StopSteps]
    /\ \A t \in Stoppers : pc[t] \in StopSteps
    /\ resume \in {"start", "started", "stopped", "exit"}
    /\ lifecycle \in Threads \cup {"nobody"}

FlagsOK ==
    stop_requested \in BOOLEAN /\ all_live \in BOOLEAN /\ late \in BOOLEAN

DataOK ==
    /\ state \in GatewayStates /\ code \in StartCodes
    /\ todo \in SUBSET Products /\ started \in SUBSET Products
    /\ product \in [Products -> ProductStates] /\ wasLive \in SUBSET Products
    /\ server \in {"none", "bound", "down"}
    /\ signal \in {"none", "term", "error"}
    /\ verdict \in {"running", "success", "failure"}

TypeOK == ControlOK /\ FlagsOK /\ DataOK

\* The gateway serves only products that have been live and were not stopped:
\* one that was never ready is not hidden by the others, however the passes of
\* the readiness poll fall, and the handlers, which hold references into the
\* products, are drained before any of them stops.
ServerWithinProducts ==
    server = "bound" => \A p \in Products : p \in wasLive /\ product[p] # "stopped"

\* A stopped gateway has nothing left running, whichever of rollback(), stop()
\* and the destructor stopped it, and however it raced with start().
StoppedIsComplete ==
    state = "Stopped" =>
        server # "bound" /\ \A p \in Products : product[p] = "stopped"

\* The process ends with the gateway stopped, exceptions included, and with
\* success only when it was asked to end.
ExitIsClean ==
    /\ pc["main"] = "exit" => state = "Stopped"
    /\ verdict = "success" => StopSeen

\* A stop() that was called returns, although it has to wait for a start() that
\* nothing else would end, and a signal ends the process, from any point of the
\* startup on.
StopsAreHeard ==
    /\ \A t \in Stoppers : pc[t] = "request_stop" ~> pc[t] = "done"
    /\ signal # "none" ~> pc["main"] = "exit"

=============================================================================
