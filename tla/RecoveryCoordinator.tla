------------------------- MODULE RecoveryCoordinator -------------------------
(***************************************************************************)
(* One product's recovery loop: the coordinator thread of                  *)
(* src/g5/spot_recovery.cpp, the network thread of the transport attempt   *)
(* it runs (src/g4/spot_transport.cpp), the MarketRuntime owner as those   *)
(* two see it, the source-generation gate of the event publication, and    *)
(* the thread inside ProductRuntime::stop() (src/g11).                     *)
(*                                                                         *)
(* A step is one critical section of one of the mutexes (coordinator,      *)
(* attempt, transport, runtime, publication) with the thread-local work    *)
(* next to it.  The coordinator keeps its mutex while the owner performs a *)
(* reset; stop() has to wait for it.  The stop token and                   *)
(* shutdown_requested_ are one flag: every use of the token is followed by *)
(* a test of the flag before the coordinator acts on it.                   *)
(*                                                                         *)
(* The runtime is reduced to what MarketRuntime shows of it: an input      *)
(* queue, whether it accepts, its state and the class of its fault.        *)
(* Network errors are reduced to what classify_failure tells apart: Retry  *)
(* (connection, read, timeout, protocol, serverShutdown, admission, 5xx,   *)
(* 429/418 with Retry-After) and Fatal (internal, other 4xx).  Planned     *)
(* rotation is configured; its deadline may pass at any time.              *)
(***************************************************************************)
EXTENDS SourceGeneration, Sequences

CONSTANTS
    MaxAttempts,     \* detail::kMaximumRecoveryAttempts
    QueueCapacity,   \* the runtime's ingress capacity
    MaxGeneration,   \* bound: connection generations started
    Overlap,         \* TRUE: attempt->start() may begin inside attempt->stop()
    Controlled       \* TRUE: a driver may ask for one controlled recovery

ASSUME CoordinatorAssumption ==
    /\ MaxAttempts \in Nat \ {0}
    /\ QueueCapacity \in Nat \ {0}
    /\ MaxGeneration \in Nat \ {0}
    /\ Overlap \in BOOLEAN /\ Controlled \in BOOLEAN

VARIABLES
    pc,            \* where the coordinator thread is
    generation,    \* its local generation
    planned,       \* its local planned_rotation_due
    seen,          \* whether what it last observed was Live and healthy
    after,         \* where it goes once the attempt is quiesced
    attempts,      \* consecutive_recovery_attempts
    recState,      \* observation_.state
    terminal,      \* observation_.terminal, as the way it was reached
    opened,        \* source_generation_open_ (0: none)
    quiesced,      \* source_generation_quiesced_
    active,        \* active_attempt_, by generation (0: none)
    shutdownReq,   \* shutdown_requested_ and the stop token
    tr,            \* the attempt's TransportObservation and stop_requested_
    net,           \* where its network thread is
    rt,            \* the runtime
    gate,          \* the source-generation gate
    stopper,       \* where the thread in ProductRuntime::stop() is
    retained,      \* the attempt stop() took (0: none)
    driver         \* where the thread asking for a controlled recovery is

coVars == <<generation, planned, seen, after, attempts>>
obsVars == <<recState, terminal>>
sourceVars == <<opened, quiesced>>
stopVars == <<shutdownReq, stopper, retained, driver>>
vars == <<pc, coVars, obsVars, sourceVars, active, stopVars, tr, net, rt, gate>>

-----------------------------------------------------------------------------
Errors == {"None", "Retry", "Fatal"}

RecoveryStates == {"Starting", "Live", "Rotating", "Backoff",
                   "Recovering", "Stopping", "Stopped", "Exhausted"}

\* terminal: how observation_.terminal came to be set.
Terminals == {"None", "Exception", "ReflectFailed", "ResetFailed",
              "Classified", "Exhausted"}

NoTransport ==
    [gen |-> 0, started |-> FALSE, handshake |-> FALSE, running |-> FALSE,
     stopReq |-> FALSE, awaits |-> FALSE, stopped |-> TRUE, error |-> "None",
     fetched |-> FALSE]

NewTransport(gen) == [NoTransport EXCEPT !.gen = gen, !.stopped = FALSE]

FreshRuntime ==
    [state |-> "Buffering", fault |-> "None", accepting |-> TRUE,
     queue |-> <<>>, overflow |-> FALSE, base |-> FALSE, buffered |-> FALSE,
     barrier |-> 0]

Init ==
    /\ pc = "down" /\ generation = 1 /\ planned = FALSE /\ seen = FALSE
    /\ after = "none" /\ attempts = 0
    /\ recState = "Starting" /\ terminal = "None"
    /\ opened = 0 /\ quiesced = FALSE /\ active = 0
    /\ shutdownReq = FALSE /\ stopper = "none" /\ retained = 0
    /\ driver = "idle"
    /\ tr = NoTransport /\ net = "none"
    /\ rt = FreshRuntime /\ gate = InitialGate

-----------------------------------------------------------------------------
(* The runtime as its callers see it.                                        *)

SubmitAccepted(r) == r.accepting /\ Len(r.queue) < QueueCapacity

\* submit(): a full queue closes the ingress and leaves an overflow fault.
Submitted(r, input) ==
    CASE SubmitAccepted(r) -> [r EXCEPT !.queue = Append(@, input)]
      [] r.accepting /\ Len(r.queue) = QueueCapacity ->
            [r EXCEPT !.accepting = FALSE, !.overflow = TRUE]
      [] OTHER -> r

\* transition_to_fault() or a detected gap: the ingress is closed and emptied.
Broken(r, state, fault) ==
    [r EXCEPT !.state = state, !.fault = fault, !.accepting = FALSE,
              !.queue = <<>>, !.overflow = FALSE, !.barrier = 0]

\* What processing one input can lead to.  Updates before the snapshot are
\* buffered, or overflow the buffer, and replayed after it; with a baseline they
\* are ignored, applied, a gap or an error.  A generation has one snapshot.
Processed(r) ==
    LET rest == [r EXCEPT !.queue = Tail(@),
                          !.barrier = IF @ = 0 THEN 0 ELSE @ - 1]
        based == [rest EXCEPT !.base = TRUE]
        applied == {[based EXCEPT !.state = "Live"],
                    Broken(r, "NeedsResync", "None")}
    IN  CASE Head(r.queue) = "Failure" -> {Broken(r, "Faulted", "Recoverable")}
          [] Head(r.queue) = "Snapshot" ->
                {based, Broken(r, "Faulted", "Terminal")}
                \cup (IF r.buffered THEN applied ELSE {})
          [] Head(r.queue) = "Depth" /\ r.base ->
                {rest, Broken(r, "Faulted", "Terminal")} \cup applied
          [] OTHER -> {[rest EXCEPT !.buffered = TRUE],
                       Broken(r, "Faulted", "Recoverable")}

OwnerRuns ==
    /\ rt.state # "Stopped"
    /\ IF rt.overflow
       THEN rt' = Broken(rt, "Faulted", "Recoverable")
       ELSE rt.queue # <<>> /\ rt' \in Processed(rt)
    /\ UNCHANGED <<pc, coVars, obsVars, sourceVars, active, stopVars, tr, net,
                   gate>>

Healthy(r) == r.state = "Live" /\ r.fault = "None"

RecoveryRequired(r) == r.state \in {"Faulted", "NeedsResync"}

-----------------------------------------------------------------------------
(* The network thread of the attempt.                                        *)

netUnchanged == <<pc, coVars, obsVars, sourceVars, active, stopVars, gate>>

\* websocket_active(): does nothing once a stop was requested.
NetConnects ==
    /\ net = "connecting" /\ ~tr.stopReq
    /\ tr' = [tr EXCEPT !.handshake = TRUE, !.running = TRUE]
    /\ net' = "active"
    /\ UNCHANGED <<netUnchanged, rt>>

\* The first critical section of terminal_failure().
Fails(error) ==
    /\ tr' = [tr EXCEPT !.error = error, !.running = FALSE]
    /\ net' = "failing"

\* Connect, read, timeout, protocol, serverShutdown, HTTP errors.
NetFails ==
    /\ net \in {"connecting", "active"}
    /\ \E error \in Errors \ {"None"} : Fails(error)
    /\ UNCHANGED <<netUnchanged, rt>>

\* The rest of terminal_failure(): the runtime fault, then cancellation.
NetReportsFailure ==
    /\ net = "failing"
    /\ rt' = Submitted(rt, "Failure")
    /\ net' = "dead"
    /\ UNCHANGED <<netUnchanged, tr>>

\* receive_websocket_message(): to the event publication, then the runtime.
NetReceivesDepth ==
    /\ net = "active"
    /\ IF PublishVerdict(gate, tr.gen) = "InvariantFailure"
       THEN Fails("Fatal") /\ UNCHANGED rt
       ELSE /\ rt' = Submitted(rt, "Depth")
            /\ IF SubmitAccepted(rt) THEN UNCHANGED <<tr, net>>
                                     ELSE Fails("Retry")
    /\ UNCHANGED netUnchanged

\* receive_depth_response(): rest_depth_fetched is set by a later critical
\* section than the admission of the snapshot.
NetReceivesSnapshot ==
    /\ net = "active" /\ ~tr.fetched
    /\ rt' = Submitted(rt, "Snapshot")
    /\ IF SubmitAccepted(rt) THEN net' = "fetched" /\ UNCHANGED tr
                             ELSE Fails("Retry")
    /\ UNCHANGED netUnchanged

NetMarksFetched ==
    /\ net = "fetched"
    /\ tr' = [tr EXCEPT !.fetched = TRUE]
    /\ net' = "active"
    /\ UNCHANGED <<netUnchanged, rt>>

\* begin_clean_shutdown() reaches its cut: the thread runs out of work.
NetShutsDown ==
    /\ net \in {"connecting", "active"} /\ tr.awaits
    /\ net' = "dead"
    /\ UNCHANGED <<netUnchanged, tr, rt>>

\* BinanceTransport::stop(): its first critical section, in which one caller
\* notes whether there is a network thread to shut down and to join ...
StopRequested(t) ==
    IF t.stopReq THEN t
    ELSE [t EXCEPT !.stopReq = TRUE, !.running = FALSE, !.awaits = t.started]

\* ... and its end.
Joined == tr.awaits => net = "dead"

\* The first critical section of BinanceTransport::start(), which looks at
\* stopped but not at the stop in progress.
TransportStarts ==
    /\ Overlap \/ ~(tr.stopReq /\ ~tr.stopped)
    /\ IF tr.stopped THEN UNCHANGED <<tr, net>>
       ELSE tr' = [tr EXCEPT !.started = TRUE] /\ net' = "connecting"

-----------------------------------------------------------------------------
(* The coordinator thread.                                                   *)

\* RecoveryCoordinator::start(); MarketRuntime::start() succeeds.
Start ==
    /\ pc = "down" /\ stopper = "none"
    /\ recState' = "Starting"
    /\ pc' = "top"
    /\ UNCHANGED <<coVars, terminal, sourceVars, active, stopVars, tr, net, rt,
                   gate>>

\* The loop head: a last look at the shutdown before create_attempt().
BeginsGeneration ==
    /\ pc = "top"
    /\ \/ shutdownReq /\ pc' = "done"
       \/ ~shutdownReq /\ generation <= MaxGeneration /\ pc' = "create"
    /\ UNCHANGED <<coVars, obsVars, sourceVars, active, stopVars, tr, net, rt,
                   gate>>

CreatesAttempt ==
    /\ pc = "create"
    /\ active' = generation
    /\ tr' = NewTransport(generation) /\ net' = "none"
    /\ pc' = "created"
    /\ UNCHANGED <<coVars, obsVars, sourceVars, stopVars, rt, gate>>

\* Go to quiesce_attempt() and continue at then.
Quiesces(then) ==
    /\ pc' = "quiesce" /\ after' = then

\* The shutdown check and the clock sample of the rotation deadline, which may
\* throw.
ChecksShutdown ==
    /\ pc = "created"
    /\ \/ shutdownReq /\ Quiesces("closeGlobal")
       \/ ~shutdownReq /\ Quiesces("throw")
       \/ ~shutdownReq /\ pc' = "start" /\ UNCHANGED after
    /\ UNCHANGED <<generation, planned, seen, attempts, obsVars, sourceVars,
                   active, stopVars, tr, net, rt, gate>>

\* attempt->start(), up to its wait.
StartsAttempt ==
    /\ pc = "start"
    /\ TransportStarts
    /\ pc' = "starting"
    /\ UNCHANGED <<coVars, obsVars, sourceVars, active, stopVars, rt, gate>>

\* start() returns; after a shutdown the attempt is quiesced at once.
AttemptStarted ==
    /\ pc = "starting"
    /\ tr.handshake \/ tr.error # "None" \/ tr.stopped \/ tr.stopReq
    /\ planned' = FALSE
    /\ IF shutdownReq THEN Quiesces("closeGlobal")
       ELSE IF tr.handshake /\ ~tr.stopReq THEN pc' = "open" /\ UNCHANGED after
       ELSE Quiesces("cut")
    /\ UNCHANGED <<generation, seen, attempts, obsVars, sourceVars, active,
                   stopVars, tr, net, rt, gate>>

\* open_source_generation(attempt->observe(), generation)
OpensGeneration ==
    /\ pc = "open"
    /\ IF tr.running /\ MayOpen(gate, generation)
       THEN /\ gate' = Opened(gate, generation)
            /\ opened' = generation
            /\ pc' = "awaitLive"
       ELSE pc' = "throw" /\ UNCHANGED <<gate, opened>>
    /\ UNCHANGED <<coVars, obsVars, quiesced, active, stopVars, tr, net, rt>>

\* A wait that only ends in Live or in a shutdown.
AwaitsLiveOnly ==
    /\ pc = "awaitLive"
    /\ \/ shutdownReq /\ Quiesces("closeGlobal") /\ UNCHANGED rt
       \/ /\ rt.state = "Live"
          /\ rt' = [rt EXCEPT !.barrier = Len(rt.queue)]
          /\ pc' = "qualify" /\ UNCHANGED after
    /\ UNCHANGED <<generation, planned, seen, attempts, obsVars, sourceVars,
                   active, stopVars, tr, net, gate>>

\* A wait that a shutdown wakes up and does not end.
AwaitsLiveDeaf ==
    /\ pc = "awaitLive"
    /\ \/ shutdownReq /\ UNCHANGED <<pc, after, rt>>
       \/ RecoveryRequired(rt) /\ Quiesces("cut") /\ UNCHANGED rt
       \/ /\ rt.state = "Live"
          /\ rt' = [rt EXCEPT !.barrier = Len(rt.queue)]
          /\ pc' = "qualify" /\ UNCHANGED after
    /\ UNCHANGED <<generation, planned, seen, attempts, obsVars, sourceVars,
                   active, stopVars, tr, net, gate>>

\* wait_until_live_or_recovery_required(); a Live runtime is then observed
\* through the owner barrier.
AwaitsLive ==
    /\ pc = "awaitLive"
    /\ \/ shutdownReq /\ Quiesces("closeGlobal") /\ UNCHANGED rt
       \/ RecoveryRequired(rt) /\ Quiesces("cut") /\ UNCHANGED rt
       \/ /\ rt.state = "Live"
          /\ rt' = [rt EXCEPT !.barrier = Len(rt.queue)]
          /\ pc' = "qualify" /\ UNCHANGED after
    /\ UNCHANGED <<generation, planned, seen, attempts, obsVars, sourceVars,
                   active, stopVars, tr, net, gate>>

\* runtime_.observe() returns.
QualifiesRuntime ==
    /\ pc = "qualify" /\ rt.barrier = 0
    /\ seen' = Healthy(rt)
    /\ pc' = "inspect"
    /\ UNCHANGED <<generation, planned, after, attempts, obsVars, sourceVars,
                   active, stopVars, tr, net, rt, gate>>

\* attempt->observe() and the first test of try_mark_live().
InspectsTransport ==
    /\ pc = "inspect"
    /\ seen' = (/\ seen /\ tr.running /\ ~tr.stopped /\ tr.error = "None"
                /\ tr.handshake /\ tr.fetched)
    /\ pc' = "markLive"
    /\ UNCHANGED <<generation, planned, after, attempts, obsVars, sourceVars,
                   active, stopVars, tr, net, rt, gate>>

\* The critical section of try_mark_live().
MarksLive ==
    /\ pc = "markLive"
    /\ IF seen /\ ~shutdownReq
       THEN /\ recState' = "Live" /\ attempts' = 0
            /\ pc' = "live" /\ UNCHANGED after
       ELSE Quiesces("cut") /\ UNCHANGED <<recState, attempts>>
    /\ UNCHANGED <<generation, planned, seen, terminal, sourceVars, active,
                   stopVars, tr, net, rt, gate>>

\* wait_for_rotation_or_recovery(), and Rotating when the deadline passes
\* first.  A clock that throws or runs backwards ends the product.
LeavesLive ==
    /\ pc = "live"
    /\ \/ shutdownReq /\ Quiesces("closeGlobal") /\ UNCHANGED <<planned, recState>>
       \/ RecoveryRequired(rt) /\ Quiesces("cut") /\ UNCHANGED <<planned, recState>>
       \/ ~shutdownReq /\ Quiesces("closePermanent") /\ UNCHANGED <<planned, recState>>
       \/ /\ ~shutdownReq
          /\ planned' = TRUE /\ recState' = "Rotating"
          /\ Quiesces("cut")
    /\ UNCHANGED <<generation, seen, attempts, terminal, sourceVars, active,
                   stopVars, tr, net, rt, gate>>

\* quiesce_attempt(): stop() ...
StopsAttempt ==
    /\ pc = "quiesce"
    /\ tr' = StopRequested(tr)
    /\ pc' = "join"
    /\ UNCHANGED <<coVars, obsVars, sourceVars, active, stopVars, net, rt, gate>>

\* A stop that does not wait for the network thread.
JoinsNothing ==
    /\ pc = "join"
    /\ tr' = [tr EXCEPT !.stopped = TRUE]
    /\ pc' = IF opened = tr.gen /\ opened # 0 /\ ~quiesced THEN "lookAtGate"
                                                           ELSE "release"
    /\ UNCHANGED <<coVars, obsVars, sourceVars, active, stopVars, net, rt, gate>>

JoinsAttempt ==
    /\ pc = "join" /\ Joined
    /\ tr' = [tr EXCEPT !.stopped = TRUE]
    /\ pc' = IF opened = tr.gen /\ opened # 0 /\ ~quiesced THEN "lookAtGate"
                                                           ELSE "release"
    /\ UNCHANGED <<coVars, obsVars, sourceVars, active, stopVars, net, rt, gate>>

\* ... the quiesce callback: a shut-down publication counts as quiesced, and
\* the look at it and quiesce_generation() are two critical sections ...
LooksAtGate ==
    /\ pc = "lookAtGate"
    /\ IF gate.state = "Shutdown" THEN quiesced' = TRUE /\ pc' = "release"
                                  ELSE pc' = "quiesceGate" /\ UNCHANGED quiesced
    /\ UNCHANGED <<coVars, obsVars, opened, active, stopVars, tr, net, rt, gate>>

QuiescesGate ==
    /\ pc = "quiesceGate"
    /\ IF MayQuiesce(gate, opened)
       THEN gate' = Quiesced(gate) /\ quiesced' = TRUE /\ pc' = "release"
       ELSE pc' = "throw" /\ UNCHANGED <<gate, quiesced>>
    /\ UNCHANGED <<coVars, obsVars, opened, active, stopVars, tr, net, rt>>

\* ... and active_attempt_ is cleared.
ReleasesAttempt ==
    /\ pc = "release"
    /\ active' = IF active = tr.gen THEN 0 ELSE active
    /\ pc' = after
    /\ UNCHANGED <<coVars, obsVars, sourceVars, stopVars, tr, net, rt, gate>>

-----------------------------------------------------------------------------
(* close_source_generation(outcome), which throws when the gate refuses.     *)

CloseRefused(outcome) ==
    /\ opened # 0 /\ outcome # "GlobalShutdown"
    /\ ~(quiesced /\ MayClose(gate, opened))

CloseSource(outcome) ==
    IF opened = 0 THEN UNCHANGED <<gate, opened, quiesced>>
    ELSE /\ gate' = CASE outcome = "GlobalShutdown" -> ShutDown(gate)
                      [] outcome = "Replacement" -> Replaced(gate)
                      [] OTHER -> PermanentlyClosed(gate)
         /\ opened' = 0 /\ quiesced' = FALSE

\* The shutdown exits of the loop.
ClosesGlobally ==
    /\ pc = "closeGlobal"
    /\ CloseSource("GlobalShutdown")
    /\ pc' = "done"
    /\ UNCHANGED <<coVars, obsVars, active, stopVars, tr, net, rt>>

\* The clock failed while Live.
ClosesForGood ==
    /\ pc = "closePermanent"
    /\ IF CloseRefused("Permanent") THEN UNCHANGED <<gate, sourceVars>>
                                    ELSE CloseSource("Permanent")
    /\ pc' = "throw"
    /\ UNCHANGED <<coVars, obsVars, active, stopVars, tr, net, rt>>

\* catch: close_source_after_exception().  An attempt that could not be
\* quiesced is quiesced again; a gate that refuses the close is left alone.
CatchesException ==
    LET again == opened # 0 /\ ~quiesced /\ active # 0 IN
    /\ pc = "throw"
    /\ IF opened # 0 /\ (\/ quiesced /\ MayClose(gate, opened)
                         \/ again /\ MayQuiesce(gate, opened))
       THEN CloseSource("Permanent")
       ELSE /\ quiesced' = (quiesced \/ (again /\ gate.state = "Shutdown"))
            /\ UNCHANGED <<gate, opened>>
    /\ active' = IF again THEN 0 ELSE active
    /\ pc' = "exception"
    /\ UNCHANGED <<coVars, obsVars, stopVars, tr, net, rt>>

\* set_terminal(): a shutdown keeps its own state.
SetTerminal(how) ==
    IF shutdownReq THEN UNCHANGED obsVars
    ELSE terminal' = how /\ recState' = "Exhausted"

EndsAfterException ==
    /\ pc = "exception"
    /\ SetTerminal("Exception")
    /\ pc' = "done"
    /\ UNCHANGED <<coVars, sourceVars, active, stopVars, tr, net, rt, gate>>

-----------------------------------------------------------------------------
(* The cut: the attempt is joined, the owner barrier has passed.             *)

\* A cut that does not wait for the owner barrier.
CutsEarly ==
    /\ pc = "cut"
    /\ pc' = IF shutdownReq THEN "closeGlobal" ELSE "reflect"
    /\ seen' = Healthy(rt)
    /\ UNCHANGED <<generation, planned, after, attempts, obsVars, sourceVars,
                   active, stopVars, tr, net, rt, gate>>

\* final_runtime = runtime_.observe().
Cuts ==
    /\ pc = "cut"
    /\ \/ shutdownReq /\ pc' = "closeGlobal" /\ UNCHANGED seen
       \/ /\ ~shutdownReq /\ rt.queue = <<>>
          /\ pc' = "reflect" /\ seen' = Healthy(rt)
    /\ UNCHANGED <<generation, planned, after, attempts, obsVars, sourceVars,
                   active, stopVars, tr, net, rt, gate>>

\* A transport error that the runtime has not seen is submitted again.
ReflectsError ==
    /\ pc = "reflect"
    /\ IF tr.error # "None" /\ seen
       THEN /\ rt' = Submitted(rt, "Failure")
            /\ IF SubmitAccepted(rt)
               THEN pc' = "decide" /\ UNCHANGED <<gate, sourceVars, obsVars>>
               ELSE IF CloseRefused("Permanent")
               THEN pc' = "throw" /\ UNCHANGED <<gate, sourceVars, obsVars>>
               ELSE /\ CloseSource("Permanent") /\ SetTerminal("ReflectFailed")
                    /\ pc' = "done"
       ELSE pc' = "decide" /\ UNCHANGED <<rt, gate, sourceVars, obsVars>>
    /\ UNCHANGED <<coVars, active, stopVars, tr, net>>

is_clean_planned_cut ==
    tr.stopped /\ ~tr.running /\ tr.error = "None" /\ seen

\* classify_failure(): is the cut recoverable?
Recoverable ==
    /\ rt.fault # "Terminal"
    /\ (~seen /\ RecoveryRequired(rt)) \/ tr.error # "None"
    /\ tr.error # "Fatal"

Decides ==
    /\ pc = "decide" /\ rt.queue = <<>>
    /\ pc' = IF planned /\ is_clean_planned_cut THEN "plannedCommit"
             ELSE IF Recoverable THEN "backoffCommit" ELSE "giveUp"
    /\ UNCHANGED <<coVars, obsVars, sourceVars, active, stopVars, tr, net, rt,
                   gate>>

GivesUp ==
    /\ pc = "giveUp"
    /\ IF CloseRefused("Permanent")
       THEN pc' = "throw" /\ UNCHANGED <<gate, sourceVars, obsVars>>
       ELSE CloseSource("Permanent") /\ SetTerminal("Classified") /\ pc' = "done"
    /\ UNCHANGED <<coVars, active, stopVars, tr, net, rt>>

\* Under mutex_: the old generation is closed, then the owner resets.
CommitsRotation ==
    /\ pc = "plannedCommit"
    /\ IF shutdownReq
       THEN CloseSource("GlobalShutdown") /\ pc' = "done"
       ELSE IF CloseRefused("Replacement")
       THEN pc' = "throw" /\ UNCHANGED <<gate, sourceVars>>
       ELSE CloseSource("Replacement") /\ pc' = "plannedReset"
    /\ UNCHANGED <<coVars, obsVars, active, stopVars, tr, net, rt>>

ResetsForRotation ==
    /\ pc = "plannedReset" /\ rt.queue = <<>>
    /\ IF Healthy(rt)
       THEN /\ rt' = FreshRuntime
            /\ generation' = generation + 1 /\ recState' = "Starting"
            /\ pc' = "top" /\ UNCHANGED terminal
       ELSE /\ SetTerminal("ResetFailed") /\ pc' = "done"
            /\ UNCHANGED <<rt, generation>>
    /\ UNCHANGED <<planned, seen, after, attempts, sourceVars, active, stopVars,
                   tr, net, gate>>

\* Under mutex_: the budget of consecutive recoveries.
CommitsBackoff ==
    /\ pc = "backoffCommit"
    /\ IF shutdownReq
       THEN /\ CloseSource("GlobalShutdown") /\ pc' = "done"
            /\ UNCHANGED <<attempts, obsVars>>
       ELSE IF CloseRefused("Replacement")
       THEN pc' = "throw" /\ UNCHANGED <<gate, sourceVars, attempts, obsVars>>
       ELSE IF attempts >= MaxAttempts
       THEN /\ CloseSource("Permanent") /\ pc' = "done"
            /\ SetTerminal("Exhausted") /\ UNCHANGED attempts
       ELSE /\ CloseSource("Replacement") /\ pc' = "backoff"
            /\ attempts' = attempts + 1
            /\ recState' = "Backoff" /\ UNCHANGED terminal
    /\ UNCHANGED <<generation, planned, seen, after, active, stopVars, tr, net,
                   rt>>

\* wait_backoff(), then Recovering.
BacksOff ==
    /\ pc = "backoff"
    /\ IF shutdownReq THEN pc' = "done" /\ UNCHANGED recState
       ELSE pc' = "recovering" /\ recState' = "Recovering"
    /\ UNCHANGED <<coVars, terminal, sourceVars, active, stopVars, tr, net, rt,
                   gate>>

\* Under mutex_ again, and held until the owner has performed the reset.
CommitsRecovery ==
    /\ pc = "recovering"
    /\ pc' = IF shutdownReq THEN "done" ELSE "reset"
    /\ UNCHANGED <<coVars, obsVars, sourceVars, active, stopVars, tr, net, rt,
                   gate>>

ResetsForRecovery ==
    /\ pc = "reset"
    /\ IF RecoveryRequired(rt)
       THEN /\ rt' = FreshRuntime
            /\ generation' = generation + 1
            /\ pc' = "top" /\ UNCHANGED obsVars
       ELSE /\ SetTerminal("ResetFailed") /\ pc' = "done"
            /\ UNCHANGED <<rt, generation>>
    /\ UNCHANGED <<planned, seen, after, attempts, sourceVars, active, stopVars,
                   tr, net, gate>>

Coordinator ==
    \/ BeginsGeneration \/ CreatesAttempt \/ ChecksShutdown \/ StartsAttempt \/ AttemptStarted
    \/ OpensGeneration \/ AwaitsLive \/ QualifiesRuntime \/ InspectsTransport
    \/ MarksLive \/ LeavesLive \/ StopsAttempt \/ JoinsAttempt \/ LooksAtGate
    \/ QuiescesGate \/ ReleasesAttempt \/ ClosesGlobally \/ ClosesForGood
    \/ CatchesException \/ EndsAfterException \/ Cuts \/ ReflectsError
    \/ Decides \/ GivesUp \/ CommitsRotation
    \/ ResetsForRotation \/ CommitsBackoff \/ BacksOff \/ CommitsRecovery
    \/ ResetsForRecovery

-----------------------------------------------------------------------------
(* ProductRuntime::stop(): the publications, then RecoveryCoordinator::stop. *)

stopUnchanged == <<coVars, terminal, sourceVars, driver>>

ShutsPublication ==
    /\ stopper = "none"
    /\ gate' = ShutDown(gate)
    /\ stopper' = "published"
    /\ UNCHANGED <<stopUnchanged, pc, recState, active, shutdownReq, retained,
                   tr, net, rt>>

\* The first critical section of stop(), which needs mutex_.
RequestsStop ==
    /\ stopper = "published" /\ pc \notin {"plannedReset", "reset"}
    /\ shutdownReq' = TRUE
    /\ IF pc = "down" THEN recState' = "Stopped" /\ stopper' = "stopped"
                      ELSE recState' = "Stopping" /\ stopper' = "requested"
    /\ UNCHANGED <<stopUnchanged, pc, active, retained, tr, net, rt, gate>>

TakesAttempt ==
    /\ stopper = "requested"
    /\ retained' = active
    /\ stopper' = IF active = 0 THEN "joining" ELSE "stopping"
    /\ UNCHANGED <<stopUnchanged, pc, recState, active, shutdownReq, tr, net,
                   rt, gate>>

\* attempt->stop() on whatever attempt was taken, old ones being stopped.
StopsTaken ==
    /\ stopper \in {"stopping", "finalStop"}
    /\ tr' = IF tr.gen = retained THEN StopRequested(tr) ELSE tr
    /\ stopper' = IF stopper = "stopping" THEN "joinTaken" ELSE "finalJoin"
    /\ UNCHANGED <<stopUnchanged, pc, recState, active, shutdownReq, retained,
                   net, rt, gate>>

JoinsTaken ==
    /\ stopper \in {"joinTaken", "finalJoin"}
    /\ tr.gen = retained => Joined
    /\ tr' = IF tr.gen = retained THEN [tr EXCEPT !.stopped = TRUE] ELSE tr
    /\ stopper' = IF stopper = "joinTaken" THEN "joining" ELSE "runtime"
    /\ UNCHANGED <<stopUnchanged, pc, recState, active, shutdownReq, retained,
                   net, rt, gate>>

\* A stop that does not look for an attempt published after its first look.
JoinsCoordinatorOnly ==
    /\ stopper = "joining" /\ pc = "done"
    /\ stopper' = "runtime"
    /\ UNCHANGED <<stopUnchanged, pc, recState, active, shutdownReq, retained,
                   tr, net, rt, gate>>

\* coordinator_.join() and the take of a late attempt.
JoinsCoordinator ==
    /\ stopper = "joining" /\ pc = "done"
    /\ retained' = active /\ active' = 0
    /\ stopper' = IF active = 0 THEN "runtime" ELSE "finalStop"
    /\ UNCHANGED <<stopUnchanged, pc, recState, shutdownReq, tr, net, rt, gate>>

\* runtime_.stop(), which drains and joins the owner, and the last state.
StopsRuntime ==
    /\ stopper = "runtime" /\ rt.queue = <<>>
    /\ rt' = [rt EXCEPT !.state = "Stopped", !.accepting = FALSE]
    /\ recState' = "Stopped"
    /\ stopper' = "stopped"
    /\ UNCHANGED <<stopUnchanged, pc, active, shutdownReq, retained, tr, net,
                   gate>>

-----------------------------------------------------------------------------
(* request_controlled_recovery_for_acceptance().                             *)

\* The look at the state under mutex_ ...
DriverChecks ==
    /\ Controlled /\ driver = "idle"
    /\ pc \notin {"plannedReset", "reset"}
    /\ recState = "Live" /\ ~shutdownReq
    /\ driver' = "checked"
    /\ UNCHANGED <<pc, coVars, obsVars, sourceVars, active, shutdownReq, stopper,
                   retained, tr, net, rt, gate>>

\* ... and the failure that is submitted without it.
DriverSubmits ==
    /\ driver = "checked" /\ generation <= MaxGeneration
    /\ rt' = Submitted(rt, "Failure")
    /\ driver' = "submitted"
    /\ UNCHANGED <<pc, coVars, obsVars, sourceVars, active, shutdownReq, stopper,
                   retained, tr, net, gate>>

-----------------------------------------------------------------------------

Stopper ==
    \/ RequestsStop \/ TakesAttempt \/ StopsTaken \/ JoinsTaken
    \/ JoinsCoordinator \/ StopsRuntime

Network ==
    \/ NetConnects \/ NetFails \/ NetReportsFailure \/ NetReceivesDepth
    \/ NetReceivesSnapshot \/ NetMarksFetched \/ NetShutsDown

Stopped == stopper = "stopped" /\ UNCHANGED vars

Next == Start \/ Coordinator \/ Network \/ OwnerRuns \/ ShutsPublication
        \/ Stopper \/ DriverChecks \/ DriverSubmits \/ Stopped

\* Threads are scheduled; backoff and rotation timers expire; a network thread
\* asked to stop stops; a connection that is being opened opens or fails, as
\* BinanceTransport shows.  Nothing makes it succeed, or a peer talk.
Fairness ==
    /\ WF_vars(Coordinator) /\ WF_vars(OwnerRuns) /\ WF_vars(Stopper)
    /\ WF_vars(NetReportsFailure) /\ WF_vars(NetMarksFetched)
    /\ WF_vars(NetShutsDown)
    /\ WF_vars(net = "connecting" /\ (NetConnects \/ NetFails))

Spec == Init /\ [][Next]_vars /\ Fairness

-----------------------------------------------------------------------------
(* Properties.                                                               *)

TypeOK ==
    /\ generation \in 1..(MaxGeneration + 1)
    /\ planned \in BOOLEAN /\ seen \in BOOLEAN
    /\ attempts \in 0..MaxAttempts
    /\ recState \in RecoveryStates /\ terminal \in Terminals
    /\ opened \in 0..MaxGeneration /\ quiesced \in BOOLEAN
    /\ active \in 0..MaxGeneration /\ retained \in 0..MaxGeneration
    /\ shutdownReq \in BOOLEAN
    /\ tr.error \in Errors /\ tr.gen \in 0..MaxGeneration
    /\ net \in {"none", "connecting", "active", "fetched", "failing", "dead"}
    /\ Len(rt.queue) <= QueueCapacity
    /\ gate \in Gates

\* At most one transport: an attempt is created only after the previous one's
\* network thread was joined, and a runtime is reset only then too, so no
\* producer of an old generation outlives its generation; what it left in the
\* queue has been processed.
OneProducer ==
    [][ tr'.gen # tr.gen \/ generation' # generation
            => /\ tr.stopped /\ net \in {"none", "dead"}
               /\ driver # "submitted" => rt.queue = <<>>
               /\ \A i \in DOMAIN rt.queue : rt.queue[i] = "Failure" ]_vars

\* A running transport never finds the publication gate on the wrong
\* generation: publish() never answers InvariantFailure, in spite of the
\* connection being up before its generation is opened, and of shutdowns.
GateFollowsTransport ==
    net \in {"active", "fetched"} =>
        PublishVerdict(gate, tr.gen) # "InvariantFailure"

\* A cut classified as recoverable finds a runtime that can be reset, and a
\* Live runtime behind the barrier takes the reflected failure: neither
\* "rebootstrap reset failed" nor "fault admission failed" is ever reported,
\* unless a driver has submitted a failure of its own.
ResetsSucceed ==
    driver # "submitted" => terminal \notin {"ResetFailed", "ReflectFailed"}

\* When stop() has returned no network thread is left, the coordinator has
\* ended and no attempt is reachable.
StoppedIsQuiet ==
    stopper = "stopped" =>
        /\ pc \in {"down", "done"} /\ active = 0
        /\ net \in {"none", "dead"} /\ gate.state = "Shutdown"

\* stop() returns, whatever the coordinator and the network are doing: also
\* while a connection hangs, during a reset, a backoff or a rotation.
StopTerminates == stopper # "none" ~> stopper = "stopped"

\* A faulted runtime does not stay faulted: it is reset for a new generation,
\* or the product ends or is shut down.
RecoveryProgresses ==
    RecoveryRequired(rt) ~> (~RecoveryRequired(rt) \/ terminal # "None"
                             \/ shutdownReq)

\* Only the causes that the milestone notes list end a product for good: a
\* terminal fault of the runtime, a fatal network error, the clock, a budget that
\* is used up, or a shutdown.
OnlyTerminalCausesEnd ==
    terminal # "None" =>
        \/ terminal = "Exhausted" \/ rt.fault = "Terminal" \/ tr.error = "Fatal"
        \/ after \in {"closePermanent", "throw"} \/ gate.state = "Shutdown"

=============================================================================
