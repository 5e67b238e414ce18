----------------------------- MODULE GrpcService -----------------------------
(***************************************************************************)
(* OrderBookGrpcService and OrderBookGrpcServer of src/g7/grpc_service.cpp *)
(* with the status assembler of src/g10/gateway_status.cpp: the contexts   *)
(* of the streaming handlers, the cancellation snapshot of a shutdown, the *)
(* single status slot and the life of the grpc::Server.                    *)
(*                                                                         *)
(* Each streaming RPC has a handler thread; one host thread runs start()   *)
(* and shutdown() (ProductionGateway serializes them).  A step is one      *)
(* critical section, or one call of a component with a mutex of its own.   *)
(* What a channel holds is left to SubscriberSession and EventPublication: *)
(* here it is open, ending or closed.                                      *)
(***************************************************************************)
EXTENDS Integers, FiniteSets

CONSTANTS
    Calls,          \* streaming RPCs: SubscribeOrderBook and SubscribeEvents
    StatusCalls,    \* GetGatewayStatus RPCs
    ProductCount,   \* entries of the market registry
    MaxTracked      \* options_.maximum_tracked_contexts

ASSUME GrpcAssumption ==
    /\ ProductCount \in Nat \ {0}
    /\ MaxTracked \in Nat \ {0}
    /\ Calls \cap StatusCalls = {}

VARIABLES
    host,              \* where the host thread is in start() and shutdown()
    entry,             \* the registry entry begin_shutdown() is working on
    accepting,         \* the grpc::Server takes new calls
    baseline,          \* start_baseline_monotonic_ns_ has a value
    admission_open,    \* admission_open_
    status_stop,       \* status_stop_.stop_requested()
    snapshot_active,   \* cancellation_snapshot_active_
    victims,           \* the part of begin_shutdown()'s array still to cancel
    booksOpen,         \* products whose runtime admits order-book sessions
    eventsOpen,        \* products whose event publication admits sessions
    contexts,          \* contexts_: "absent", "tracked", or also "selected"
    cancelled,         \* ServerContext::IsCancelled(), by call
    rpc,               \* where the handler of each streaming call is
    target,            \* the publication it subscribed to
    channel,           \* the state of its channel
    status,            \* the status it proposes, then the one it returned
    status_inflight,   \* status_inflight_
    query,             \* where the handler of each status call is
    seen,              \* registry entries it has observed
    answer             \* the status it returned

hostVars == <<host, entry, accepting, baseline>>
flagVars == <<admission_open, status_stop, snapshot_active, victims>>
sourceVars == <<booksOpen, eventsOpen>>
handlerVars == <<rpc, target, channel, status>>
statusVars == <<status_inflight, query, seen, answer>>
vars == <<hostVars, flagVars, sourceVars, contexts, cancelled, handlerVars,
          statusVars>>

Products == 1..ProductCount

Targets == {"book", "events"} \X Products

NoTarget == <<"none", 0>>

HostSteps ==
    {"new", "prepared", "serving", "failed", "begun", "closing_admission",
     "ending_books", "ending_events", "snapshot", "cancelling",
     "stopping_server", "waiting", "down"}

HandlerSteps ==
    {"new", "arrived", "validating", "admitting", "streaming", "writing",
     "writing_notice", "finalizing", "closing", "unwinding", "untracking",
     "returned"}

StatusSteps ==
    {"new", "arrived", "holding", "observing", "returned"}

ChannelStates == {"None", "Active", "Ending", "Unavailable", "Closed"}

StatusCodes ==
    {"None", "OK", "CANCELLED", "UNAVAILABLE", "RESOURCE_EXHAUSTED",
     "INVALID_ARGUMENT", "FAILED_PRECONDITION", "DEADLINE_EXCEEDED",
     "INTERNAL", "UNKNOWN"}

Init ==
    /\ host = "new" /\ entry = 1 /\ accepting = FALSE /\ baseline = FALSE
    /\ admission_open = TRUE /\ status_stop = FALSE
    /\ snapshot_active = FALSE /\ victims = {}
    /\ booksOpen = Products /\ eventsOpen = Products
    /\ contexts = [c \in Calls |-> "absent"]
    /\ cancelled = [c \in Calls \cup StatusCalls |-> FALSE]
    /\ rpc = [c \in Calls |-> "new"]
    /\ target = [c \in Calls |-> NoTarget]
    /\ channel = [c \in Calls |-> "None"]
    /\ status = [c \in Calls |-> "None"]
    /\ status_inflight = FALSE
    /\ query = [s \in StatusCalls |-> "new"]
    /\ seen = [s \in StatusCalls |-> 0]
    /\ answer = [s \in StatusCalls |-> "None"]

-----------------------------------------------------------------------------
(* OrderBookGrpcServer::start().                                             *)

\* prepare_status_start(): the clock may throw.
StartPrepares ==
    /\ host = "new"
    /\ \E sampled \in BOOLEAN :
        /\ baseline' = sampled
        /\ host' = IF sampled THEN "prepared" ELSE "failed"
    /\ UNCHANGED <<entry, accepting, flagVars, sourceVars, contexts, cancelled,
                   handlerVars, statusVars>>

\* BuildAndStart(): no client reaches a server without a port, so the one that
\* is given up has no call to wait for.
StartBuilds ==
    /\ host = "prepared"
    /\ \E bound \in BOOLEAN :
        /\ accepting' = bound
        /\ baseline' = bound
        /\ host' = IF bound THEN "serving" ELSE "failed"
    /\ UNCHANGED <<entry, flagVars, sourceVars, contexts, cancelled,
                   handlerVars, statusVars>>

-----------------------------------------------------------------------------
(* OrderBookGrpcServer::shutdown() and OrderBookGrpcService::begin_shutdown() *)

ShutdownBegins ==
    /\ host \in {"new", "serving", "failed"}
    /\ host' = "begun"
    /\ admission_open' = FALSE
    /\ UNCHANGED <<entry, accepting, baseline, status_stop, snapshot_active,
                   victims, sourceVars, contexts, cancelled, handlerVars,
                   statusVars>>

StopsStatus ==
    /\ host = "begun"
    /\ host' = "closing_admission"
    /\ entry' = 1
    /\ status_stop' = TRUE
    /\ UNCHANGED <<accepting, baseline, admission_open, snapshot_active,
                   victims, sourceVars, contexts, cancelled, handlerVars,
                   statusVars>>

\* One registry entry after another, then the next loop.
NextEntry(loop, afterwards) ==
    IF entry = ProductCount
    THEN host' = afterwards /\ entry' = 1
    ELSE host' = loop /\ entry' = entry + 1

\* Every session of a publication is closed by its owner.
ClosedFor(kind, p) ==
    [c \in Calls |-> IF target[c] = <<kind, p>> /\ channel[c] # "None"
                     THEN "Closed" ELSE channel[c]]

\* runtime->close_publication_admission()
ClosesAdmission ==
    /\ host = "closing_admission"
    /\ NextEntry("closing_admission", "ending_books")
    /\ booksOpen' = booksOpen \ {entry}
    /\ UNCHANGED <<accepting, baseline, flagVars, eventsOpen, contexts,
                   cancelled, handlerVars, statusVars>>

\* runtime->shutdown_publication(), which closes the admission as well and waits
\* for the owner thread.
EndsBooks ==
    /\ host = "ending_books"
    /\ NextEntry("ending_books", "ending_events")
    /\ booksOpen' = booksOpen \ {entry}
    /\ channel' = ClosedFor("book", entry)
    /\ UNCHANGED <<accepting, baseline, flagVars, eventsOpen, contexts,
                   cancelled, rpc, target, status, statusVars>>

\* event_publication->shutdown() without its state change.
EndsEventsStayingOpen ==
    /\ host = "ending_events"
    /\ NextEntry("ending_events", "snapshot")
    /\ channel' = ClosedFor("events", entry)
    /\ UNCHANGED <<accepting, baseline, flagVars, sourceVars, contexts,
                   cancelled, rpc, target, status, statusVars>>

\* event_publication->shutdown()
EndsEvents ==
    /\ host = "ending_events"
    /\ NextEntry("ending_events", "snapshot")
    /\ eventsOpen' = eventsOpen \ {entry}
    /\ channel' = ClosedFor("events", entry)
    /\ UNCHANGED <<accepting, baseline, flagVars, booksOpen, contexts,
                   cancelled, rpc, target, status, statusVars>>

Tracked(c) == contexts[c] # "absent"

\* A snapshot that selects the contexts and cancels none.
TakesSnapshotOnly ==
    /\ host = "snapshot"
    /\ host' = "cancelling"
    /\ snapshot_active' = TRUE
    /\ contexts' = [c \in Calls |-> IF Tracked(c) THEN "selected" ELSE "absent"]
    /\ UNCHANGED <<entry, accepting, baseline, admission_open, status_stop,
                   victims, sourceVars, cancelled, handlerVars, statusVars>>

TakesSnapshot ==
    /\ host = "snapshot"
    /\ host' = "cancelling"
    /\ snapshot_active' = TRUE
    /\ victims' = {c \in Calls : Tracked(c)}
    /\ contexts' = [c \in Calls |-> IF Tracked(c) THEN "selected" ELSE "absent"]
    /\ UNCHANGED <<entry, accepting, baseline, admission_open, status_stop,
                   sourceVars, cancelled, handlerVars, statusVars>>

\* context->TryCancel() on one pointer of the array, outside the mutex.
TryCancels(c) ==
    /\ host = "cancelling" /\ c \in victims
    /\ victims' = victims \ {c}
    /\ cancelled' = [cancelled EXCEPT ![c] = TRUE]
    /\ UNCHANGED <<hostVars, admission_open, status_stop, snapshot_active,
                   sourceVars, contexts, handlerVars, statusVars>>

SnapshotEnds ==
    /\ host = "cancelling" /\ victims = {}
    /\ host' = "stopping_server"
    /\ snapshot_active' = FALSE
    /\ UNCHANGED <<entry, accepting, baseline, admission_open, status_stop,
                   victims, sourceVars, contexts, cancelled, handlerVars,
                   statusVars>>

\* server_->Shutdown(): no new call.  Nothing to do when there is no server.
ServerStops ==
    /\ host = "stopping_server"
    /\ host' = "waiting"
    /\ accepting' = FALSE
    /\ UNCHANGED <<entry, baseline, flagVars, sourceVars, contexts, cancelled,
                   handlerVars, statusVars>>

InFlight(c) == rpc[c] \notin {"new", "returned"}

StatusInFlight(s) == query[s] \notin {"new", "returned"}

\* server_->Wait(): every handler has returned.
WaitReturns ==
    /\ host = "waiting"
    /\ \A c \in Calls : ~InFlight(c)
    /\ \A s \in StatusCalls : ~StatusInFlight(s)
    /\ host' = "down"
    /\ UNCHANGED <<entry, accepting, baseline, flagVars, sourceVars, contexts,
                   cancelled, handlerVars, statusVars>>

Host ==
    \/ StopsStatus \/ ClosesAdmission \/ EndsBooks \/ EndsEvents
    \/ TakesSnapshot \/ (\E c \in Calls : TryCancels(c)) \/ SnapshotEnds
    \/ ServerStops \/ WaitReturns

-----------------------------------------------------------------------------
(* SubscribeOrderBook and SubscribeEvents.                                   *)

othersVars ==
    <<hostVars, flagVars, sourceVars, contexts, cancelled, statusVars>>

Goes(c, step) == rpc' = [rpc EXCEPT ![c] = step]

\* return finalize(code)
Proposes(c, code) ==
    /\ Goes(c, "finalizing")
    /\ status' = [status EXCEPT ![c] = code]
    /\ UNCHANGED <<target, channel, othersVars>>

Arrives(c) ==
    /\ accepting
    /\ rpc[c] = "new"
    /\ Goes(c, "arrived")
    /\ UNCHANGED <<target, channel, status, othersVars>>

Full == Cardinality({d \in Calls : Tracked(d)}) = MaxTracked

\* A call that is not tracked.
RefusesContext(c) ==
    /\ rpc[c] = "arrived"
    /\ \/ /\ ~admission_open
          /\ status' = [status EXCEPT ![c] = "UNAVAILABLE"]
       \/ /\ admission_open /\ Full
          /\ status' = [status EXCEPT ![c] = "RESOURCE_EXHAUSTED"]
    /\ Goes(c, "returned")
    /\ UNCHANGED <<target, channel, othersVars>>

\* Admission is looked at, but the capacity test is all that decides.
track_context_late(c) ==
    /\ rpc[c] = "arrived"
    /\ ~Full
    /\ contexts' = [contexts EXCEPT ![c] = "tracked"]
    /\ Goes(c, "validating")
    /\ UNCHANGED <<hostVars, flagVars, sourceVars, cancelled, target, channel,
                   status, statusVars>>

track_context(c) ==
    /\ rpc[c] = "arrived"
    /\ admission_open /\ ~Full
    /\ contexts' = [contexts EXCEPT ![c] = "tracked"]
    /\ Goes(c, "validating")
    /\ UNCHANGED <<hostVars, flagVars, sourceVars, cancelled, target, channel,
                   status, statusVars>>

\* A malformed request, a market the registry does not have, or no schema in
\* common.
RefusesRequest(c) ==
    /\ rpc[c] = "validating"
    /\ \E code \in {"INVALID_ARGUMENT", "FAILED_PRECONDITION"} :
        Proposes(c, code)

Validates(c) ==
    /\ rpc[c] = "validating"
    /\ \E t \in Targets : target' = [target EXCEPT ![c] = t]
    /\ Goes(c, "admitting")
    /\ UNCHANGED <<channel, status, othersVars>>

Open(t) == IF t[1] = "book" THEN t[2] \in booksOpen ELSE t[2] \in eventsOpen

\* The errors of an admission for each kind of publication, when it is open.
OpenErrors(t) ==
    IF t[1] = "book"
    THEN {"NotLive", "PendingLimit", "ActiveLimit", "InvalidDepthLimit",
          "Stopped", "NotStarted", "ClockError", "IdExhausted", "InternalError"}
    ELSE {"SourceUnavailable", "ActiveLimit", "ClockError", "IdExhausted",
          "InternalError"}

AdmissionErrors(t) == IF Open(t) THEN OpenErrors(t) ELSE {"ShuttingDown"}

map_admission_error(error) ==
    CASE error \in {"NotLive", "SourceUnavailable", "ShuttingDown", "Stopped",
                    "NotStarted"} -> "UNAVAILABLE"
      [] error \in {"PendingLimit", "ActiveLimit"} -> "RESOURCE_EXHAUSTED"
      [] error = "InvalidDepthLimit" -> "INVALID_ARGUMENT"
      [] OTHER -> "INTERNAL"

AdmissionFails(c) ==
    /\ rpc[c] = "admitting"
    /\ \E error \in AdmissionErrors(target[c]) :
        Proposes(c, map_admission_error(error))

Admits(c) ==
    /\ rpc[c] = "admitting"
    /\ Open(target[c])
    /\ channel' = [channel EXCEPT ![c] = "Active"]
    /\ Goes(c, "streaming")
    /\ UNCHANGED <<target, status, othersVars>>

SeesCancellation(c) ==
    /\ rpc[c] = "streaming" /\ cancelled[c]
    /\ Proposes(c, "CANCELLED")

\* peek() found a record; behind an ending channel's records is its notice.
Peeks(c) ==
    /\ rpc[c] = "streaming" /\ ~cancelled[c]
    /\ \/ channel[c] \in {"Active", "Ending", "Unavailable"} /\ Goes(c, "writing")
       \/ channel[c] = "Ending" /\ Goes(c, "writing_notice")
    /\ UNCHANGED <<target, channel, status, othersVars>>

\* A record that cannot be turned into a message.
MaterializeFails(c) ==
    /\ rpc[c] = "streaming" /\ ~cancelled[c]
    /\ channel[c] \in {"Active", "Ending", "Unavailable"}
    /\ Proposes(c, "INTERNAL")

\* peek() found nothing and the channel has ended.  (A channel that is Active
\* waits for a change and looks again.)
SeesEnd(c) ==
    /\ rpc[c] = "streaming" /\ ~cancelled[c]
    /\ \/ channel[c] = "Closed" /\ Proposes(c, "OK")
       \/ channel[c] = "Unavailable" /\ Proposes(c, "UNAVAILABLE")

Writing(c) == rpc[c] \in {"writing", "writing_notice"}

WriteFails(c) ==
    /\ Writing(c)
    /\ Proposes(c, IF cancelled[c] THEN "CANCELLED" ELSE "OK")

\* The record is acknowledged; the notice ends the session.
WriteSucceeds(c) ==
    /\ Writing(c)
    /\ \/ cancelled[c] /\ Proposes(c, "CANCELLED")
       \/ /\ ~cancelled[c]
          /\ channel[c] = "Closed" \/ rpc[c] = "writing_notice"
          /\ Goes(c, "finalizing")
          /\ status' = [status EXCEPT ![c] = "OK"]
          /\ channel' = [channel EXCEPT ![c] = "Closed"]
          /\ UNCHANGED <<target, othersVars>>
       \/ /\ ~cancelled[c]
          /\ channel[c] # "Closed" /\ rpc[c] = "writing"
          /\ Goes(c, "streaming")
          /\ UNCHANGED <<target, channel, status, othersVars>>

\* An exception leaves the handler before it has a status.
Throws(c) ==
    /\ rpc[c] \in {"validating", "admitting", "streaming"}
    /\ Goes(c, "unwinding")
    /\ status' = [status EXCEPT ![c] = "UNKNOWN"]
    /\ UNCHANGED <<target, channel, othersVars>>

final_status(c) ==
    IF status[c] = "OK" /\ contexts[c] = "selected" THEN "CANCELLED" ELSE status[c]

\* The handler does not wait for the snapshot.
finalize_context_at_once(c) ==
    /\ rpc[c] = "finalizing"
    /\ contexts' = [contexts EXCEPT ![c] = "absent"]
    /\ status' = [status EXCEPT ![c] = final_status(c)]
    /\ Goes(c, IF channel[c] = "None" THEN "returned" ELSE "closing")
    /\ UNCHANGED <<hostVars, flagVars, sourceVars, cancelled, target, channel,
                   statusVars>>

finalize_context(c) ==
    /\ rpc[c] = "finalizing"
    /\ ~snapshot_active
    /\ contexts' = [contexts EXCEPT ![c] = "absent"]
    /\ status' = [status EXCEPT ![c] = final_status(c)]
    /\ Goes(c, IF channel[c] = "None" THEN "returned" ELSE "closing")
    /\ UNCHANGED <<hostVars, flagVars, sourceVars, cancelled, target, channel,
                   statusVars>>

\* ~CloseSubscription, ~CloseEventSubscription: after finalize(), but before
\* untrack_context() when an exception unwinds the handler.  The handler's part
\* of the channel goes with it.
ClosesSubscription(c) ==
    /\ \/ rpc[c] = "closing" /\ Goes(c, "returned")
       \/ rpc[c] = "unwinding" /\ Goes(c, "untracking")
    /\ channel' = [channel EXCEPT ![c] = "None"]
    /\ target' = [target EXCEPT ![c] = NoTarget]
    /\ UNCHANGED <<status, othersVars>>

\* A guard that forgets the context of a handler that threw.
untrack_context_forgotten(c) ==
    /\ rpc[c] = "untracking"
    /\ Goes(c, "returned")
    /\ UNCHANGED <<target, channel, status, othersVars>>

untrack_context(c) ==
    /\ rpc[c] = "untracking"
    /\ ~snapshot_active
    /\ contexts' = [contexts EXCEPT ![c] = "absent"]
    /\ Goes(c, "returned")
    /\ UNCHANGED <<hostVars, flagVars, sourceVars, cancelled, target, channel,
                   status, statusVars>>

\* The steps a handler takes by itself: all but a Write that the client holds
\* up, and a failure inside it.
Proceeds(c) ==
    \/ RefusesContext(c) \/ track_context(c) \/ RefusesRequest(c) \/ Validates(c)
    \/ AdmissionFails(c) \/ Admits(c) \/ SeesCancellation(c) \/ SeesEnd(c)
    \/ finalize_context(c) \/ ClosesSubscription(c) \/ untrack_context(c)

Handler(c) ==
    \/ Proceeds(c) \/ Peeks(c) \/ MaterializeFails(c) \/ WriteFails(c)
    \/ WriteSucceeds(c) \/ Throws(c)

-----------------------------------------------------------------------------
(* The runtime's owner and the event publication cut a session; the client   *)
(* goes away.                                                                *)

SourceCuts(c) ==
    /\ channel[c] = "Active"
    /\ \E end \in {"Ending", "Unavailable"} :
        /\ end = "Unavailable" => target[c][1] = "events"
        /\ channel' = [channel EXCEPT ![c] = end]
    /\ UNCHANGED <<rpc, target, status, othersVars>>

ClientCancels(c) ==
    /\ ~cancelled[c]
    /\ (c \in Calls /\ InFlight(c)) \/ (c \in StatusCalls /\ StatusInFlight(c))
    /\ cancelled' = [cancelled EXCEPT ![c] = TRUE]
    /\ UNCHANGED <<hostVars, flagVars, sourceVars, contexts, handlerVars,
                   statusVars>>

-----------------------------------------------------------------------------
(* GetGatewayStatus and GatewayStatusAssembler::collect().                   *)

streamVars ==
    <<hostVars, flagVars, sourceVars, contexts, cancelled, handlerVars>>

StatusGoes(s, step) == query' = [query EXCEPT ![s] = step]

StatusArrives(s) ==
    /\ accepting
    /\ query[s] = "new"
    /\ StatusGoes(s, "arrived")
    /\ UNCHANGED <<status_inflight, seen, answer, streamVars>>

\* Returned without the slot: a malformed request, a shutdown, or another call
\* that has the slot.
StatusRefused(s) ==
    /\ query[s] = "arrived"
    /\ \E code \in {"INVALID_ARGUMENT", "UNAVAILABLE", "RESOURCE_EXHAUSTED"} :
        /\ code = "UNAVAILABLE" => ~admission_open
        /\ code = "RESOURCE_EXHAUSTED" => admission_open /\ status_inflight
        /\ answer' = [answer EXCEPT ![s] = code]
    /\ StatusGoes(s, "returned")
    /\ UNCHANGED <<status_inflight, seen, streamVars>>

StatusTakesSlot(s) ==
    /\ query[s] = "arrived"
    /\ admission_open /\ ~status_inflight
    /\ status_inflight' = TRUE
    /\ StatusGoes(s, "holding")
    /\ UNCHANGED <<seen, answer, streamVars>>

\* ~StatusSlotGuard, at the end of a call that has the slot: what it collected is
\* gone, what it returns is not.
release_status_slot(s) ==
    /\ status_inflight' = FALSE
    /\ seen' = [seen EXCEPT ![s] = 0]
    /\ StatusGoes(s, "returned")

StatusBegins(s) ==
    /\ query[s] = "holding"
    /\ IF cancelled[s]
       THEN /\ answer' = [answer EXCEPT ![s] = "CANCELLED"]
            /\ release_status_slot(s)
       ELSE /\ StatusGoes(s, "observing")
            /\ UNCHANGED <<status_inflight, seen, answer>>
    /\ UNCHANGED streamVars

\* What the client is told of the outcome of collect().
StatusAnswers(s, result) ==
    /\ answer' = [answer EXCEPT ![s] =
            CASE cancelled[s] -> "CANCELLED"
              [] ~cancelled[s] /\ result = "snapshot" -> "OK"
              [] ~cancelled[s] /\ result # "snapshot" /\ status_stop -> "UNAVAILABLE"
              [] ~cancelled[s] /\ result = "timeout" /\ ~status_stop ->
                    "DEADLINE_EXCEEDED"
              [] OTHER -> "INTERNAL"]
    /\ release_status_slot(s)

\* The runtime and the recovery of one product answer in time, or the shared
\* deadline passes or the stop token ends the wait.
StatusObserves(s) ==
    /\ query[s] = "observing" /\ seen[s] < ProductCount
    /\ \/ /\ seen' = [seen EXCEPT ![s] = @ + 1]
          /\ UNCHANGED <<status_inflight, query, answer>>
       \/ StatusAnswers(s, "timeout")
    /\ UNCHANGED streamVars

\* The observations are validated, the baseline and the clock read.
StatusAssembles(s) ==
    /\ query[s] = "observing" /\ seen[s] = ProductCount
    /\ \E result \in {"snapshot", "error"} :
        /\ result = "snapshot" => baseline
        /\ StatusAnswers(s, result)
    /\ UNCHANGED streamVars

\* collect() or the reply throws: whatever else happened, INTERNAL.
StatusThrows(s) ==
    /\ query[s] = "observing"
    /\ answer' = [answer EXCEPT ![s] = "INTERNAL"]
    /\ release_status_slot(s)
    /\ UNCHANGED streamVars

StatusProceeds(s) ==
    \/ StatusRefused(s) \/ StatusTakesSlot(s) \/ StatusBegins(s)
    \/ StatusObserves(s) \/ StatusAssembles(s)

-----------------------------------------------------------------------------
\* shutdown() has returned; no call can come in.
Down == host = "down" /\ UNCHANGED vars

Next ==
    \/ StartPrepares \/ StartBuilds \/ ShutdownBegins \/ Host
    \/ \E c \in Calls : Arrives(c) \/ Handler(c) \/ SourceCuts(c)
    \/ \E s \in StatusCalls : StatusArrives(s) \/ StatusProceeds(s) \/ StatusThrows(s)
    \/ \E c \in Calls \cup StatusCalls : ClientCancels(c)
    \/ Down

Spec == Init /\ [][Next]_vars

\* Threads run.  A Write is held up by its client for as long as it likes,
\* unless the call is cancelled, which makes it fail.
Fairness ==
    /\ WF_vars(Host)
    /\ \A c \in Calls : WF_vars(Proceeds(c))
                        /\ WF_vars(cancelled[c] /\ WriteFails(c))
    /\ \A s \in StatusCalls : WF_vars(StatusProceeds(s))

FairSpec == Spec /\ Fairness

-----------------------------------------------------------------------------
(* Properties.                                                               *)

TypeOK ==
    /\ host \in HostSteps /\ entry \in Products
    /\ accepting \in BOOLEAN /\ baseline \in BOOLEAN
    /\ admission_open \in BOOLEAN /\ status_stop \in BOOLEAN
    /\ snapshot_active \in BOOLEAN /\ victims \in SUBSET Calls
    /\ booksOpen \in SUBSET Products /\ eventsOpen \in SUBSET Products
    /\ contexts \in [Calls -> {"absent", "tracked", "selected"}]
    /\ cancelled \in [Calls \cup StatusCalls -> BOOLEAN]
    /\ rpc \in [Calls -> HandlerSteps]
    /\ target \in [Calls -> Targets \cup {NoTarget}]
    /\ channel \in [Calls -> ChannelStates]
    /\ status \in [Calls -> StatusCodes]
    /\ status_inflight \in BOOLEAN
    /\ query \in [StatusCalls -> StatusSteps]
    /\ seen \in [StatusCalls -> 0..ProductCount]
    /\ answer \in [StatusCalls -> StatusCodes]

\* begin_shutdown() calls TryCancel() through raw pointers after it has let go
\* of the mutex: the handler of each of them is still running, so its
\* ServerContext exists.
NoDanglingCancel == \A c \in victims : InFlight(c)

\* No handler slips in behind the cancellation snapshot: when the TryCancel()
\* loop is over, each context that is still tracked was cancelled by it.
NothingBehindSnapshot ==
    host \in {"stopping_server", "waiting", "down"} =>
        \A c \in Calls : Tracked(c) => cancelled[c]

\* From the moment the publications are shut down no session is left open, a
\* handler that was being admitted meanwhile included.
NoSessionBehindShutdown ==
    host \in {"snapshot", "cancelling", "stopping_server", "waiting", "down"} =>
        \A c \in Calls : channel[c] \in {"None", "Closed"}

\* What shutdown() asserts after Wait(): no context is tracked and no status
\* call has the slot, whatever way the handlers ended.
DrainedWhenDown ==
    host = "down" => ~status_inflight /\ \A c \in Calls : ~Tracked(c)

\* shutdown() returns, though clients may hold up their handlers' Writes, and
\* handlers may be waiting for the snapshot to end.
ShutdownReturns == host = "begun" ~> host = "down"

=============================================================================
