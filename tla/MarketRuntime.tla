---------------------------- MODULE MarketRuntime ----------------------------
(***************************************************************************)
(* src/g3/market_runtime.cpp: one product's MarketRuntime.  Producers and  *)
(* callers on any thread hand work to one owner thread through mailboxes   *)
(* guarded by mutex_: the bounded ingress queue, the reset, snapshot and   *)
(* admission requests, the pending overflow fault and the publication      *)
(* shutdown control.  Only the owner touches the Projection, the bootstrap *)
(* buffer and the subscriber list.                                         *)
(*                                                                         *)
(* One action is one critical section of mutex_ together with the          *)
(* owner-local work next to it, so every other thread can run between any  *)
(* two of the owner's critical sections, as in the code: between the       *)
(* choice of the work (Take...) and its execution, between terminalizing   *)
(* the sessions and publishing the fault, between the updates of a         *)
(* bootstrap replay.                                                       *)
(*                                                                         *)
(* The environment is the one the runtime has in a ProductRuntime: a       *)
(* source (the transport of one connection generation), the recovery       *)
(* coordinator, which joins the source before it asks for a reset, the     *)
(* gRPC handlers, and the thread that shuts the product down.  The         *)
(* Projection library is external: it is its status and a version that     *)
(* counts applied updates, and classifies an update nondeterministically.  *)
(***************************************************************************)
EXTENDS PublicationChannel, FiniteSets

CONSTANTS
    Sessions,            \* subscription attempts (one RPC each)
    IngressCapacity,     \* limits_.ingress_capacity
    BootstrapCapacity,   \* limits_.bootstrap_capacity
    PendingCapacity,     \* limits_.publication.pending_admission_capacity
    ActiveCapacity,      \* limits_.publication.maximum_active_subscriptions
    MaxTicket,           \* bound: inputs admitted during the run
    MaxGeneration        \* bound: connection generations

\* The constructor's checks, and bounds that let something happen.
ASSUME RuntimeAssumption ==
    /\ IngressCapacity \in Nat \ {0}
    /\ BootstrapCapacity \in Nat \ {0}
    /\ PendingCapacity \in Nat \ {0}
    /\ ActiveCapacity \in Nat \ {0}
    /\ MaxTicket \in Nat
    /\ MaxGeneration \in Nat \ {0}
    /\ "no_session" \notin Sessions

VARIABLES
    life,            \* started_, stop_requested_, stopped_
    state,           \* observation_.state
    obsStatus,       \* observation_.projection_status
    faultReason,     \* observation_.fault_reason
    accepting,       \* accepting_
    ingress,         \* ingress_
    lastAdmitted,    \* last_admitted_ticket_
    processed,       \* processed_ticket_
    pendingFault,    \* pending_fault_
    reset,           \* reset_request_
    snapshot,        \* snapshot_request_
    admissions,      \* admission_requests_
    pendingCount,    \* pending_admission_count_
    gateOpen,        \* publication_admission_open_
    shutdownAsked,   \* publication_shutdown_requested_
    shutdownDone,    \* publication_shutdown_completed_
    removalPending,  \* publication_removal_pending_
    pc,              \* where the owner thread is
    item,            \* the ingress item it is processing
    raising,         \* the fault it is about to publish
    serving,         \* the admission request it has popped
    projection,      \* status and version of projection_
    projGen,         \* current_projection_generation_ (0: none)
    bootstrap,       \* generations of the updates in bootstrap_
    lastApplied,     \* generation of observation_.last_applied_depth
    subscribers,     \* subscribers_
    channels,        \* the SubscriberChannel of each session
    rpc,             \* what the RPC of each session is doing
    lastRead,        \* the last record each RPC acknowledged
    source,          \* the transport of the current generation
    shutdownCaller   \* a thread is inside shutdown_publication()

lifeVars == <<life, state, obsStatus, faultReason>>
ingressVars == <<accepting, ingress, lastAdmitted, processed, pendingFault>>
requestVars == <<reset, snapshot>>
admissionVars == <<admissions, pendingCount, gateOpen>>
shutdownVars == <<shutdownAsked, shutdownDone, removalPending>>
ownerVars == <<pc, item, raising, serving>>
bookVars == <<projection, projGen, bootstrap, lastApplied>>
sessionVars == <<subscribers, channels>>
clientVars == <<rpc, lastRead>>
envVars == <<source, shutdownCaller>>

vars == <<lifeVars, ingressVars, requestVars, admissionVars, shutdownVars,
          ownerVars, bookVars, sessionVars, clientVars, envVars>>

-----------------------------------------------------------------------------
Statuses == {"AwaitingBaseline", "AwaitingBridge", "Synchronized",
             "NeedsResync"}

RuntimeStates == {"Constructed", "Buffering", "AwaitingBridge", "Live",
                  "NeedsResync", "Faulted", "Stopping", "Stopped"}

FaultReasons == {"IngressOverflow", "BootstrapBufferOverflow", "AdapterError",
                 "ProjectionRejected", "TransportFailure", "SnapshotFailure",
                 "ClockError", "InternalError"}

Inputs == {"Depth", "Snapshot", "TransportFailure", "SnapshotFailure"}

OwnerSteps == {"down", "select", "fault", "reset", "resetCommit", "admit",
               "stage", "snapshot", "process", "replay", "publishReplay",
               "publish", "finish", "exited"}

Items == [ticket : Nat, kind : Inputs \cup {"None"}, gen : Nat]

NoItem == [ticket |-> 0, kind |-> "None", gen |-> 0]

NoReset == [phase |-> "None", kind |-> "None", target |-> 0, result |-> "None"]

NoSnapshot == [phase |-> "None", target |-> 0, result |-> "None"]

NoSession == "no_session"

\* A session that has no channel yet.
NoChannel == [NewChannel EXCEPT !.state = "Closed"]

state_for_projection(status) ==
    CASE status = "AwaitingBaseline" -> "Buffering"
      [] status = "AwaitingBridge" -> "AwaitingBridge"
      [] status = "Synchronized" -> "Live"
      [] OTHER -> "NeedsResync"

\* Live, Synchronized and without a fault, as three call sites test it.
HealthyObservation ==
    state = "Live" /\ obsStatus = "Synchronized" /\ faultReason = "None"

Init ==
    /\ life = "NotStarted" /\ state = "Constructed"
    /\ obsStatus = "AwaitingBaseline" /\ faultReason = "None"
    /\ accepting = FALSE /\ ingress = <<>>
    /\ lastAdmitted = 0 /\ processed = 0 /\ pendingFault = "None"
    /\ reset = NoReset /\ snapshot = NoSnapshot
    /\ admissions = <<>> /\ pendingCount = 0 /\ gateOpen = FALSE
    /\ shutdownAsked = FALSE /\ shutdownDone = FALSE /\ removalPending = FALSE
    /\ pc = "down" /\ item = NoItem /\ raising = "None"
    /\ serving = NoSession
    /\ projection = [status |-> "AwaitingBaseline", ver |-> 0]
    /\ projGen = 0 /\ bootstrap = <<>> /\ lastApplied = 0
    /\ subscribers = <<>> /\ channels = [s \in Sessions |-> NoChannel]
    /\ rpc = [s \in Sessions |-> "Idle"]
    /\ lastRead = [s \in Sessions |-> NoRecord]
    /\ source = [gen |-> 1, phase |-> "Fresh", fetched |-> FALSE]
    /\ shutdownCaller = FALSE

-----------------------------------------------------------------------------
(* Lifecycle calls.                                                          *)

\* start(): holds mutex_ until the owner thread has reported ready.
Start ==
    /\ life = "NotStarted"
    /\ life' = "Running"
    /\ state' = "Buffering"
    /\ obsStatus' = projection.status
    /\ accepting' = TRUE
    /\ gateOpen' = ~shutdownDone
    /\ pc' = "select"
    /\ UNCHANGED <<faultReason, ingress, lastAdmitted, processed, pendingFault,
                   requestVars, admissions, pendingCount, shutdownVars, item,
                   raising, serving, bookVars, sessionVars, clientVars, envVars>>

\* stop() up to the join.  Stopping a runtime that never started is immediate.
Stop ==
    /\ accepting' = FALSE
    /\ \/ /\ life = "NotStarted"
          /\ life' = "Stopped" /\ state' = "Stopped"
          /\ UNCHANGED <<gateOpen, shutdownAsked>>
       \/ /\ life = "Running"
          /\ life' = "Stopping"
          /\ state' = IF state \in {"Faulted", "NeedsResync"} THEN state
                                                              ELSE "Stopping"
          /\ gateOpen' = FALSE /\ shutdownAsked' = TRUE
    /\ UNCHANGED <<obsStatus, faultReason, ingress, lastAdmitted, processed,
                   pendingFault, requestVars, admissions, pendingCount,
                   shutdownDone, removalPending, ownerVars, bookVars,
                   sessionVars, clientVars, envVars>>

\* stop() after owner_.join().
StopJoined ==
    /\ life = "Stopping" /\ pc = "exited"
    /\ life' = "Stopped" /\ state' = "Stopped"
    /\ snapshot' = IF snapshot.phase = "Pending"
                   THEN [snapshot EXCEPT !.phase = "Done", !.result = "Stopped"]
                   ELSE snapshot
    /\ admissions' = <<>> /\ pendingCount' = 0
    /\ rpc' = [s \in Sessions |-> IF rpc[s] = "Pending" THEN "Refused"
                                                        ELSE rpc[s]]
    /\ UNCHANGED <<obsStatus, faultReason, ingressVars, reset, gateOpen,
                   shutdownVars, ownerVars, bookVars, sessionVars, lastRead,
                   envVars>>

\* close_publication_admission()
ClosePublicationAdmission ==
    /\ gateOpen
    /\ gateOpen' = FALSE
    /\ UNCHANGED <<lifeVars, ingressVars, requestVars, admissions, pendingCount,
                   shutdownVars, ownerVars, bookVars, sessionVars, clientVars,
                   envVars>>

\* shutdown_publication() up to its wait; before start it completes at once.
ShutdownPublication ==
    /\ ~shutdownDone /\ life # "Stopped" /\ ~shutdownCaller
    /\ gateOpen' = FALSE
    /\ shutdownAsked' = TRUE
    /\ shutdownDone' = (life = "NotStarted")
    /\ shutdownCaller' = (life # "NotStarted")
    /\ UNCHANGED <<lifeVars, ingressVars, requestVars, admissions, pendingCount,
                   removalPending, ownerVars, bookVars, sessionVars, clientVars,
                   source>>

ShutdownPublicationReturns ==
    /\ shutdownCaller
    /\ shutdownDone \/ life = "Stopped"
    /\ shutdownCaller' = FALSE
    /\ UNCHANGED <<lifeVars, ingressVars, requestVars, admissionVars,
                   shutdownVars, ownerVars, bookVars, sessionVars, clientVars,
                   source>>

-----------------------------------------------------------------------------
(* submit(): nonblocking admission of one input.                             *)

SubmitResult ==
    CASE life = "Stopped" -> "Stopped"
      [] life = "NotStarted" -> "NotStarted"
      [] life = "Stopping" -> "Stopping"
      [] life = "Running" /\ ~accepting -> "Faulted"
      [] life = "Running" /\ accepting /\ Len(ingress) = IngressCapacity -> "Full"
      [] OTHER -> "Accepted"

Submit(kind) ==
    /\ SubmitResult = "Accepted" => lastAdmitted < MaxTicket
    /\ lastAdmitted' = IF SubmitResult = "Accepted" THEN lastAdmitted + 1
                                                    ELSE lastAdmitted
    /\ ingress' = IF SubmitResult = "Accepted"
                  THEN Append(ingress, [ticket |-> lastAdmitted', kind |-> kind,
                                        gen |-> source.gen])
                  ELSE ingress
    /\ accepting' = (accepting /\ SubmitResult # "Full")
    /\ pendingFault' = IF SubmitResult = "Full" THEN "IngressOverflow"
                                                ELSE pendingFault
    /\ UNCHANGED processed

\* The source connects (Fresh -> On), submits depth frames and its one REST
\* snapshot, and goes away when an input is refused, when it fails (which
\* submits the failure) or when the coordinator stops and joins it.
SourceConnects ==
    /\ source.phase = "Fresh" /\ life = "Running"
    /\ source' = [source EXCEPT !.phase = "On"]
    /\ UNCHANGED <<lifeVars, ingressVars, requestVars, admissionVars,
                   shutdownVars, ownerVars, bookVars, sessionVars, clientVars,
                   shutdownCaller>>

SourceSubmits(kind) ==
    /\ source.phase = "On"
    /\ kind = "Snapshot" => ~source.fetched
    /\ Submit(kind)
    /\ source' = [source EXCEPT
                    !.phase = IF SubmitResult = "Accepted" THEN "On" ELSE "Joined",
                    !.fetched = @ \/ kind = "Snapshot"]
    /\ UNCHANGED <<lifeVars, requestVars, admissionVars, shutdownVars,
                   ownerVars, bookVars, sessionVars, clientVars, shutdownCaller>>

SourceFails(kind) ==
    /\ source.phase \in {"Fresh", "On"} /\ life # "NotStarted"
    /\ Submit(kind)
    /\ source' = [source EXCEPT !.phase = "Joined"]
    /\ UNCHANGED <<lifeVars, requestVars, admissionVars, shutdownVars,
                   ownerVars, bookVars, sessionVars, clientVars, shutdownCaller>>

SourceJoined ==
    /\ source.phase = "On"
    /\ source' = [source EXCEPT !.phase = "Joined"]
    /\ UNCHANGED <<lifeVars, ingressVars, requestVars, admissionVars,
                   shutdownVars, ownerVars, bookVars, sessionVars, clientVars,
                   shutdownCaller>>

\* A joined transport with a terminal error and a runtime that is Live behind
\* the barrier: the coordinator submits the failure in its place.  (The
\* coordinator is one thread: it is not inside a reset meanwhile.)
CoordinatorReflectsFailure ==
    /\ source.phase = "Joined" /\ HealthyObservation
    /\ processed = lastAdmitted /\ reset.phase = "None"
    /\ Submit("TransportFailure")
    /\ UNCHANGED <<lifeVars, requestVars, admissionVars, shutdownVars,
                   ownerVars, bookVars, sessionVars, clientVars, envVars>>

-----------------------------------------------------------------------------
(* Synchronous requests served by the owner.                                 *)

\* reset_for_rebootstrap() and reset_live_for_planned_rebootstrap() up to the
\* wait.  Refused calls change nothing.  The coordinator has joined the source
\* and then waited for the owner barrier (runtime_.observe()).
RequestReset(kind) ==
    /\ source.phase = "Joined" /\ source.gen < MaxGeneration
    /\ processed = lastAdmitted
    /\ life = "Running" /\ reset.phase = "None"
    /\ IF kind = "Recovery" THEN state \in {"Faulted", "NeedsResync"}
                            ELSE HealthyObservation
    /\ reset' = [phase |-> "Pending", kind |-> kind, target |-> lastAdmitted,
                 result |-> "None"]
    /\ UNCHANGED <<lifeVars, ingressVars, snapshot, admissionVars, shutdownVars,
                   ownerVars, bookVars, sessionVars, clientVars, envVars>>

\* The caller wakes; after a Reset the coordinator starts the next generation.
ResetReturns ==
    /\ reset.phase = "Done" \/ (reset.phase = "Pending" /\ life = "Stopped")
    /\ reset' = NoReset
    /\ source' = IF reset.result = "Reset"
                 THEN [gen |-> source.gen + 1, phase |-> "Fresh",
                       fetched |-> FALSE]
                 ELSE source
    /\ UNCHANGED <<lifeVars, ingressVars, snapshot, admissionVars, shutdownVars,
                   ownerVars, bookVars, sessionVars, clientVars, shutdownCaller>>

\* capture_snapshot() up to its wait.
RequestSnapshot ==
    /\ life = "Running" /\ snapshot.phase = "None"
    /\ state \notin {"Faulted", "NeedsResync"}
    /\ snapshot' = [phase |-> "Pending", target |-> lastAdmitted,
                    result |-> "None"]
    /\ UNCHANGED <<lifeVars, ingressVars, reset, admissionVars, shutdownVars,
                   ownerVars, bookVars, sessionVars, clientVars, envVars>>

SnapshotReturns ==
    /\ snapshot.phase = "Done" \/ (snapshot.phase = "Pending" /\ life = "Stopped")
    /\ snapshot' = NoSnapshot
    /\ UNCHANGED <<lifeVars, ingressVars, reset, admissionVars, shutdownVars,
                   ownerVars, bookVars, sessionVars, clientVars, envVars>>

\* admit_order_book_subscription() up to its wait.
RequestSubscription(s) ==
    /\ rpc[s] = "Idle"
    /\ life = "Running" /\ gateOpen /\ ~shutdownAsked /\ ~shutdownDone
    /\ HealthyObservation
    /\ pendingCount # PendingCapacity
    /\ admissions' = Append(admissions, [session |-> s, target |-> lastAdmitted])
    /\ pendingCount' = pendingCount + 1
    /\ rpc' = [rpc EXCEPT ![s] = "Pending"]
    /\ UNCHANGED <<lifeVars, ingressVars, requestVars, gateOpen, shutdownVars,
                   ownerVars, bookVars, sessionVars, lastRead, envVars>>

-----------------------------------------------------------------------------
(* The RPC handler of a session (its peek/write/ack steps are apart in       *)
(* SubscriberSession; here one turn of its loop is one step).                *)

HandlerReads(s) ==
    LET held == Peek(channels[s]) IN
    /\ rpc[s] = "Streaming" /\ held # NoRecord
    /\ channels' = [channels EXCEPT ![s] = Acknowledge(@, held)]
    /\ lastRead' = [lastRead EXCEPT ![s] = held]
    /\ UNCHANGED <<lifeVars, ingressVars, requestVars, admissionVars,
                   shutdownVars, ownerVars, bookVars, subscribers, rpc, envVars>>

\* ~CloseSubscription: the channel was closed, or the client went away.
HandlerCloses(s) ==
    /\ rpc[s] = "Streaming"
    /\ channels' = [channels EXCEPT ![s] = CloseFromWriter(@)]
    /\ rpc' = [rpc EXCEPT ![s] = "Gone"]
    /\ removalPending' = TRUE
    /\ UNCHANGED <<lifeVars, ingressVars, requestVars, admissionVars,
                   shutdownAsked, shutdownDone, ownerVars, bookVars,
                   subscribers, lastRead, envVars>>

-----------------------------------------------------------------------------
(* The owner thread: choice of the work, in owner_loop()'s order of priority. *)

\* An owner barrier that is off by one.
reset_ready_late == reset.phase = "Pending" /\ processed > reset.target

reset_ready == reset.phase = "Pending" /\ processed >= reset.target

snapshot_ready == snapshot.phase = "Pending" /\ processed >= snapshot.target

admission_ready ==
    admissions # <<>> /\ processed >= Head(admissions).target

shutdown_ready == shutdownAsked /\ ~shutdownDone

\* std::erase_if: the subscribers whose channel is open, in their order.
sweep(subs) ==
    LET open == {i \in 1..Len(subs) : channels[subs[i]].state # "Closed"}
        rank(i) == Cardinality({j \in open : j <= i})
    IN  [k \in 1..Cardinality(open) |-> subs[CHOOSE i \in open : rank(i) = k]]

Resident(subs, s) == \E i \in 1..Len(subs) : subs[i] = s

\* Terminalization that misses all but the first session.
terminalize_first(chs, reason, gen) ==
    [s \in Sessions |-> IF subscribers # <<>> /\ Head(subscribers) = s
                        THEN Terminalize(chs[s], reason, gen)
                        ELSE chs[s]]

terminalize_active_subscribers(chs, reason, gen) ==
    [s \in Sessions |-> IF Resident(subscribers, s)
                        THEN Terminalize(chs[s], reason, gen)
                        ELSE chs[s]]

\* A shutdown that empties the list after closing its first session.
CloseFirstSubscriber ==
    /\ channels' = [s \in Sessions |-> IF subscribers # <<>>
                                            /\ Head(subscribers) = s
                                       THEN CloseFromOwner(channels[s])
                                       ELSE channels[s]]
    /\ subscribers' = <<>>

\* close_all_subscribers_for_shutdown()
CloseAllSubscribers ==
    /\ channels' = [s \in Sessions |-> IF Resident(subscribers, s)
                                       THEN CloseFromOwner(channels[s])
                                       ELSE channels[s]]
    /\ subscribers' = <<>>

\* complete_all_admissions_locked(error)
CompleteAllAdmissions ==
    /\ admissions' = <<>> /\ pendingCount' = 0
    /\ rpc' = [s \in Sessions |-> IF rpc[s] = "Pending" THEN "Refused"
                                                        ELSE rpc[s]]

\* transition_to_fault() up to the point where it takes mutex_: the sessions
\* are terminated before the fault is visible.
BeginFault(reason, chs) ==
    /\ raising' = reason
    /\ channels' = terminalize_active_subscribers(chs, "ResumeNotAvailable",
                                                  projGen)
    /\ subscribers' = sweep(subscribers)
    /\ pc' = "fault"

OwnerShutsPublication ==
    /\ pc = "select" /\ shutdown_ready
    /\ CloseAllSubscribers
    /\ CompleteAllAdmissions
    /\ gateOpen' = FALSE /\ shutdownDone' = TRUE
    /\ UNCHANGED <<lifeVars, ingressVars, requestVars, shutdownAsked,
                   removalPending, ownerVars, bookVars, lastRead, envVars>>

OwnerTakesFault ==
    /\ pc = "select" /\ ~shutdown_ready /\ pendingFault # "None"
    /\ pendingFault' = "None"
    /\ BeginFault(pendingFault, channels)
    /\ UNCHANGED <<lifeVars, accepting, ingress, lastAdmitted, processed,
                   requestVars, admissionVars, shutdownVars, item, serving,
                   bookVars, clientVars, envVars>>

OwnerTakesReset ==
    /\ pc = "select" /\ ~shutdown_ready /\ pendingFault = "None"
    /\ reset_ready
    /\ pc' = "reset"
    /\ UNCHANGED <<lifeVars, ingressVars, requestVars, admissionVars,
                   shutdownVars, item, raising, serving, bookVars, sessionVars,
                   clientVars, envVars>>

OwnerTakesAdmission ==
    /\ pc = "select" /\ ~shutdown_ready /\ pendingFault = "None"
    /\ ~reset_ready /\ admission_ready
    /\ serving' = Head(admissions).session
    /\ admissions' = Tail(admissions)
    /\ pc' = "admit"
    /\ UNCHANGED <<lifeVars, ingressVars, requestVars, pendingCount, gateOpen,
                   shutdownVars, item, raising, bookVars, sessionVars,
                   clientVars, envVars>>

OwnerTakesSnapshot ==
    /\ pc = "select" /\ ~shutdown_ready /\ pendingFault = "None"
    /\ ~reset_ready /\ ~admission_ready /\ snapshot_ready
    /\ pc' = "snapshot"
    /\ UNCHANGED <<lifeVars, ingressVars, requestVars, admissionVars,
                   shutdownVars, item, raising, serving, bookVars, sessionVars,
                   clientVars, envVars>>

OwnerSweeps ==
    /\ pc = "select" /\ ~shutdown_ready /\ pendingFault = "None"
    /\ ~reset_ready /\ ~admission_ready /\ ~snapshot_ready /\ removalPending
    /\ removalPending' = FALSE
    /\ subscribers' = sweep(subscribers)
    /\ UNCHANGED <<lifeVars, ingressVars, requestVars, admissionVars,
                   shutdownAsked, shutdownDone, ownerVars, bookVars, channels,
                   clientVars, envVars>>

NoControlReady ==
    /\ ~shutdown_ready /\ pendingFault = "None"
    /\ ~reset_ready /\ ~admission_ready /\ ~snapshot_ready /\ ~removalPending

\* A queue served before the pending overflow fault.
OwnerTakesItemBeforeFault ==
    /\ pc = "select" /\ ~shutdown_ready /\ ingress # <<>>
    /\ item' = Head(ingress)
    /\ ingress' = Tail(ingress)
    /\ pc' = "process"
    /\ UNCHANGED <<lifeVars, accepting, lastAdmitted, processed, pendingFault,
                   requestVars, admissionVars, shutdownVars, raising, serving,
                   bookVars, sessionVars, clientVars, envVars>>

\* A ticket that counts as processed as soon as its item is popped.
OwnerTakesItemEarlyTicket ==
    /\ pc = "select" /\ NoControlReady /\ ingress # <<>>
    /\ item' = Head(ingress)
    /\ ingress' = Tail(ingress)
    /\ processed' = Head(ingress).ticket
    /\ pc' = "process"
    /\ UNCHANGED <<lifeVars, accepting, lastAdmitted, pendingFault,
                   requestVars, admissionVars, shutdownVars, raising, serving,
                   bookVars, sessionVars, clientVars, envVars>>

OwnerTakesItem ==
    /\ pc = "select" /\ NoControlReady /\ ingress # <<>>
    /\ item' = Head(ingress)
    /\ ingress' = Tail(ingress)
    /\ pc' = "process"
    /\ UNCHANGED <<lifeVars, accepting, lastAdmitted, processed, pendingFault,
                   requestVars, admissionVars, shutdownVars, raising, serving,
                   bookVars, sessionVars, clientVars, envVars>>

\* The loop ends only when stop was requested and nothing is left to do.
OwnerExits ==
    /\ pc = "select" /\ life = "Stopping" /\ NoControlReady /\ ingress = <<>>
    /\ state' = "Stopped" /\ obsStatus' = projection.status
    /\ snapshot' = IF snapshot.phase = "Pending"
                   THEN [snapshot EXCEPT !.phase = "Done", !.result = "Stopped"]
                   ELSE snapshot
    /\ reset' = IF reset.phase = "Pending"
                THEN [reset EXCEPT !.phase = "Done", !.result = "Stopped"]
                ELSE reset
    /\ CompleteAllAdmissions
    /\ CloseAllSubscribers
    /\ pc' = "exited"
    /\ UNCHANGED <<life, faultReason, ingressVars, gateOpen, shutdownVars, item,
                   raising, serving, bookVars, lastRead, envVars>>

-----------------------------------------------------------------------------
(* The owner thread: requests.                                               *)

\* A reset that forgets current_projection_generation_.
OwnerResetsKeepingGeneration ==
    /\ pc = "reset"
    /\ channels' = terminalize_active_subscribers(channels,
                        "ResumeNotAvailable", projGen)
    /\ subscribers' = sweep(subscribers)
    /\ projection' = [status |-> "AwaitingBaseline", ver |-> 0]
    /\ bootstrap' = <<>>
    /\ pc' = "resetCommit"
    /\ UNCHANGED <<lifeVars, ingressVars, requestVars, admissionVars,
                   shutdownVars, item, raising, serving, projGen, lastApplied,
                   clientVars, envVars>>

\* perform_reset_request() until the Projection has been reset.
OwnerResets ==
    /\ pc = "reset"
    /\ IF \/ reset.kind = "Recovery" /\ state \in {"Faulted", "NeedsResync"}
          \/ reset.kind = "Planned" /\ HealthyObservation
       THEN /\ channels' = terminalize_active_subscribers(channels,
                                IF reset.kind = "Planned"
                                THEN "GenerationChanged"
                                ELSE "ResumeNotAvailable", projGen)
            /\ subscribers' = sweep(subscribers)
            /\ projection' = [status |-> "AwaitingBaseline", ver |-> 0]
            /\ bootstrap' = <<>> /\ projGen' = 0
            /\ pc' = "resetCommit"
            /\ UNCHANGED reset
       ELSE /\ reset' = [reset EXCEPT !.phase = "Done", !.result = "InvalidState"]
            /\ pc' = "select"
            /\ UNCHANGED <<sessionVars, projection, bootstrap, projGen>>
    /\ UNCHANGED <<lifeVars, ingressVars, snapshot, admissionVars, shutdownVars,
                   item, raising, serving, lastApplied, clientVars, envVars>>

\* Its last critical sections: a fresh observation, then the result.
OwnerCommitsReset ==
    /\ pc = "resetCommit"
    /\ lastApplied' = 0 /\ faultReason' = "None"
    /\ obsStatus' = projection.status /\ state' = "Buffering"
    /\ accepting' = TRUE
    /\ reset' = [reset EXCEPT !.phase = "Done", !.result = "Reset"]
    /\ pc' = "select"
    /\ UNCHANGED <<life, ingress, lastAdmitted, processed, pendingFault,
                   snapshot, admissionVars, shutdownVars, item, raising,
                   serving, projection, projGen, bootstrap, sessionVars,
                   clientVars, envVars>>

\* complete_admission_request(request, error)
RefuseServing ==
    /\ rpc' = [rpc EXCEPT ![serving] = "Refused"]
    /\ pendingCount' = pendingCount - 1
    /\ serving' = NoSession
    /\ pc' = "select"

AdmissionStillAllowed ==
    gateOpen /\ ~shutdownAsked /\ life = "Running" /\ HealthyObservation

\* perform_admission_request(): sweep and first check.
OwnerChecksAdmission ==
    /\ pc = "admit"
    /\ subscribers' = sweep(subscribers)
    /\ IF AdmissionStillAllowed
       THEN pc' = "stage" /\ UNCHANGED <<rpc, pendingCount, serving>>
       ELSE RefuseServing
    /\ UNCHANGED <<lifeVars, ingressVars, requestVars, admissions, gateOpen,
                   shutdownVars, item, raising, bookVars, channels, lastRead,
                   envVars>>

\* The limits, the private staging of the two initial records, the second
\* check and the commit.  Clock, depth-limit and snapshot errors refuse.
OwnerStagesAdmission ==
    /\ pc = "stage"
    /\ \/ /\ AdmissionStillAllowed
          /\ Len(subscribers) < ActiveCapacity /\ CanStage(NewChannel)
          /\ channels' = [channels EXCEPT ![serving] =
                            StageInitial(NewChannel, projGen, projection.ver)]
          /\ subscribers' = Append(subscribers, serving)
          /\ rpc' = [rpc EXCEPT ![serving] = "Streaming"]
          /\ pendingCount' = pendingCount - 1
          /\ serving' = NoSession
          /\ pc' = "select"
       \/ RefuseServing /\ UNCHANGED sessionVars
    /\ UNCHANGED <<lifeVars, ingressVars, requestVars, admissions, gateOpen,
                   shutdownVars, item, raising, bookVars, lastRead, envVars>>

\* perform_snapshot_request(): the clock or the adapter may fail.
OwnerCapturesSnapshot ==
    /\ pc = "snapshot"
    /\ \E result \in IF state = "Live" THEN {"Captured", "Error"}
                                       ELSE {"NotLive"} :
            snapshot' = [snapshot EXCEPT !.phase = "Done", !.result = result]
    /\ pc' = "select"
    /\ UNCHANGED <<lifeVars, ingressVars, reset, admissionVars, shutdownVars,
                   item, raising, serving, bookVars, sessionVars, clientVars,
                   envVars>>

-----------------------------------------------------------------------------
(* The owner thread: one ingress item.                                       *)

\* A discard that forgets the tickets of what it throws away.
DiscardIngressOnly == ingress' = <<>> /\ UNCHANGED processed

\* discard_ingress_locked()
DiscardIngress ==
    /\ ingress' = <<>>
    /\ processed' = IF ingress = <<>> \/ processed > ingress[Len(ingress)].ticket
                    THEN processed ELSE ingress[Len(ingress)].ticket

\* The critical section of transition_to_fault().
OwnerPublishesFault ==
    /\ pc = "fault"
    /\ accepting' = FALSE /\ bootstrap' = <<>>
    /\ faultReason' = raising /\ obsStatus' = projection.status
    /\ state' = "Faulted"
    /\ DiscardIngress
    /\ snapshot' = IF snapshot.phase = "Pending"
                   THEN [snapshot EXCEPT !.phase = "Done", !.result = "Faulted"]
                   ELSE snapshot
    /\ raising' = "None"
    /\ pc' = IF item = NoItem THEN "select" ELSE "finish"
    /\ UNCHANGED <<life, lastAdmitted, pendingFault, reset, admissionVars,
                   shutdownVars, item, serving, projection, projGen,
                   lastApplied, sessionVars, clientVars, envVars>>

\* publish_projection_state(): state stays with a fault or a stop, and a
\* Projection that lost its sequence closes and empties the ingress.
PublishProjectionState ==
    /\ obsStatus' = projection.status
    /\ state' = IF state \in {"Faulted", "Stopping", "Stopped"} THEN state
                ELSE state_for_projection(projection.status)
    /\ IF projection.status = "NeedsResync"
       THEN accepting' = FALSE /\ DiscardIngress
       ELSE UNCHANGED <<accepting, ingress, processed>>
    /\ UNCHANGED <<life, faultReason, lastAdmitted, pendingFault>>

\* apply_update() up to publish_projection_state(): a fault, or Applied and
\* fanned out, or ignored, or a gap that terminates the sessions.
GenerationMatches(gen) == projGen = 0 \/ gen = projGen

ApplyFaults(gen) ==
    /\ BeginFault(IF GenerationMatches(gen) THEN "AdapterError"
                                            ELSE "InternalError", channels)
    /\ UNCHANGED <<projection, lastApplied>>

\* A fan-out loop that stops one subscriber early.
ReachedByAllButLast(subs, s) ==
    \E i \in 1..(Len(subs) - 1) : subs[i] = s

\* Subscribers the fan-out reaches before one that cannot take the update.
ReachedBy(subs, s) ==
    \E i \in 1..Len(subs) :
        /\ subs[i] = s
        /\ \A j \in 1..i : AdmitResult(channels[subs[j]]) # "AllocationFailure"

ApplyFansOut(gen, next) ==
    LET live == sweep(subscribers)
        pushed == [s \in Sessions |->
                    IF ~shutdownDone /\ ReachedBy(live, s)
                    THEN AdmitUpdate(channels[s], gen, projection.ver + 1)
                    ELSE channels[s]]
        exhausted == \E s \in Sessions :
                        /\ ~shutdownDone /\ Resident(live, s)
                        /\ AdmitResult(channels[s]) = "AllocationFailure"
    IN  /\ projection.status \in {"AwaitingBridge", "Synchronized"}
        /\ GenerationMatches(gen)
        /\ projection' = [status |-> "Synchronized", ver |-> projection.ver + 1]
        /\ lastApplied' = gen
        /\ \/ IF exhausted
              THEN BeginFault("InternalError", pushed)
              ELSE /\ channels' = pushed
                   /\ subscribers' = IF shutdownDone THEN subscribers ELSE live
                   /\ pc' = next /\ UNCHANGED raising
           \/ live # <<>> /\ ~shutdownDone /\ BeginFault("ClockError", channels)

ApplyIgnores(gen, next) ==
    /\ GenerationMatches(gen)
    /\ pc' = next
    /\ UNCHANGED <<projection, lastApplied, sessionVars, raising>>

ApplyFindsGap(gen, next) ==
    /\ projection.status \in {"AwaitingBridge", "Synchronized"}
    /\ GenerationMatches(gen)
    /\ projection' = [projection EXCEPT !.status = "NeedsResync"]
    /\ channels' = terminalize_active_subscribers(channels,
                                                  "UpstreamSequenceGap", gen)
    /\ subscribers' = sweep(subscribers)
    /\ pc' = next
    /\ UNCHANGED <<lastApplied, raising>>

ApplyUpdate(gen, next) ==
    \/ ApplyFaults(gen) \/ ApplyFansOut(gen, next)
    \/ ApplyIgnores(gen, next) \/ ApplyFindsGap(gen, next)

\* process_depth_update() before the baseline: buffer the update.
OwnerBuffersUpdate ==
    /\ pc = "process" /\ item.kind = "Depth"
    /\ projection.status = "AwaitingBaseline"
    /\ IF Len(bootstrap) = BootstrapCapacity
       THEN BeginFault("BootstrapBufferOverflow", channels) /\ UNCHANGED bootstrap
       ELSE /\ bootstrap' = Append(bootstrap, item.gen)
            /\ pc' = "publish"
            /\ UNCHANGED <<sessionVars, raising>>
    /\ UNCHANGED <<lifeVars, ingressVars, requestVars, admissionVars,
                   shutdownVars, item, serving, projection, projGen,
                   lastApplied, clientVars, envVars>>

\* process_depth_update() after the baseline.
OwnerAppliesUpdate ==
    /\ pc = "process" /\ item.kind = "Depth"
    /\ projection.status # "AwaitingBaseline"
    /\ ApplyUpdate(item.gen, "publish")
    /\ UNCHANGED <<lifeVars, ingressVars, requestVars, admissionVars,
                   shutdownVars, item, serving, projGen, bootstrap, clientVars,
                   envVars>>

\* process_snapshot(): adapter errors, a Projection that already has a
\* baseline, or the baseline installed and the buffered updates to replay.
OwnerInstallsSnapshot ==
    /\ pc = "process" /\ item.kind = "Snapshot"
    /\ \/ /\ BeginFault(IF projection.status = "AwaitingBaseline"
                        THEN "AdapterError" ELSE "ProjectionRejected", channels)
          /\ UNCHANGED <<projection, projGen>>
       \/ /\ projection.status = "AwaitingBaseline"
          /\ projection' = [projection EXCEPT !.status = "AwaitingBridge"]
          /\ projGen' = item.gen
          /\ pc' = "replay"
          /\ UNCHANGED <<sessionVars, raising>>
    /\ UNCHANGED <<lifeVars, ingressVars, requestVars, admissionVars,
                   shutdownVars, item, serving, bootstrap, lastApplied,
                   clientVars, envVars>>

\* One turn of the replay loop up to the update's publish_projection_state().
OwnerReplays ==
    /\ pc = "replay" /\ bootstrap # <<>>
    /\ bootstrap' = Tail(bootstrap)
    /\ ApplyUpdate(Head(bootstrap), "publishReplay")
    /\ UNCHANGED <<lifeVars, ingressVars, requestVars, admissionVars,
                   shutdownVars, item, serving, projGen, clientVars, envVars>>

\* The publication after each replayed update; a gap drops the rest.
OwnerPublishesReplay ==
    /\ pc = "publishReplay"
    /\ PublishProjectionState
    /\ IF projection.status = "NeedsResync"
       THEN bootstrap' = <<>> /\ pc' = "publish"
       ELSE pc' = "replay" /\ UNCHANGED bootstrap
    /\ UNCHANGED <<requestVars, admissionVars, shutdownVars, item, raising,
                   serving, projection, projGen, lastApplied, sessionVars,
                   clientVars, envVars>>

\* The last publish_projection_state() of the item.
OwnerPublishes ==
    /\ pc = "publish" \/ (pc = "replay" /\ bootstrap = <<>>)
    /\ PublishProjectionState
    /\ pc' = "finish"
    /\ UNCHANGED <<requestVars, admissionVars, shutdownVars, item, raising,
                   serving, bookVars, sessionVars, clientVars, envVars>>

\* process_input() of an injected failure.
OwnerTakesFailure ==
    /\ pc = "process" /\ item.kind \in {"TransportFailure", "SnapshotFailure"}
    /\ BeginFault(item.kind, channels)
    /\ UNCHANGED <<lifeVars, ingressVars, requestVars, admissionVars,
                   shutdownVars, item, serving, bookVars, clientVars, envVars>>

\* finish_ticket()
OwnerFinishes ==
    /\ pc = "finish"
    /\ processed' = IF processed > item.ticket THEN processed ELSE item.ticket
    /\ item' = NoItem
    /\ pc' = "select"
    /\ UNCHANGED <<lifeVars, accepting, ingress, lastAdmitted, pendingFault,
                   requestVars, admissionVars, shutdownVars, raising, serving,
                   bookVars, sessionVars, clientVars, envVars>>

Owner ==
    \/ OwnerShutsPublication \/ OwnerTakesFault \/ OwnerTakesReset
    \/ OwnerTakesAdmission \/ OwnerTakesSnapshot \/ OwnerSweeps
    \/ OwnerTakesItem \/ OwnerExits
    \/ OwnerResets \/ OwnerCommitsReset
    \/ OwnerChecksAdmission \/ OwnerStagesAdmission \/ OwnerCapturesSnapshot
    \/ OwnerBuffersUpdate \/ OwnerAppliesUpdate \/ OwnerInstallsSnapshot
    \/ OwnerReplays \/ OwnerPublishesReplay \/ OwnerPublishes
    \/ OwnerTakesFailure \/ OwnerPublishesFault \/ OwnerFinishes

Source ==
    \/ SourceConnects \/ SourceJoined
    \/ \E kind \in {"Depth", "Snapshot"} : SourceSubmits(kind)
    \/ \E kind \in {"TransportFailure", "SnapshotFailure"} : SourceFails(kind)

Coordinator ==
    \/ CoordinatorReflectsFailure
    \/ \E kind \in {"Recovery", "Planned"} : RequestReset(kind)
    \/ ResetReturns

Clients ==
    \/ \E s \in Sessions :
            RequestSubscription(s) \/ HandlerReads(s) \/ HandlerCloses(s)
    \/ RequestSnapshot \/ SnapshotReturns

Lifecycle ==
    \/ Start \/ Stop \/ StopJoined
    \/ ClosePublicationAdmission \/ ShutdownPublication
    \/ ShutdownPublicationReturns

\* The runtime has stopped and every caller has returned.
Terminated ==
    /\ life = "Stopped"
    /\ reset.phase = "None" /\ snapshot.phase = "None" /\ ~shutdownCaller
    /\ \A s \in Sessions : rpc[s] \in {"Idle", "Refused", "Gone"}
    /\ UNCHANGED vars

Next == Owner \/ Source \/ Coordinator \/ Clients \/ Lifecycle \/ Terminated

\* The owner thread, and the threads woken by its notify_all, are scheduled.
Fairness ==
    /\ WF_vars(Owner)
    /\ WF_vars(StopJoined)
    /\ WF_vars(ResetReturns) /\ WF_vars(SnapshotReturns)
    /\ WF_vars(ShutdownPublicationReturns)

Spec == Init /\ [][Next]_vars /\ Fairness

-----------------------------------------------------------------------------
(* Properties.                                                               *)

TypeOK ==
    /\ life \in {"NotStarted", "Running", "Stopping", "Stopped"}
    /\ state \in RuntimeStates /\ obsStatus \in Statuses
    /\ faultReason \in FaultReasons \cup {"None"}
    /\ accepting \in BOOLEAN
    /\ ingress \in Seq(Items) /\ Len(ingress) <= IngressCapacity
    /\ lastAdmitted \in Nat /\ processed \in Nat
    /\ pendingFault \in {"None", "IngressOverflow"}
    /\ reset.phase \in {"None", "Pending", "Done"} /\ reset.target \in Nat
    /\ snapshot.phase \in {"None", "Pending", "Done"} /\ snapshot.target \in Nat
    /\ pendingCount \in 0..PendingCapacity
    /\ gateOpen \in BOOLEAN /\ shutdownAsked \in BOOLEAN
    /\ shutdownDone \in BOOLEAN /\ removalPending \in BOOLEAN
    /\ pc \in OwnerSteps /\ item \in Items
    /\ raising \in FaultReasons \cup {"None"}
    /\ serving \in Sessions \cup {NoSession}
    /\ projection \in [status : Statuses, ver : Nat]
    /\ projGen \in Nat /\ lastApplied \in Nat
    /\ bootstrap \in Seq(Nat) /\ Len(bootstrap) <= BootstrapCapacity
    /\ subscribers \in Seq(Sessions) /\ Len(subscribers) <= ActiveCapacity
    /\ channels \in [Sessions -> Channels]
    /\ rpc \in [Sessions -> {"Idle", "Pending", "Streaming", "Refused", "Gone"}]
    /\ source.gen \in 1..MaxGeneration

\* Every admitted ticket is accounted for: the queue holds the newest tickets
\* without a hole, and everything older is processed or is the item in hand.
\* (submit, discard_ingress_locked and finish_ticket keep the count together;
\* the owner barriers of observe, reset, admission and snapshot rest on it.)
TicketsAccountedFor ==
    /\ \A i \in 1..Len(ingress) :
            ingress[i].ticket = lastAdmitted - Len(ingress) + i
    /\ \/ item = NoItem /\ processed + Len(ingress) = lastAdmitted
       \/ /\ item # NoItem
          /\ \/ /\ item.ticket = lastAdmitted - Len(ingress)
                /\ processed + 1 = item.ticket
             \/ ingress = <<>> /\ ~accepting /\ processed = lastAdmitted

\* The FIFO barrier cannot show a healthy book while an ingress overflow waits
\* for the owner: observe() returns once processed = lastAdmitted, and then no
\* Live state hides a pending fault.  (The overflow fault takes no ticket.)
BarrierCoversOverflow ==
    pendingFault # "None" /\ processed = lastAdmitted => state # "Live"

\* "No cross-generation source stitching": nothing queued, buffered, installed
\* or reported as last applied comes from another generation than the source's.
OneGeneration ==
    /\ \A i \in 1..Len(ingress) : ingress[i].gen = source.gen
    /\ \A i \in 1..Len(bootstrap) : bootstrap[i] = source.gen
    /\ projGen \in {0, source.gen} /\ lastApplied \in {0, source.gen}
    /\ item # NoItem => item.gen = source.gen

\* A session still served from the book has the book it was admitted to: an
\* Active channel means a Synchronized Projection of the generation of its
\* records and no published fault ("sessions never cross recovery or planned
\* rebootstrap").
ActiveSessionHasBook ==
    \A s \in Sessions :
        channels[s].state = "Active" =>
            /\ projection.status = "Synchronized" /\ faultReason = "None"
            /\ \A i \in 1..Len(channels[s].ring) :
                    channels[s].ring[i].gen \in {0, projGen}

\* What the session sequence says of a record: acceptance, snapshot, updates.
KindAt(seq) ==
    CASE seq = 1 -> "Accepted" [] seq = 2 -> "Snapshot" [] OTHER -> "Update"

Continues(r, n) ==
    /\ n.seq = r.seq + 1
    /\ n.kind = KindAt(n.seq)
    /\ n.kind = "Update" => n.ver = r.ver + 1 /\ n.gen = r.gen

\* Acceptance, snapshot, then updates without a hole: the queue of a session
\* continues what its handler last read, which was no gap notice; a notice waits
\* behind the snapshot at the earliest, with the next sequence; and an Active
\* session has been given every version the Projection reached.
SessionContiguous ==
    \A s \in Sessions :
        LET c == channels[s] IN
        c.state # "Closed" =>
            LET log == <<lastRead[s]>> \o c.ring IN
            /\ \A i \in 2..Len(log) : Continues(log[i - 1], log[i])
            /\ lastRead[s].kind # "Gap"
            /\ c.terminal # NoRecord =>
                    /\ c.terminal.kind = "Gap" /\ c.terminal.seq >= 3
                    /\ c.terminal.seq = log[Len(log)].seq + 1
            /\ c.state = "Active" /\ pc = "select" =>
                    log[Len(log)].ver = projection.ver

\* A channel a client is served from is on the owner's list, so that the next
\* gap, fault, reset or shutdown reaches it; after the owner has gone none is.
NoOrphanSession ==
    \A s \in Sessions :
        channels[s].state # "Closed" =>
            Resident(subscribers, s) /\ pc # "exited"

\* The coordinator's cut: once the source is joined and the barrier has passed,
\* a Live book can only be left by a reset or a stop, never by a late fault.
CutIsStable ==
    [][ source.phase = "Joined" /\ state = "Live" /\ processed = lastAdmitted
        /\ state' # state => state' \in {"Buffering", "Stopping", "Stopped"} ]_vars

\* Nobody waits for the owner forever, whatever faults, resets, shutdowns and
\* stops come in between ("never wait for an owner that no longer exists"); nor
\* does stop(), which lets the owner drain what was admitted and joins it.
CallersReturn ==
    /\ reset.phase # "None" ~> reset.phase = "None"
    /\ snapshot.phase # "None" ~> snapshot.phase = "None"
    /\ shutdownCaller ~> ~shutdownCaller
    /\ \A s \in Sessions : rpc[s] = "Pending" ~> rpc[s] # "Pending"
    /\ life = "Stopping" ~> life = "Stopped"

=============================================================================
