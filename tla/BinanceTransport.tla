--------------------------- MODULE BinanceTransport ---------------------------
(***************************************************************************)
(* detail::BinanceTransport (src/g4/spot_transport.cpp): one connection to *)
(* Binance, a WebSocket and the REST depth request that it starts, run by  *)
(* one network thread on an io_context.                                    *)
(*                                                                         *)
(* The io_context is modelled as Asio runs it.  An asynchronous operation  *)
(* is outstanding ("waiting"); it becomes due with an outcome; a reactor   *)
(* turn moves everything due to the ready queue, sockets before timers;    *)
(* and the network thread runs the queue's head, one handler at a time.  A *)
(* cancellation turns what is outstanding or due into an aborted           *)
(* completion, and leaves what is in the ready queue as it is.  run()      *)
(* returns when neither work nor the work guard is left.                   *)
(*                                                                         *)
(* Every handler is one action: mutex_ is held for parts of it only, but   *)
(* what it does in between is seen by the network thread alone, except the *)
(* gap inside terminal_failure(), which RecoveryCoordinator models.  The   *)
(* stop-cut test modes, pings and the performance trace are left out.      *)
(***************************************************************************)
EXTENDS StageTimer, FiniteSets, SequencesExt

CONSTANTS
    Stoppers,   \* threads that call stop(), the destructor included
    Stages,     \* stages of an operation: 5, of which all but the last are alike
    MaxFrames,  \* bound: frames the exchange sends
    Overlap     \* TRUE: start() may begin while a stop() is being carried out

ASSUME TransportAssumption ==
    /\ Stages \in Nat /\ Stages >= 3
    /\ MaxFrames \in Nat /\ Overlap \in BOOLEAN
    /\ "starter" \notin Stoppers

VARIABLES
    observation,        \* observation_
    stop_requested,     \* stop_requested_
    stop_in_progress,   \* stop_in_progress_
    pc,                 \* where the caller of start() and of stop() are
    thread,             \* network_thread_
    net,                \* the io_context and what the network thread owns
    told,               \* what has been submitted to the runtime
    failing             \* history: a failure was in hand at the shutdown cut

vars == <<observation, stop_requested, stop_in_progress, pc, thread, net, told,
          failing>>

callerVars == <<stop_requested, stop_in_progress, pc>>

\* websocket_ and depth_request_.  Their stages: dns, tcp-connect, tls-handshake,
\* then websocket-handshake and read, or http-write and http-read.
Ops == {"websocket", "depth"}

\* The codes of NetworkError that matter here: a failed call of any stage, a
\* timeout, an answer that is refused (status, protocol, serverShutdown,
\* admission, sink).
Causes == {"Io", "Timeout", "Refused"}

OpType ==
    [stage : 0 .. Stages, timer : Timers(Stages),
     io : {"none", "waiting", "ok", "failed", "aborted"},
     io_pending : BOOLEAN, timer_pending : BOOLEAN, cancel_requested : BOOLEAN,
     completions_pending : 0 .. 2, cancelled_result : BOOLEAN, done : BOOLEAN]

NoOp ==
    [stage |-> 0, timer |-> NewTimer, io |-> "none", io_pending |-> FALSE,
     timer_pending |-> FALSE, cancel_requested |-> FALSE,
     completions_pending |-> 0, cancelled_result |-> FALSE, done |-> FALSE]

\* A handler in the ready queue; only a timer's has a generation and a stage.
Handler(kind, op, outcome) ==
    [kind |-> kind, op |-> op, outcome |-> outcome, wait |-> NoWait]

WaitHandler(op, wait, outcome) ==
    [kind |-> "timer", op |-> op, outcome |-> outcome, wait |-> wait]

Post(kind) == Handler(kind, "none", "ok")

NoError == [code |-> "none", op |-> "none", stage |-> 0]

Init ==
    /\ observation =
        [started |-> FALSE, running |-> FALSE, stopped |-> FALSE,
         tls_verified |-> FALSE, websocket_handshake |-> FALSE,
         rest_depth_fetched |-> FALSE, frames |-> 0, terminal_error |-> NoError]
    /\ stop_requested = FALSE /\ stop_in_progress = FALSE
    /\ pc = [t \in Stoppers \cup {"starter"} |-> "idle"]
    /\ thread = "none"
    /\ net = [op |-> [o \in Ops |-> NoOp], ready |-> <<>>, held |-> {},
              work_guard |-> FALSE, clean_cancel |-> FALSE, barrier |-> FALSE]
    /\ told = [failures |-> 0, snapshots |-> 0]
    /\ failing = FALSE

-----------------------------------------------------------------------------
(* Operations of the network thread, as functions of its state n.            *)

\* disarm_timeout().  The handler of the wait that it aborts would find another
\* generation and do nothing: it is not queued.
Disarm(n, o) ==
    [n EXCEPT !.op[o].timer = DisarmTimeout(@), !.op[o].timer_pending = FALSE]

\* timer_.cancel() without a new generation: the handler will run.
AbortWait(n, o) ==
    [n EXCEPT !.op[o].timer = CancelTimer(@),
              !.ready = @ \o [i \in DOMAIN AbortedWaits(n.op[o].timer) |->
                                WaitHandler(o, n.op[o].timer.wait, "aborted")]]

\* resolver_.cancel(), socket().cancel() and close(): what is not in the ready
\* queue yet, a completion that is due included, is aborted.
CloseSocket(n, o) ==
    [n EXCEPT !.op[o].io = IF @ = "none" THEN @ ELSE "aborted"]

\* A stage without a timer.
BeginStageUntimed(n, o, stage) ==
    [n EXCEPT !.op[o] = [@ EXCEPT !.stage = stage, !.io = "waiting",
                                  !.io_pending = TRUE]]

\* A stage: arm_timeout() and the asynchronous call.
BeginStage(n, o, stage) ==
    [n EXCEPT !.op[o] = [@ EXCEPT !.stage = stage, !.io = "waiting",
                                  !.io_pending = TRUE, !.timer_pending = TRUE,
                                  !.timer = ArmTimeout(n.op[o].timer, stage)]]

\* AsyncWebSocket::read(): no stage timer, Beast's idle timeout watches.
BeginRead(n) ==
    IF n.op["websocket"].done THEN n
    ELSE BeginStageUntimed(n, "websocket", Stages)

RetireCleanly(n, o) ==
    IF n.op[o].done THEN n ELSE CloseSocket([n EXCEPT !.op[o].done = TRUE], o)

\* The part of AsyncWebSocket::fail() and AsyncHttpsGet::finish() before the
\* callback.
Finished(n, o) ==
    CloseSocket(Disarm([n EXCEPT !.op[o].done = TRUE,
                                 !.op[o].completions_pending = 0], o), o)

\* cancel() of either class: the I/O and the timer wait that are pending must
\* both complete before the operation retires.
Cancel(n, o) ==
    IF n.op[o].done \/ n.op[o].cancel_requested THEN n
    ELSE LET pending == (IF n.op[o].io_pending THEN 1 ELSE 0)
                        + (IF n.op[o].timer_pending THEN 1 ELSE 0)
             m == CloseSocket(
                    AbortWait([n EXCEPT !.op[o].cancel_requested = TRUE,
                                        !.op[o].completions_pending = pending],
                              o), o)
         IN  IF pending = 0 THEN RetireCleanly(m, o) ELSE m

\* The parent's references are dropped: a second call cancels nothing.
CancelNetworkOperations(n) ==
    LET m == IF "websocket" \in n.held THEN Cancel(n, "websocket") ELSE n
        k == IF "depth" \in n.held THEN Cancel(m, "depth") ELSE m
    IN  [k EXCEPT !.held = {}]

ReleaseNetworkWork(n) == [n EXCEPT !.work_guard = FALSE]

CountedPiece(n, o) ==
    [n EXCEPT !.op[o].completions_pending = IF @ > 0 THEN @ - 1 ELSE 0]

\* complete_cancelled_piece() without a result to deliver.
CompleteCancelledPiece(n, o) ==
    LET m == CountedPiece(n, o)
    IN  IF m.op[o].completions_pending = 0 THEN RetireCleanly(m, o) ELSE m

-----------------------------------------------------------------------------
(* The upper half: what the callbacks do to observation_ and the runtime.     *)

\* terminal_failure() that does not look whether it has been called before.
TerminalFailureAgain(obs, n, code, o, stage) ==
    /\ observation' =
        [obs EXCEPT !.terminal_error = [code |-> code, op |-> o,
                                                stage |-> stage],
                            !.running = FALSE]
    /\ told' = [told EXCEPT !.failures = @ + 1]
    /\ net' = ReleaseNetworkWork(CancelNetworkOperations(n))

\* terminal_failure(): the first failure is kept and submitted to the runtime
\* (as a snapshot failure when it comes from the depth request), then the rest
\* of the connection is cancelled.
TerminalFailure(obs, n, code, o, stage) ==
    IF obs.terminal_error # NoError
    THEN /\ net' = n /\ observation' = obs
         /\ UNCHANGED told
    ELSE /\ observation' =
                [obs EXCEPT !.terminal_error = [code |-> code, op |-> o,
                                                stage |-> stage],
                            !.running = FALSE]
         /\ told' = [told EXCEPT !.failures = @ + 1]
         /\ net' = ReleaseNetworkWork(CancelNetworkOperations(n))

\* fail() or finish() with an error.
Fails(obs, n, o, code) ==
    TerminalFailure(obs, Finished(n, o), code, o, n.op[o].stage)

\* response_result() and receive_depth_response(): the status, the body or the
\* runtime's admission may be wrong.
ReceiveDepthResponse(n) ==
    \/ TerminalFailure(observation, n, "Refused", "depth", Stages)
    \/ /\ told' = [told EXCEPT !.snapshots = @ + 1]
       /\ observation' = [observation EXCEPT !.rest_depth_fetched = TRUE]
       /\ net' = n

-----------------------------------------------------------------------------
(* The io_context.                                                           *)

Running == thread = "running"

Waiting(o) == net.op[o].io = "waiting"

\* A resolver, connection, handshake, write or read completes.  The exchange
\* sends at most MaxFrames frames.
IoBecomesDue(o, outcome) ==
    /\ Running /\ Waiting(o)
    /\ ~(o = "websocket" /\ net.op[o].stage = Stages /\ outcome = "ok"
         /\ observation.frames = MaxFrames)
    /\ net' = [net EXCEPT !.op[o].io = outcome]
    /\ UNCHANGED <<observation, callerVars, thread, told, failing>>

TimerBecomesDue(o) ==
    /\ Running
    /\ net.op[o].timer.wait # NoWait /\ ~net.op[o].timer.wait.due
    /\ net' = [net EXCEPT !.op[o].timer = Expires(@)]
    /\ UNCHANGED <<observation, callerVars, thread, told, failing>>

DueIos == {o \in Ops : net.op[o].io \in {"ok", "failed", "aborted"}}

DueTimers == {o \in Ops : net.op[o].timer.wait.due}

\* An operation whose due completions are in the ready queue.
Polled(o) ==
    [net.op[o] EXCEPT !.io = IF o \in DueIos THEN "none" ELSE @,
                      !.timer = IF o \in DueTimers THEN CancelTimer(@) ELSE @]

\* One pass of the reactor: ready sockets, then every due timer, the shutdown
\* barrier (which is due at once) after those that were due before it.
ReactorTurn ==
    /\ Running
    /\ DueIos \cup DueTimers # {} \/ net.barrier
    /\ \E ios \in SetToSeqs(DueIos), timers \in SetToSeqs(DueTimers) :
        net' = [net EXCEPT
            !.ready = @ \o [i \in DOMAIN ios |->
                              Handler("io", ios[i], net.op[ios[i]].io)]
                        \o [i \in DOMAIN timers |->
                              WaitHandler(timers[i],
                                          net.op[timers[i]].timer.wait, "ok")]
                        \o (IF net.barrier THEN <<Post("barrier")>> ELSE <<>>),
            !.op = [o \in Ops |-> Polled(o)],
            !.barrier = FALSE]
    /\ UNCHANGED <<observation, callerVars, thread, told, failing>>

\* run() returns.
ThreadEnds ==
    /\ Running /\ ~net.work_guard /\ net.ready = <<>> /\ ~net.barrier
    /\ \A o \in Ops : net.op[o].io = "none" /\ net.op[o].timer.wait = NoWait
    /\ thread' = "ended"
    /\ UNCHANGED <<observation, callerVars, net, told, failing>>

\* The handler at the head of the queue, and the state once it is taken.
Runs(kind) == Running /\ net.ready # <<>> /\ Head(net.ready).kind = kind

Taken == [net EXCEPT !.ready = Tail(@)]

-----------------------------------------------------------------------------
(* Handlers of the transport.                                                *)

\* start_websocket() and AsyncWebSocket::start(); SNI may be refused.
StartWebsocket ==
    /\ Runs("start")
    /\ LET n == [Taken EXCEPT !.held = @ \cup {"websocket"}]
       IN  \/ /\ net' = BeginStage(n, "websocket", 1)
              /\ UNCHANGED <<observation, told>>
           \/ Fails(observation, n, "websocket", "Io")
    /\ UNCHANGED <<callerVars, thread, failing>>

\* A completion in hand: due or queued, of an operation that is not done.  A
\* timer counts once it is queued ahead of any completion of its stage.
FailureInHand(n) ==
    \E o \in Ops :
        /\ ~n.op[o].done
        /\ \/ n.op[o].io = "failed"
           \/ \E i \in DOMAIN n.ready :
                /\ n.ready[i].op = o
                /\ \/ n.ready[i].kind = "io" /\ n.ready[i].outcome = "failed"
                   \/ /\ n.ready[i].kind = "timer" /\ n.ready[i].outcome = "ok"
                      /\ IsCurrent(n.op[o].timer, n.ready[i].wait.generation)
                      /\ n.op[o].io = "waiting"

\* begin_clean_shutdown() that cancels at once.
BeginCleanShutdownNow ==
    /\ Runs("clean")
    /\ net' = ReleaseNetworkWork(CancelNetworkOperations(
                [Taken EXCEPT !.clean_cancel = TRUE]))
    /\ failing' = FailureInHand(Taken)
    /\ UNCHANGED <<observation, callerVars, thread, told>>

\* begin_clean_shutdown(): the cancellation waits for one reactor turn.  Only
\* one stop() ever posts it.
BeginCleanShutdown ==
    /\ Runs("clean")
    /\ net' = [Taken EXCEPT !.clean_cancel = TRUE, !.barrier = TRUE]
    /\ failing' = FailureInHand(Taken)
    /\ UNCHANGED <<observation, callerVars, thread, told>>

ShutdownBarrier ==
    /\ Runs("barrier")
    /\ net' = ReleaseNetworkWork(CancelNetworkOperations(Taken))
    /\ UNCHANGED <<observation, callerVars, thread, told, failing>>

\* The head of the queue is the completion of o's I/O.
RunsIo(o) == Runs("io") /\ Head(net.ready).op = o

IoDone(o) == [Taken EXCEPT !.op[o].io_pending = FALSE]

Outcome == Head(net.ready).outcome

\* Every handler starts with this: a done operation hears nothing more.
IoAfterDone(o) ==
    /\ RunsIo(o) /\ net.op[o].done
    /\ net' = IoDone(o)
    /\ UNCHANGED <<observation, callerVars, thread, told, failing>>

\* is_clean_cancellation().
CleanCancellation(o) == net.op[o].cancel_requested /\ Outcome = "aborted"

-----------------------------------------------------------------------------
(* AsyncWebSocket.                                                           *)

\* connect(), tls_handshake() with tls_verified, websocket_handshake().
WebSocketStageDone ==
    LET op == net.op["websocket"]
        n == Disarm(IoDone("websocket"), "websocket")
    IN  /\ RunsIo("websocket") /\ ~op.done /\ ~op.cancel_requested
        /\ op.stage < Stages - 1 /\ Outcome = "ok"
        /\ net' = BeginStage(n, "websocket", op.stage + 1)
        /\ observation' = [observation EXCEPT !.tls_verified = (op.stage = Stages - 2)]
        /\ UNCHANGED <<callerVars, thread, told, failing>>

\* The handshake completes: read(), then websocket_active(), which does nothing
\* after a stop request and else starts the depth request, whose SNI may be
\* refused.
WebSocketActive ==
    LET op == net.op["websocket"]
        n == BeginRead(Disarm(IoDone("websocket"), "websocket"))
        obs == [observation EXCEPT !.websocket_handshake = TRUE,
                                   !.running = TRUE]
        m == [n EXCEPT !.held = @ \cup {"depth"}]
    IN  /\ RunsIo("websocket") /\ ~op.done /\ ~op.cancel_requested
        /\ op.stage = Stages - 1 /\ Outcome = "ok"
        /\ \/ /\ stop_requested
              /\ net' = n
              /\ UNCHANGED <<observation, told>>
           \/ /\ ~stop_requested
              /\ net' = BeginStage(m, "depth", 1)
              /\ observation' = obs
              /\ UNCHANGED told
           \/ /\ ~stop_requested
              /\ Fails(obs, m, "depth", "Io")
        /\ UNCHANGED <<callerVars, thread, failing>>

\* A complete frame: depth, another event of the combined stream, the
\* serverShutdown notice, or one that does not parse; the sink and the runtime
\* may refuse what is well formed.  receive_websocket_message() with
\* publish_normalized_event() and submit_depth_update() returns TRUE with the
\* frame counted, or a terminal failure and FALSE, upon which the operation
\* retires (nothing being outstanding, it does not matter that the failure
\* cancels it first).
WebSocketFrame ==
    LET op == net.op["websocket"]
        n == IoDone("websocket")
    IN  /\ RunsIo("websocket") /\ ~op.done
        /\ op.stage = Stages /\ Outcome = "ok"
        /\ \/ /\ observation' = [observation EXCEPT !.frames = @ + 1]
              /\ net' = IF op.cancel_requested
                        THEN CompleteCancelledPiece(n, "websocket")
                        ELSE BeginRead(n)
              /\ UNCHANGED told
           \/ TerminalFailure(observation, RetireCleanly(n, "websocket"),
                              "Refused", "websocket", Stages)
           \/ Fails(observation, n, "websocket", "Refused")
        /\ UNCHANGED <<callerVars, thread, failing>>

\* An error that is not a cancellation, at any stage; the idle timeout of the
\* read included.
WebSocketIoFails ==
    LET op == net.op["websocket"]
    IN  /\ RunsIo("websocket") /\ ~op.done
        /\ Outcome # "ok" /\ ~CleanCancellation("websocket")
        /\ Fails(observation, IoDone("websocket"), "websocket",
                 IF Outcome = "aborted" THEN "Aborted" ELSE "Io")
        /\ UNCHANGED <<callerVars, thread, failing>>

\* handle_cancelled_io(), and the read's own branch.
WebSocketIoCancelled ==
    LET op == net.op["websocket"]
    IN  /\ RunsIo("websocket") /\ ~op.done
        /\ \/ CleanCancellation("websocket")
           \/ op.cancel_requested /\ op.stage < Stages /\ Outcome = "ok"
        /\ net' = CompleteCancelledPiece(IoDone("websocket"), "websocket")
        /\ UNCHANGED <<observation, callerVars, thread, told, failing>>

-----------------------------------------------------------------------------
(* AsyncHttpsGet.                                                            *)

\* connect(), handshake(), write_request(), read_response().
HttpsStageDone ==
    LET op == net.op["depth"]
    IN  /\ RunsIo("depth") /\ ~op.done /\ ~op.cancel_requested
        /\ op.stage < Stages /\ Outcome = "ok"
        /\ net' = BeginStage(Disarm(IoDone("depth"), "depth"), "depth",
                             op.stage + 1)
        /\ UNCHANGED <<observation, callerVars, thread, told, failing>>

\* finish() with the response.
HttpsResponse ==
    LET op == net.op["depth"]
    IN  /\ RunsIo("depth") /\ ~op.done /\ ~op.cancel_requested
        /\ op.stage = Stages /\ Outcome = "ok"
        /\ ReceiveDepthResponse(Finished(IoDone("depth"), "depth"))
        /\ UNCHANGED <<callerVars, thread, failing>>

HttpsIoFails ==
    LET op == net.op["depth"]
    IN  /\ RunsIo("depth") /\ ~op.done
        /\ Outcome # "ok" /\ ~CleanCancellation("depth")
        /\ Fails(observation, IoDone("depth"), "depth",
                 IF Outcome = "aborted" THEN "Aborted" ELSE "Io")
        /\ UNCHANGED <<callerVars, thread, failing>>

\* complete_cancelled_piece() that forgets the response it has.
HttpsPieceDropsResult(n) ==
    /\ net' = CompleteCancelledPiece(n, "depth")
    /\ UNCHANGED <<observation, told>>

\* complete_cancelled_piece(): a response that came in across the cancellation
\* is delivered by the last completion.
HttpsPiece(n) ==
    LET m == CountedPiece(n, "depth")
        op == m.op["depth"]
    IN  IF op.completions_pending = 0 /\ op.cancelled_result
        THEN ReceiveDepthResponse(
                Finished([m EXCEPT !.op["depth"].cancelled_result = FALSE],
                         "depth"))
        ELSE /\ net' = CompleteCancelledPiece(n, "depth")
             /\ UNCHANGED <<observation, told>>

\* handle_cancelled_io(), and the branch of read_response() that keeps the
\* response.
HttpsIoCancelled ==
    LET op == net.op["depth"]
        n == IoDone("depth")
        response == op.stage = Stages /\ Outcome = "ok"
    IN  /\ RunsIo("depth") /\ ~op.done /\ op.cancel_requested
        /\ Outcome # "failed"
        /\ HttpsPiece([n EXCEPT !.op["depth"].cancelled_result =
                                    @ \/ response])
        /\ UNCHANGED <<callerVars, thread, failing>>

-----------------------------------------------------------------------------
(* The wait handlers of arm_timeout().                                       *)

RunsTimer(o) == Runs("timer") /\ Head(net.ready).op = o

\* IsCurrent() that is not asked.
AnyGeneration(o) == TRUE

CurrentTimer(o) ==
    IsCurrent(net.op[o].timer, Head(net.ready).wait.generation)

TimerDone(o) == [Taken EXCEPT !.op[o].timer_pending = FALSE]

\* A wait of an earlier stage, or of an operation that is done.
TimerIsStale(o) ==
    /\ RunsTimer(o)
    /\ ~CurrentTimer(o) \/ net.op[o].done
    /\ net' = IF CurrentTimer(o) THEN TimerDone(o) ELSE Taken
    /\ UNCHANGED <<observation, callerVars, thread, told, failing>>

\* The stage has timed out, be it during a cancellation.
StageTimesOut(o) ==
    /\ RunsTimer(o) /\ CurrentTimer(o) /\ ~net.op[o].done
    /\ Outcome = "ok"
    /\ TerminalFailure(observation, Finished(TimerDone(o), o), "Timeout", o,
                       Head(net.ready).wait.stage)
    /\ UNCHANGED <<callerVars, thread, failing>>

\* A wait that cancel() aborted.
WebSocketTimerCancelled ==
    /\ RunsTimer("websocket") /\ CurrentTimer("websocket")
    /\ ~net.op["websocket"].done /\ Outcome = "aborted"
    /\ net' = CompleteCancelledPiece(TimerDone("websocket"), "websocket")
    /\ UNCHANGED <<observation, callerVars, thread, told, failing>>

HttpsTimerCancelled ==
    /\ RunsTimer("depth") /\ CurrentTimer("depth")
    /\ ~net.op["depth"].done /\ Outcome = "aborted"
    /\ HttpsPiece(TimerDone("depth"))
    /\ UNCHANGED <<callerVars, thread, failing>>

-----------------------------------------------------------------------------
(* start() and stop().                                                       *)

\* start() up to its wait; a stopped transport is not started.
CallStart ==
    /\ pc["starter"] = "idle"
    /\ Overlap \/ ~stop_in_progress
    /\ IF observation.stopped
       THEN /\ pc' = [pc EXCEPT !["starter"] = "Stopped"]
            /\ UNCHANGED <<observation, thread, net>>
       ELSE /\ observation' = [observation EXCEPT !.started = TRUE]
            /\ thread' = "running"
            /\ net' = [net EXCEPT !.work_guard = TRUE,
                                  !.ready = Append(@, Post("start"))]
            /\ pc' = [pc EXCEPT !["starter"] = "starting"]
    /\ UNCHANGED <<stop_requested, stop_in_progress, told, failing>>

StartReturns ==
    /\ pc["starter"] = "starting"
    /\ \/ observation.websocket_handshake \/ stop_requested
       \/ observation.terminal_error # NoError
    /\ pc' = [pc EXCEPT !["starter"] =
                IF stop_requested THEN "Stopped"
                ELSE IF observation.websocket_handshake THEN "Started"
                ELSE "Failed"]
    /\ UNCHANGED <<observation, stop_requested, stop_in_progress, thread, net,
                   told, failing>>

\* The first critical section of stop(): one winner, the others wait.
CallStop(t) ==
    /\ pc[t] = "idle"
    /\ IF observation.stopped
       THEN /\ pc' = [pc EXCEPT ![t] = "returned"]
            /\ UNCHANGED <<observation, stop_requested, stop_in_progress>>
       ELSE IF stop_in_progress
       THEN /\ pc' = [pc EXCEPT ![t] = "waiting"]
            /\ UNCHANGED <<observation, stop_requested, stop_in_progress>>
       ELSE /\ stop_in_progress' = TRUE /\ stop_requested' = TRUE
            /\ observation' = [observation EXCEPT !.running = FALSE]
            /\ pc' = [pc EXCEPT ![t] = IF observation.started THEN "winner"
                                                    ELSE "not_started"]
    /\ UNCHANGED <<thread, net, told, failing>>

\* asio::post(begin_clean_shutdown); the context may have ended already.
StopPosts(t) ==
    /\ pc[t] = "winner"
    /\ net' = [net EXCEPT !.ready = Append(@, Post("clean"))]
    /\ pc' = [pc EXCEPT ![t] = "joining"]
    /\ UNCHANGED <<observation, stop_requested, stop_in_progress, thread, told,
                   failing>>

\* join() and the second critical section.
StopFinishes(t) ==
    /\ pc[t] = "not_started" \/ (pc[t] = "joining" /\ thread = "ended")
    /\ observation' = [observation EXCEPT !.stopped = TRUE, !.running = FALSE]
    /\ stop_in_progress' = FALSE
    /\ pc' = [pc EXCEPT ![t] = "returned"]
    /\ UNCHANGED <<stop_requested, thread, net, told, failing>>

StopWaiterReturns(t) ==
    /\ pc[t] = "waiting" /\ observation.stopped
    /\ pc' = [pc EXCEPT ![t] = "returned"]
    /\ UNCHANGED <<observation, stop_requested, stop_in_progress, thread, net,
                   told, failing>>

StopSteps(t) ==
    StopPosts(t) \/ StopFinishes(t) \/ StopWaiterReturns(t)

-----------------------------------------------------------------------------

RunsHandler ==
    \/ StartWebsocket \/ BeginCleanShutdown \/ ShutdownBarrier
    \/ WebSocketStageDone \/ WebSocketActive \/ WebSocketFrame
    \/ WebSocketIoFails \/ WebSocketIoCancelled
    \/ HttpsStageDone \/ HttpsResponse \/ HttpsIoFails \/ HttpsIoCancelled
    \/ WebSocketTimerCancelled \/ HttpsTimerCancelled
    \/ \E o \in Ops : IoAfterDone(o) \/ TimerIsStale(o) \/ StageTimesOut(o)

\* The network thread in run().
Network == RunsHandler \/ ReactorTurn \/ ThreadEnds

Quiet ==
    /\ \A t \in Stoppers : pc[t] = "returned"
    /\ pc["starter"] \in {"Started", "Stopped", "Failed"}
    /\ UNCHANGED vars

Next ==
    \/ CallStart \/ StartReturns \/ Network
    \/ \E o \in Ops :
        TimerBecomesDue(o) \/ (\E out \in {"ok", "failed"} : IoBecomesDue(o, out))
    \/ \E t \in Stoppers : CallStop(t) \/ StopSteps(t)
    \/ Quiet

\* The threads are scheduled, timers run out and the reactor is polled.
\* Nothing makes the exchange answer.
Fairness ==
    /\ WF_vars(Network) /\ WF_vars(StartReturns)
    /\ \A o \in Ops : WF_vars(TimerBecomesDue(o))
    /\ \A t \in Stoppers : WF_vars(StopSteps(t))

Spec == Init /\ [][Next]_vars /\ Fairness

-----------------------------------------------------------------------------
(* Properties.                                                               *)

TypeOK ==
    /\ net.op \in [Ops -> OpType]
    /\ net.held \subseteq Ops
    /\ observation.frames \in 0 .. MaxFrames
    /\ thread \in {"none", "running", "ended"}
    /\ pc["starter"] \in {"idle", "starting", "Started", "Stopped", "Failed"}

\* A failure that was in hand when the shutdown reached the network thread is
\* still the transport's terminal error once the thread has ended: a clean stop
\* hides no failure that came before it.
FailureSurvivesStop ==
    failing /\ thread = "ended" => observation.terminal_error # NoError

\* A stage timeout is blamed on the stage the operation is in: the timer of a
\* stage that completed never fails a later one, however late it is dequeued.
TimeoutIsTheStagesOwn ==
    observation.terminal_error.code = "Timeout" =>
        observation.terminal_error.stage
            = net.op[observation.terminal_error.op].stage

\* When the network thread has ended, every operation that was begun is done,
\* and no response is left undelivered unless the operation failed.
NothingLeftBehind ==
    thread = "ended" =>
        \A o \in Ops :
            /\ net.op[o].stage > 0 => net.op[o].done
            /\ net.op[o].cancelled_result =>
                    observation.terminal_error # NoError

Phase ==
    CASE observation.stopped -> "stopped"
      [] ~observation.stopped /\ stop_requested -> "stopping"
      [] ~stop_requested /\ observation.websocket_handshake -> "live"
      [] ~stop_requested /\ ~observation.websocket_handshake
            /\ observation.started -> "opening"
      [] OTHER -> "idle"

Contract ==
    INSTANCE TransportContract
        WITH phase <- Phase, cause <- observation.terminal_error.code,
             failures <- told.failures, snapshots <- told.snapshots

\* The transport does what its owner relies on: see TransportContract.
KeepsContract == Contract!ContractSpec

\* Nothing waits for ever: start() returns, since every stage is watched by a
\* timer; a live connection gets its snapshot, fails or is stopped; and stop()
\* returns, with whatever I/O and timers it finds outstanding.
NothingHangs ==
    /\ pc["starter"] = "starting" ~> pc["starter"] # "starting"
    /\ observation.websocket_handshake ~>
            \/ observation.rest_depth_fetched \/ stop_requested
            \/ observation.terminal_error # NoError
    /\ stop_requested ~> (\A t \in Stoppers : pc[t] \in {"idle", "returned"})

=============================================================================
