-------------------------- MODULE EventPublication --------------------------
(***************************************************************************)
(* src/g9/event_publication.cpp and its consumer, the SubscribeEvents      *)
(* handler of src/g7/grpc_service.cpp.  The network thread publishes the   *)
(* normalized events of its connection generation to every channel of the  *)
(* event's stream, the recovery coordinator opens, quiesces and closes     *)
(* generations, gRPC threads admit, drain and remove subscriptions.        *)
(*                                                                         *)
(* EventPublication's mutex covers each of its calls and every channel     *)
(* call made inside, so a call is one step.  The handler is several: it    *)
(* peeks, reads the state of an empty channel, writes, acknowledges,       *)
(* closes and removes in separate critical sections.                       *)
(*                                                                         *)
(* An event is its stream and its number among the stream's events.        *)
(***************************************************************************)
EXTENDS SourceGeneration, Sequences

CONSTANTS
    Sessions,        \* subscription attempts (one RPC each)
    Streams,         \* DIFF_DEPTH, AGG_TRADE, BOOK_TICKER
    MaxActive,       \* limits_.maximum_active_subscriptions
    QueueCapacity,   \* limits_.ordinary_queue_capacity
    MaxSequence,     \* the largest uint64 session sequence
    MaxGeneration,   \* bound: connection generations
    MaxEvents        \* bound: events of each stream during the run

ASSUME EventAssumption ==
    /\ MaxActive \in Nat \ {0}
    /\ QueueCapacity \in Nat \ {0}
    /\ MaxSequence \in Nat /\ MaxSequence >= 2
    /\ MaxGeneration \in Nat \ {0}
    /\ MaxEvents \in Nat
    /\ "no_stream" \notin Streams

VARIABLES
    gate,        \* source_state_, source_generation_
    feed,        \* the network thread of the generation can still publish
    count,       \* events published so far, by stream
    channels,    \* the EventSubscriberChannel of each session
    resident,    \* channels_, in admission order
    rpc,         \* where the handler of each session is
    held,        \* the publication it peeked
    delivered,   \* what it wrote to its stream
    status       \* the status it proposed, or "None"

hubVars == <<gate, feed, count, resident>>
handlerVars == <<rpc, held, delivered, status>>
vars == <<hubVars, channels, handlerVars>>

-----------------------------------------------------------------------------
(* EventSubscriberChannel.                                                   *)

Kinds == {"None", "Accepted", "Event", "Gap"}

Reasons == {"None", "SlowConsumer", "GenerationChanged"}

\* event: the number of the event within its stream (0: not an event).
Records ==
    [seq : Nat, kind : Kinds, gen : Nat, event : Nat, reason : Reasons]

NoRecord ==
    [seq |-> 0, kind |-> "None", gen |-> 0, event |-> 0, reason |-> "None"]

AcceptedRecord ==
    [seq |-> 1, kind |-> "Accepted", gen |-> 0, event |-> 0, reason |-> "None"]

EventRecord(seq, gen, n) ==
    [seq |-> seq, kind |-> "Event", gen |-> gen, event |-> n, reason |-> "None"]

GapDescriptor(seq, gen, reason) ==
    [seq |-> seq, kind |-> "Gap", gen |-> gen, event |-> 0, reason |-> reason]

ChannelStates == {"Active", "TerminalGap", "TerminalUnavailable", "Closed"}

NoStream == "no_stream"

Channels ==
    [state : ChannelStates, stream : Streams \cup {NoStream}, gen : Nat,
     ring : Seq(Records), terminal : Records, next : 1..MaxSequence]

\* A session that has no channel yet.
NoChannel ==
    [state |-> "Closed", stream |-> NoStream, gen |-> 0, ring |-> <<>>,
     terminal |-> NoRecord, next |-> 1]

\* The constructor and stage_accepted().
StagedChannel(stream, gen) ==
    [state |-> "Active", stream |-> stream, gen |-> gen,
     ring |-> <<AcceptedRecord>>, terminal |-> NoRecord, next |-> 2]

EndWithGap(c, reason) ==
    [c EXCEPT !.terminal = GapDescriptor(c.next, c.gen, reason),
              !.next = IF c.next = MaxSequence THEN c.next ELSE c.next + 1,
              !.state = "TerminalGap"]

admit_result(c) ==
    CASE c.state # "Active" -> "Inactive"
      [] c.state = "Active" /\ Len(c.ring) = QueueCapacity -> "Terminalized"
      [] c.state = "Active" /\ Len(c.ring) # QueueCapacity
            /\ c.next = MaxSequence -> "AllocationFailure"
      [] OTHER -> "Admitted"

admit_event(c, n) ==
    CASE admit_result(c) = "Admitted" ->
            [c EXCEPT !.ring = Append(@, EventRecord(c.next, c.gen, n)),
                      !.next = c.next + 1]
      [] admit_result(c) = "Terminalized" -> EndWithGap(c, "SlowConsumer")
      [] OTHER -> c

\* A replacement that gives no notice.
terminalize_silently(c) ==
    IF c.state = "Active" THEN [c EXCEPT !.state = "Closed"] ELSE c

terminalize_replacement(c) ==
    IF c.state = "Active" /\ c.terminal = NoRecord
    THEN EndWithGap(c, "GenerationChanged") ELSE c

close_unavailable(c) ==
    IF c.state = "Active" THEN [c EXCEPT !.state = "TerminalUnavailable"] ELSE c

close_from_owner(c) == [c EXCEPT !.state = "Closed"]

close_from_writer(c) ==
    [c EXCEPT !.state = "Closed", !.ring = <<>>, !.terminal = NoRecord]

peek(c) ==
    CASE c.state = "Closed" -> NoRecord
      [] c.state # "Closed" /\ c.ring # <<>> -> Head(c.ring)
      [] OTHER -> c.terminal

acknowledge_result(c, h) ==
    CASE c.state = "Closed" -> "Closed"
      [] c.state # "Closed" /\ h.kind # "Gap" ->
            IF c.ring # <<>> /\ Head(c.ring) = h THEN "Acknowledged" ELSE "Mismatch"
      [] OTHER -> IF c.ring = <<>> /\ c.terminal = h THEN "Closed" ELSE "Mismatch"

acknowledge(c, h) ==
    CASE acknowledge_result(c, h) = "Acknowledged" -> [c EXCEPT !.ring = Tail(@)]
      [] acknowledge_result(c, h) = "Closed" /\ c.state # "Closed" ->
            [c EXCEPT !.terminal = NoRecord, !.state = "Closed"]
      [] OTHER -> c

-----------------------------------------------------------------------------
Init ==
    /\ gate = InitialGate
    /\ feed = FALSE
    /\ count = [t \in Streams |-> 0]
    /\ channels = [s \in Sessions |-> NoChannel]
    /\ resident = <<>>
    /\ rpc = [s \in Sessions |-> "idle"]
    /\ held = [s \in Sessions |-> NoRecord]
    /\ delivered = [s \in Sessions |-> <<>>]
    /\ status = [s \in Sessions |-> "None"]

(* The recovery coordinator and the shutdown.                                *)

\* open_generation(); the transport is running.
OpenGeneration ==
    /\ gate.gen < MaxGeneration /\ MayOpen(gate, gate.gen + 1)
    /\ gate' = Opened(gate, gate.gen + 1)
    /\ feed' = TRUE
    /\ UNCHANGED <<count, channels, resident, handlerVars>>

\* quiesce_generation(), called after the network thread was joined.
QuiesceGeneration ==
    /\ MayQuiesce(gate, gate.gen)
    /\ gate' = Quiesced(gate)
    /\ feed' = FALSE
    /\ UNCHANGED <<count, channels, resident, handlerVars>>

Resident(s) == \E i \in 1..Len(resident) : resident[i] = s

OfGeneration(s) == Resident(s) /\ channels[s].gen = gate.gen

CloseGenerationReplaced ==
    /\ MayClose(gate, gate.gen)
    /\ gate' = Replaced(gate)
    /\ channels' = [s \in Sessions |->
                        IF OfGeneration(s)
                        THEN terminalize_replacement(channels[s])
                        ELSE channels[s]]
    /\ UNCHANGED <<feed, count, resident, handlerVars>>

CloseGenerationPermanently ==
    /\ MayClose(gate, gate.gen)
    /\ gate' = PermanentlyClosed(gate)
    /\ channels' = [s \in Sessions |->
                        IF OfGeneration(s) THEN close_unavailable(channels[s])
                                           ELSE channels[s]]
    /\ UNCHANGED <<feed, count, resident, handlerVars>>

\* A shutdown that closes only the oldest session.
ShutdownClosingFirst ==
    /\ gate.state # "Shutdown"
    /\ gate' = ShutDown(gate)
    /\ channels' = [s \in Sessions |-> IF resident # <<>> /\ Head(resident) = s
                                       THEN close_from_owner(channels[s])
                                       ELSE channels[s]]
    /\ UNCHANGED <<feed, count, resident, handlerVars>>

Shutdown ==
    /\ gate.state # "Shutdown"
    /\ gate' = ShutDown(gate)
    /\ channels' = [s \in Sessions |-> IF Resident(s)
                                       THEN close_from_owner(channels[s])
                                       ELSE channels[s]]
    /\ UNCHANGED <<feed, count, resident, handlerVars>>

-----------------------------------------------------------------------------
(* The network thread.                                                       *)

Receives(s, stream) ==
    channels[s].stream = stream /\ channels[s].gen = gate.gen

\* The subscribers the fan-out serves before one whose sequence is used up.
Reached(s, stream) ==
    \E i \in 1..Len(resident) :
        /\ resident[i] = s
        /\ \A j \in 1..i : ~ /\ Receives(resident[j], stream)
                             /\ admit_result(channels[resident[j]])
                                    = "AllocationFailure"

\* publish() has no time to stamp the event: InvariantFailure, and the
\* transport stops.
PublishFails ==
    /\ feed /\ feed' = FALSE
    /\ UNCHANGED <<gate, count, channels, resident, handlerVars>>

\* A fan-out whose failure does not stop the transport.
PublishGoingOn(stream) ==
    /\ feed /\ PublishVerdict(gate, gate.gen) = "Published"
    /\ count[stream] < MaxEvents
    /\ count' = [count EXCEPT ![stream] = @ + 1]
    /\ channels' = [s \in Sessions |->
                        IF Receives(s, stream) /\ Reached(s, stream)
                        THEN admit_event(channels[s], count'[stream])
                        ELSE channels[s]]
    /\ UNCHANGED <<gate, feed, resident, handlerVars>>

\* publish(): a fan-out that fails stops the transport (InvariantFailure).
Publish(stream) ==
    /\ feed /\ PublishVerdict(gate, gate.gen) = "Published"
    /\ count[stream] < MaxEvents
    /\ count' = [count EXCEPT ![stream] = @ + 1]
    /\ channels' = [s \in Sessions |->
                        IF Receives(s, stream) /\ Reached(s, stream)
                        THEN admit_event(channels[s], count'[stream])
                        ELSE channels[s]]
    /\ feed' = ~ \E s \in Sessions :
                    /\ Resident(s) /\ Receives(s, stream)
                    /\ admit_result(channels[s]) = "AllocationFailure"
    /\ UNCHANGED <<gate, resident, handlerVars>>

-----------------------------------------------------------------------------
(* The gRPC handler of a session.                                            *)

\* admit(), which SubscribeEvents calls once its context is tracked.
Admit(s, stream) ==
    /\ rpc[s] = "idle"
    /\ gate.state = "Open" /\ Len(resident) < MaxActive
    /\ channels' = [channels EXCEPT ![s] = StagedChannel(stream, gate.gen)]
    /\ resident' = Append(resident, s)
    /\ rpc' = [rpc EXCEPT ![s] = "loop"]
    /\ UNCHANGED <<gate, feed, count, held, delivered, status>>

\* admit() refuses: no source, no slot, a shutdown, or a failed clock.
Refuse(s) ==
    /\ rpc[s] = "idle"
    /\ rpc' = [rpc EXCEPT ![s] = "done"]
    /\ status' = [status EXCEPT ![s] = "Refused"]
    /\ UNCHANGED <<hubVars, channels, held, delivered>>

HandlerPeeks(s) ==
    /\ rpc[s] = "loop"
    /\ held' = [held EXCEPT ![s] = peek(channels[s])]
    /\ rpc' = [rpc EXCEPT ![s] = IF held'[s] = NoRecord THEN "empty" ELSE "write"]
    /\ UNCHANGED <<hubVars, channels, delivered, status>>

\* A handler that knows only Closed.
HandlerSeesClosedOnly(s) ==
    /\ rpc[s] = "empty"
    /\ rpc' = [rpc EXCEPT ![s] = IF channels[s].state = "Closed" THEN "close"
                                                                ELSE "loop"]
    /\ status' = [status EXCEPT ![s] = IF channels[s].state = "Closed" THEN "OK"
                                                                       ELSE @]
    /\ UNCHANGED <<hubVars, channels, held, delivered>>

\* peek() found nothing: a second critical section reads the state.
HandlerSeesState(s) ==
    LET state == channels[s].state
        ends == state \in {"TerminalUnavailable", "Closed"} IN
    /\ rpc[s] = "empty"
    /\ rpc' = [rpc EXCEPT ![s] = IF ends THEN "close" ELSE "loop"]
    /\ status' = [status EXCEPT
                    ![s] = CASE state = "TerminalUnavailable" -> "UNAVAILABLE"
                             [] state = "Closed" -> "OK"
                             [] OTHER -> @]
    /\ UNCHANGED <<hubVars, channels, held, delivered>>

HandlerWrites(s) ==
    /\ rpc[s] = "write"
    /\ delivered' = [delivered EXCEPT ![s] = Append(@, held[s])]
    /\ rpc' = [rpc EXCEPT ![s] = "ack"]
    /\ UNCHANGED <<hubVars, channels, held, status>>

HandlerAcknowledges(s) ==
    LET result == acknowledge_result(channels[s], held[s]) IN
    /\ rpc[s] = "ack"
    /\ channels' = [channels EXCEPT ![s] = acknowledge(@, held[s])]
    /\ rpc' = [rpc EXCEPT ![s] = IF result = "Acknowledged" THEN "loop"
                                                            ELSE "close"]
    /\ status' = [status EXCEPT ![s] = CASE result = "Closed" -> "OK"
                                         [] result = "Mismatch" -> "INTERNAL"
                                         [] OTHER -> @]
    /\ UNCHANGED <<hubVars, held, delivered>>

\* IsCancelled() before the peek or after the write, or a failed Write: the
\* client has gone (CANCELLED, or OK when only the Write failed).
HandlerGivesUp(s) ==
    /\ rpc[s] \in {"loop", "write", "ack"}
    /\ rpc' = [rpc EXCEPT ![s] = "close"]
    /\ status' = [status EXCEPT ![s] = "ClientGone"]
    /\ UNCHANGED <<hubVars, channels, held, delivered>>

\* ~CloseEventSubscription: close_from_writer(), then remove().
HandlerCloses(s) ==
    /\ rpc[s] = "close"
    /\ channels' = [channels EXCEPT ![s] = close_from_writer(@)]
    /\ rpc' = [rpc EXCEPT ![s] = "remove"]
    /\ UNCHANGED <<hubVars, held, delivered, status>>

\* std::find, then erase: the sessions listed behind s move up one place.
Erased(list, s) ==
    LET at == CHOOSE i \in 1..Len(list) : list[i] = s IN
    IF \E i \in 1..Len(list) : list[i] = s
    THEN [j \in 1..(Len(list) - 1) |-> IF j < at THEN list[j] ELSE list[j + 1]]
    ELSE list

\* The call is over: its channel, what it held and the history of what it wrote go.
HandlerRemoves(s) ==
    /\ rpc[s] = "remove"
    /\ resident' = Erased(resident, s)
    /\ rpc' = [rpc EXCEPT ![s] = "done"]
    /\ held' = [held EXCEPT ![s] = NoRecord]
    /\ delivered' = [delivered EXCEPT ![s] = <<>>]
    /\ channels' = [channels EXCEPT ![s] = NoChannel]
    /\ UNCHANGED <<gate, feed, count, status>>

Handler(s) ==
    \/ HandlerPeeks(s) \/ HandlerSeesState(s) \/ HandlerWrites(s)
    \/ HandlerAcknowledges(s) \/ HandlerGivesUp(s)
    \/ HandlerCloses(s) \/ HandlerRemoves(s)

\* Every RPC has returned and no generation will come.
Finished ==
    /\ \A s \in Sessions : rpc[s] = "done"
    /\ gate.state \in {"PermanentlyClosed", "Shutdown"}
    /\ UNCHANGED vars

Next ==
    \/ OpenGeneration \/ QuiesceGeneration \/ CloseGenerationReplaced
    \/ CloseGenerationPermanently \/ Shutdown
    \/ PublishFails \/ \E stream \in Streams : Publish(stream)
    \/ \E s \in Sessions : Handler(s) \/ Refuse(s)
    \/ \E s \in Sessions, stream \in Streams : Admit(s, stream)
    \/ Finished

Fairness == \A s \in Sessions : WF_vars(Handler(s))

Spec == Init /\ [][Next]_vars /\ Fairness

-----------------------------------------------------------------------------
(* Properties.                                                               *)

TypeOK ==
    /\ gate \in Gates /\ feed \in BOOLEAN
    /\ count \in [Streams -> Nat]
    /\ channels \in [Sessions -> Channels]
    /\ \A s \in Sessions : Len(channels[s].ring) <= QueueCapacity
    /\ resident \in Seq(Sessions) /\ Len(resident) <= MaxActive
    /\ rpc \in [Sessions -> {"idle", "loop", "empty", "write", "ack", "close",
                             "remove", "done"}]
    /\ held \in [Sessions -> Records]
    /\ delivered \in [Sessions -> Seq(Records)]
    /\ status \in [Sessions -> {"None", "Refused", "OK", "UNAVAILABLE",
                                "INTERNAL", "ClientGone"}]

\* What the client has read and what is still queued for it is one unbroken
\* run of its stream: sequences 1, 2, 3, ..., every event of the stream from
\* the subscription cut on, all of one generation, and at most one gap, last; and
\* an active session lacks no event as long as the transport goes on.
\* (admit_event, peek and acknowledge under every interleaving with the
\* network thread and the coordinator.)
NextInStream(r, n) ==
    /\ n.seq = r.seq + 1 /\ r.kind # "Gap"
    /\ (n.kind = "Event" /\ r.kind = "Event"
            => n.event = r.event + 1 /\ n.gen = r.gen)

UnbrokenStream ==
    \A s \in Sessions :
        LET c == channels[s]
            unread == IF rpc[s] = "ack" /\ c.ring # <<>> THEN Tail(c.ring)
                      ELSE IF rpc[s] = "ack" THEN <<>> ELSE c.ring
            notice == IF c.terminal # NoRecord /\ c.terminal # held[s]
                      THEN <<c.terminal>> ELSE <<>>
            log == delivered[s] \o unread \o notice
        IN  c.state # "Closed" /\ rpc[s] \in {"loop", "empty", "write", "ack"} =>
                /\ \A i \in 2..Len(log) : NextInStream(log[i - 1], log[i])
                /\ c.state = "Active" /\ feed /\ log # <<>> =>
                        log[Len(log)].event \in {0, count[c.stream]}

\* A live session belongs to the live source: an Active channel's generation
\* is the one the gate has open (or is quiescing), so no session survives a
\* replacement, a permanent close or a shutdown, and none is left unlisted.
ActiveBelongsToSource ==
    \A s \in Sessions :
        channels[s].state = "Active" =>
            /\ gate.state \in {"Open", "Quiesced"}
            /\ channels[s].gen = gate.gen
            /\ Resident(s)

\* A stream that ends with OK without the client's doing ended with a gap
\* notice, or the publication was shut down: a replaced generation is never
\* silently cut.
OkMeansGapOrShutdown ==
    \A s \in Sessions :
        status[s] = "OK" /\ rpc[s] \in {"close", "remove"} =>
            \/ gate.state = "Shutdown"
            \/ /\ delivered[s] # <<>>
               /\ delivered[s][Len(delivered[s])].kind = "Gap"

\* A closed or terminated channel frees its slot: its handler drains, returns
\* and removes it.  (Again and again only active sessions are listed, which is
\* more than that each of the others leaves the list.)
EndedSessionsLeave ==
    []<>(\A s \in Sessions : Resident(s) => channels[s].state = "Active")

=============================================================================
