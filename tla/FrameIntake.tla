----------------------------- MODULE FrameIntake -----------------------------
(***************************************************************************)
(* What a transport does with the frames and the snapshot that it          *)
(* receives: receive_websocket_message() and receive_depth_response() of   *)
(* src/g4/spot_transport.cpp, with the parsers of BinanceProtocol.         *)
(*                                                                         *)
(* The network thread handles one frame at a time, in the steps after      *)
(* which another thread can tell the difference: the event publication has *)
(* the event, the runtime has the update, the observation counts it.  The  *)
(* sink and the runtime answer as their own threads have left them.  The   *)
(* connection under it is BinanceTransport.                                *)
(***************************************************************************)
EXTENDS BinanceProtocol, SequencesExt

CONSTANTS
    Inputs,     \* payloads the exchange may send, a subset of Payloads
    MaxFrames   \* bound: frames received

ASSUME IntakeAssumption == Inputs \subseteq Payloads /\ MaxFrames \in Nat

VARIABLES
    route,      \* the market and the profile of the configuration
    at,         \* where the handler is
    payload,    \* the frame in hand, or the one that ended the connection
    verdict,    \* what the parser made of it
    received,   \* frames received
    published,  \* what the event sink took: the kind and the frame's number
    admitted,   \* depth updates the runtime took, by frame number
    snapshot,   \* the REST snapshot: none, taken or refused
    observation \* the counts, server_shutdown_observed and terminal_error

vars == <<route, at, payload, verdict, received, published, admitted, snapshot,
          observation>>

\* spot_transport_config() and usdm_transport_config().
Routes ==
    {[market |-> "Spot", profile |-> "DepthOnly"],
     [market |-> "Spot", profile |-> "SpotCombinedEvents"],
     [market |-> "UsdM", profile |-> "DepthOnly"],
     [market |-> "UsdM", profile |-> "DepthWithEvents"]}

Combined == route.profile = "SpotCombinedEvents"

NoPayload ==
    [json |-> FALSE, stream |-> "absent", wrapped |-> "absent", data |-> NoKeys]

Init ==
    /\ route \in Routes
    /\ at = "reading"
    /\ payload = NoPayload /\ verdict = Event("none")
    /\ received = 0 /\ published = <<>> /\ admitted = <<>> /\ snapshot = "none"
    /\ observation = [depth |-> 0, other |-> 0, server_shutdown |-> FALSE,
                      terminal_error |-> "none"]

\* terminal_failure(): the first one is kept.  The handler returns FALSE and the
\* connection ends.
TerminalFailure(obs, code) ==
    /\ observation' =
        [obs EXCEPT !.terminal_error = IF @ = "none" THEN code ELSE @]
    /\ at' = "ended"

-----------------------------------------------------------------------------
(* Frames.                                                                   *)

Parsed(p) ==
    CASE Combined -> parse_combined_event_frame(p)
      [] ~Combined /\ route.market = "Spot" -> parse_depth_frame(p)
      [] ~Combined /\ route.market = "UsdM" -> parse_usdm_depth_frame(p)

\* A frame that does not parse is skipped.
ReceivesLenient(p) ==
    /\ at = "reading" /\ received < MaxFrames
    /\ payload' = p /\ verdict' = Parsed(p) /\ received' = received + 1
    /\ CASE verdict'.kind = "shutdown" ->
                TerminalFailure([observation EXCEPT !.server_shutdown = TRUE],
                                "ServerShutdown")
         [] verdict'.kind \in {"error", "throws"} -> UNCHANGED <<at, observation>>
         [] OTHER ->
                /\ at' = IF route.profile = "DepthOnly" THEN "submit"
                                                        ELSE "publish"
                /\ UNCHANGED observation
    /\ UNCHANGED <<route, published, admitted, snapshot>>

\* The parser, and what ends the connection before anything is delivered; an
\* exception has nobody to catch it on the network thread.
Receives(p) ==
    /\ at = "reading" /\ received < MaxFrames
    /\ payload' = p /\ verdict' = Parsed(p) /\ received' = received + 1
    /\ CASE verdict'.kind = "shutdown" ->
                TerminalFailure([observation EXCEPT !.server_shutdown = TRUE],
                                "ServerShutdown")
         [] verdict'.kind = "error" -> TerminalFailure(observation, "Protocol")
         [] verdict'.kind = "throws" ->
                at' = "terminated" /\ UNCHANGED observation
         [] OTHER ->
                /\ at' = IF route.profile = "DepthOnly" THEN "submit"
                                                        ELSE "publish"
                /\ UNCHANGED observation
    /\ UNCHANGED <<route, published, admitted, snapshot>>

\* publish_normalized_event(): the sink takes the event (or has no subscriber
\* for it), or fails closed; so does an event that cannot be allocated.
Publishes(taken) ==
    /\ at = "publish"
    /\ IF taken
       THEN /\ published' = Append(published, [kind |-> verdict.kind,
                                               frame |-> received])
            /\ at' = IF verdict.kind = "depth" THEN "submit" ELSE "count"
            /\ UNCHANGED observation
       ELSE TerminalFailure(observation, "Internal") /\ UNCHANGED published
    /\ UNCHANGED <<route, payload, verdict, received, admitted, snapshot>>

\* A runtime that refuses an update is asked again with the next one.
SubmitsLenient(accepted) ==
    /\ at = "submit"
    /\ admitted' = IF accepted THEN Append(admitted, received) ELSE admitted
    /\ at' = "count"
    /\ UNCHANGED <<route, payload, verdict, received, published, snapshot,
                   observation>>

\* submit_depth_update(), up to the answer of the runtime.
Submits(accepted) ==
    /\ at = "submit"
    /\ IF accepted
       THEN /\ admitted' = Append(admitted, received)
            /\ at' = "count" /\ UNCHANGED observation
       ELSE TerminalFailure(observation, "RuntimeAdmission")
            /\ UNCHANGED admitted
    /\ UNCHANGED <<route, payload, verdict, received, published, snapshot>>

\* The frame is counted and the handler returns TRUE: the next read.
Counts ==
    /\ at = "count"
    /\ observation' = IF verdict.kind = "depth"
                      THEN [observation EXCEPT !.depth = @ + 1]
                      ELSE [observation EXCEPT !.other = @ + 1]
    /\ at' = "reading" /\ payload' = NoPayload /\ verdict' = Event("none")
    /\ UNCHANGED <<route, received, published, admitted, snapshot>>

-----------------------------------------------------------------------------
(* The snapshot.                                                             *)

ParsedSnapshot(p) ==
    IF route.market = "Spot" THEN parse_depth_snapshot(p)
                             ELSE parse_usdm_depth_snapshot(p)

\* receive_depth_response() with a body, between two frames.
ReceivesSnapshot(p, accepted) ==
    /\ at = "reading" /\ snapshot = "none"
    /\ IF ParsedSnapshot(p).kind = "error"
       THEN snapshot' = "refused" /\ TerminalFailure(observation, "Protocol")
       ELSE IF accepted
       THEN snapshot' = "taken" /\ UNCHANGED <<at, observation>>
       ELSE /\ snapshot' = "refused"
            /\ TerminalFailure(observation, "RuntimeAdmission")
    /\ UNCHANGED <<route, payload, verdict, received, published, admitted>>

\* The exchange sends nothing more, or the connection is over.
Quiet == at \in {"reading", "ended", "terminated"} /\ UNCHANGED vars

Next ==
    \/ \E p \in Inputs : Receives(p)
    \/ \E answer \in BOOLEAN :
        \/ Publishes(answer) \/ Submits(answer)
        \/ \E p \in Inputs : ReceivesSnapshot(p, answer)
    \/ Counts \/ Quiet

Spec == Init /\ [][Next]_vars

-----------------------------------------------------------------------------
(* Properties.                                                               *)

\* No frame is lost in silence: while the connection lives, every frame but the
\* one in hand has reached the publication, if there is one, and the runtime, if
\* it is an update.
NoSilentLoss ==
    at = "reading" =>
        LET events == {event.frame : event \in ToSet(published)}
            updates == ToSet(admitted)
        IN  /\ received = observation.depth + observation.other
            /\ (IF route.profile = "DepthOnly" THEN updates ELSE events)
                    = 1 .. received

\* The book never runs ahead of the event stream, takes its updates in the same
\* order, and is at most one update behind: the one in hand, or the one that
\* ended the connection.
BookFollowsEvents ==
    LET depth == {event \in ToSet(published) : event.kind = "depth"}
        frames == {event.frame : event \in depth}
        inHand == IF at \in {"submit", "ended"} THEN {received} ELSE {}
    IN  route.profile # "DepthOnly" =>
            /\ ToSet(admitted) \subseteq frames
            /\ frames \ ToSet(admitted) \subseteq inHand
            /\ \A i, j \in DOMAIN published :
                    i < j => published[i].frame < published[j].frame
            /\ \A i, j \in DOMAIN admitted : i < j => admitted[i] < admitted[j]

\* What is delivered is of the configured symbol, of the kind of the stream it
\* came on, and of the market: an update that names the one it follows is USD-M.
DeliversItsOwn ==
    at \in {"publish", "submit", "count"} =>
        /\ payload.data["s"] = "own"
        /\ Combined => verdict.kind = payload.stream
        /\ ~Combined => verdict.kind = "depth"
        /\ verdict.kind = "depth" =>
            /\ payload.data["e"] = "depthUpdate"
            /\ payload.data["pu"] # "absent" => route.market = "UsdM"

\* Binance's notice ends the connection as a serverShutdown, not as a frame that
\* was not understood: raw, on its own stream, or in the depth stream.
NoticeIsUnderstood ==
    /\ at = "ended" /\ received > 0 /\ verdict.kind = "error"
    /\ payload.json /\ payload.data["e"] = "serverShutdown"
    /\ payload.data["E"] \in Unsigned
    => Combined /\ (\/ payload.wrapped # "object"
                    \/ payload.stream \notin {"!serverShutdown", "depth"})

\* Both, and no payload makes a parser throw out of its handler: a frame is taken
\* for what it is, on either venue and in either framing.
FramesAreUnderstood ==
    at # "terminated" /\ DeliversItsOwn /\ NoticeIsUnderstood

=============================================================================
