-------------------------- MODULE FrameIntakeProofs --------------------------
(***************************************************************************)
(* FrameIntake for everything the exchange may send, on either venue and   *)
(* in either framing, and for any number of frames: no frame is lost in    *)
(* silence, the book follows the event stream, and a frame is taken for    *)
(* what it is.                                                             *)
(***************************************************************************)
EXTENDS FrameIntake, TLAPS

-----------------------------------------------------------------------------
(* The parsers.                                                              *)

\* A parser answers with an error or with its result, and with the result only
\* when every check has passed.
LEMMA FirstOfFacts ==
    ASSUME NEW checks, NEW result
    PROVE  \/ /\ FirstOf(checks, result) = result
              /\ \A i \in DOMAIN checks : ~checks[i].fails
           \/ /\ FirstOf(checks, result).kind = "error"
              /\ \E i \in DOMAIN checks : checks[i].fails
BY DEF FirstOf, Error

\* What a check fails on.
LEMMA CheckFacts ==
    ASSUME NEW fails \in BOOLEAN, NEW code
    PROVE  Check(fails, code).fails <=> fails
BY DEF Check

\* A notice with an event time is a notice.
LEMMA NoticeFacts ==
    ASSUME NEW root, root["e"] = "serverShutdown"
    PROVE  /\ ServerShutdown(root).kind \in {"error", "shutdown"}
           /\ root["E"] \in Unsigned => ServerShutdown(root).kind = "shutdown"
<1> DEFINE c == NoticeChecks(root)
<1>1. /\ DOMAIN c = {1, 2}
      /\ c[1].fails <=> ~has_required_keys(root, {"e", "E"})
      /\ c[2].fails <=> ~unsigned_field(root, "E")
  <2>1. /\ DOMAIN c = {1, 2}
        /\ c[1] = Check(~has_required_keys(root, {"e", "E"}), "InvalidShape")
        /\ c[2] = Check(~unsigned_field(root, "E"), "InvalidField")
    BY DEF NoticeChecks
  <2> QED BY <2>1, CheckFacts
<1>2. root["E"] \in Unsigned => ~c[1].fails /\ ~c[2].fails
  BY <1>1 DEF has_required_keys, unsigned_field, Unsigned
<1> HIDE DEF c
<1>3. \/ FirstOf(c, Shutdown) = Shutdown
      \/ FirstOf(c, Shutdown).kind = "error" /\ \E i \in DOMAIN c : c[i].fails
  BY FirstOfFacts
<1>4. ServerShutdown(root) = FirstOf(c, Shutdown) /\ Shutdown.kind = "shutdown"
  BY DEF ServerShutdown, Shutdown, c
<1> QED BY <1>1, <1>2, <1>3, <1>4

\* What an update on Spot is: the requested symbol's, and without a previous id.
LEMMA DepthFacts ==
    ASSUME NEW root
    PROVE  LET v == parse_depth_object(root) IN
           /\ v.kind \in {"error", "shutdown", "depth"}
           /\ v.kind = "depth" => /\ root["e"] = "depthUpdate"
                                  /\ root["s"] = "own"
                                  /\ root["pu"] = "absent"
           /\ root["e"] = "serverShutdown" =>
                /\ v.kind \in {"error", "shutdown"}
                /\ root["E"] \in Unsigned => v.kind = "shutdown"
<1>1. CASE root["e"] = "serverShutdown"
  BY <1>1, NoticeFacts DEF parse_depth_object
<1>2. CASE root["e"] # "serverShutdown"
  <2> DEFINE c == DepthChecks(root)
  <2>1. /\ DOMAIN c = 1..7
        /\ c[2].fails <=> root["e"] # "depthUpdate"
        /\ c[3].fails <=> \/ ~has_required_keys(root, DepthKeys)
                          \/ root["pu"] # "absent"
        /\ c[4].fails <=> root["s"] # "own"
    <3>1. /\ DOMAIN c = 1..7
          /\ c[2] = Check(root["e"] # "depthUpdate", "WrongEvent")
          /\ c[4] = Check(root["s"] # "own", "WrongSymbol")
      BY DEF DepthChecks
    <3>2. c[3] = Check(~has_required_keys(root, DepthKeys) \/ root["pu"] # "absent",
                       "InvalidShape")
      BY DEF DepthChecks
    <3>3. c[3].fails <=> \/ ~has_required_keys(root, DepthKeys)
                         \/ root["pu"] # "absent"
      BY <3>2, CheckFacts
    <3> QED BY <3>1, <3>3, CheckFacts
  <2> HIDE DEF c
  <2>2. \/ /\ FirstOf(c, Event("depth")) = Event("depth")
           /\ \A i \in DOMAIN c : ~c[i].fails
        \/ FirstOf(c, Event("depth")).kind = "error"
    BY FirstOfFacts
  <2>3. /\ parse_depth_object(root) = FirstOf(c, Event("depth"))
        /\ Event("depth").kind = "depth"
    BY <1>2 DEF parse_depth_object, Event, c
  <2> QED BY <1>2, <2>1, <2>2, <2>3
<1> QED BY <1>1, <1>2

\* The same on USD-M, where an update may name the one it follows.
LEMMA UsdmDepthFacts ==
    ASSUME NEW p
    PROVE  LET v == parse_usdm_depth_frame(p) IN
           /\ v.kind \in {"error", "shutdown", "depth"}
           /\ v.kind = "depth" => /\ p.data["e"] = "depthUpdate"
                                  /\ p.data["s"] = "own"
           /\ p.json /\ p.data["e"] = "serverShutdown"
                    /\ p.data["E"] \in Unsigned => v.kind = "shutdown"
<1> DEFINE root == p.data
           result == IF root["pu"] = "absent" THEN Event("depth")
                                              ELSE ChainedDepth
<1>1. CASE ~p.json
  BY <1>1 DEF parse_usdm_depth_frame, Error
<1>2. CASE p.json /\ root["e"] = "serverShutdown"
  BY <1>2, NoticeFacts DEF parse_usdm_depth_frame
<1>3. CASE p.json /\ root["e"] # "serverShutdown"
  <2> DEFINE c == UsdmDepthChecks(root)
  <2>1. /\ DOMAIN c = 1..11
        /\ c[2].fails <=> root["e"] # "depthUpdate"
        /\ c[4].fails <=> root["s"] # "own"
    <3>1. /\ DOMAIN c = 1..11
          /\ c[2] = Check(root["e"] # "depthUpdate", "WrongEvent")
          /\ c[4] = Check(root["s"] # "own", "WrongSymbol")
      BY DEF UsdmDepthChecks
    <3> QED BY <3>1, CheckFacts
  <2>2. result.kind = "depth"
    BY DEF Event, ChainedDepth
  <2>3. parse_usdm_depth_frame(p) = FirstOf(c, result)
    BY <1>3 DEF parse_usdm_depth_frame
  <2> HIDE DEF c, result
  <2>4. \/ FirstOf(c, result) = result /\ \A i \in DOMAIN c : ~c[i].fails
        \/ FirstOf(c, result).kind = "error"
    BY FirstOfFacts
  <2> QED BY <1>3, <2>1, <2>2, <2>3, <2>4
<1> QED BY <1>1, <1>2, <1>3

\* Trades and tickers.
LEMMA EventFacts ==
    ASSUME NEW data
    PROVE  /\ AggTrade(data).kind \in {"error", "aggTrade"}
           /\ AggTrade(data).kind = "aggTrade" => data["s"] = "own"
           /\ BookTicker(data).kind \in {"error", "bookTicker"}
           /\ BookTicker(data).kind = "bookTicker" => data["s"] = "own"
<1>1. /\ AggTrade(data).kind \in {"error", "aggTrade"}
      /\ AggTrade(data).kind = "aggTrade" => data["s"] = "own"
  <2> DEFINE c == AggTradeChecks(data)
  <2>1. DOMAIN c = 1..4 /\ (c[3].fails <=> data["s"] # "own")
    <3>1. DOMAIN c = 1..4 /\ c[3] = Check(data["s"] # "own", "WrongSymbol")
      BY DEF AggTradeChecks
    <3> QED BY <3>1, CheckFacts
  <2>2. AggTrade(data) = FirstOf(c, Event("aggTrade"))
    BY DEF AggTrade
  <2> HIDE DEF c
  <2>3. \/ /\ FirstOf(c, Event("aggTrade")) = Event("aggTrade")
           /\ \A i \in DOMAIN c : ~c[i].fails
        \/ FirstOf(c, Event("aggTrade")).kind = "error"
    BY FirstOfFacts
  <2>4. Event("aggTrade").kind = "aggTrade"
    BY DEF Event
  <2> QED BY <2>1, <2>2, <2>3, <2>4
<1>2. /\ BookTicker(data).kind \in {"error", "bookTicker"}
      /\ BookTicker(data).kind = "bookTicker" => data["s"] = "own"
  <2> DEFINE c == BookTickerChecks(data)
  <2>1. DOMAIN c = 1..3 /\ (c[2].fails <=> data["s"] # "own")
    <3>1. DOMAIN c = 1..3 /\ c[2] = Check(data["s"] # "own", "WrongSymbol")
      BY DEF BookTickerChecks
    <3> QED BY <3>1, CheckFacts
  <2>2. BookTicker(data) = FirstOf(c, Event("bookTicker"))
    BY DEF BookTicker
  <2> HIDE DEF c
  <2>3. \/ /\ FirstOf(c, Event("bookTicker")) = Event("bookTicker")
           /\ \A i \in DOMAIN c : ~c[i].fails
        \/ FirstOf(c, Event("bookTicker")).kind = "error"
    BY FirstOfFacts
  <2>4. Event("bookTicker").kind = "bookTicker"
    BY DEF Event
  <2> QED BY <2>1, <2>2, <2>3, <2>4
<1> QED BY <1>1, <1>2

\* The combined stream: what comes out is of the kind of the stream, the
\* notice's branch does not throw, and only a notice in the wrong place is not
\* understood.
LEMMA CombinedFacts ==
    ASSUME NEW p \in Payloads
    PROVE  LET v == parse_combined_event_frame(p) IN
           /\ v.kind \in {"error", "shutdown", "depth", "aggTrade", "bookTicker"}
           /\ v.kind \notin {"error", "shutdown"} =>
                v.kind = p.stream /\ p.data["s"] = "own"
           /\ v.kind = "depth" =>
                p.data["e"] = "depthUpdate" /\ p.data["pu"] = "absent"
           /\ /\ v.kind = "error" /\ p.json
              /\ p.data["e"] = "serverShutdown" /\ p.data["E"] \in Unsigned
              => \/ p.wrapped # "object"
                 \/ p.stream \notin {"!serverShutdown", "depth"}
<1> DEFINE c == EnvelopeChecks(p)
           envelope == FirstOf(c, Event("envelope"))
<1>1. /\ DOMAIN c = 1..4
      /\ c[1].fails <=> ~p.json
      /\ c[2].fails <=> "absent" \in {p.stream, p.wrapped}
      /\ c[3].fails <=> "other" \in {p.stream, p.wrapped}
      /\ c[4].fails <=> p.stream = "unknown"
  <2> DEFINE one(value) == value \in {p.stream, p.wrapped}
  <2>1. /\ DOMAIN c = 1..4
        /\ c[1] = Check(~p.json, "InvalidJson")
        /\ c[2] = Check(one("absent"), "InvalidShape")
        /\ c[3] = Check(one("other"), "InvalidField")
        /\ c[4] = Check(p.stream = "unknown", "WrongEvent")
    BY DEF EnvelopeChecks
  <2>2. one("absent") \in BOOLEAN /\ one("other") \in BOOLEAN
    OBVIOUS
  <2> HIDE DEF c, one
  <2>3. /\ c[1].fails <=> ~p.json
        /\ c[4].fails <=> p.stream = "unknown"
    BY <2>1, CheckFacts
  <2>4. /\ c[2].fails <=> one("absent")
        /\ c[3].fails <=> one("other")
    BY <2>1, <2>2, CheckFacts
  <2> QED BY <2>1, <2>3, <2>4 DEF one
<1> HIDE DEF c
<1>2. \/ envelope = Event("envelope") /\ \A i \in DOMAIN c : ~c[i].fails
      \/ envelope.kind = "error" /\ \E i \in DOMAIN c : c[i].fails
  BY FirstOfFacts
<1>3. Event("envelope").kind = "envelope"
  BY DEF Event
<1>4. CASE envelope.kind = "error"
  <2>1. parse_combined_event_frame(p) = envelope
    BY <1>4 DEF parse_combined_event_frame, c
  <2>2. \E i \in {1, 2, 3, 4} : c[i].fails
    BY <1>1, <1>2, <1>3, <1>4
  <2>3. \/ ~p.json \/ p.stream \in {"absent", "other", "unknown"}
        \/ p.wrapped \in {"absent", "other"}
    BY <1>1, <2>2
  <2> HIDE DEF envelope
  <2> QED BY <1>4, <2>1, <2>3
<1>5. CASE envelope.kind # "error"
  <2>1. p.stream \in {"!serverShutdown", "depth", "aggTrade", "bookTicker"}
    <3>1. \A i \in {1, 2, 3, 4} : ~c[i].fails
      BY <1>1, <1>2, <1>5
    <3>2. p.stream \in Streams \cup {"absent", "other"}
      BY DEF Payloads
    <3> QED BY <1>1, <3>1, <3>2 DEF Streams
  <2>2. parse_combined_event_frame(p) =
            CASE p.stream = "!serverShutdown" -> ShutdownStream(p.data)
              [] p.stream = "depth" -> parse_depth_object(p.data)
              [] p.stream = "aggTrade" -> AggTrade(p.data)
              [] p.stream = "bookTicker" -> BookTicker(p.data)
    BY <1>5 DEF parse_combined_event_frame, c
  <2>3. CASE p.stream = "!serverShutdown"
    <3>1. parse_combined_event_frame(p) = ShutdownStream(p.data)
      BY <2>2, <2>3
    <3>2. CASE p.data["e"] # "serverShutdown"
      BY <3>1, <3>2 DEF ShutdownStream, Error
    <3>3. CASE p.data["e"] = "serverShutdown"
      BY <2>3, <3>1, <3>3, DepthFacts DEF ShutdownStream
    <3> QED BY <3>2, <3>3
  <2>4. CASE p.stream = "depth"
    BY <2>2, <2>4, DepthFacts
  <2>5. CASE p.stream = "aggTrade"
    BY <2>2, <2>5, EventFacts
  <2>6. CASE p.stream = "bookTicker"
    BY <2>2, <2>6, EventFacts
  <2> QED BY <2>1, <2>3, <2>4, <2>5, <2>6
<1> QED BY <1>4, <1>5

\* What the handler makes of any payload, on any route.
LEMMA ParserFacts ==
    ASSUME route \in Routes, NEW p \in Payloads
    PROVE  LET v == Parsed(p) IN
           /\ v.kind \in {"error", "shutdown", "depth", "aggTrade", "bookTicker"}
           /\ v.kind \notin {"error", "shutdown"} =>
                /\ p.data["s"] = "own"
                /\ Combined => v.kind = p.stream
                /\ ~Combined => v.kind = "depth"
           /\ v.kind = "depth" =>
                /\ p.data["e"] = "depthUpdate"
                /\ p.data["pu"] # "absent" => route.market = "UsdM"
           /\ /\ v.kind = "error" /\ p.json
              /\ p.data["e"] = "serverShutdown" /\ p.data["E"] \in Unsigned
              => Combined /\ (\/ p.wrapped # "object"
                              \/ p.stream \notin {"!serverShutdown", "depth"})
<1>1. CASE Combined
  <2>1. Parsed(p) = parse_combined_event_frame(p)
    BY <1>1 DEF Parsed
  <2> QED BY <1>1, <2>1, CombinedFacts
<1>2. CASE ~Combined /\ route.market = "Spot"
  <2>1. Parsed(p) = parse_depth_frame(p)
    BY <1>2 DEF Parsed
  <2>2. CASE p.json
    <3>1. Parsed(p) = parse_depth_object(p.data)
      BY <2>1, <2>2 DEF parse_depth_frame
    <3> QED BY <1>2, <3>1, DepthFacts
  <2>3. CASE ~p.json
    BY <1>2, <2>1, <2>3 DEF parse_depth_frame, Error
  <2> QED BY <2>2, <2>3
<1>3. CASE ~Combined /\ route.market = "UsdM"
  <2>1. Parsed(p) = parse_usdm_depth_frame(p)
    BY <1>3 DEF Parsed
  <2> QED BY <1>3, <2>1, UsdmDepthFacts
<1> QED BY <1>1, <1>2, <1>3 DEF Routes

-----------------------------------------------------------------------------
(* The frame in hand.                                                        *)

\* The frame in hand is the one its verdict is about, and a verdict that is an
\* error has ended the connection.
InHandOK ==
    /\ route \in Routes
    /\ at \in {"reading", "publish", "submit", "count", "ended"}
    /\ at = "reading" => verdict.kind = "none"
    /\ at \in {"publish", "submit", "count"} =>
            /\ payload \in Payloads /\ verdict = Parsed(payload)
            /\ verdict.kind \notin {"error", "shutdown"}
    /\ verdict.kind = "error" =>
            at = "ended" /\ payload \in Payloads /\ verdict = Parsed(payload)

\* A frame that is received parses to something the handler knows.
LEMMA ReceivedShape ==
    ASSUME InHandOK, NEW p \in Inputs, Receives(p)
    PROVE  /\ at = "reading" /\ payload' = p /\ p \in Payloads
           /\ verdict' = Parsed(p) /\ received' = received + 1
           /\ UNCHANGED <<route, published, admitted, snapshot>>
           /\ \/ verdict'.kind \in {"error", "shutdown"} /\ at' = "ended"
              \/ /\ verdict'.kind \in {"depth", "aggTrade", "bookTicker"}
                 /\ at' = IF route.profile = "DepthOnly" THEN "submit"
                                                         ELSE "publish"
                 /\ UNCHANGED observation
<1>1. /\ at = "reading" /\ payload' = p /\ p \in Payloads
      /\ verdict' = Parsed(p) /\ received' = received + 1
      /\ UNCHANGED <<route, published, admitted, snapshot>>
  BY IntakeAssumption DEF Receives
<1>2. verdict'.kind \in {"error", "shutdown", "depth", "aggTrade", "bookTicker"}
  BY <1>1, ParserFacts DEF InHandOK
<1>3. CASE verdict'.kind = "error"
  BY <1>1, <1>3 DEF Receives, TerminalFailure
<1>4. CASE verdict'.kind = "shutdown"
  BY <1>1, <1>4 DEF Receives, TerminalFailure
<1>5. CASE verdict'.kind \in {"depth", "aggTrade", "bookTicker"}
  BY <1>1, <1>5 DEF Receives
<1> QED BY <1>1, <1>2, <1>3, <1>4, <1>5

\* The frame in hand stays what it is until it is counted.
LEMMA InHandStep ==
    ASSUME InHandOK, [Next]_vars PROVE InHandOK'
<1>1. ASSUME NEW p \in Inputs, Receives(p)
      PROVE  InHandOK'
  <2>1. Parsed(p)' = Parsed(p)
    BY <1>1, ReceivedShape DEF Parsed, Combined
  <2> QED BY <1>1, <2>1, ReceivedShape DEF InHandOK
<1>2. ASSUME UNCHANGED <<route, payload, verdict>>, at # "reading",
             at' \in {"submit", "count", "ended"}, at # "ended"
      PROVE  InHandOK'
  <2>1. Parsed(payload)' = Parsed(payload)
    BY <1>2 DEF Parsed, Combined
  <2> QED BY <1>2, <2>1 DEF InHandOK
<1>3. ASSUME NEW answer \in BOOLEAN, Publishes(answer) \/ Submits(answer)
      PROVE  InHandOK'
  BY <1>2, <1>3 DEF Publishes, Submits, TerminalFailure
<1>4. ASSUME NEW answer \in BOOLEAN, NEW p \in Inputs,
             ReceivesSnapshot(p, answer)
      PROVE  InHandOK'
  BY <1>4 DEF ReceivesSnapshot, TerminalFailure, InHandOK
<1>5. CASE Counts
  BY <1>5 DEF Counts, InHandOK, Event
<1>6. CASE UNCHANGED vars
  <2>1. Parsed(payload)' = Parsed(payload)
    BY <1>6 DEF vars, Parsed, Combined
  <2> QED BY <1>6, <2>1 DEF vars, InHandOK
<1> QED BY <1>1, <1>3, <1>4, <1>5, <1>6 DEF Next, Quiet

\* It holds when the connection is opened, and then always.
THEOREM InHandInvariant == Spec => []InHandOK
<1>1. Init => InHandOK
  BY DEF Init, InHandOK, Event
<1> QED BY <1>1, InHandStep, PTL DEF Spec

\* A frame is taken for what it is, whatever the exchange sends: nothing throws
\* out of the handler, what is delivered is of the symbol, the stream and the
\* market, and a serverShutdown notice ends the connection as one.
THEOREM UnderstoodTheorem == Spec => []FramesAreUnderstood
<1>1. InHandOK => FramesAreUnderstood
  <2> SUFFICES ASSUME InHandOK PROVE FramesAreUnderstood
    OBVIOUS
  <2>1. DeliversItsOwn
    BY ParserFacts DEF InHandOK, DeliversItsOwn
  <2>2. NoticeIsUnderstood
    BY ParserFacts DEF InHandOK, NoticeIsUnderstood
  <2> QED BY <2>1, <2>2 DEF FramesAreUnderstood, InHandOK
<1> QED BY <1>1, InHandInvariant, PTL

-----------------------------------------------------------------------------
(* What has been delivered.                                                  *)

Events == [kind : {"depth", "aggTrade", "bookTicker"}, frame : Nat]

Frames(log) == {event.frame : event \in ToSet(log)}

DepthFrames(log) ==
    {event.frame : event \in {event \in ToSet(log) : event.kind = "depth"}}

\* What is appended is added.
LEMMA AppendFacts ==
    ASSUME NEW S, NEW s \in Seq(S), NEW x \in S
    PROVE  ToSet(Append(s, x)) = ToSet(s) \cup {x}
<1> DEFINE t == Append(s, x)
<1>1. /\ DOMAIN s = 1..Len(s) /\ DOMAIN t = 1..(Len(s) + 1) /\ Len(s) \in Nat
      /\ \A i \in 1..Len(s) : t[i] = s[i]
      /\ t[Len(s) + 1] = x
  OBVIOUS
<1> HIDE DEF t
<1>2. ASSUME NEW y \in ToSet(t)
      PROVE  y \in ToSet(s) \cup {x}
  <2>1. PICK i \in 1..(Len(s) + 1) : y = t[i]
    BY <1>1 DEF ToSet
  <2>2. i \in 1..Len(s) \/ i = Len(s) + 1
    BY <1>1
  <2> QED BY <1>1, <2>1, <2>2 DEF ToSet
<1>3. ASSUME NEW y \in ToSet(s)
      PROVE  y \in ToSet(t)
  <2>1. PICK i \in 1..Len(s) : y = s[i]
    BY <1>1 DEF ToSet
  <2>2. i \in 1..(Len(s) + 1)
    BY <1>1
  <2> QED BY <1>1, <2>1, <2>2 DEF ToSet
<1>4. x \in ToSet(t)
  BY <1>1 DEF ToSet
<1>5. ToSet(t) = ToSet(s) \cup {x}
  BY <1>2, <1>3, <1>4
<1> QED BY <1>5 DEF t

\* The frames of a log that an event is appended to.
LEMMA LogFacts ==
    ASSUME NEW log \in Seq(Events), NEW event \in Events
    PROVE  /\ Frames(Append(log, event)) = Frames(log) \cup {event.frame}
           /\ DepthFrames(Append(log, event)) =
                DepthFrames(log)
                    \cup (IF event.kind = "depth" THEN {event.frame} ELSE {})
<1>1. ToSet(Append(log, event)) = ToSet(log) \cup {event}
  BY AppendFacts
<1> QED BY <1>1 DEF Frames, DepthFrames

\* Numbers that rise, and go on to rise.
LEMMA RisingFacts ==
    ASSUME NEW s \in Seq(Nat), NEW x \in Nat,
           \A i, j \in DOMAIN s : i < j => s[i] < s[j],
           \A y \in ToSet(s) : y < x
    PROVE  \A i, j \in DOMAIN Append(s, x) :
                i < j => Append(s, x)[i] < Append(s, x)[j]
<1> DEFINE t == Append(s, x)
<1>1. /\ DOMAIN s = 1..Len(s) /\ DOMAIN t = 1..(Len(s) + 1) /\ Len(s) \in Nat
      /\ \A i \in 1..Len(s) : t[i] = s[i] /\ s[i] \in ToSet(s)
      /\ t[Len(s) + 1] = x
  BY DEF ToSet
<1> HIDE DEF t
<1>2. ASSUME NEW i \in DOMAIN t, NEW j \in DOMAIN t, i < j
      PROVE  t[i] < t[j]
  <2>1. i \in 1..Len(s) /\ (j \in 1..Len(s) \/ j = Len(s) + 1)
    BY <1>1, <1>2
  <2> QED BY <1>1, <1>2, <2>1
<1> QED BY <1>2 DEF t

\* The same for the frames of events.
LEMMA RisingLogFacts ==
    ASSUME NEW s \in Seq(Events), NEW x \in Events,
           \A i, j \in DOMAIN s : i < j => s[i].frame < s[j].frame,
           \A y \in Frames(s) : y < x.frame
    PROVE  \A i, j \in DOMAIN Append(s, x) :
                i < j => Append(s, x)[i].frame < Append(s, x)[j].frame
<1> DEFINE t == Append(s, x)
<1>1. /\ DOMAIN s = 1..Len(s) /\ DOMAIN t = 1..(Len(s) + 1) /\ Len(s) \in Nat
      /\ \A i \in 1..Len(s) : t[i] = s[i] /\ s[i] \in ToSet(s)
      /\ t[Len(s) + 1] = x
  BY DEF ToSet
<1>2. \A i \in 1..Len(s) : s[i].frame \in Frames(s)
  BY <1>1 DEF Frames
<1> HIDE DEF t
<1>3. ASSUME NEW i \in DOMAIN t, NEW j \in DOMAIN t, i < j
      PROVE  t[i].frame < t[j].frame
  <2>1. i \in 1..Len(s) /\ (j \in 1..Len(s) \/ j = Len(s) + 1)
    BY <1>1, <1>3
  <2> QED BY <1>1, <1>2, <1>3, <2>1
<1> QED BY <1>3 DEF t

\* The observation's counts and flags have their types.
ObservationOK ==
    observation \in [depth : Nat, other : Nat, server_shutdown : BOOLEAN,
                     terminal_error : {"none", "ServerShutdown", "Protocol",
                                       "Internal", "RuntimeAdmission"}]

\* The counts, and the frames that have been delivered: all of them, but for the
\* one in hand.
LedgerOK ==
    /\ ObservationOK /\ received \in Nat
    /\ published \in Seq(Events) /\ admitted \in Seq(Nat)
    /\ at = "reading" => received = observation.depth + observation.other
    /\ at \in {"publish", "submit", "count"} =>
            received = observation.depth + observation.other + 1
    /\ route.profile = "DepthOnly" =>
            /\ at # "publish"
            /\ at \in {"reading", "count"} => ToSet(admitted) = 1..received
            /\ at = "submit" => ToSet(admitted) = 1..(received - 1)
    /\ route.profile # "DepthOnly" =>
            /\ at \in {"reading", "submit", "count"} =>
                    Frames(published) = 1..received
            /\ at = "publish" => Frames(published) = 1..(received - 1)

\* The book's updates are the stream's, in its order; what it has not got is in
\* hand, or was when the connection ended.
OrderOK ==
    route.profile # "DepthOnly" =>
        /\ BookFollowsEvents
        /\ at = "submit" =>
                received \in DepthFrames(published) \ ToSet(admitted)

\* An error leaves the observation one.
LEMMA FailureFacts ==
    ASSUME ObservationOK, NEW obs \in {observation,
                [observation EXCEPT !.server_shutdown = TRUE]},
           NEW code \in {"ServerShutdown", "Protocol", "Internal",
                         "RuntimeAdmission"},
           TerminalFailure(obs, code)
    PROVE  ObservationOK' /\ at' = "ended"
<1>1. obs \in [depth : Nat, other : Nat, server_shutdown : BOOLEAN,
               terminal_error : {"none", "ServerShutdown", "Protocol",
                                 "Internal", "RuntimeAdmission"}]
  BY DEF ObservationOK
<1> QED BY <1>1 DEF TerminalFailure, ObservationOK

\* Every frame is delivered and counted before the next is read.
LEMMA LedgerStep ==
    ASSUME InHandOK, LedgerOK, [Next]_vars PROVE LedgerOK'
<1>1. /\ ObservationOK /\ received \in Nat /\ published \in Seq(Events)
      /\ admitted \in Seq(Nat) /\ route \in Routes
      /\ observation.depth \in Nat /\ observation.other \in Nat
  BY DEF LedgerOK, InHandOK, ObservationOK
<1>2. ASSUME at' = "ended", ObservationOK', received' \in Nat,
             UNCHANGED <<route, published, admitted>>
      PROVE  LedgerOK'
  BY <1>1, <1>2 DEF LedgerOK
<1>3. ASSUME NEW p \in Inputs, Receives(p)
      PROVE  LedgerOK'
  <2>1. /\ at = "reading" /\ received' = received + 1
        /\ UNCHANGED <<route, published, admitted>>
    BY <1>3, ReceivedShape
  <2>2. CASE verdict'.kind \in {"error", "shutdown"}
    <3>1. CASE verdict'.kind = "error"
      <4>1. TerminalFailure(observation, "Protocol")
        BY <1>3, <3>1 DEF Receives
      <4> QED BY <1>1, <1>2, <2>1, <4>1, FailureFacts
    <3>2. CASE verdict'.kind = "shutdown"
      <4>1. TerminalFailure([observation EXCEPT !.server_shutdown = TRUE],
                            "ServerShutdown")
        BY <1>3, <3>2 DEF Receives
      <4> QED BY <1>1, <1>2, <2>1, <4>1, FailureFacts
    <3> QED BY <2>2, <3>1, <3>2
  <2>3. CASE /\ at' = IF route.profile = "DepthOnly" THEN "submit" ELSE "publish"
             /\ UNCHANGED observation
    <3>1. /\ received' \in Nat /\ received' - 1 = received
          /\ received' = observation.depth + observation.other + 1
      BY <1>1, <2>1 DEF LedgerOK
    <3>2. ObservationOK'
      BY <1>1, <2>3 DEF ObservationOK
    <3> QED BY <2>1, <2>3, <3>1, <3>2 DEF LedgerOK
  <2> QED BY <1>3, <2>2, <2>3, ReceivedShape
<1>4. ASSUME Publishes(FALSE) \/ Submits(FALSE)
      PROVE  LedgerOK'
  <2>1. /\ UNCHANGED <<route, received, published, admitted>>
        /\ \E code \in {"Internal", "RuntimeAdmission"} :
                TerminalFailure(observation, code)
    BY <1>4 DEF Publishes, Submits
  <2> QED BY <1>1, <1>2, <2>1, FailureFacts
<1>5. ASSUME Publishes(TRUE)
      PROVE  LedgerOK'
  <2> DEFINE event == [kind |-> verdict.kind, frame |-> received]
  <2>1. /\ at = "publish" /\ published' = Append(published, event)
        /\ at' \in {"submit", "count"}
        /\ UNCHANGED <<route, received, admitted, observation>>
    BY <1>5 DEF Publishes
  <2>2. event \in Events /\ event.frame = received
    <3>1. verdict.kind \in {"depth", "aggTrade", "bookTicker"}
      BY <2>1, ParserFacts DEF InHandOK
    <3> QED BY <1>1, <3>1 DEF Events
  <2> HIDE DEF event
  <2>3. published' \in Seq(Events)
    BY <1>1, <2>1, <2>2
  <2>4. Frames(published)' = Frames(published) \cup {received}
    BY <1>1, <2>1, <2>2, LogFacts DEF Frames
  <2>5. /\ route.profile # "DepthOnly" /\ Frames(published) = 1..(received - 1)
        /\ received = observation.depth + observation.other + 1
    BY <2>1 DEF LedgerOK
  <2>6. Frames(published)' = 1..received
    BY <1>1, <2>4, <2>5
  <2>7. ObservationOK'
    BY <1>1, <2>1 DEF ObservationOK
  <2> QED BY <1>1, <2>1, <2>3, <2>5, <2>6, <2>7 DEF LedgerOK
<1>6. ASSUME Submits(TRUE)
      PROVE  LedgerOK'
  <2>1. /\ at = "submit" /\ admitted' = Append(admitted, received)
        /\ at' = "count"
        /\ UNCHANGED <<route, received, published, observation>>
    BY <1>6 DEF Submits
  <2>2. admitted' \in Seq(Nat)
    BY <1>1, <2>1
  <2>3. ToSet(admitted)' = ToSet(admitted) \cup {received}
    BY <1>1, <2>1, AppendFacts
  <2>4. /\ received = observation.depth + observation.other + 1
        /\ route.profile = "DepthOnly" => ToSet(admitted) = 1..(received - 1)
        /\ route.profile # "DepthOnly" => Frames(published) = 1..received
    BY <2>1 DEF LedgerOK
  <2>5. route.profile = "DepthOnly" => ToSet(admitted)' = 1..received
    BY <1>1, <2>3, <2>4
  <2>6. ObservationOK' /\ Frames(published)' = Frames(published)
    BY <1>1, <2>1 DEF ObservationOK, Frames
  <2> QED BY <1>1, <2>1, <2>2, <2>4, <2>5, <2>6 DEF LedgerOK
<1>7. ASSUME NEW answer \in BOOLEAN, NEW p \in Inputs,
             ReceivesSnapshot(p, answer)
      PROVE  LedgerOK'
  <2>1. UNCHANGED <<route, received, published, admitted>>
    BY <1>7 DEF ReceivesSnapshot
  <2>2. \/ UNCHANGED <<at, observation>>
        \/ \E code \in {"Protocol", "RuntimeAdmission"} :
                TerminalFailure(observation, code)
    BY Zenon, <1>7 DEF ReceivesSnapshot
  <2>3. CASE UNCHANGED <<at, observation>>
    BY <2>1, <2>3 DEF LedgerOK, ObservationOK, Frames
  <2>4. CASE \E code \in {"Protocol", "RuntimeAdmission"} :
                TerminalFailure(observation, code)
    BY <1>1, <1>2, <2>1, <2>4, FailureFacts
  <2> QED BY <2>2, <2>3, <2>4
<1>8. CASE Counts
  <2>1. /\ at = "count" /\ at' = "reading"
        /\ UNCHANGED <<route, received, published, admitted>>
    BY <1>8 DEF Counts
  <2>2. Frames(published)' = Frames(published)
    BY <2>1 DEF Frames
  <2>3. CASE observation' = [observation EXCEPT !.depth = @ + 1]
    <3>1. /\ ObservationOK' /\ observation'.depth = observation.depth + 1
          /\ observation'.other = observation.other
      BY <1>1, <2>3 DEF ObservationOK
    <3>2. received = observation'.depth + observation'.other
      BY <1>1, <2>1, <3>1 DEF LedgerOK
    <3> QED BY <1>1, <2>1, <2>2, <3>1, <3>2 DEF LedgerOK
  <2>4. CASE observation' = [observation EXCEPT !.other = @ + 1]
    <3>1. /\ ObservationOK' /\ observation'.other = observation.other + 1
          /\ observation'.depth = observation.depth
      BY <1>1, <2>4 DEF ObservationOK
    <3>2. received = observation'.depth + observation'.other
      BY <1>1, <2>1, <3>1 DEF LedgerOK
    <3> QED BY <1>1, <2>1, <2>2, <3>1, <3>2 DEF LedgerOK
  <2> QED BY Zenon, <1>8, <2>3, <2>4 DEF Counts
<1>9. CASE UNCHANGED vars
  BY <1>9 DEF vars, LedgerOK, ObservationOK, Frames
<1> QED
  BY <1>3, <1>4, <1>5, <1>6, <1>7, <1>8, <1>9 DEF Next, Quiet

\* The book takes what the stream has just been given, or the connection ends.
LEMMA OrderStep ==
    ASSUME InHandOK, LedgerOK, OrderOK, [Next]_vars PROVE OrderOK'
<1> SUFFICES ASSUME route.profile # "DepthOnly"
             PROVE  OrderOK'
  <2>1. UNCHANGED route
    BY DEF Next, Receives, Publishes, Submits, ReceivesSnapshot, Counts,
       Quiet, vars
  <2> QED BY <2>1 DEF OrderOK
<1>1. /\ received \in Nat /\ published \in Seq(Events)
      /\ admitted \in Seq(Nat) /\ route \in Routes
      /\ at \in {"reading", "publish", "submit", "count", "ended"}
  BY DEF LedgerOK, InHandOK
<1>2. /\ ToSet(admitted) \subseteq DepthFrames(published)
      /\ DepthFrames(published) \ ToSet(admitted) \subseteq
            (IF at \in {"submit", "ended"} THEN {received} ELSE {})
      /\ \A i, j \in DOMAIN published :
            i < j => published[i].frame < published[j].frame
      /\ \A i, j \in DOMAIN admitted : i < j => admitted[i] < admitted[j]
      /\ at = "submit" =>
            received \in DepthFrames(published) \ ToSet(admitted)
  BY DEF OrderOK, BookFollowsEvents, DepthFrames
<1>3. DepthFrames(published) \subseteq Frames(published)
  BY DEF DepthFrames, Frames
\* Nothing is delivered: what was missing is still in hand.
<1>4. ASSUME UNCHANGED <<route, published, admitted>>,
             at' # "submit" \/ (at = "submit" /\ received' = received),
             \/ DepthFrames(published) \subseteq ToSet(admitted)
             \/ at' = "ended" /\ received' = received
             \/ at' = at /\ received' = received
      PROVE  OrderOK'
  <2>1. /\ ToSet(admitted)' = ToSet(admitted)
        /\ DepthFrames(published)' = DepthFrames(published)
    BY <1>4 DEF ToSet, DepthFrames
  <2>2. DepthFrames(published)' \ ToSet(admitted)' \subseteq
            (IF at' \in {"submit", "ended"} THEN {received'} ELSE {})
    BY <1>2, <1>4, <2>1
  <2>3. BookFollowsEvents'
    BY <1>2, <1>4, <2>1, <2>2 DEF BookFollowsEvents, DepthFrames
  <2>4. at' = "submit" =>
            received' \in DepthFrames(published)' \ ToSet(admitted)'
    BY <1>2, <1>4, <2>1
  <2> QED BY <2>3, <2>4 DEF OrderOK
<1>5. ASSUME NEW p \in Inputs, Receives(p)
      PROVE  OrderOK'
  <2>1. /\ at = "reading" /\ UNCHANGED <<route, published, admitted>>
        /\ at' \in {"ended", "publish"}
    BY <1>5, ReceivedShape
  <2>2. DepthFrames(published) \subseteq ToSet(admitted)
    BY <1>2, <2>1
  <2>3. at' # "submit"
    BY <2>1
  <2> QED BY Zenon, <1>4, <2>1, <2>2, <2>3
<1>6. ASSUME Publishes(FALSE) \/ Submits(FALSE) \/ Counts
      PROVE  OrderOK'
  BY <1>1, <1>2, <1>4, <1>6 DEF Publishes, Submits, Counts, TerminalFailure
<1>7. ASSUME Publishes(TRUE)
      PROVE  OrderOK'
  <2> DEFINE event == [kind |-> verdict.kind, frame |-> received]
  <2>1. /\ at = "publish" /\ published' = Append(published, event)
        /\ at' = IF verdict.kind = "depth" THEN "submit" ELSE "count"
        /\ UNCHANGED <<route, received, admitted>>
    BY <1>7 DEF Publishes
  <2>2. /\ event \in Events /\ event.frame = received
        /\ event.kind = verdict.kind
    <3>1. verdict.kind \in {"depth", "aggTrade", "bookTicker"}
      BY <2>1, ParserFacts DEF InHandOK
    <3> QED BY <1>1, <3>1 DEF Events
  <2> HIDE DEF event
  <2>3. \A y \in Frames(published) : y < received
    BY <1>1, <2>1 DEF LedgerOK
  <2>4. received \notin ToSet(admitted)
    BY <1>1, <1>2, <1>3, <2>3
  <2>5. DepthFrames(published)' =
            DepthFrames(published)
                \cup (IF verdict.kind = "depth" THEN {received} ELSE {})
    BY <1>1, <2>1, <2>2, LogFacts DEF DepthFrames
  <2>6. \A i, j \in DOMAIN published' :
            i < j => published'[i].frame < published'[j].frame
    BY <1>1, <1>2, <2>1, <2>2, <2>3, RisingLogFacts
  <2>7. ToSet(admitted)' = ToSet(admitted)
    BY <2>1 DEF ToSet
  <2>8. DepthFrames(published)' \ ToSet(admitted)' \subseteq
            (IF at' \in {"submit", "ended"} THEN {received'} ELSE {})
    BY <1>2, <2>1, <2>5, <2>7
  <2>9. ToSet(admitted)' \subseteq DepthFrames(published)'
    BY <1>2, <2>5, <2>7
  <2>10. BookFollowsEvents'
    BY <1>2, <2>1, <2>6, <2>8, <2>9 DEF BookFollowsEvents, DepthFrames
  <2>11. at' = "submit" =>
            received' \in DepthFrames(published)' \ ToSet(admitted)'
    BY <2>1, <2>4, <2>5, <2>7
  <2> QED BY <2>10, <2>11 DEF OrderOK
<1>8. ASSUME Submits(TRUE)
      PROVE  OrderOK'
  <2>1. /\ at = "submit" /\ admitted' = Append(admitted, received)
        /\ at' = "count" /\ UNCHANGED <<route, received, published>>
    BY <1>8 DEF Submits
  <2>2. ToSet(admitted)' = ToSet(admitted) \cup {received}
    BY <1>1, <2>1, AppendFacts
  <2>3. DepthFrames(published)' = DepthFrames(published)
    BY <2>1 DEF DepthFrames
  <2>4. \A y \in ToSet(admitted) : y < received
    <3>1. Frames(published) = 1..received
      BY <2>1 DEF LedgerOK
    <3> QED BY <1>1, <1>2, <1>3, <2>1, <3>1
  <2>5. \A i, j \in DOMAIN admitted' : i < j => admitted'[i] < admitted'[j]
    BY <1>1, <1>2, <2>1, <2>4, RisingFacts
  <2>6. /\ ToSet(admitted)' \subseteq DepthFrames(published)'
        /\ DepthFrames(published)' \ ToSet(admitted)' \subseteq {}
    BY <1>2, <2>1, <2>2, <2>3
  <2>7. BookFollowsEvents'
    BY <1>2, <2>1, <2>5, <2>6 DEF BookFollowsEvents, DepthFrames
  <2> QED BY <2>1, <2>7 DEF OrderOK
<1>9. ASSUME NEW answer \in BOOLEAN, NEW p \in Inputs,
             ReceivesSnapshot(p, answer)
      PROVE  OrderOK'
  <2>1. /\ at = "reading" /\ at' \in {"reading", "ended"}
        /\ UNCHANGED <<route, received, published, admitted>>
    BY <1>9 DEF ReceivesSnapshot, TerminalFailure
  <2> QED BY <1>2, <1>4, <2>1
<1>10. CASE UNCHANGED vars
  BY <1>4, <1>10 DEF vars
<1> QED
  BY <1>5, <1>6, <1>7, <1>8, <1>9, <1>10 DEF Next, Quiet

\* Both hold when the connection is opened, and then always.
THEOREM LedgerInvariant == Spec => [](LedgerOK /\ OrderOK)
<1>1. Init => LedgerOK /\ OrderOK
  <2> SUFFICES ASSUME Init PROVE LedgerOK /\ OrderOK
    OBVIOUS
  <2>1. /\ published = <<>> /\ admitted = <<>> /\ received = 0
        /\ at = "reading" /\ DOMAIN <<>> = {}
        /\ <<>> \in Seq(Events) /\ <<>> \in Seq(Nat)
    BY DEF Init
  <2>2. /\ ToSet(published) = {} /\ ToSet(admitted) = {}
    BY <2>1 DEF ToSet
  <2>3. Frames(published) = {} /\ DepthFrames(published) = {} /\ 1..0 = {}
    BY <2>2 DEF Frames, DepthFrames
  <2>4. /\ ObservationOK /\ observation.depth = 0 /\ observation.other = 0
    BY DEF Init, ObservationOK
  <2>5. LedgerOK
    BY <2>1, <2>2, <2>3, <2>4 DEF LedgerOK
  <2>6. OrderOK
    BY <2>1, <2>2, <2>3 DEF OrderOK, BookFollowsEvents, DepthFrames
  <2> QED BY <2>5, <2>6
<1>2. InHandOK /\ LedgerOK /\ OrderOK /\ [Next]_vars => (LedgerOK /\ OrderOK)'
  BY LedgerStep, OrderStep
<1> QED BY <1>1, <1>2, InHandInvariant, PTL DEF Spec

\* While the connection lives every frame but the one in hand has reached the
\* event publication, if there is one, and otherwise the runtime, and is counted.
THEOREM LossTheorem == Spec => []NoSilentLoss
<1>1. InHandOK /\ LedgerOK => NoSilentLoss
  BY DEF LedgerOK, NoSilentLoss, Frames
<1> QED BY <1>1, InHandInvariant, LedgerInvariant, PTL

\* The book takes its updates from the event stream, in the stream's order, and
\* is at most the one update in hand behind.
THEOREM FollowsTheorem == Spec => []BookFollowsEvents
<1>1. OrderOK => BookFollowsEvents
  BY DEF OrderOK, BookFollowsEvents
<1> QED BY <1>1, LedgerInvariant, PTL

=============================================================================
