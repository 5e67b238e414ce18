--------------------------- MODULE BinanceProtocol ---------------------------
(***************************************************************************)
(* The parsers of what Binance sends on a connection: Spot                 *)
(* (src/g4/spot_protocol.cpp) and USD-M (src/g11/usdm_protocol.cpp).       *)
(*                                                                         *)
(* A JSON object is a function from the keys that some parser looks at to  *)
(* what the parsers can tell apart about a value.  A root that is not an   *)
(* object answers every question as an object without keys does.  The      *)
(* requested symbol is one that a route can be made for and connection and *)
(* request ids are not empty: the constructor of the transport saw to it.  *)
(***************************************************************************)
EXTENDS FiniteSetsExt, Sequences

Keys == {"e", "E", "s", "U", "u", "pu", "ps", "st", "T", "b", "a", "B", "A",
         "p", "q", "f", "l", "m", "M", "lastUpdateId", "bids", "asks"}

\* Names of events; the requested symbol and another; a decimal that is positive
\* and one that is zero; any other text.
Strings == {"depthUpdate", "aggTrade", "serverShutdown", "own", "foreign",
            "decimal", "zero", "text"}

\* "one" is the number 1.
Unsigned == {"uint", "one"}

\* "levels": an array of pairs of strings; "badLevels": an array of other things.
Values == Strings \cup Unsigned
          \cup {"absent", "bool", "levels", "badLevels", "other"}

NoKeys == [k \in Keys |-> "absent"]

\* The symbol's three streams, the notice's own, and one nobody asked for.
Streams == {"depth", "aggTrade", "bookTicker", "!serverShutdown", "unknown"}

\* A payload: whether it decodes, the combined envelope, and the object inside.
Payloads ==
    [json : BOOLEAN, stream : Streams \cup {"absent", "other"},
     wrapped : {"absent", "other", "object"}, data : [Keys -> Values]]

Error(code) == [kind |-> "error", code |-> code]

Shutdown == [kind |-> "shutdown", code |-> "none"]

\* The parser throws std::bad_variant_access.
Throws == [kind |-> "throws", code |-> "none"]

Event(kind) == [kind |-> kind, code |-> "none"]

\* An update with the id that it follows on.
ChainedDepth == [kind |-> "depth", code |-> "chained"]

Check(fails, code) == [fails |-> fails, code |-> code]

\* The parsers return at the first check that fails.
FirstOf(checks, result) ==
    LET failed == {i \in DOMAIN checks : checks[i].fails}
    IN  IF failed = {} THEN result ELSE Error(checks[Min(failed)].code)

-----------------------------------------------------------------------------
(* Fields.                                                                   *)

has_required_keys(root, required) == \A k \in required : root[k] # "absent"

unsigned_field(root, k) == root[k] \in Unsigned

string_field(root, k) == root[k] \in Strings

boolean_field(root, k) == root[k] = "bool"

\* A key that may be left out.
Optional(root, k, valid) == root[k] = "absent" \/ valid

plain_decimal(value, allow_zero) ==
    value = "decimal" \/ (allow_zero /\ value = "zero")

append_levels(root, k) == root[k] = "levels"

-----------------------------------------------------------------------------
(* Depth updates.                                                            *)

NoticeChecks(root) ==
    <<Check(~has_required_keys(root, {"e", "E"}), "InvalidShape"),
      Check(~unsigned_field(root, "E"), "InvalidField")>>

ServerShutdown(root) == FirstOf(NoticeChecks(root), Shutdown)

DepthKeys == {"e", "E", "s", "U", "u", "b", "a"}

Sequenced(root) == \A k \in {"E", "U", "u"} : unsigned_field(root, k)

\* pu is a USD-M field: a Spot update does not have one.
DepthChecks(root) ==
    <<Check(~string_field(root, "e"), "InvalidField"),
      Check(root["e"] # "depthUpdate", "WrongEvent"),
      Check(~has_required_keys(root, DepthKeys) \/ root["pu"] # "absent",
            "InvalidShape"),
      Check(root["s"] # "own", "WrongSymbol"),
      Check(~Sequenced(root), "InvalidField"),
      Check(~append_levels(root, "b"), "InvalidField"),
      Check(~append_levels(root, "a"), "InvalidField")>>

parse_depth_object(root) ==
    IF root["e"] = "serverShutdown" THEN ServerShutdown(root)
    ELSE FirstOf(DepthChecks(root), Event("depth"))

parse_depth_frame(payload) ==
    IF payload.json THEN parse_depth_object(payload.data)
    ELSE Error("InvalidJson")

\* pair, symbol type, transaction time and previous id may be left out.
UsdmDepthChecks(root) ==
    <<Check(~string_field(root, "e"), "InvalidField"),
      Check(root["e"] # "depthUpdate", "WrongEvent"),
      Check(~has_required_keys(root, DepthKeys), "InvalidShape"),
      Check(root["s"] # "own", "WrongSymbol"),
      Check(~Optional(root, "ps", string_field(root, "ps")), "InvalidField"),
      Check(~Optional(root, "st", root["st"] = "one"), "InvalidMarketMetadata"),
      Check(~Sequenced(root), "InvalidField"),
      Check(~Optional(root, "T", unsigned_field(root, "T")), "InvalidField"),
      Check(~Optional(root, "pu", unsigned_field(root, "pu")), "InvalidField"),
      Check(~append_levels(root, "b"), "InvalidField"),
      Check(~append_levels(root, "a"), "InvalidField")>>

parse_usdm_depth_frame(payload) ==
    LET root == payload.data IN
    IF ~payload.json THEN Error("InvalidJson")
    ELSE IF root["e"] = "serverShutdown" THEN ServerShutdown(root)
    ELSE FirstOf(UsdmDepthChecks(root),
                 IF root["pu"] = "absent" THEN Event("depth") ELSE ChainedDepth)

-----------------------------------------------------------------------------
(* The combined stream of a Spot product.                                    *)

\* The branch for "!serverShutdown": std::get<ProtocolError> throws when the
\* nested parser returned an update.
ShutdownStream(data) ==
    LET nested == parse_depth_object(data)
    IN  IF data["e"] # "serverShutdown" THEN Error("WrongEvent")
        ELSE IF nested.kind \in {"shutdown", "error"} THEN nested ELSE Throws

AggTradeChecks(data) ==
    <<Check(~has_required_keys(data, {"e", "E", "s", "a", "p", "q", "f", "l",
                                      "T", "m", "M"}), "InvalidShape"),
      Check(data["e"] # "aggTrade", "WrongEvent"),
      Check(data["s"] # "own", "WrongSymbol"),
      Check(\/ \E k \in {"a", "f", "l", "E", "T"} : ~unsigned_field(data, k)
            \/ \E k \in {"p", "q"} : ~plain_decimal(data[k], FALSE)
            \/ \E k \in {"m", "M"} : ~boolean_field(data, k),
            "InvalidField")>>

AggTrade(data) == FirstOf(AggTradeChecks(data), Event("aggTrade"))

\* bookTicker has no event name; a side may be empty.
BookTickerChecks(data) ==
    <<Check(~has_required_keys(data, {"u", "s", "b", "B", "a", "A"}),
            "InvalidShape"),
      Check(data["s"] # "own", "WrongSymbol"),
      Check(\/ ~unsigned_field(data, "u")
            \/ \E k \in {"b", "a"} : ~plain_decimal(data[k], FALSE)
            \/ \E k \in {"B", "A"} : ~plain_decimal(data[k], TRUE),
            "InvalidField")>>

BookTicker(data) == FirstOf(BookTickerChecks(data), Event("bookTicker"))

\* The code before the notice's stream was known: only the product's own.
parse_combined_products_only(payload) ==
    CASE ~payload.json -> Error("InvalidJson")
      [] payload.json /\ payload.stream = "depth" -> parse_depth_object(payload.data)
      [] payload.json /\ payload.stream = "aggTrade" -> AggTrade(payload.data)
      [] payload.json /\ payload.stream = "bookTicker" -> BookTicker(payload.data)
      [] OTHER -> Error("WrongEvent")

EnvelopeChecks(payload) ==
    <<Check(~payload.json, "InvalidJson"),
      Check("absent" \in {payload.stream, payload.wrapped}, "InvalidShape"),
      Check("other" \in {payload.stream, payload.wrapped}, "InvalidField"),
      Check(payload.stream = "unknown", "WrongEvent")>>

parse_combined_event_frame(payload) ==
    LET envelope == FirstOf(EnvelopeChecks(payload), Event("envelope"))
    IN  IF envelope.kind = "error" THEN envelope
        ELSE CASE payload.stream = "!serverShutdown" -> ShutdownStream(payload.data)
               [] payload.stream = "depth" -> parse_depth_object(payload.data)
               [] payload.stream = "aggTrade" -> AggTrade(payload.data)
               [] payload.stream = "bookTicker" -> BookTicker(payload.data)

-----------------------------------------------------------------------------
(* REST depth snapshots.                                                     *)

SnapshotChecks(payload, optional) ==
    LET root == payload.data IN
    FirstOf(
        <<Check(~payload.json, "InvalidJson"),
          Check(~has_required_keys(root, {"lastUpdateId", "bids", "asks"}),
                "InvalidShape"),
          Check(~unsigned_field(root, "lastUpdateId"), "InvalidField"),
          Check(\E k \in optional : ~Optional(root, k, unsigned_field(root, k)),
                "InvalidField"),
          Check(~append_levels(root, "bids"), "InvalidField"),
          Check(~append_levels(root, "asks"), "InvalidField")>>,
        Event("snapshot"))

parse_depth_snapshot(payload) == SnapshotChecks(payload, {})

parse_usdm_depth_snapshot(payload) == SnapshotChecks(payload, {"E", "T"})
=============================================================================
