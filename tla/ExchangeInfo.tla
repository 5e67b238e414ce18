----------------------------- MODULE ExchangeInfo -----------------------------
(***************************************************************************)
(* What the gateway takes from an exchangeInfo document:                   *)
(* parse_exchange_info() and decimal_scale_from_quantum() of               *)
(* src/g4/spot_protocol.cpp and parse_usdm_exchange_info() of              *)
(* src/g11/usdm_protocol.cpp.                                              *)
(*                                                                         *)
(* A document says whether it is an object with an array of symbols, and   *)
(* is then a sequence of entries; an entry says whether it is an object    *)
(* with a string for its symbol, and whether its filters are an array; a   *)
(* filter whether there is a string for its size.  A quantum, the text of  *)
(* a size, says whether it is plain decimal syntax, and has the digits     *)
(* before and after its point.                                             *)
(***************************************************************************)
EXTENDS FiniteSetsExt, SequencesExt

CONSTANT MaxScale   \* the capacity of core::DecimalScale

ASSUME ScaleAssumption == MaxScale \in Nat

Quanta ==
    [plain : BOOLEAN, whole : Seq(0 .. 9), fraction : Seq(0 .. 9)]

Entries ==
    [valid : BOOLEAN, symbol : Nat, status : STRING, kind : STRING,
     array : BOOLEAN,
     filters : Seq([type : STRING, sized : BOOLEAN, size : Quanta])]

ExchangeDocuments == [valid : BOOLEAN, symbols : Seq(Entries)]

-----------------------------------------------------------------------------

Failure == [ok |-> FALSE, scales |-> <<>>]

Success(scales) == [ok |-> TRUE, scales |-> scales]

-----------------------------------------------------------------------------
(* Scales.                                                                   *)

\* Positions of the digits that are not zero.
Significant(digits) == {i \in DOMAIN digits : digits[i] # 0}

\* Counts the digits after the point, significant or not.
decimal_scale_of_text(quantum) ==
    LET significant == Significant(quantum.fraction)
    IN  IF \/ ~quantum.plain
           \/ Significant(quantum.whole) \cup significant = {}
           \/ Len(quantum.fraction) > MaxScale
        THEN Failure
        ELSE Success(<<Len(quantum.fraction)>>)

\* The position of the last significant digit after the point.  Zero is no
\* quantum.
decimal_scale_from_quantum(quantum) ==
    LET significant == Significant(quantum.fraction)
        scale == IF significant = {} THEN 0 ELSE Max(significant)
    IN  IF \/ ~quantum.plain
           \/ Significant(quantum.whole) \cup significant = {}
           \/ scale > MaxScale
        THEN Failure
        ELSE Success(<<scale>>)

-----------------------------------------------------------------------------
(* The search for the requested symbol.                                      *)

Listings(document, symbol) ==
    {i \in DOMAIN document.symbols : document.symbols[i].symbol = symbol}

\* The loop looks at every entry: one that is malformed spoils the document.
Usable(document) ==
    document.valid /\ \A i \in DOMAIN document.symbols : document.symbols[i].valid

ListedOnce(document, symbol) ==
    Usable(document) /\ Cardinality(Listings(document, symbol)) = 1

Listing(document, symbol) ==
    document.symbols[Min(Listings(document, symbol))]

\* status and isSpotTradingAllowed; contractType and status.
SpotAllowed(entry) == entry.status = "TRADING" /\ entry.kind = "spot"

UsdMAllowed(entry) == entry.kind = "PERPETUAL" /\ entry.status = "TRADING"

-----------------------------------------------------------------------------
(* The loop over the filters.                                                *)

Filters(entry, type) ==
    {i \in DOMAIN entry.filters : entry.filters[i].type = type}

\* Exactly one filter of the type, with a string for its size.
HasFilter(entry, type) ==
    /\ Cardinality(Filters(entry, type)) = 1
    /\ \A i \in Filters(entry, type) : entry.filters[i].sized

Scale(entry, type) ==
    decimal_scale_from_quantum(entry.filters[Min(Filters(entry, type))].size)

\* tickSize gives the price scale, stepSize the quantity scale.
NumericSpec(entry) ==
    IF \/ ~entry.array \/ Filters(entry, "invalid") # {}
       \/ \E type \in {"PRICE_FILTER", "LOT_SIZE"} : ~HasFilter(entry, type)
    THEN Failure
    ELSE LET price == Scale(entry, "PRICE_FILTER")
             quantity == Scale(entry, "LOT_SIZE")
         IN  IF price.ok /\ quantity.ok
             THEN Success(price.scales \o quantity.scales)
             ELSE Failure

parse_exchange_info(document, symbol) ==
    IF ~ListedOnce(document, symbol) THEN Failure
    ELSE IF ~SpotAllowed(Listing(document, symbol)) THEN Failure
    ELSE NumericSpec(Listing(document, symbol))

parse_usdm_exchange_info(document, symbol) ==
    IF ~ListedOnce(document, symbol) THEN Failure
    ELSE IF ~UsdMAllowed(Listing(document, symbol)) THEN Failure
    ELSE NumericSpec(Listing(document, symbol))
=============================================================================
