--------------------------- MODULE MCDaemonStartup ---------------------------
(***************************************************************************)
(* DaemonStartup for TLC: a few configurations of two symbols, and the     *)
(* documents that show what can be wrong with a listing.                   *)
(***************************************************************************)
EXTENDS DaemonStartup

Config(valid, spot, usdm) == [valid |-> valid, spot |-> spot, usdm |-> usdm]

\* Symbol 3 has no route; 1 is configured twice in some files.
MCConfigs ==
    {Config(TRUE, <<2, 1>>, <<1>>), Config(TRUE, <<1>>, <<>>),
     Config(TRUE, <<>>, <<1>>), Config(TRUE, <<3>>, <<>>),
     Config(TRUE, <<1, 2, 1>>, <<>>), Config(TRUE, <<>>, <<1, 1>>),
     Config(TRUE, <<>>, <<>>), Config(TRUE, <<1, 2>>, <<1, 2>>),
     Config(FALSE, <<1>>, <<1>>)}

Digits == {0, 1, 5}

\* Up to three digits after the point.
TickSizes ==
    {[plain |-> TRUE, whole |-> <<w>>, fraction |-> f] :
        w \in Digits, f \in UNION {[1 .. n -> Digits] : n \in 0 .. 3}}

Tenth == [plain |-> TRUE, whole |-> <<0>>, fraction |-> <<1, 0>>]

NotPlain == [plain |-> FALSE, whole |-> <<>>, fraction |-> <<>>]

Filter(type, size) == [type |-> type, sized |-> TRUE, size |-> size]

Tick(q) == Filter("PRICE_FILTER", q)

Step(q) == Filter("LOT_SIZE", q)

Entry(symbol, kind, filters) ==
    [valid |-> TRUE, symbol |-> symbol, status |-> "TRADING", kind |-> kind,
     array |-> TRUE, filters |-> filters]

Good(symbol, kind) == Entry(symbol, kind, <<Step(Tenth), Tick(Tenth)>>)

Document(symbols) == [valid |-> TRUE, symbols |-> symbols]

\* Filters that are missing, doubled, without a size or without a type.
FilterLists ==
    {<<Tick(Tenth)>>, <<Tick(Tenth), Tick(Tenth), Step(Tenth)>>,
     <<Filter("other", NotPlain), Step(Tenth), Tick(Tenth)>>,
     <<Tick(NotPlain), Step(Tenth)>>,
     <<[Tick(Tenth) EXCEPT !.sized = FALSE], Step(Tenth)>>,
     <<Filter("invalid", Tenth), Tick(Tenth), Step(Tenth)>>}

Odd(kind) ==
    {[Good(1, kind) EXCEPT !.status = "HALT"], [Good(1, kind) EXCEPT !.kind = "no"],
     [Good(1, kind) EXCEPT !.array = FALSE]}
    \cup {Entry(1, kind, f) : f \in FilterLists}

\* Listings of symbols 2 and 1, of 1 twice, of an entry that is no object.
Listed(kind) ==
    {[valid |-> FALSE, symbols |-> <<>>], Document(<<>>),
     Document(<<Good(2, kind), Good(1, kind)>>),
     Document(<<Good(1, kind), Good(2, kind), Good(1, kind)>>),
     Document(<<Good(1, kind), [Good(2, kind) EXCEPT !.valid = FALSE]>>)}
    \cup {Document(<<Good(2, kind), entry>>) : entry \in Odd(kind)}

MCDocuments ==
    <<Listed("spot") \cup {Document(<<Good(2, "spot"), Entry(1, "spot", f)>>) :
                             f \in {<<Tick(q), Step(Tenth)>> : q \in TickSizes}},
      Listed("PERPETUAL")>>

MCRoutable == {1, 2}
=============================================================================
