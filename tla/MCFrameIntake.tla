---------------------------- MODULE MCFrameIntake ----------------------------
(***************************************************************************)
(* FrameIntake for TLC: the exchange sends well-formed messages and all    *)
(* that differ from one in one field or in the envelope.                   *)
(***************************************************************************)
EXTENDS FrameIntake, TLC

\* An object with the fields of f, and the others absent.
Object(f) == f @@ NoKeys

DepthUpdate ==
    Object([e |-> "depthUpdate", E |-> "uint", s |-> "own", U |-> "uint",
            u |-> "uint", b |-> "levels", a |-> "levels"])

UsdMUpdate ==
    Object([e |-> "depthUpdate", E |-> "uint", T |-> "uint", s |-> "own",
            ps |-> "own", st |-> "one", U |-> "uint", u |-> "uint",
            pu |-> "uint", b |-> "levels", a |-> "levels"])

Trade ==
    Object([e |-> "aggTrade", E |-> "uint", s |-> "own", a |-> "uint",
            p |-> "decimal", q |-> "decimal", f |-> "uint", l |-> "uint",
            T |-> "uint", m |-> "bool", M |-> "bool"])

Ticker ==
    Object([u |-> "uint", s |-> "own", b |-> "decimal", B |-> "zero",
            a |-> "decimal", A |-> "decimal"])

Notice == Object([e |-> "serverShutdown", E |-> "uint"])

Snapshot ==
    Object([lastUpdateId |-> "uint", bids |-> "levels", asks |-> "levels"])

WellFormed ==
    {DepthUpdate, UsdMUpdate, Trade, Ticker, Notice, Snapshot}

\* A field left out, of another type, of another market, symbol or event.
Deviations == {"absent", "other", "uint", "foreign", "zero", "badLevels",
               "depthUpdate", "serverShutdown"}

OneFieldOff ==
    {[o EXCEPT ![k] = v] : o \in WellFormed, k \in Keys, v \in Deviations}

MCInputs ==
    {[json |-> TRUE, stream |-> x, wrapped |-> "object", data |-> o] :
        x \in Streams, o \in OneFieldOff}
    \cup {[json |-> j, stream |-> x, wrapped |-> w, data |-> o] :
            j \in BOOLEAN, x \in Streams \cup {"absent", "other"},
            w \in {"absent", "other", "object"}, o \in WellFormed}
=============================================================================
