-------------------------- MODULE SourceGeneration --------------------------
(***************************************************************************)
(* The source-generation gate of src/g9/event_publication.cpp as a data    *)
(* type: source_state_ and source_generation_, and for every lifecycle     *)
(* call the test that makes it return true and the gate after it.  A call  *)
(* that returns false leaves the gate alone.  EventPublication puts the    *)
(* subscriber channels behind it, RecoveryCoordinator drives it.           *)
(***************************************************************************)
EXTENDS Naturals

EventSourceStates ==
    {"Closed", "Open", "Quiesced", "PermanentlyClosed", "Shutdown"}

\* gen = 0 stands for the empty source_generation_.
Gates == [state : EventSourceStates, gen : Nat]

InitialGate == [state |-> "Closed", gen |-> 0]

\* open_generation(): only a Closed gate, and only for a newer generation.
MayOpen(gate, gen) == gate.state = "Closed" /\ gen > gate.gen

Opened(gate, gen) == [state |-> "Open", gen |-> gen]

\* quiesce_generation()
MayQuiesce(gate, gen) == gate.state = "Open" /\ gate.gen = gen

Quiesced(gate) == [gate EXCEPT !.state = "Quiesced"]

\* close_generation_replaced() and close_generation_permanently()
MayClose(gate, gen) == gate.state = "Quiesced" /\ gate.gen = gen

Replaced(gate) == [gate EXCEPT !.state = "Closed"]

PermanentlyClosed(gate) == [gate EXCEPT !.state = "PermanentlyClosed"]

ShutDown(gate) == [gate EXCEPT !.state = "Shutdown"]

\* A verdict that knows no event before the open of its generation.
PublishVerdictStrict(gate, gen) ==
    CASE gate.state = "Shutdown" -> "IgnoredBeforeOpen"
      [] gate.state = "Open" /\ gate.gen = gen -> "Published"
      [] OTHER -> "InvariantFailure"

\* What publish() answers before it looks at the channels.
PublishVerdict(gate, gen) ==
    CASE gate.state = "Shutdown" -> "IgnoredBeforeOpen"
      [] gate.state = "Closed" /\ gen > gate.gen -> "IgnoredBeforeOpen"
      [] gate.state = "Open" /\ gate.gen = gen -> "Published"
      [] OTHER -> "InvariantFailure"

=============================================================================
