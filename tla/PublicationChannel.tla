------------------------- MODULE PublicationChannel -------------------------
(***************************************************************************)
(* The bounded per-session queue of src/g7/order_book_publication.cpp as a *)
(* data type: one channel is a record, and every method of                 *)
(* SubscriberChannel is an operator from the channel before the call to    *)
(* the channel (and the result) after it.  Each method holds the channel's *)
(* mutex for its whole body, so each is one atomic step of whoever calls   *)
(* it.  SubscriberSession runs one channel against its gRPC handler,       *)
(* MarketRuntime keeps one per subscription.                               *)
(*                                                                         *)
(* The ring (ordinary_ring_, head_, size_) is the sequence of the records  *)
(* it holds; a payload is reduced to what tells two records apart.         *)
(***************************************************************************)
EXTENDS Naturals, Sequences

CONSTANTS
    QueueCapacity,   \* ordinary_capacity_ (64 in production)
    MaxSequence      \* the largest uint64 session sequence

\* The constructor rejects a zero capacity; sequences 1 and 2 are reserved for
\* the accepted record and the snapshot, so the counter has room for 3.
ASSUME ChannelAssumption ==
    /\ QueueCapacity \in Nat \ {0}
    /\ MaxSequence \in Nat
    /\ MaxSequence >= 3

-----------------------------------------------------------------------------
(* Records.  seq is session_sequence, gen the connection generation carried  *)
(* by the record (0: none), ver the Projection version the payload stands    *)
(* for, reason the gap reason of a terminal descriptor.                      *)

Kinds == {"None", "Accepted", "Snapshot", "Update", "Gap"}

Reasons == {"None", "SlowConsumer", "UpstreamSequenceGap",
            "ResumeNotAvailable", "GenerationChanged"}

Records ==
    [seq : Nat, kind : Kinds, gen : Nat, ver : Nat, reason : Reasons]

\* The empty PeekedPublication, and the empty terminal slot.
NoRecord ==
    [seq |-> 0, kind |-> "None", gen |-> 0, ver |-> 0, reason |-> "None"]

AcceptedRecord ==
    [seq |-> 1, kind |-> "Accepted", gen |-> 0, ver |-> 0, reason |-> "None"]

SnapshotRecord(gen, ver) ==
    [seq |-> 2, kind |-> "Snapshot", gen |-> gen, ver |-> ver,
     reason |-> "None"]

UpdateRecord(seq, gen, ver) ==
    [seq |-> seq, kind |-> "Update", gen |-> gen, ver |-> ver,
     reason |-> "None"]

TerminalDescriptor(seq, gen, reason) ==
    [seq |-> seq, kind |-> "Gap", gen |-> gen, ver |-> 0, reason |-> reason]

-----------------------------------------------------------------------------
ChannelStates == {"Active", "TerminalGap", "Closed"}

Channels ==
    [state : ChannelStates, ring : Seq(Records), terminal : Records,
     next : 1..MaxSequence]

NewChannel ==
    [state |-> "Active", ring |-> <<>>, terminal |-> NoRecord, next |-> 1]

\* if (next_session_sequence_ != max) ++next_session_sequence_
SaturatingNext(c) == IF c.next = MaxSequence THEN c.next ELSE c.next + 1

-----------------------------------------------------------------------------
(* Producer side: the runtime's owner thread.                                *)

CanStage(c) == c.state = "Active" /\ c.ring = <<>> /\ QueueCapacity >= 2

StageInitial(c, gen, ver) ==
    [c EXCEPT !.ring = <<AcceptedRecord, SnapshotRecord(gen, ver)>>,
              !.next = 3]

TerminalizeLeavingActive(c, reason, gen) ==
    IF c.state # "Active" \/ c.terminal # NoRecord
    THEN c
    ELSE [c EXCEPT !.terminal = TerminalDescriptor(c.next, gen, reason),
                   !.next = SaturatingNext(c)]

Terminalize(c, reason, gen) ==
    IF c.state # "Active" \/ c.terminal # NoRecord
    THEN c
    ELSE [c EXCEPT !.terminal = TerminalDescriptor(c.next, gen, reason),
                   !.next = SaturatingNext(c),
                   !.state = "TerminalGap"]

AdmitResult(c) ==
    CASE c.state # "Active" -> "Inactive"
      [] c.state = "Active" /\ Len(c.ring) = QueueCapacity -> "Terminalized"
      [] c.state = "Active" /\ Len(c.ring) # QueueCapacity
            /\ c.next = MaxSequence -> "AllocationFailure"
      [] OTHER -> "Admitted"

\* A slow consumer whose overflow notice takes no sequence of its own.
AdmitUpdateOverwritingTail(c, gen, ver) ==
    CASE AdmitResult(c) = "Admitted" ->
            [c EXCEPT !.ring = Append(@, UpdateRecord(c.next, gen, ver)),
                      !.next = c.next + 1]
      [] AdmitResult(c) = "Terminalized" ->
            [c EXCEPT !.ring = Append(Tail(@), UpdateRecord(c.next, gen, ver)),
                      !.next = SaturatingNext(c)]
      [] OTHER -> c

\* The failed item of a full ring consumes no sequence: the notice takes it.
AdmitUpdate(c, gen, ver) ==
    CASE AdmitResult(c) = "Admitted" ->
            [c EXCEPT !.ring = Append(@, UpdateRecord(c.next, gen, ver)),
                      !.next = c.next + 1]
      [] AdmitResult(c) = "Terminalized" ->
            [c EXCEPT !.terminal = TerminalDescriptor(c.next, 0, "SlowConsumer"),
                      !.next = SaturatingNext(c),
                      !.state = "TerminalGap"]
      [] OTHER -> c

\* close_from_owner keeps the ring: the handler may hold its head.
CloseFromOwner(c) == [c EXCEPT !.state = "Closed"]

-----------------------------------------------------------------------------
(* Consumer side: the subscription's one synchronous gRPC handler.           *)

Peek(c) ==
    CASE c.state = "Closed" -> NoRecord
      [] c.state # "Closed" /\ c.ring # <<>> -> Head(c.ring)
      [] OTHER -> c.terminal

AcknowledgeResult(c, held) ==
    CASE c.state = "Closed" -> "Closed"
      [] c.state # "Closed" /\ held.kind # "Gap" ->
            IF c.ring # <<>> /\ Head(c.ring) = held THEN "Acknowledged"
                                                    ELSE "Mismatch"
      [] OTHER ->
            IF c.ring = <<>> /\ c.terminal = held THEN "Closed" ELSE "Mismatch"

Acknowledge(c, held) ==
    CASE AcknowledgeResult(c, held) = "Acknowledged" ->
            [c EXCEPT !.ring = Tail(@)]
      [] AcknowledgeResult(c, held) = "Closed" /\ c.state # "Closed" ->
            [c EXCEPT !.terminal = NoRecord, !.state = "Closed"]
      [] OTHER -> c

\* close_from_writer also drops the ring and the terminal slot.
CloseFromWriter(c) ==
    [c EXCEPT !.state = "Closed", !.ring = <<>>, !.terminal = NoRecord]

=============================================================================
