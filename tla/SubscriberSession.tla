-------------------------- MODULE SubscriberSession --------------------------
(***************************************************************************)
(* One accepted order-book subscription: the runtime's owner thread pushes *)
(* into the channel while the session's synchronous gRPC handler           *)
(* (OrderBookGrpcService::SubscribeOrderBook) drains it.  The handler      *)
(* takes the channel's mutex three separate times per item - to peek, to   *)
(* read the state of an empty channel, to acknowledge - and writes to the  *)
(* network in between, so the owner can admit, terminalize or close at     *)
(* every one of those points.                                              *)
(***************************************************************************)
EXTENDS PublicationChannel

CONSTANTS
    Generation,   \* the connection generation the session was admitted in
    MaxUpdates    \* bound: updates the Projection applies during the run

ASSUME SessionAssumption ==
    /\ Generation \in Nat \ {0}
    /\ MaxUpdates \in Nat
    /\ QueueCapacity >= 2

VARIABLES
    ch,          \* the channel
    book,        \* version of the owner's Projection
    pc,          \* where the handler is
    held,        \* the publication it peeked
    delivered    \* what it wrote to the stream

vars == <<ch, book, pc, held, delivered>>

HandlerSteps == {"loop", "idle", "write", "ack", "closing", "done"}

\* The channel is handed to the handler with its two initial records staged.
Init ==
    /\ ch = StageInitial(NewChannel, Generation, 0)
    /\ book = 0
    /\ pc = "loop"
    /\ held = NoRecord
    /\ delivered = <<>>

-----------------------------------------------------------------------------
(* The owner.                                                                *)

\* An applied update reaches the channel.  When the sequence space is used up
\* the runtime faults, which terminalizes its sessions.
OwnerPublish ==
    /\ book < MaxUpdates
    /\ book' = book + 1
    /\ ch' = IF AdmitResult(ch) = "AllocationFailure"
             THEN Terminalize(ch, "ResumeNotAvailable", Generation)
             ELSE AdmitUpdate(ch, Generation, book')
    /\ UNCHANGED <<pc, held, delivered>>

\* Projection gap, runtime fault or planned reset.
OwnerTerminalize ==
    /\ ch.state = "Active"
    /\ \E reason \in {"UpstreamSequenceGap", "ResumeNotAvailable",
                      "GenerationChanged"} :
            ch' = Terminalize(ch, reason, Generation)
    /\ UNCHANGED <<book, pc, held, delivered>>

\* Publication shutdown.
OwnerClose ==
    /\ ch.state # "Closed"
    /\ ch' = CloseFromOwner(ch)
    /\ UNCHANGED <<book, pc, held, delivered>>

-----------------------------------------------------------------------------
(* The handler.                                                              *)

HandlerPeek ==
    /\ pc = "loop"
    /\ held' = Peek(ch)
    /\ pc' = IF held' = NoRecord THEN "idle" ELSE "write"
    /\ UNCHANGED <<ch, book, delivered>>

\* peek() found nothing; state() is read in a second critical section.
HandlerIdle ==
    /\ pc = "idle"
    /\ pc' = IF ch.state = "Closed" THEN "closing" ELSE "loop"
    /\ UNCHANGED <<ch, book, held, delivered>>

HandlerWrite ==
    /\ pc = "write"
    /\ delivered' = Append(delivered, held)
    /\ pc' = "ack"
    /\ UNCHANGED <<ch, book, held>>

HandlerAcknowledge ==
    /\ pc = "ack"
    /\ ch' = Acknowledge(ch, held)
    /\ pc' = IF AcknowledgeResult(ch, held) = "Acknowledged" THEN "loop"
                                                             ELSE "closing"
    /\ UNCHANGED <<book, held, delivered>>

\* IsCancelled() before the peek or after the write, or a failed Write.
HandlerGivesUp ==
    /\ pc \in {"loop", "write", "ack"}
    /\ pc' = "closing"
    /\ UNCHANGED <<ch, book, held, delivered>>

\* ~CloseSubscription
HandlerClose ==
    /\ pc = "closing"
    /\ ch' = CloseFromWriter(ch)
    /\ pc' = "done"
    /\ UNCHANGED <<book, held, delivered>>

Handler ==
    \/ HandlerPeek \/ HandlerIdle \/ HandlerWrite \/ HandlerAcknowledge
    \/ HandlerGivesUp \/ HandlerClose

\* The RPC has returned; the owner may keep a reference until its next sweep.
Finished == pc = "done" /\ UNCHANGED vars

Next == OwnerPublish \/ OwnerTerminalize \/ OwnerClose \/ Handler \/ Finished

Spec == Init /\ [][Next]_vars /\ WF_vars(Handler)

-----------------------------------------------------------------------------
(* Properties.                                                               *)

TypeOK ==
    /\ ch \in Channels
    /\ Len(ch.ring) <= QueueCapacity
    /\ book \in Nat
    /\ pc \in HandlerSteps
    /\ held \in Records
    /\ delivered \in Seq(Records)

\* The record the handler wrote is still the one acknowledge() compares with,
\* whatever the owner did during the Write: the only other answer is Closed.
\* ("subscriber peek/ack invariant failed" is never returned.)
AcknowledgeMatches == pc = "ack" => AcknowledgeResult(ch, held) # "Mismatch"

\* The stream keeps the promise of OrderedDelivery.
Promise == INSTANCE OrderedDelivery WITH open <- (pc # "done")

Delivery == Promise!Spec

=============================================================================
