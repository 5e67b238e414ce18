----------------------- MODULE SubscriberSessionProofs -----------------------
(***************************************************************************)
(* Proofs about SubscriberSession for every queue capacity and every       *)
(* sequence limit: the types, that the handler's acknowledge() always      *)
(* finds the record the handler peeked, although the owner ran in between, *)
(* and that what the client reads is what OrderedDelivery promises.        *)
(*                                                                         *)
(* The second one rests on HeldStays: from the peek to the acknowledge the *)
(* record in the handler's hand is the head of the ring or, once the ring  *)
(* is empty, the terminal notice.  The owner cannot disturb either: it     *)
(* only appends behind the head, and it no longer appends once the channel *)
(* has a terminal notice, which it sets at most once (SlotsMatchState).    *)
(*                                                                         *)
(* The third one rests on LogOK: what was acknowledged and what is queued  *)
(* are together the first records of one fixed stream (Nth), in which the  *)
(* number of a record determines the rest of it; a notice takes the        *)
(* number behind all of them.                                              *)
(***************************************************************************)
EXTENDS SubscriberSession, TLAPS

\* The ring never holds a gap notice, and the terminal slot of a channel that
\* is not closed is filled exactly when the channel is no longer Active.
SlotsMatchState ==
    /\ \A i \in 1..Len(ch.ring) : ch.ring[i].kind \notin {"None", "Gap"}
    /\ ch.state = "Active" => ch.terminal = NoRecord
    /\ ch.state = "TerminalGap" => ch.terminal.kind = "Gap"

HeldStays ==
    pc \in {"write", "ack"} /\ ch.state # "Closed" =>
        \/ held.kind # "Gap" /\ ch.ring # <<>> /\ Head(ch.ring) = held
        \/ /\ held.kind = "Gap" /\ ch.ring = <<>> /\ ch.terminal = held
           /\ ch.state = "TerminalGap"

SessionInv == TypeOK /\ SlotsMatchState /\ HeldStays

\* The n-th record of a session that nothing cuts: versions follow each other,
\* so the sequence number determines the record.
Nth(n) ==
    IF n = 1 THEN AcceptedRecord
    ELSE IF n = 2 THEN SnapshotRecord(Generation, 0)
    ELSE UpdateRecord(n, Generation, n - 2)

\* The steps from which the handler may still write.
Serving == {"loop", "idle", "write", "ack"}

\* How many records the handler has written and acknowledged.
Acked == IF pc = "ack" THEN Len(delivered) - 1 ELSE Len(delivered)

\* Acknowledged and queued records are the stream's first ones, in order and
\* without a hole; the next number, or the notice's, is the one behind them; the
\* record in hand is the next one to be delivered, even of a closed channel.
LogOK ==
    pc \in Serving =>
        /\ Acked \in Nat
        /\ \A i \in 1..Acked : delivered[i] = Nth(i)
        /\ \A i \in 1..Len(ch.ring) : ch.ring[i] = Nth(Acked + i)
        /\ ch.state = "Active" =>
             ch.next = Acked + Len(ch.ring) + 1 /\ ch.next = book + 3
        /\ ch.state = "TerminalGap" =>
             ch.terminal.seq = Acked + Len(ch.ring) + 1 /\ ch.terminal.seq >= 3
        /\ pc \in {"write", "ack"} =>
             \/ held = Nth(Acked + 1)
             \/ held.kind = "Gap" /\ held.seq = Acked + 1 /\ held.seq >= 3
        /\ pc = "ack" => delivered[Len(delivered)] = held

-----------------------------------------------------------------------------
\* The constructors build records.
LEMMA RecordTypes ==
    /\ NoRecord \in Records /\ AcceptedRecord \in Records
    /\ \A gen, ver \in Nat : SnapshotRecord(gen, ver) \in Records
    /\ \A seq, gen, ver \in Nat : UpdateRecord(seq, gen, ver) \in Records
    /\ \A seq, gen \in Nat : \A reason \in Reasons :
            TerminalDescriptor(seq, gen, reason) \in Records
BY DEF Records, NoRecord, AcceptedRecord, SnapshotRecord, UpdateRecord,
       TerminalDescriptor, Kinds, Reasons

\* A staged session holds its two initial records and nothing is peeked.
LEMMA SessionInit == Init => SessionInv
<1> SUFFICES ASSUME Init PROVE SessionInv
  OBVIOUS
<1> DEFINE ring0 == <<AcceptedRecord, SnapshotRecord(Generation, 0)>>
<1>1. /\ ch = [state |-> "Active", ring |-> ring0, terminal |-> NoRecord,
               next |-> 3]
      /\ book = 0 /\ pc = "loop" /\ held = NoRecord /\ delivered = <<>>
  BY DEF Init, StageInitial, NewChannel
<1>2. AcceptedRecord \in Records /\ SnapshotRecord(Generation, 0) \in Records
  BY RecordTypes, SessionAssumption
<1>3. ring0 \in Seq(Records) /\ Len(ring0) = 2
  BY <1>2
<1>4. TypeOK
  BY <1>1, <1>3, RecordTypes, SessionAssumption, ChannelAssumption
     DEF TypeOK, Channels, ChannelStates, HandlerSteps
<1>5. SlotsMatchState /\ HeldStays
  <2>1. AcceptedRecord.kind = "Accepted"
        /\ SnapshotRecord(Generation, 0).kind = "Snapshot"
    BY DEF AcceptedRecord, SnapshotRecord
  <2>2. ASSUME NEW i \in 1..Len(ch.ring)
        PROVE  ch.ring[i].kind \notin {"None", "Gap"}
    <3>1. i = 1 \/ i = 2
      BY <1>1, <1>3
    <3> QED BY <1>1, <2>1, <3>1
  <2> QED BY <1>1, <2>2 DEF SlotsMatchState, HeldStays
<1> QED BY <1>4, <1>5 DEF SessionInv

\* terminalize() fills the terminal slot of an Active channel and leaves every
\* other channel alone; the ring is never touched.
LEMMA TerminalizeShape ==
    ASSUME NEW c \in Channels, c.state = "Active" => c.terminal = NoRecord,
           NEW reason \in Reasons, NEW gen \in Nat
    PROVE  LET t == Terminalize(c, reason, gen) IN
           /\ t \in Channels /\ t.ring = c.ring
           /\ c.state # "Active" => t = c
           /\ c.state = "Active" =>
                /\ t.state = "TerminalGap" /\ t.terminal.kind = "Gap"
                /\ t.terminal.seq = c.next
<1>1. TerminalDescriptor(c.next, gen, reason) \in Records
  BY RecordTypes, ChannelAssumption DEF Channels
<1>2. SaturatingNext(c) \in 1..MaxSequence
  BY ChannelAssumption DEF SaturatingNext, Channels
<1>3. CASE c.state # "Active"
  BY <1>3 DEF Terminalize
<1>4. CASE c.state = "Active"
  <2>1. Terminalize(c, reason, gen) =
            [c EXCEPT !.terminal = TerminalDescriptor(c.next, gen, reason),
                      !.next = SaturatingNext(c), !.state = "TerminalGap"]
    BY <1>4 DEF Terminalize
  <2>2. /\ TerminalDescriptor(c.next, gen, reason).kind = "Gap"
        /\ TerminalDescriptor(c.next, gen, reason).seq = c.next
    BY DEF TerminalDescriptor
  <2> QED BY <1>1, <1>2, <1>4, <2>1, <2>2 DEF Channels, ChannelStates
<1> QED BY <1>3, <1>4

\* admit_update() appends, or cuts a full channel, or leaves it alone.
LEMMA AdmitShape ==
    ASSUME NEW c \in Channels, Len(c.ring) <= QueueCapacity,
           NEW gen \in Nat, NEW ver \in Nat
    PROVE  LET u == AdmitUpdate(c, gen, ver) IN
           /\ u \in Channels /\ Len(u.ring) <= QueueCapacity
           /\ \/ /\ u = c
                 /\ c.state # "Active" \/ AdmitResult(c) = "AllocationFailure"
              \/ /\ c.state = "Active" /\ u.state = "Active"
                 /\ u.terminal = c.terminal /\ u.next = c.next + 1
                 /\ u.ring = Append(c.ring, UpdateRecord(c.next, gen, ver))
              \/ /\ c.state = "Active" /\ u.state = "TerminalGap"
                 /\ u.terminal.kind = "Gap" /\ u.ring = c.ring
                 /\ u.terminal.seq = c.next
<1> DEFINE new == UpdateRecord(c.next, gen, ver)
           notice == TerminalDescriptor(c.next, 0, "SlowConsumer")
<1>1. /\ new \in Records /\ notice \in Records /\ notice.kind = "Gap"
      /\ notice.seq = c.next
  <2>1. c.next \in Nat /\ "SlowConsumer" \in Reasons
    BY ChannelAssumption DEF Channels, Reasons
  <2>2. new \in Records /\ notice \in Records
    BY <2>1, RecordTypes
  <2> QED BY <2>2 DEF TerminalDescriptor
<1>2. CASE AdmitResult(c) = "Admitted"
  <2>1. AdmitUpdate(c, gen, ver) =
            [c EXCEPT !.ring = Append(c.ring, new), !.next = c.next + 1]
    BY <1>2 DEF AdmitUpdate
  <2>2. /\ c.state = "Active" /\ Len(c.ring) < QueueCapacity
        /\ c.next + 1 \in 1..MaxSequence
    BY <1>2, ChannelAssumption DEF AdmitResult, Channels
  <2>3. Append(c.ring, new) \in Seq(Records)
        /\ Len(Append(c.ring, new)) <= QueueCapacity
    BY <1>1, <2>2, ChannelAssumption DEF Channels
  <2> QED BY <2>1, <2>2, <2>3 DEF Channels
<1>3. CASE AdmitResult(c) = "Terminalized"
  <2>1. AdmitUpdate(c, gen, ver) =
            [c EXCEPT !.terminal = notice, !.next = SaturatingNext(c),
                      !.state = "TerminalGap"]
    BY <1>3 DEF AdmitUpdate
  <2>2. c.state = "Active"
    BY <1>3 DEF AdmitResult
  <2>3. SaturatingNext(c) \in 1..MaxSequence
    BY ChannelAssumption DEF SaturatingNext, Channels
  <2> QED BY <1>1, <2>1, <2>2, <2>3 DEF Channels, ChannelStates
<1>4. CASE AdmitResult(c) \notin {"Admitted", "Terminalized"}
  BY <1>4 DEF AdmitUpdate, AdmitResult
<1> QED BY <1>2, <1>3, <1>4

\* A push behind the head, a cut of an Active channel, or a close keeps what the
\* handler holds where acknowledge() looks for it.
LEMMA OwnerKeeps ==
    ASSUME SessionInv, ch' \in Channels, Len(ch'.ring) <= QueueCapacity,
           book' \in Nat, UNCHANGED <<pc, held, delivered>>,
           \/ ch' = ch
           \/ /\ ch.state = "Active" /\ ch'.state = "Active"
              /\ ch'.terminal = ch.terminal
              /\ \E r \in Records : r.kind \notin {"None", "Gap"}
                                   /\ ch'.ring = Append(ch.ring, r)
           \/ /\ ch.state = "Active" /\ ch'.state = "TerminalGap"
              /\ ch'.terminal.kind = "Gap" /\ ch'.ring = ch.ring
           \/ ch'.state = "Closed" /\ ch'.ring = ch.ring
    PROVE  SessionInv'
<1> USE DEF SessionInv
<1>1. TypeOK'
  BY DEF TypeOK
<1>2. ch.ring \in Seq(Records)
  BY DEF TypeOK, Channels
<1>3. CASE ch' = ch
  BY <1>1, <1>3 DEF SlotsMatchState, HeldStays
<1>4. ASSUME ch.state = "Active", ch'.state = "Active",
             ch'.terminal = ch.terminal,
             NEW r \in Records, r.kind \notin {"None", "Gap"},
             ch'.ring = Append(ch.ring, r)
      PROVE  SessionInv'
  <2>1. /\ Len(ch'.ring) = Len(ch.ring) + 1
        /\ \A i \in 1..Len(ch.ring) : ch'.ring[i] = ch.ring[i]
        /\ ch'.ring[Len(ch.ring) + 1] = r
    BY <1>2, <1>4
  <2>2. SlotsMatchState'
    <3>1. ASSUME NEW i \in 1..Len(ch'.ring)
          PROVE  ch'.ring[i].kind \notin {"None", "Gap"}
      <4>1. CASE i = Len(ch.ring) + 1
        BY <4>1, <2>1, <1>4
      <4>2. CASE i \in 1..Len(ch.ring)
        BY <4>2, <2>1 DEF SlotsMatchState
      <4> QED BY <4>1, <4>2, <2>1, <1>2
    <3> QED BY <1>4, <3>1 DEF SlotsMatchState
  <2>3. ch.ring # <<>> => Head(ch'.ring) = Head(ch.ring)
    BY <1>2, <2>1
  <2>4. ch'.ring # <<>>
    BY <1>2, <2>1
  <2>5. HeldStays'
    BY <1>4, <2>3, <2>4 DEF HeldStays
  <2> QED BY <1>1, <2>2, <2>5
<1>5. CASE /\ ch.state = "Active" /\ ch'.state = "TerminalGap"
           /\ ch'.terminal.kind = "Gap" /\ ch'.ring = ch.ring
  BY <1>1, <1>5 DEF SlotsMatchState, HeldStays
<1>6. CASE ch'.state = "Closed" /\ ch'.ring = ch.ring
  BY <1>1, <1>6 DEF SlotsMatchState, HeldStays
<1> QED BY <1>3, <1>4, <1>5, <1>6

\* SessionInv is inductive.
LEMMA SessionStep == SessionInv /\ [Next]_vars => SessionInv'
<1> SUFFICES ASSUME SessionInv, [Next]_vars PROVE SessionInv'
  OBVIOUS
<1> USE DEF SessionInv
<1>1. /\ ch \in Channels /\ Len(ch.ring) <= QueueCapacity /\ book \in Nat
      /\ ch.state = "Active" => ch.terminal = NoRecord
      /\ Generation \in Nat
      /\ ch.ring \in Seq(Records) /\ ch.terminal \in Records
  BY SessionAssumption DEF TypeOK, SlotsMatchState, Channels
<1>2. CASE OwnerPublish
  <2>1. book' \in Nat /\ UNCHANGED <<pc, held, delivered>>
    BY <1>1, <1>2 DEF OwnerPublish
  <2>2. CASE AdmitResult(ch) = "AllocationFailure"
    <3>1. ch' = Terminalize(ch, "ResumeNotAvailable", Generation)
      BY <1>2, <2>2 DEF OwnerPublish
    <3>2. "ResumeNotAvailable" \in Reasons
      BY DEF Reasons
    <3> QED BY <1>1, <2>1, <3>1, <3>2, TerminalizeShape, OwnerKeeps
  <2>3. CASE AdmitResult(ch) # "AllocationFailure"
    <3>1. ch' = AdmitUpdate(ch, Generation, book')
      BY <1>2, <2>3 DEF OwnerPublish
    <3>2. /\ UpdateRecord(ch.next, Generation, book') \in Records
          /\ UpdateRecord(ch.next, Generation, book').kind = "Update"
      <4>1. ch.next \in Nat
        BY <1>1, ChannelAssumption DEF Channels
      <4>2. UpdateRecord(ch.next, Generation, book') \in Records
        BY <1>1, <2>1, <4>1, RecordTypes
      <4> QED BY <4>2 DEF UpdateRecord
    <3> QED BY <1>1, <2>1, <3>1, <3>2, AdmitShape, OwnerKeeps
  <2> QED BY <2>2, <2>3
<1>3. CASE OwnerTerminalize
  <2>1. PICK reason \in {"UpstreamSequenceGap", "ResumeNotAvailable",
                         "GenerationChanged"} :
              ch' = Terminalize(ch, reason, Generation)
    BY <1>3 DEF OwnerTerminalize
  <2>2. reason \in Reasons
    BY DEF Reasons
  <2>3. UNCHANGED <<book, pc, held, delivered>>
    BY <1>3 DEF OwnerTerminalize
  <2> QED BY <1>1, <2>1, <2>2, <2>3, TerminalizeShape, OwnerKeeps
<1>4. CASE OwnerClose
  <2>1. ch' \in Channels /\ ch'.state = "Closed" /\ ch'.ring = ch.ring
    BY <1>1, <1>4 DEF OwnerClose, CloseFromOwner, Channels, ChannelStates
  <2> QED BY <1>1, <1>4, <2>1, OwnerKeeps DEF OwnerClose
<1>5. CASE HandlerPeek
  <2>1. /\ UNCHANGED <<ch, book, delivered>> /\ held' = Peek(ch)
        /\ pc' = IF held' = NoRecord THEN "idle" ELSE "write"
    BY <1>5 DEF HandlerPeek
  <2>2. held' \in Records
    BY <1>1, <2>1, RecordTypes DEF Peek
  <2>3. TypeOK'
    BY <2>1, <2>2 DEF TypeOK, HandlerSteps
  <2>4. HeldStays'
    <3>1. CASE ch.ring # <<>> /\ ch.state # "Closed"
      <4>1. held' = Head(ch.ring) /\ Head(ch.ring) = ch.ring[1]
            /\ 1 \in 1..Len(ch.ring)
        BY <1>1, <2>1, <3>1 DEF Peek
      <4> QED BY <2>1, <3>1, <4>1 DEF HeldStays, SlotsMatchState
    <3>2. CASE ch.ring = <<>> /\ ch.state # "Closed"
      <4>1. held' = ch.terminal /\ ch.state \in {"Active", "TerminalGap"}
        BY <1>1, <2>1, <3>2 DEF Peek, Channels, ChannelStates
      <4> QED BY <2>1, <3>2, <4>1 DEF HeldStays, SlotsMatchState
    <3>3. CASE ch.state = "Closed"
      BY <2>1, <3>3 DEF HeldStays
    <3> QED BY <3>1, <3>2, <3>3
  <2> QED BY <2>1, <2>3, <2>4 DEF SlotsMatchState
<1>6. CASE HandlerIdle \/ HandlerGivesUp
  <2>1. /\ UNCHANGED <<ch, book, held, delivered>>
        /\ pc' \in {"closing", "loop"}
    BY <1>6 DEF HandlerIdle, HandlerGivesUp
  <2> QED BY <2>1 DEF TypeOK, SlotsMatchState, HeldStays, HandlerSteps
<1>7. CASE HandlerWrite
  <2>1. /\ UNCHANGED <<ch, book, held>> /\ pc = "write" /\ pc' = "ack"
        /\ delivered' = Append(delivered, held)
    BY <1>7 DEF HandlerWrite
  <2> QED BY <2>1 DEF TypeOK, SlotsMatchState, HeldStays, HandlerSteps
<1>8. CASE HandlerAcknowledge
  <2>1. /\ UNCHANGED <<book, held, delivered>> /\ ch' = Acknowledge(ch, held)
        /\ pc' \in {"loop", "closing"}
    BY <1>8 DEF HandlerAcknowledge
  <2>2. /\ ch' \in Channels /\ Len(ch'.ring) <= QueueCapacity
        /\ SlotsMatchState'
    <3>1. CASE AcknowledgeResult(ch, held) = "Acknowledged"
      <4>1. ch.ring # <<>> /\ ch' = [ch EXCEPT !.ring = Tail(ch.ring)]
        BY <2>1, <3>1 DEF Acknowledge, AcknowledgeResult
      <4>2. /\ Tail(ch.ring) \in Seq(Records)
            /\ Len(Tail(ch.ring)) = Len(ch.ring) - 1
            /\ \A i \in 1..Len(Tail(ch.ring)) :
                    Tail(ch.ring)[i] = ch.ring[i + 1]
        BY <1>1, <4>1
      <4>3. ch' \in Channels /\ ch'.ring = Tail(ch.ring)
            /\ ch'.state = ch.state /\ ch'.terminal = ch.terminal
        BY <1>1, <4>1, <4>2 DEF Channels
      <4>4. \A i \in 1..Len(ch'.ring) : ch'.ring[i].kind \notin {"None", "Gap"}
        BY <1>1, <4>2, <4>3 DEF SlotsMatchState
      <4>5. Len(ch'.ring) <= QueueCapacity
        BY <1>1, <4>2, <4>3, ChannelAssumption
      <4> QED BY <4>3, <4>4, <4>5 DEF SlotsMatchState
    <3>2. CASE AcknowledgeResult(ch, held) = "Closed" /\ ch.state # "Closed"
      <4>1. ch' = [ch EXCEPT !.terminal = NoRecord, !.state = "Closed"]
        BY <2>1, <3>2 DEF Acknowledge
      <4> QED BY <1>1, <4>1, RecordTypes
              DEF Channels, ChannelStates, SlotsMatchState
    <3>3. CASE /\ AcknowledgeResult(ch, held) # "Acknowledged"
               /\ AcknowledgeResult(ch, held) = "Closed" => ch.state = "Closed"
      <4>1. ch' = ch
        BY <2>1, <3>3 DEF Acknowledge
      <4> QED BY <1>1, <4>1 DEF SlotsMatchState
    <3> QED BY <3>1, <3>2, <3>3
  <2> QED BY <2>1, <2>2 DEF TypeOK, HeldStays, HandlerSteps
<1>9. CASE HandlerClose
  <2>1. /\ UNCHANGED <<book, held, delivered>> /\ pc' = "done"
        /\ ch' = [ch EXCEPT !.state = "Closed", !.ring = <<>>,
                            !.terminal = NoRecord]
    BY <1>9 DEF HandlerClose, CloseFromWriter
  <2>2. ch' \in Channels /\ ch'.ring = <<>> /\ ch'.state = "Closed"
    <3>1. <<>> \in Seq(Records) /\ NoRecord \in Records
      BY RecordTypes
    <3>2. "Closed" \in ChannelStates
      BY DEF ChannelStates
    <3> QED BY <1>1, <2>1, <3>1, <3>2 DEF Channels
  <2> QED BY <2>1, <2>2, ChannelAssumption
          DEF TypeOK, SlotsMatchState, HeldStays, HandlerSteps
<1>10. CASE Finished \/ UNCHANGED vars
  BY <1>10 DEF Finished, vars, TypeOK, SlotsMatchState, HeldStays
<1> QED BY <1>2, <1>3, <1>4, <1>5, <1>6, <1>7, <1>8, <1>9, <1>10
        DEF Next, Handler

-----------------------------------------------------------------------------
\* SessionInv holds in every reachable state.
LEMMA SessionInvariant == Spec => []SessionInv
BY SessionInit, SessionStep, PTL DEF Spec

\* The ring never exceeds its capacity, sequences stay within the uint64 range
\* and the handler never leaves its loop's steps.
THEOREM TypeTheorem == Spec => []TypeOK
<1>1. SessionInv => TypeOK
  BY DEF SessionInv
<1> QED BY <1>1, SessionInvariant, PTL

\* "subscriber peek/ack invariant failed" is never returned: whatever the owner
\* did during the Write, acknowledge() finds the peeked record or a close.
THEOREM AcknowledgeTheorem == Spec => []AcknowledgeMatches
<1>1. SessionInv => AcknowledgeMatches
  <2> SUFFICES ASSUME SessionInv, pc = "ack"
               PROVE  AcknowledgeResult(ch, held) # "Mismatch"
    BY DEF AcknowledgeMatches
  <2>1. CASE ch.state = "Closed"
    BY <2>1 DEF AcknowledgeResult
  <2>2. CASE ch.state # "Closed"
    BY <2>2 DEF SessionInv, HeldStays, AcknowledgeResult
  <2> QED BY <2>1, <2>2
<1> QED BY <1>1, SessionInvariant, PTL

-----------------------------------------------------------------------------
(* Ordered delivery.                                                         *)

\* What the number of a record says of it.
LEMMA NthFacts ==
    ASSUME NEW n \in Nat, n >= 1
    PROVE  /\ Nth(n).seq = n /\ Nth(n).kind # "Gap"
           /\ n = 1 => Nth(n).kind = "Accepted"
           /\ n = 2 => Nth(n).kind = "Snapshot"
           /\ n >= 3 => Nth(n).kind = "Update"
           /\ n >= 2 => Nth(n).gen = Generation /\ Nth(n).ver = n - 2
BY DEF Nth, AcceptedRecord, SnapshotRecord, UpdateRecord

\* The two staged records begin the stream.
LEMMA LogInit == Init => LogOK
<1> SUFFICES ASSUME Init PROVE LogOK
  OBVIOUS
<1> DEFINE ring0 == <<AcceptedRecord, SnapshotRecord(Generation, 0)>>
<1>1. /\ ch = [state |-> "Active", ring |-> ring0, terminal |-> NoRecord,
               next |-> 3]
      /\ book = 0 /\ pc = "loop" /\ delivered = <<>>
  BY DEF Init, StageInitial, NewChannel
<1>2. Acked = 0 /\ Len(ring0) = 2
  BY <1>1 DEF Acked
<1>3. ASSUME NEW i \in 1..Len(ch.ring) PROVE ch.ring[i] = Nth(Acked + i)
  <2>1. i = 1 \/ i = 2
    BY <1>1, <1>2
  <2>2. ring0[1] = Nth(1) /\ ring0[2] = Nth(2)
    BY DEF Nth
  <2> QED BY <1>1, <1>2, <2>1, <2>2
<1> QED BY <1>1, <1>2, <1>3 DEF LogOK

\* What the owner does to a channel extends the stream, ends it or closes it.
LEMMA OwnerLogs ==
    ASSUME SessionInv, LogOK, UNCHANGED <<pc, held, delivered>>,
           \/ /\ ch'.state = "Active" /\ ch.state = "Active"
              /\ ch'.ring = Append(ch.ring, UpdateRecord(ch.next, Generation, book'))
              /\ ch'.next = ch.next + 1 /\ book' = book + 1
           \/ /\ ch.state = "Active" /\ ch'.state = "TerminalGap"
              /\ ch'.ring = ch.ring /\ ch'.terminal.seq = ch.next
           \/ ch' = ch /\ ch.state # "Active"
           \/ ch'.state = "Closed" /\ ch'.ring = ch.ring
    PROVE  LogOK'
<1>1. SUFFICES ASSUME pc \in Serving PROVE LogOK'
  BY DEF LogOK
<1>2. /\ Acked' = Acked /\ Acked \in Nat /\ ch.ring \in Seq(Records)
      /\ book \in Nat /\ Len(ch.ring) \in Nat
  BY <1>1 DEF Acked, LogOK, SessionInv, TypeOK, Channels
<1>3. CASE /\ ch'.state = "Active" /\ ch.state = "Active"
           /\ ch'.ring = Append(ch.ring, UpdateRecord(ch.next, Generation, book'))
           /\ ch'.next = ch.next + 1 /\ book' = book + 1
  <2>1. /\ Len(ch'.ring) = Len(ch.ring) + 1
        /\ \A i \in 1..Len(ch.ring) : ch'.ring[i] = ch.ring[i]
        /\ ch'.ring[Len(ch.ring) + 1] = UpdateRecord(ch.next, Generation, book')
    BY <1>2, <1>3
  <2>2. ch.next = Acked + Len(ch.ring) + 1 /\ ch.next = book + 3
    BY <1>1, <1>3 DEF LogOK
  <2>3. UpdateRecord(ch.next, Generation, book') = Nth(ch.next)
    BY <1>2, <1>3, <2>2 DEF Nth
  <2>4. ASSUME NEW i \in 1..Len(ch'.ring) PROVE ch'.ring[i] = Nth(Acked + i)
    <3>1. CASE i \in 1..Len(ch.ring)
      BY <1>1, <2>1, <3>1 DEF LogOK
    <3>2. CASE i = Len(ch.ring) + 1
      <4>1. Acked + i = ch.next
        BY <1>2, <2>2, <3>2
      <4> QED BY <2>1, <2>3, <3>2, <4>1
    <3> QED BY <1>2, <2>1, <3>1, <3>2
  <2>5. ch'.next = Acked + Len(ch'.ring) + 1 /\ ch'.next = book' + 3
    BY <1>2, <1>3, <2>1, <2>2
  <2> QED BY <1>1, <1>2, <1>3, <2>4, <2>5 DEF LogOK
<1>4. CASE /\ ch.state = "Active" /\ ch'.state = "TerminalGap"
           /\ ch'.ring = ch.ring /\ ch'.terminal.seq = ch.next
  <2>1. ch.next = Acked + Len(ch.ring) + 1 /\ ch.next = book + 3
    BY <1>1, <1>4 DEF LogOK
  <2>2. ch'.terminal.seq = Acked + Len(ch'.ring) + 1 /\ ch'.terminal.seq >= 3
    BY <1>2, <1>4, <2>1
  <2> QED BY <1>1, <1>2, <1>4, <2>2 DEF LogOK
<1>5. CASE ch' = ch /\ ch.state # "Active"
  BY <1>1, <1>2, <1>5 DEF LogOK
<1>6. CASE ch'.state = "Closed" /\ ch'.ring = ch.ring
  BY <1>1, <1>2, <1>6 DEF LogOK
<1> QED BY <1>3, <1>4, <1>5, <1>6

\* Every step keeps the log.
LEMMA LogStep ==
    ASSUME SessionInv, LogOK, [Next]_vars
    PROVE  LogOK'
<1>1. /\ ch \in Channels /\ Len(ch.ring) <= QueueCapacity /\ book \in Nat
      /\ ch.state = "Active" => ch.terminal = NoRecord
      /\ Generation \in Nat /\ delivered \in Seq(Records)
      /\ ch.ring \in Seq(Records) /\ ch.terminal \in Records
      /\ Len(delivered) \in Nat /\ Len(ch.ring) \in Nat
  BY SessionAssumption DEF SessionInv, TypeOK, SlotsMatchState, Channels
<1>2. CASE OwnerPublish
  <2>1. book' = book + 1 /\ book' \in Nat /\ UNCHANGED <<pc, held, delivered>>
    BY <1>1, <1>2 DEF OwnerPublish
  <2>2. CASE AdmitResult(ch) = "AllocationFailure"
    <3>1. ch' = Terminalize(ch, "ResumeNotAvailable", Generation)
      BY <1>2, <2>2 DEF OwnerPublish
    <3>2. "ResumeNotAvailable" \in Reasons
      BY DEF Reasons
    <3>3. ch.state = "Active"
      BY <2>2 DEF AdmitResult
    <3> QED BY <1>1, <2>1, <3>1, <3>2, <3>3, TerminalizeShape, OwnerLogs
  <2>3. CASE AdmitResult(ch) # "AllocationFailure"
    <3>1. ch' = AdmitUpdate(ch, Generation, book')
      BY <1>2, <2>3 DEF OwnerPublish
    <3> QED BY <1>1, <2>1, <2>3, <3>1, AdmitShape, OwnerLogs
  <2> QED BY <2>2, <2>3
<1>3. CASE OwnerTerminalize
  <2>1. PICK reason \in {"UpstreamSequenceGap", "ResumeNotAvailable",
                         "GenerationChanged"} :
              ch' = Terminalize(ch, reason, Generation)
    BY <1>3 DEF OwnerTerminalize
  <2>2. reason \in Reasons
    BY DEF Reasons
  <2>3. UNCHANGED <<book, pc, held, delivered>> /\ ch.state = "Active"
    BY <1>3 DEF OwnerTerminalize
  <2> QED BY <1>1, <2>1, <2>2, <2>3, TerminalizeShape, OwnerLogs
<1>4. CASE OwnerClose
  <2>1. ch'.state = "Closed" /\ ch'.ring = ch.ring
    BY <1>1, <1>4 DEF OwnerClose, CloseFromOwner, Channels
  <2> QED BY <1>4, <2>1, OwnerLogs DEF OwnerClose
<1>5. CASE HandlerPeek
  <2>1. /\ UNCHANGED <<ch, book, delivered>> /\ held' = Peek(ch) /\ pc = "loop"
        /\ pc' = IF held' = NoRecord THEN "idle" ELSE "write"
    BY <1>5 DEF HandlerPeek
  <2>2. Acked' = Acked /\ Acked \in Nat
    BY <1>1, <2>1 DEF Acked
  <2>3. ASSUME pc' = "write"
        PROVE  \/ held' = Nth(Acked + 1)
               \/ held'.kind = "Gap" /\ held'.seq = Acked + 1 /\ held'.seq >= 3
    <3>1. held' # NoRecord
      BY <2>1, <2>3
    <3>2. ch.state # "Closed"
      BY <2>1, <3>1 DEF Peek
    <3>3. CASE ch.ring # <<>>
      <4>1. held' = ch.ring[1] /\ 1 \in 1..Len(ch.ring)
        BY <1>1, <2>1, <3>2, <3>3 DEF Peek
      <4> QED BY <2>1, <4>1 DEF LogOK, Serving
    <3>4. CASE ch.ring = <<>>
      <4>1. held' = ch.terminal /\ ch.state = "TerminalGap" /\ Len(ch.ring) = 0
        BY <1>1, <2>1, <3>1, <3>2, <3>4 DEF Peek, Channels, ChannelStates
      <4>2. held'.kind = "Gap"
        BY <4>1 DEF SessionInv, SlotsMatchState
      <4> QED BY <2>1, <2>2, <4>1, <4>2 DEF LogOK, Serving
    <3> QED BY <3>3, <3>4
  <2>4. pc' # "ack" /\ pc \in Serving
    BY <2>1 DEF Serving
  <2> QED BY <2>1, <2>2, <2>3, <2>4 DEF LogOK
<1>6. CASE HandlerIdle \/ HandlerGivesUp
  <2>1. CASE pc' = "closing"
    BY <2>1 DEF LogOK, Serving
  <2>2. CASE pc' # "closing"
    <3>1. pc = "idle" /\ pc' = "loop" /\ UNCHANGED <<ch, book, held, delivered>>
      BY <1>6, <2>2 DEF HandlerIdle, HandlerGivesUp
    <3>2. Acked' = Acked
      BY <3>1 DEF Acked
    <3> QED BY <3>1, <3>2 DEF LogOK, Serving
  <2> QED BY <2>1, <2>2
<1>7. CASE HandlerWrite
  <2>1. /\ UNCHANGED <<ch, book, held>> /\ pc = "write" /\ pc' = "ack"
        /\ delivered' = Append(delivered, held)
    BY <1>7 DEF HandlerWrite
  <2>2. held \in Records
    BY DEF SessionInv, TypeOK
  <2>3. /\ Len(delivered') = Len(delivered) + 1
        /\ \A i \in 1..Len(delivered) : delivered'[i] = delivered[i]
        /\ delivered'[Len(delivered')] = held
    BY <1>1, <2>1, <2>2
  <2>4. Acked' = Acked /\ Acked = Len(delivered) /\ Acked \in Nat
    BY <1>1, <2>1, <2>3 DEF Acked
  <2>5. \A i \in 1..Acked : delivered'[i] = Nth(i)
    BY <2>1, <2>3, <2>4 DEF LogOK, Serving
  <2> QED BY <2>1, <2>3, <2>4, <2>5 DEF LogOK, Serving
<1>8. CASE HandlerAcknowledge
  <2>1. /\ UNCHANGED <<book, held, delivered>> /\ ch' = Acknowledge(ch, held)
        /\ pc = "ack" /\ pc' = IF AcknowledgeResult(ch, held) = "Acknowledged"
                               THEN "loop" ELSE "closing"
    BY <1>8 DEF HandlerAcknowledge
  <2>2. CASE AcknowledgeResult(ch, held) # "Acknowledged"
    BY <2>1, <2>2 DEF LogOK, Serving
  <2>3. CASE AcknowledgeResult(ch, held) = "Acknowledged"
    <3>1. /\ ch' = [ch EXCEPT !.ring = Tail(ch.ring)] /\ ch.state # "Closed"
          /\ ch.ring # <<>> /\ Head(ch.ring) = held
      BY <2>1, <2>3 DEF Acknowledge, AcknowledgeResult
    <3>2. /\ Len(Tail(ch.ring)) = Len(ch.ring) - 1 /\ Len(ch.ring) >= 1
          /\ \A i \in 1..Len(Tail(ch.ring)) : Tail(ch.ring)[i] = ch.ring[i + 1]
          /\ held = ch.ring[1]
      BY <1>1, <3>1
    <3>3. /\ ch'.ring = Tail(ch.ring) /\ ch'.state = ch.state
          /\ ch'.terminal = ch.terminal /\ ch'.next = ch.next
      BY <1>1, <3>1 DEF Channels
    <3>4. /\ Acked = Len(delivered) - 1 /\ Acked' = Acked + 1 /\ Acked \in Nat
          /\ pc \in Serving /\ pc' = "loop"
      BY <1>1, <2>1, <2>3 DEF Acked, LogOK, Serving
    <3>5. \A i \in 1..Acked' : delivered'[i] = Nth(i)
      <4>1. delivered[Len(delivered)] = Nth(Acked + 1)
        BY <2>1, <3>2, <3>4 DEF LogOK
      <4>2. \A i \in 1..Acked : delivered[i] = Nth(i)
        BY <3>4 DEF LogOK
      <4> QED BY <1>1, <2>1, <3>4, <4>1, <4>2
    <3>6. ASSUME NEW i \in 1..Len(ch'.ring) PROVE ch'.ring[i] = Nth(Acked' + i)
      <4>1. i + 1 \in 1..Len(ch.ring) /\ ch'.ring[i] = ch.ring[i + 1]
        BY <1>1, <3>2, <3>3
      <4>2. ch.ring[i + 1] = Nth(Acked + (i + 1))
        BY <3>4, <4>1 DEF LogOK
      <4>3. Acked + (i + 1) = Acked' + i
        BY <1>1, <3>2, <3>3, <3>4
      <4> QED BY <4>1, <4>2, <4>3
    <3>7. Acked' + Len(ch'.ring) = Acked + Len(ch.ring) /\ Acked' \in Nat
      BY <1>1, <3>2, <3>3, <3>4
    <3> QED BY <2>1, <3>3, <3>4, <3>5, <3>6, <3>7 DEF LogOK
  <2> QED BY <2>2, <2>3
<1>9. CASE HandlerClose
  BY <1>9 DEF HandlerClose, LogOK, Serving
<1>10. CASE Finished \/ UNCHANGED vars
  BY <1>10 DEF Finished, vars, LogOK, Acked
<1> QED BY <1>2, <1>3, <1>4, <1>5, <1>6, <1>7, <1>8, <1>9, <1>10
        DEF Next, Handler

\* The lengths OrderedDelivery tells apart.
LEMMA SmallLengths == \A n \in Nat : n = 0 \/ n = 1 \/ n >= 2
OBVIOUS

\* A Write is a delivery of OrderedDelivery, a return its end, and everything
\* else leaves the client's view alone.
LEMMA StepDelivers ==
    ASSUME SessionInv, LogOK, [Next]_vars
    PROVE  [Promise!Next]_(Promise!abstractVars)
<1>1. CASE HandlerWrite
  <2>1. /\ pc = "write" /\ pc' = "ack" /\ delivered' = Append(delivered, held)
        /\ held \in Records /\ delivered \in Seq(Records)
    BY <1>1 DEF HandlerWrite, SessionInv, TypeOK
  <2>2. /\ Len(delivered') = Len(delivered) + 1 /\ Len(delivered) \in Nat
        /\ delivered'[Len(delivered')] = held
        /\ \A i \in 1..Len(delivered) : delivered'[i] = delivered[i]
    BY <2>1
  <2>3. delivered = SubSeq(delivered', 1, Len(delivered))
    BY <2>1, <2>2
  <2>4. Acked = Len(delivered) /\ pc \in Serving
    BY <2>1 DEF Acked, Serving
  <2>5. \A i \in 1..Len(delivered) : delivered[i] = Nth(i)
    BY <2>4 DEF LogOK
  <2>6. \/ held = Nth(Len(delivered) + 1)
        \/ held.kind = "Gap" /\ held.seq = Len(delivered) + 1 /\ held.seq >= 3
    BY <2>1, <2>4 DEF LogOK
  <2>7. Promise!Follows(held)
    <3>1. CASE held.kind = "Gap"
      <4>1. held.seq = Len(delivered) + 1 /\ Len(delivered) >= 2
        BY <2>2, <2>6, <3>1, NthFacts
      <4>2. delivered[Len(delivered)].kind # "Gap"
        BY <2>2, <2>5, <4>1, NthFacts
      <4> QED BY <3>1, <4>1, <4>2 DEF Promise!Follows
    <3>2. CASE held.kind # "Gap"
      <4>1. held = Nth(Len(delivered) + 1)
        BY <2>6, <3>2
      <4>2. CASE Len(delivered) = 0
        <5>1. held.seq = 1 /\ held.kind = "Accepted"
          BY <4>1, <4>2, NthFacts
        <5> QED BY <4>2, <5>1 DEF Promise!Follows
      <4>3. CASE Len(delivered) = 1
        <5>1. held.seq = 2 /\ held.kind = "Snapshot"
          BY <4>1, <4>3, NthFacts
        <5> QED BY <4>3, <5>1 DEF Promise!Follows
      <4>4. CASE Len(delivered) >= 2
        <5>1. delivered[Len(delivered)] = Nth(Len(delivered))
          BY <2>2, <2>5, <4>4
        <5> QED BY <2>2, <4>1, <4>4, <5>1, NthFacts DEF Promise!Follows
      <4>5. Len(delivered) = 0 \/ Len(delivered) = 1 \/ Len(delivered) >= 2
        BY <2>2, SmallLengths
      <4> QED BY <4>2, <4>3, <4>4, <4>5
    <3> QED BY <3>1, <3>2
  <2> QED BY <2>1, <2>2, <2>3, <2>7 DEF Promise!Next, Promise!Deliver
<1>2. CASE HandlerClose
  BY <1>2 DEF HandlerClose, Promise!Next, Promise!Finish
<1>3. CASE ~HandlerWrite /\ ~HandlerClose
  <2>1. delivered' = delivered /\ (pc # "done") = (pc' # "done")
    BY <1>3 DEF Next, Handler, OwnerPublish, OwnerTerminalize, OwnerClose,
                HandlerPeek, HandlerIdle, HandlerAcknowledge, HandlerGivesUp,
                Finished, vars
  <2> QED BY <2>1 DEF Promise!abstractVars
<1> QED BY <1>1, <1>2, <1>3

\* Whatever the owner does while the handler writes, and wherever the handler
\* gives up, the client reads the acceptance, a snapshot and the book versions
\* that follow it, numbered without a hole, and nothing behind a gap notice.
THEOREM DeliveryTheorem == Spec => Delivery
<1>1. Init => SessionInv /\ LogOK /\ Promise!Init
  BY SessionInit, LogInit DEF Init, Promise!Init
<1>2. SessionInv /\ LogOK /\ [Next]_vars => SessionInv' /\ LogOK'
  BY SessionStep, LogStep
<1>3. SessionInv /\ LogOK /\ [Next]_vars =>
            [Promise!Next]_(Promise!abstractVars)
  BY StepDelivers
<1> QED BY <1>1, <1>2, <1>3, PTL DEF Spec, Delivery, Promise!Spec

=============================================================================
