----------------------- MODULE EventPublicationProofs -----------------------
(***************************************************************************)
(* Proofs about EventPublication for any sets of sessions and streams and  *)
(* every limit: the types, that an Active session belongs to the open      *)
(* source and is listed, that a stream which ends with OK ended with a gap *)
(* notice or by the shutdown, and that what a client has read and what is  *)
(* queued for it is one unbroken run of its stream.                        *)
(*                                                                         *)
(* The argument is about one session's log, At(s, 1), ..., At(s, Total(s)):*)
(* the acknowledged records followed by the ring.  A write and its         *)
(* acknowledge only move the border between the two, because the record in *)
(* the handler's hand is still the head of the ring (HeldOK); the network  *)
(* thread only appends, with the next number (NoticeOK) and the next event *)
(* of the stream (CurrentOK); and the gate cannot open a generation while  *)
(* a session of an older one is Active (ActiveOK).                         *)
(***************************************************************************)
EXTENDS EventPublication, Integers, TLAPS

\* The handler serves the session's stream.
Handling == {"loop", "empty", "write", "ack"}

Live(s) == channels[s].state # "Closed" /\ rpc[s] \in Handling

\* The log of a session: what its handler wrote and acknowledged, then what is
\* in the ring.  A record that is written and not yet acknowledged is still in
\* the ring.
Acked(s) ==
    IF rpc[s] = "ack" THEN Len(delivered[s]) - 1 ELSE Len(delivered[s])

Total(s) == Acked(s) + Len(channels[s].ring)

At(s, k) ==
    IF k <= Acked(s) THEN delivered[s][k] ELSE channels[s].ring[k - Acked(s)]

\* The log is numbered 1, 2, 3, ..., holds no notice, and its events follow one
\* another within one generation.
LogOK(s) ==
    Live(s) =>
        \A k \in 1..Total(s) :
            /\ At(s, k).seq = k /\ At(s, k).kind \in {"Accepted", "Event"}
            /\ At(s, k).kind = "Accepted" => At(s, k).event = 0
            /\ At(s, k).kind = "Event" => At(s, k).gen = channels[s].gen
            /\ k >= 2 /\ At(s, k).kind = "Event" /\ At(s, k - 1).kind = "Event"
                    => At(s, k).event = At(s, k - 1).event + 1

\* An Active channel is of a stream.  Only a TerminalGap channel has a notice;
\* it and the next event take the number behind the log.
NoticeOK(s) ==
    LET c == channels[s] IN
    /\ c.state = "Active" => c.stream \in Streams
    /\ c.state \in {"Active", "TerminalUnavailable"} => c.terminal = NoRecord
    /\ Live(s) /\ c.state = "Active" => c.next = Total(s) + 1
    /\ Live(s) /\ c.state = "TerminalGap" =>
            c.terminal.kind = "Gap" /\ c.terminal.seq = Total(s) + 1

\* From the peek to the acknowledge the handler holds the oldest record of the
\* ring or, once the ring is empty, the notice.
HeldOK(s) ==
    LET c == channels[s] IN
    Live(s) /\ rpc[s] \in {"write", "ack"} =>
        \/ Len(c.ring) >= 1 /\ held[s] = c.ring[1]
        \/ Len(c.ring) = 0 /\ held[s] = c.terminal /\ c.state = "TerminalGap"

WrittenOK(s) ==
    rpc[s] = "ack" =>
        Len(delivered[s]) >= 1 /\ delivered[s][Len(delivered[s])] = held[s]

\* A session without a running handler has an empty, closed channel.
FreshOK(s) ==
    /\ rpc[s] = "idle" => delivered[s] = <<>>
    /\ rpc[s] \in {"idle", "remove", "done"} => channels[s].state = "Closed"

SessionOK(s) ==
    LogOK(s) /\ NoticeOK(s) /\ HeldOK(s) /\ WrittenOK(s) /\ FreshOK(s)

\* While the transport runs an Active session has every event of its stream.
CurrentOK(s) ==
    Live(s) /\ channels[s].state = "Active" /\ feed /\ Total(s) >= 1 =>
        (At(s, Total(s)).kind = "Event" =>
            At(s, Total(s)).event = count[channels[s].stream])

\* Only the shutdown closes a channel under its handler.
ClosedOK(s) ==
    rpc[s] \in Handling /\ channels[s].state = "Closed" =>
        gate.state = "Shutdown"

ActiveOK(s) ==
    channels[s].state = "Active" =>
        /\ gate.state \in {"Open", "Quiesced"}
        /\ channels[s].gen = gate.gen
        /\ Resident(s)

EndOK(s) ==
    status[s] = "OK" /\ rpc[s] \in {"close", "remove"} =>
        \/ gate.state = "Shutdown"
        \/ /\ Len(delivered[s]) >= 1
           /\ delivered[s][Len(delivered[s])].kind = "Gap"

IInv ==
    /\ TypeOK
    /\ \A s \in Sessions : SessionOK(s) /\ CurrentOK(s) /\ ClosedOK(s)
                           /\ ActiveOK(s) /\ EndOK(s)

-----------------------------------------------------------------------------
\* The constructors build records.
LEMMA RecordTypes ==
    /\ NoRecord \in Records /\ AcceptedRecord \in Records
    /\ \A seq, gen, n \in Nat : EventRecord(seq, gen, n) \in Records
    /\ \A seq, gen \in Nat : \A reason \in Reasons :
            GapDescriptor(seq, gen, reason) \in Records
BY DEF Records, NoRecord, AcceptedRecord, EventRecord, GapDescriptor, Kinds,
       Reasons

\* What TypeOK says of one session.
LEMMA SessionTypes ==
    ASSUME TypeOK, NEW s \in Sessions
    PROVE  /\ channels[s] \in Channels /\ channels[s].ring \in Seq(Records)
           /\ channels[s].terminal \in Records
           /\ channels[s].next \in Nat /\ channels[s].next <= MaxSequence
           /\ channels[s].gen \in Nat /\ Len(channels[s].ring) \in Nat
           /\ held[s] \in Records /\ delivered[s] \in Seq(Records)
           /\ Len(delivered[s]) \in Nat
BY EventAssumption DEF TypeOK, Channels

\* Nothing about the session moves.
LEMMA Untouched ==
    ASSUME NEW s \in Sessions, SessionOK(s),
           channels'[s] = channels[s], rpc'[s] = rpc[s],
           held'[s] = held[s], delivered'[s] = delivered[s]
    PROVE  SessionOK(s)' /\ (Total(s)' = Total(s))
           /\ (\A k : At(s, k)' = At(s, k)) /\ (Live(s)' <=> Live(s))
<1>1. Acked(s)' = Acked(s) /\ Total(s)' = Total(s)
  BY DEF Acked, Total
<1>2. \A k : At(s, k)' = At(s, k)
  BY <1>1 DEF At
<1>3. Live(s)' <=> Live(s)
  BY DEF Live
<1>4. LogOK(s)'
  BY <1>1, <1>2, <1>3 DEF SessionOK, LogOK
<1>5. NoticeOK(s)' /\ HeldOK(s)' /\ WrittenOK(s)' /\ FreshOK(s)'
  BY <1>1, <1>3 DEF SessionOK, NoticeOK, HeldOK, WrittenOK, FreshOK
<1> QED BY <1>1, <1>2, <1>3, <1>4, <1>5 DEF SessionOK

\* A channel that keeps its ring and gets no record keeps its log.
LEMMA HubKeeps ==
    ASSUME TypeOK, NEW s \in Sessions, SessionOK(s),
           rpc'[s] = rpc[s], held'[s] = held[s], delivered'[s] = delivered[s],
           channels'[s] \in Channels, channels'[s].ring = channels[s].ring,
           channels'[s].gen = channels[s].gen,
           \/ channels'[s].state = "Closed"
           \/ /\ channels[s].state = "Active"
              /\ channels'[s].state = "TerminalUnavailable"
              /\ channels'[s].terminal = channels[s].terminal
           \/ /\ channels[s].state = "Active"
              /\ channels'[s].state = "TerminalGap"
              /\ channels'[s].terminal.kind = "Gap"
              /\ channels'[s].terminal.seq = channels[s].next
    PROVE  SessionOK(s)'
<1>1. Acked(s)' = Acked(s) /\ Total(s)' = Total(s)
  BY DEF Acked, Total
<1>2. \A k : At(s, k)' = At(s, k)
  BY <1>1 DEF At
<1>3. LogOK(s)'
  BY <1>1, <1>2 DEF SessionOK, LogOK, Live
<1>4. NoticeOK(s)'
  BY <1>1 DEF SessionOK, NoticeOK, Live
<1>5. HeldOK(s)'
  BY <1>1, SessionTypes, RecordTypes DEF SessionOK, HeldOK, NoticeOK, Live
<1>6. WrittenOK(s)' /\ FreshOK(s)'
  BY DEF SessionOK, WrittenOK, FreshOK
<1> QED BY <1>3, <1>4, <1>5, <1>6 DEF SessionOK

\* What is acknowledged and what is queued are counts.
LEMMA Counts ==
    ASSUME TypeOK, NEW s \in Sessions, SessionOK(s)
    PROVE  /\ Acked(s) \in Nat /\ Total(s) \in Nat /\ Acked(s) <= Total(s)
           /\ Total(s) = Acked(s) + Len(channels[s].ring)
<1>1. Len(delivered[s]) \in Nat /\ Len(channels[s].ring) \in Nat
  BY SessionTypes
<1>2. rpc[s] = "ack" => Len(delivered[s]) >= 1
  BY DEF SessionOK, WrittenOK
<1>3. Acked(s) \in Nat
  BY <1>1, <1>2 DEF Acked
<1> QED BY <1>1, <1>3 DEF Total

\* Where a sequence grows.
LEMMA BehindTheLast ==
    /\ \A a, l \in Nat : ~((a + l) + 1 <= a) /\ ((a + l) + 1) - a = l + 1
    /\ \A t \in Nat : \A k \in 1..(t + 1) : k \in 1..t \/ k = t + 1
OBVIOUS

\* Where an element is after the head has left.
LEMMA BehindTheHead ==
    ASSUME NEW a \in Nat, NEW l \in Nat, NEW k \in Nat, k > a + 1, k <= a + l
    PROVE  /\ ~(k <= a + 1) /\ ~(k <= a) /\ k - (a + 1) \in 1..(l - 1)
           /\ (k - (a + 1)) + 1 = k - a
OBVIOUS

\* The ring of an Active channel with one more record.
GrownBy(s, new) ==
    LET c == channels[s] IN
    /\ c.state = "Active" /\ channels'[s].state = "Active"
    /\ channels'[s].terminal = c.terminal /\ channels'[s].gen = c.gen
    /\ channels'[s].next = c.next + 1 /\ channels'[s].stream = c.stream
    /\ Len(channels'[s].ring) = Len(c.ring) + 1
    /\ \A i \in 1..Len(c.ring) : channels'[s].ring[i] = c.ring[i]
    /\ channels'[s].ring[Len(c.ring) + 1] = new

\* The record of event n, which follows the session's log.
EventOf(s, new, n) ==
    /\ new.seq = channels[s].next /\ new.kind = "Event"
    /\ new.gen = channels[s].gen /\ new.event = n
    /\ Live(s) /\ Total(s) >= 1 /\ At(s, Total(s)).kind = "Event" =>
            n = At(s, Total(s)).event + 1

\* admit_event() appends the next event of the stream to an Active channel.
LEMMA AppendKeeps ==
    ASSUME TypeOK, NEW s \in Sessions, SessionOK(s), NEW n \in Nat, NEW new,
           rpc'[s] = rpc[s], held'[s] = held[s], delivered'[s] = delivered[s],
           GrownBy(s, new), EventOf(s, new, n)
    PROVE  /\ SessionOK(s)'
           /\ Live(s) => At(s, Total(s))'.event = n
<1>1. Len(channels[s].ring) \in Nat /\ channels[s].next \in Nat
  BY SessionTypes
<1>2. /\ Acked(s) \in Nat /\ Total(s) \in Nat
      /\ Total(s) = Acked(s) + Len(channels[s].ring)
  BY Counts
<1>3. Acked(s)' = Acked(s) /\ Total(s)' = Total(s) + 1
  <2>1. Acked(s)' = Acked(s)
    BY DEF Acked
  <2>2. Len(channels'[s].ring) = Len(channels[s].ring) + 1
    BY DEF GrownBy
  <2> QED BY <1>1, <1>2, <2>1, <2>2 DEF Total
<1>4. \A k \in 1..Total(s) : At(s, k)' = At(s, k)
  <2> SUFFICES ASSUME NEW k \in 1..Total(s) PROVE At(s, k)' = At(s, k)
    OBVIOUS
  <2>1. CASE k <= Acked(s)
    BY <1>3, <2>1 DEF At
  <2>2. CASE ~(k <= Acked(s))
    <3>1. k - Acked(s) \in 1..Len(channels[s].ring)
      BY <1>1, <1>2, <2>2
    <3> QED BY <1>3, <2>2, <3>1 DEF At, GrownBy
  <2> QED BY <2>1, <2>2
<1>5. \A k : k = Total(s) + 1 => At(s, k)' = new
  <2> SUFFICES ASSUME NEW k, k = Total(s) + 1 PROVE At(s, k)' = new
    OBVIOUS
  <2>1. ~(k <= Acked(s)) /\ k - Acked(s) = Len(channels[s].ring) + 1
    BY <1>1, <1>2, BehindTheLast
  <2> QED BY <1>3, <2>1 DEF At, GrownBy
<1>6. LogOK(s)'
  <2> SUFFICES ASSUME Live(s)', NEW k \in 1..(Total(s)')
               PROVE  /\ At(s, k)'.seq = k
                      /\ At(s, k)'.kind \in {"Accepted", "Event"}
                      /\ At(s, k)'.kind = "Accepted" => At(s, k)'.event = 0
                      /\ At(s, k)'.kind = "Event" =>
                            At(s, k)'.gen = channels'[s].gen
                      /\ k >= 2 /\ At(s, k)'.kind = "Event"
                            /\ At(s, k - 1)'.kind = "Event"
                            => At(s, k)'.event = At(s, k - 1)'.event + 1
    BY DEF LogOK
  <2>1. Live(s) /\ channels'[s].gen = channels[s].gen
        /\ channels[s].next = Total(s) + 1
    BY DEF Live, GrownBy, SessionOK, NoticeOK
  <2>2. CASE k \in 1..Total(s)
    <3>1. At(s, k)' = At(s, k) /\ (k >= 2 => At(s, k - 1)' = At(s, k - 1))
      BY <1>2, <1>4, <2>2
    <3> QED BY <2>1, <2>2, <3>1 DEF SessionOK, LogOK
  <2>3. CASE k = Total(s) + 1
    <3>1. At(s, k)' = new /\ new.seq = k
      BY <1>5, <2>1, <2>3 DEF EventOf
    <3>2. k >= 2 => At(s, k - 1)' = At(s, Total(s)) /\ Total(s) >= 1
      BY <1>2, <1>4, <2>3
    <3> QED BY <2>1, <2>3, <3>1, <3>2 DEF EventOf
  <2> QED BY <1>2, <1>3, <2>2, <2>3, BehindTheLast
<1>7. NoticeOK(s)'
  BY <1>1, <1>2, <1>3 DEF SessionOK, NoticeOK, Live, GrownBy
<1>8. HeldOK(s)'
  BY <1>1 DEF SessionOK, HeldOK, NoticeOK, Live, GrownBy
<1>9. WrittenOK(s)' /\ FreshOK(s)'
  BY DEF SessionOK, WrittenOK, FreshOK, GrownBy
<1>10. At(s, Total(s))'.event = n
  <2>1. \A k : k = Total(s)' => At(s, k)' = new
    BY <1>3, <1>5
  <2>2. At(s, Total(s))' = new
    BY <2>1 DEF At
  <2> QED BY <2>2 DEF EventOf
<1> QED BY <1>6, <1>7, <1>8, <1>9, <1>10 DEF SessionOK

\* A step that shortens, lengthens and alters nothing of a live session's log.
LogKept(s) ==
    Live(s)' => /\ Live(s) /\ Total(s)' = Total(s)
                /\ \A k \in 1..Total(s) : At(s, k)' = At(s, k)
                /\ channels'[s].gen = channels[s].gen

\* A session whose stream is left alone keeps what holds of it.
LEMMA KeptLogOK ==
    ASSUME TypeOK, NEW s \in Sessions, SessionOK(s), LogKept(s)
    PROVE  LogOK(s)'
<1> SUFFICES ASSUME Live(s)', NEW k \in 1..(Total(s)')
             PROVE  /\ At(s, k)'.seq = k
                    /\ At(s, k)'.kind \in {"Accepted", "Event"}
                    /\ At(s, k)'.kind = "Accepted" => At(s, k)'.event = 0
                    /\ At(s, k)'.kind = "Event" =>
                          At(s, k)'.gen = channels'[s].gen
                    /\ k >= 2 /\ At(s, k)'.kind = "Event"
                          /\ At(s, k - 1)'.kind = "Event"
                          => At(s, k)'.event = At(s, k - 1)'.event + 1
  BY DEF LogOK
<1>1. Live(s) /\ k \in 1..Total(s) /\ Total(s) \in Nat
      /\ channels'[s].gen = channels[s].gen
  BY Counts DEF LogKept
<1>2. k >= 2 => k - 1 \in 1..Total(s)
  BY <1>1
<1>3. At(s, k)' = At(s, k) /\ (k >= 2 => At(s, k - 1)' = At(s, k - 1))
  BY <1>1, <1>2 DEF LogKept
<1> QED BY <1>1, <1>3 DEF SessionOK, LogOK

\* The steps of the handler before and after a write.
LEMMA PeekKeeps ==
    ASSUME TypeOK, NEW s \in Sessions, SessionOK(s),
           HandlerPeeks(s) \/ HandlerSeesState(s)
    PROVE  SessionOK(s)' /\ LogKept(s)
<1>1. /\ channels'[s] = channels[s] /\ delivered'[s] = delivered[s]
      /\ rpc[s] \in {"loop", "empty"} /\ rpc'[s] \in {"loop", "empty", "write", "close"}
  BY DEF HandlerPeeks, HandlerSeesState, TypeOK
<1>2. Acked(s)' = Acked(s) /\ Total(s)' = Total(s)
  BY <1>1 DEF Acked, Total
<1>3. \A k : At(s, k)' = At(s, k)
  BY <1>1, <1>2 DEF At
<1>4. Live(s)' => Live(s)
  BY <1>1 DEF Live, Handling
<1>5. LogKept(s)
  BY <1>1, <1>2, <1>3, <1>4 DEF LogKept
<1>6. NoticeOK(s)' /\ WrittenOK(s)' /\ FreshOK(s)'
  BY <1>1, <1>2, <1>4 DEF SessionOK, NoticeOK, WrittenOK, FreshOK
<1>7. HeldOK(s)'
  <2> SUFFICES ASSUME Live(s)', rpc'[s] \in {"write", "ack"}
               PROVE  \/ Len(channels'[s].ring) >= 1
                            /\ held'[s] = channels'[s].ring[1]
                      \/ Len(channels'[s].ring) = 0
                            /\ held'[s] = channels'[s].terminal
                            /\ channels'[s].state = "TerminalGap"
    BY DEF HeldOK
  <2>1. HandlerPeeks(s) /\ held'[s] = peek(channels[s]) /\ held'[s] # NoRecord
    BY DEF HandlerPeeks, HandlerSeesState, TypeOK
  <2>2. channels[s] \in Channels /\ channels[s].ring \in Seq(Records)
        /\ channels[s].state # "Closed"
    BY <1>1, SessionTypes DEF Live
  <2>3. CASE channels[s].ring # <<>>
    <3>1. held'[s] = Head(channels[s].ring)
      BY <2>1, <2>2, <2>3 DEF peek
    <3> QED BY <1>1, <2>2, <2>3, <3>1
  <2>4. CASE channels[s].ring = <<>>
    <3>1. held'[s] = channels[s].terminal
      BY <2>1, <2>2, <2>4 DEF peek
    <3>2. channels[s].state = "TerminalGap"
      BY <2>1, <2>2, <3>1 DEF SessionOK, NoticeOK, Channels, ChannelStates
    <3> QED BY <1>1, <2>4, <3>1, <3>2
  <2> QED BY <2>3, <2>4
<1> QED BY <1>5, <1>6, <1>7, KeptLogOK DEF SessionOK

\* Write() moves the peeked record to the client's side of the stream and
\* leaves the stream as a whole alone.
LEMMA WriteKeeps ==
    ASSUME TypeOK, NEW s \in Sessions, SessionOK(s), HandlerWrites(s)
    PROVE  SessionOK(s)' /\ LogKept(s)
<1>1. /\ channels'[s] = channels[s] /\ held'[s] = held[s]
      /\ rpc[s] = "write" /\ rpc'[s] = "ack"
      /\ delivered'[s] = Append(delivered[s], held[s])
  BY DEF HandlerWrites, TypeOK
<1>2. /\ Len(delivered[s]) \in Nat
      /\ Len(delivered'[s]) = Len(delivered[s]) + 1
      /\ \A k \in 1..Len(delivered[s]) : delivered'[s][k] = delivered[s][k]
      /\ delivered'[s][Len(delivered[s]) + 1] = held[s]
  BY <1>1, SessionTypes
<1>3. Acked(s) = Len(delivered[s]) /\ Acked(s)' = Acked(s)
  BY <1>1, <1>2 DEF Acked
<1>4. Total(s)' = Total(s)
  BY <1>1, <1>3 DEF Total
<1>5. \A k \in 1..Total(s) : At(s, k)' = At(s, k)
  BY <1>1, <1>2, <1>3, Counts DEF At
<1>6. Live(s)' => Live(s)
  BY <1>1 DEF Live, Handling
<1>7. LogKept(s)
  BY <1>1, <1>4, <1>5, <1>6 DEF LogKept
<1>8. NoticeOK(s)' /\ HeldOK(s)' /\ FreshOK(s)'
  BY <1>1, <1>4, <1>6 DEF SessionOK, NoticeOK, HeldOK, FreshOK
<1>9. WrittenOK(s)'
  BY <1>1, <1>2 DEF WrittenOK
<1> QED BY <1>7, <1>8, <1>9, KeptLogOK DEF SessionOK

\* acknowledge() of what the handler holds takes the written record off the
\* ring, or closes the channel.
LEMMA AcknowledgeKeeps ==
    ASSUME TypeOK, NEW s \in Sessions, SessionOK(s), HandlerAcknowledges(s)
    PROVE  SessionOK(s)' /\ LogKept(s)
<1> DEFINE c == channels[s]
<1>1. /\ channels'[s] = acknowledge(c, held[s]) /\ held'[s] = held[s]
      /\ delivered'[s] = delivered[s] /\ rpc[s] = "ack"
      /\ rpc'[s] = IF acknowledge_result(c, held[s]) = "Acknowledged"
                   THEN "loop" ELSE "close"
  BY DEF HandlerAcknowledges, TypeOK
<1>2. CASE acknowledge_result(c, held[s]) # "Acknowledged"
  <2>1. /\ rpc'[s] = "close" 
        /\ \/ channels'[s] = c
           \/ channels'[s] = [c EXCEPT !.terminal = NoRecord, !.state = "Closed"]
    BY <1>1, <1>2 DEF acknowledge
  <2>2. channels'[s].state \in {c.state, "Closed"}
        /\ (channels'[s].state # "Closed" => channels'[s] = c)
    BY <2>1, SessionTypes DEF Channels
  <2>3. ~Live(s)'
    BY <2>1 DEF Live, Handling
  <2> QED BY <2>1, <2>2, <2>3 DEF SessionOK, LogKept, LogOK, NoticeOK, HeldOK,
                                  WrittenOK, FreshOK
<1>3. CASE acknowledge_result(c, held[s]) = "Acknowledged"
  <2>1. /\ rpc'[s] = "loop" /\ channels'[s] = [c EXCEPT !.ring = Tail(c.ring)]
        /\ c.ring # <<>> /\ Head(c.ring) = held[s] /\ c.state # "Closed"
    BY <1>1, <1>3 DEF acknowledge, acknowledge_result
  <2>2. /\ channels'[s].ring = Tail(c.ring) /\ channels'[s].state = c.state
        /\ channels'[s].gen = c.gen /\ channels'[s].next = c.next
        /\ channels'[s].stream = c.stream
        /\ channels'[s].terminal = c.terminal
    BY <2>1, SessionTypes DEF Channels
  <2>3. /\ Len(c.ring) \in Nat /\ Len(c.ring) >= 1 /\ c.ring[1] = held[s]
        /\ Len(channels'[s].ring) = Len(c.ring) - 1
        /\ \A i \in 1..(Len(c.ring) - 1) : channels'[s].ring[i] = c.ring[i + 1]
    BY <2>1, <2>2, SessionTypes
  <2>4. /\ Len(delivered[s]) \in Nat /\ Acked(s) = Len(delivered[s]) - 1
        /\ Acked(s)' = Acked(s) + 1 /\ Acked(s) \in Nat
        /\ delivered[s][Acked(s) + 1] = held[s]
    BY <1>1, <2>1, SessionTypes, Counts DEF Acked, SessionOK, WrittenOK
  <2>5. Total(s) = Acked(s) + Len(c.ring) /\ Total(s)' = Total(s)
    BY <2>3, <2>4 DEF Total
  <2>6. \A k \in 1..Total(s) : At(s, k)' = At(s, k)
    <3> SUFFICES ASSUME NEW k \in 1..Total(s) PROVE At(s, k)' = At(s, k)
      OBVIOUS
    <3>1. CASE k <= Acked(s)
      BY <1>1, <2>4, <3>1 DEF At
    <3>2. CASE k = Acked(s) + 1
      <4>1. k <= Acked(s)' /\ ~(k <= Acked(s)) /\ k - Acked(s) = 1
        BY <2>4, <3>2
      <4> QED BY <1>1, <2>3, <2>4, <3>2, <4>1 DEF At
    <3>3. CASE k > Acked(s) + 1
      <4>1. /\ ~(k <= Acked(s)') /\ ~(k <= Acked(s))
            /\ k - Acked(s)' \in 1..(Len(c.ring) - 1)
            /\ (k - Acked(s)') + 1 = k - Acked(s)
        <5>0. Total(s) \in Nat
          BY Counts
        <5>1. k \in Nat /\ k <= Total(s)
          BY <5>0
        <5>2. k <= Acked(s) + Len(c.ring) /\ Len(c.ring) \in Nat
          BY <2>3, <2>5, <5>1
        <5> HIDE DEF c
        <5>3. ~(k <= Acked(s) + 1) /\ ~(k <= Acked(s))
              /\ (k - (Acked(s) + 1)) + 1 = k - Acked(s)
          BY <2>4, <3>3, <5>1
        <5>4. k - (Acked(s) + 1) \in 1..(Len(c.ring) - 1)
          BY <2>4, <3>3, <5>1, <5>2, BehindTheHead
        <5> QED BY <2>4, <5>3, <5>4
      <4> QED BY <2>3, <4>1 DEF At
    <3> QED BY <2>4, <3>1, <3>2, <3>3
  <2>7. Live(s)
    BY <1>1, <2>1 DEF Live, Handling
  <2>8. LogKept(s)
    BY <2>2, <2>5, <2>6, <2>7 DEF LogKept
  <2>9. NoticeOK(s)'
    BY <2>2, <2>5, <2>7 DEF SessionOK, NoticeOK
  <2>10. HeldOK(s)' /\ WrittenOK(s)' /\ FreshOK(s)'
    BY <2>1, <2>2 DEF SessionOK, HeldOK, WrittenOK, FreshOK
  <2> QED BY <2>8, <2>9, <2>10, KeptLogOK DEF SessionOK
<1> QED BY <1>2, <1>3

\* The end of the call.
LEMMA EndKeeps ==
    ASSUME TypeOK, NEW s \in Sessions, SessionOK(s),
           HandlerGivesUp(s) \/ HandlerCloses(s) \/ HandlerRemoves(s)
    PROVE  SessionOK(s)' /\ LogKept(s)
<1>1. CASE HandlerGivesUp(s)
  <2>1. channels'[s] = channels[s] /\ rpc'[s] = "close"
    BY <1>1 DEF HandlerGivesUp, TypeOK
  <2> QED BY <2>1 DEF SessionOK, LogKept, LogOK, NoticeOK, HeldOK, WrittenOK,
                      FreshOK, Live, Handling
<1>2. CASE HandlerCloses(s)
  <2>1. /\ channels'[s] = close_from_writer(channels[s]) /\ rpc'[s] = "remove"
        /\ channels[s] \in Channels
    BY <1>2, SessionTypes DEF HandlerCloses, TypeOK
  <2>2. channels'[s].state = "Closed"
    BY <2>1 DEF close_from_writer, Channels
  <2> QED BY <2>1, <2>2 DEF SessionOK, LogKept, LogOK, NoticeOK, HeldOK,
                            WrittenOK, FreshOK, Live, Handling
<1>3. CASE HandlerRemoves(s)
  <2>1. channels'[s].state = "Closed" /\ rpc'[s] = "done"
    BY <1>3 DEF HandlerRemoves, TypeOK, NoChannel
  <2> QED BY <2>1 DEF SessionOK, LogKept, LogOK, NoticeOK, HeldOK, WrittenOK,
                      FreshOK, Live, Handling
<1> QED BY <1>1, <1>2, <1>3

\* stage_accepted(): the log starts with the acceptance.
LEMMA AdmitStarts ==
    ASSUME TypeOK, NEW s \in Sessions, SessionOK(s), NEW stream \in Streams,
           Admit(s, stream)
    PROVE  /\ SessionOK(s)'
           /\ At(s, Total(s))'.kind = "Accepted"
<1>1. /\ channels'[s] = StagedChannel(stream, gate.gen) /\ rpc'[s] = "loop"
      /\ delivered'[s] = <<>>
  BY DEF Admit, TypeOK, SessionOK, FreshOK
<1>2. /\ channels'[s].ring = <<AcceptedRecord>> /\ channels'[s].state = "Active"
      /\ channels'[s].next = 2 /\ channels'[s].terminal = NoRecord
      /\ channels'[s].stream = stream
  BY <1>1 DEF StagedChannel
<1>3. Len(channels'[s].ring) = 1 /\ channels'[s].ring[1] = AcceptedRecord
  BY <1>2
<1>4. Acked(s)' = 0 /\ Total(s)' = 1
  BY <1>1, <1>3 DEF Acked, Total
<1>5. \A k : k = 1 => At(s, k)' = AcceptedRecord
  BY <1>3, <1>4 DEF At
<1>6. AcceptedRecord.seq = 1 /\ AcceptedRecord.kind = "Accepted"
      /\ AcceptedRecord.event = 0
  BY DEF AcceptedRecord
<1>7. LogOK(s)'
  BY <1>4, <1>5, <1>6 DEF LogOK
<1>8. NoticeOK(s)' /\ HeldOK(s)' /\ WrittenOK(s)' /\ FreshOK(s)'
  BY <1>1, <1>2, <1>4 DEF NoticeOK, HeldOK, WrittenOK, FreshOK
<1>9. At(s, Total(s))'.kind = "Accepted"
  BY <1>4, <1>5, <1>6 DEF At
<1> QED BY <1>7, <1>8, <1>9 DEF SessionOK

-----------------------------------------------------------------------------
\* The notice of EndWithGap and the three outcomes of admit_event().
LEMMA GapShape ==
    ASSUME NEW c \in Channels, NEW reason \in Reasons
    PROVE  LET g == EndWithGap(c, reason) IN
           /\ g \in Channels /\ g.ring = c.ring /\ g.gen = c.gen
           /\ g.stream = c.stream /\ g.state = "TerminalGap"
           /\ g.terminal.kind = "Gap" /\ g.terminal.seq = c.next
<1> DEFINE next == IF c.next = MaxSequence THEN c.next ELSE c.next + 1
           gap == GapDescriptor(c.next, c.gen, reason)
<1>1. next \in 1..MaxSequence /\ c.next \in Nat /\ c.gen \in Nat
  BY EventAssumption DEF Channels
<1>2. gap \in Records /\ gap.kind = "Gap" /\ gap.seq = c.next
  BY <1>1, RecordTypes DEF GapDescriptor
<1>3. EndWithGap(c, reason)
        = [c EXCEPT !.terminal = gap, !.next = next, !.state = "TerminalGap"]
  BY DEF EndWithGap
<1> HIDE DEF gap, next
<1> QED BY <1>1, <1>2, <1>3 DEF Channels, ChannelStates

\* What admit_event() does to a channel, by the result it reports.
LEMMA AdmitShape ==
    ASSUME NEW c \in Channels, Len(c.ring) <= QueueCapacity, NEW n \in Nat
    PROVE  LET u == admit_event(c, n) IN
           /\ u \in Channels /\ Len(u.ring) <= QueueCapacity
           /\ u.gen = c.gen /\ u.stream = c.stream
           /\ admit_result(c) \in {"Inactive", "AllocationFailure"} => u = c
           /\ admit_result(c) = "Terminalized" =>
                /\ c.state = "Active" /\ u.state = "TerminalGap"
                /\ u.terminal.kind = "Gap" /\ u.terminal.seq = c.next
                /\ u.ring = c.ring
           /\ admit_result(c) = "Admitted" =>
                /\ c.state = "Active" /\ u.state = "Active"
                /\ u.terminal = c.terminal /\ u.next = c.next + 1
                /\ u.ring = Append(c.ring, EventRecord(c.next, c.gen, n))
           /\ admit_result(c) \in {"Inactive", "AllocationFailure",
                                   "Terminalized", "Admitted"}
           /\ c.state = "Active" <=> admit_result(c) # "Inactive"
<1>1. admit_result(c) \in {"Inactive", "AllocationFailure", "Terminalized",
                           "Admitted"}
  BY DEF admit_result
<1>2. c.state = "Active" <=> admit_result(c) # "Inactive"
  BY DEF admit_result
<1>3. CASE admit_result(c) \in {"Inactive", "AllocationFailure"}
  <2>1. admit_event(c, n) = c
    BY <1>3 DEF admit_event
  <2> QED BY <1>2, <1>3, <2>1
<1>4. CASE admit_result(c) = "Terminalized"
  <2>1. admit_event(c, n) = EndWithGap(c, "SlowConsumer")
        /\ "SlowConsumer" \in Reasons
    BY <1>4 DEF admit_event, Reasons
  <2> QED BY <1>2, <1>4, <2>1, GapShape
<1>5. CASE admit_result(c) = "Admitted"
  <2> DEFINE new == EventRecord(c.next, c.gen, n)
  <2>1. admit_event(c, n) =
            [c EXCEPT !.ring = Append(c.ring, new), !.next = c.next + 1]
    BY <1>5 DEF admit_event
  <2>2. /\ c.ring \in Seq(Records) /\ c.next + 1 \in 1..MaxSequence
        /\ Len(c.ring) < QueueCapacity /\ c.next \in Nat /\ c.gen \in Nat
    BY <1>5, EventAssumption DEF admit_result, Channels
  <2>3. new \in Records
    BY <2>2, RecordTypes
  <2>4. Append(c.ring, new) \in Seq(Records)
        /\ Len(Append(c.ring, new)) <= QueueCapacity
    BY <2>2, <2>3, EventAssumption
  <2> HIDE DEF new
  <2>5. /\ admit_event(c, n) \in Channels
        /\ admit_event(c, n).ring = Append(c.ring, new)
        /\ admit_event(c, n).next = c.next + 1
        /\ admit_event(c, n).state = c.state
        /\ admit_event(c, n).gen = c.gen /\ admit_event(c, n).stream = c.stream
        /\ admit_event(c, n).terminal = c.terminal
    BY <2>1, <2>2, <2>4 DEF Channels
  <2> QED BY <1>2, <1>5, <2>4, <2>5 DEF new
<1> QED BY <1>1, <1>3, <1>4, <1>5

\* What a lifecycle call of the hub does to a channel.
HubResult(c, d) ==
    /\ d \in Channels /\ d.ring = c.ring /\ d.gen = c.gen /\ d.stream = c.stream
    /\ \/ d = c
       \/ d.state = "Closed"
       \/ /\ c.state = "Active" /\ d.state = "TerminalUnavailable"
          /\ d.terminal = c.terminal
       \/ /\ c.state = "Active" /\ d.state = "TerminalGap"
          /\ d.terminal.kind = "Gap" /\ d.terminal.seq = c.next

\* Ending a channel from the hub, in any of the three ways, never touches
\* what is queued.
LEMMA HubShapes ==
    ASSUME NEW c \in Channels
    PROVE  /\ HubResult(c, c)
           /\ HubResult(c, close_unavailable(c))
           /\ HubResult(c, close_from_owner(c))
           /\ HubResult(c, terminalize_replacement(c))
           /\ close_unavailable(c).state # "Active"
           /\ close_from_owner(c).state = "Closed"
           /\ c.state = "Active" /\ c.terminal = NoRecord =>
                terminalize_replacement(c).state # "Active"
           /\ close_unavailable(c).state = "Closed" => c.state = "Closed"
           /\ terminalize_replacement(c).state = "Closed" => c.state = "Closed"
           /\ terminalize_replacement(c).state = "Active" => c.state = "Active"
<1>1. HubResult(c, c)
  BY DEF HubResult
<1>2. /\ HubResult(c, close_unavailable(c))
      /\ close_unavailable(c).state # "Active"
      /\ close_unavailable(c).state = "Closed" => c.state = "Closed"
  BY DEF HubResult, close_unavailable, Channels, ChannelStates
<1>3. HubResult(c, close_from_owner(c)) /\ close_from_owner(c).state = "Closed"
  BY DEF HubResult, close_from_owner, Channels, ChannelStates
<1>4. CASE c.state = "Active" /\ c.terminal = NoRecord
  <2>1. terminalize_replacement(c) = EndWithGap(c, "GenerationChanged")
        /\ "GenerationChanged" \in Reasons
    BY <1>4 DEF terminalize_replacement, Reasons
  <2> QED BY <1>1, <1>2, <1>3, <1>4, <2>1, GapShape DEF HubResult
<1>5. CASE ~(c.state = "Active" /\ c.terminal = NoRecord)
  <2>1. terminalize_replacement(c) = c
    BY <1>5 DEF terminalize_replacement
  <2> QED BY <1>1, <1>2, <1>3, <1>5, <2>1
<1> QED BY <1>4, <1>5

\* The lifecycle calls as seen by one channel.
Lifecycle ==
    \/ OpenGeneration \/ QuiesceGeneration \/ CloseGenerationReplaced
    \/ CloseGenerationPermanently \/ Shutdown

\* open, quiesce, close_generation and shutdown end channels and touch
\* nothing of the handlers.
LEMMA LifecycleShape ==
    ASSUME TypeOK, Lifecycle, NEW s \in Sessions
    PROVE  /\ HubResult(channels[s], channels'[s])
           /\ rpc'[s] = rpc[s] /\ held'[s] = held[s]
           /\ delivered'[s] = delivered[s] /\ status'[s] = status[s]
           /\ resident' = resident /\ count' = count
<1>1. channels[s] \in Channels
  BY SessionTypes
<1>2. UNCHANGED <<rpc, held, delivered, status, resident, count>>
  BY DEF Lifecycle, OpenGeneration, QuiesceGeneration, CloseGenerationReplaced,
         CloseGenerationPermanently, Shutdown, handlerVars
<1>3. channels'[s] \in {channels[s], close_unavailable(channels[s]),
                        close_from_owner(channels[s]),
                        terminalize_replacement(channels[s])}
  BY DEF Lifecycle, OpenGeneration, QuiesceGeneration, CloseGenerationReplaced,
         CloseGenerationPermanently, Shutdown
<1> QED BY <1>1, <1>2, <1>3, HubShapes

\* A handler leaves the other sessions alone.
LEMMA OtherSessions ==
    ASSUME TypeOK, NEW s \in Sessions, NEW t \in Sessions, t # s,
           Handler(s) \/ Refuse(s) \/ \E stream \in Streams : Admit(s, stream)
    PROVE  /\ channels'[t] = channels[t] /\ rpc'[t] = rpc[t]
           /\ held'[t] = held[t] /\ delivered'[t] = delivered[t]
           /\ status'[t] = status[t]
BY DEF TypeOK, Handler, Refuse, Admit, HandlerPeeks, HandlerSeesState,
       HandlerWrites, HandlerAcknowledges, HandlerGivesUp, HandlerCloses,
       HandlerRemoves

-----------------------------------------------------------------------------
\* The fan-out as seen by one channel.
LEMMA PublishShape ==
    ASSUME TypeOK, NEW stream \in Streams, Publish(stream), NEW s \in Sessions
    PROVE  /\ count[stream] \in Nat /\ count'[stream] = count[stream] + 1
           /\ \/ channels'[s] = channels[s]
              \/ /\ Receives(s, stream)
                 /\ channels'[s] = admit_event(channels[s], count[stream] + 1)
           /\ channels'[s] \in Channels /\ Len(channels'[s].ring) <= QueueCapacity
<1>1. /\ count[stream] \in Nat /\ count'[stream] = count[stream] + 1
  BY DEF Publish, TypeOK
<1>2. channels'[s] = IF Receives(s, stream) /\ Reached(s, stream)
                     THEN admit_event(channels[s], count'[stream])
                     ELSE channels[s]
  BY DEF Publish
<1>3. channels[s] \in Channels /\ Len(channels[s].ring) <= QueueCapacity
  BY SessionTypes DEF TypeOK
<1>4. CASE Receives(s, stream) /\ Reached(s, stream)
  <2>1. channels'[s] = admit_event(channels[s], count[stream] + 1)
        /\ count[stream] + 1 \in Nat
    BY <1>1, <1>2, <1>4
  <2> QED BY <1>1, <1>3, <1>4, <2>1, AdmitShape
<1>5. CASE ~(Receives(s, stream) /\ Reached(s, stream))
  BY <1>1, <1>2, <1>3, <1>5
<1> QED BY <1>4, <1>5

\* acknowledge() and close_from_writer() leave a channel of the right type.
LEMMA HandlerShape ==
    ASSUME NEW c \in Channels, Len(c.ring) <= QueueCapacity, NEW h \in Records
    PROVE  /\ acknowledge(c, h) \in Channels
           /\ Len(acknowledge(c, h).ring) <= QueueCapacity
           /\ close_from_writer(c) \in Channels
           /\ Len(close_from_writer(c).ring) <= QueueCapacity
           /\ peek(c) \in Records
<1>1. c.ring \in Seq(Records) /\ c.terminal \in Records /\ NoRecord \in Records
      /\ Len(c.ring) \in Nat /\ QueueCapacity \in Nat
  BY RecordTypes, EventAssumption DEF Channels
<1>2. peek(c) \in Records
  BY <1>1 DEF peek
<1>3. close_from_writer(c) \in Channels
      /\ Len(close_from_writer(c).ring) <= QueueCapacity
  <2>1. <<>> \in Seq(Records) /\ Len(<<>>) = 0
    OBVIOUS
  <2>2. /\ close_from_writer(c) \in Channels /\ close_from_writer(c).ring = <<>>
    BY <1>1, <2>1 DEF close_from_writer, Channels, ChannelStates
  <2> QED BY <1>1, <2>1, <2>2
<1>4. CASE acknowledge_result(c, h) = "Acknowledged"
  <2>1. acknowledge(c, h) = [c EXCEPT !.ring = Tail(c.ring)] /\ c.ring # <<>>
    BY <1>4 DEF acknowledge, acknowledge_result
  <2>2. Tail(c.ring) \in Seq(Records) /\ Len(Tail(c.ring)) = Len(c.ring) - 1
    BY <1>1, <2>1
  <2>3. /\ acknowledge(c, h) \in Channels
        /\ acknowledge(c, h).ring = Tail(c.ring)
    BY <2>1, <2>2 DEF Channels
  <2>4. Len(Tail(c.ring)) <= QueueCapacity
    BY <1>1, <2>2
  <2> QED BY <1>2, <1>3, <2>3, <2>4
<1>5. CASE acknowledge_result(c, h) # "Acknowledged"
  <2>1. acknowledge(c, h) \in
            {c, [c EXCEPT !.terminal = NoRecord, !.state = "Closed"]}
    BY <1>5 DEF acknowledge
  <2>2. LET e == [c EXCEPT !.terminal = NoRecord, !.state = "Closed"] IN
        e \in Channels /\ e.ring = c.ring
    BY <1>1 DEF Channels, ChannelStates
  <2> QED BY <1>2, <1>3, <2>1, <2>2
<1> QED BY <1>4, <1>5

\* remove() unlists the session and no other.
LEMMA EraseShape ==
    ASSUME NEW list \in Seq(Sessions), NEW s \in Sessions
    PROVE  /\ Erased(list, s) \in Seq(Sessions)
           /\ Len(Erased(list, s)) <= Len(list)
           /\ \A t \in Sessions :
                t # s /\ (\E i \in 1..Len(list) : list[i] = t) =>
                    \E i \in 1..Len(Erased(list, s)) : Erased(list, s)[i] = t
<1>1. CASE ~ \E i \in 1..Len(list) : list[i] = s
  BY <1>1 DEF Erased
<1>2. CASE \E i \in 1..Len(list) : list[i] = s
  <2> DEFINE at == CHOOSE i \in 1..Len(list) : list[i] = s
             n == Len(list)
             out == [j \in 1..(n - 1) |-> IF j < at THEN list[j] ELSE list[j + 1]]
  <2>1. at \in 1..n /\ list[at] = s /\ n \in Nat
    BY <1>2
  <2>2. Erased(list, s) = out
    BY <1>2 DEF Erased
  <2> HIDE DEF at
  <2>3. \A j \in 1..(n - 1) : list[j] \in Sessions /\ list[j + 1] \in Sessions
    <3> TAKE j \in 1..(n - 1)
    <3>1. j \in 1..n /\ j + 1 \in 1..n
      BY <2>1
    <3> QED BY <3>1
  <2>4. n - 1 \in Nat
    BY <2>1
  <2>5. out \in Seq(Sessions) /\ Len(out) = n - 1
    <3>1. \A j \in 1..(n - 1) : out[j] \in Sessions
      BY <2>3
    <3>2. out \in [1..(n - 1) -> Sessions]
      BY <3>1
    <3> QED BY <2>4, <3>2
  <2>6. ASSUME NEW t \in Sessions, t # s, NEW i \in 1..n, list[i] = t
        PROVE  \E j \in 1..Len(out) : out[j] = t
    <3> HIDE DEF out
    <3>1. i < at \/ i > at
      <4>1. i # at /\ i \in Int /\ at \in Int
        BY <2>1, <2>6
      <4> QED BY <4>1
    <3> USE DEF out
    <3>2. CASE i < at
      <4>1. i \in 1..(n - 1) /\ out[i] = t
        BY <2>1, <2>6, <3>2
      <4> QED BY <2>5, <4>1
    <3>3. CASE i > at
      <4>1. i - 1 \in 1..(n - 1) /\ ~(i - 1 < at) /\ (i - 1) + 1 = i
        BY <2>1, <3>3
      <4>2. out[i - 1] = t
        BY <2>6, <4>1
      <4> QED BY <2>5, <4>1, <4>2
    <3> QED BY <3>1, <3>2, <3>3
  <2> HIDE DEF out
  <2>7. Len(out) <= n
    BY <2>1, <2>5
  <2> QED BY <2>2, <2>5, <2>6, <2>7
<1> QED BY <1>1, <1>2

\* A step that writes one channel.
LEMMA OneChannel ==
    ASSUME TypeOK, NEW s \in Sessions, NEW c \in Channels,
           Len(c.ring) <= QueueCapacity,
           channels' = [channels EXCEPT ![s] = c]
    PROVE  /\ channels' \in [Sessions -> Channels]
           /\ \A t \in Sessions : Len(channels'[t].ring) <= QueueCapacity
<1>1. \A t \in Sessions : channels'[t] = IF t = s THEN c ELSE channels[t]
  BY DEF TypeOK
<1>2. channels' \in [Sessions -> Channels]
  BY DEF TypeOK
<1> QED BY <1>1, <1>2 DEF TypeOK

\* The constructed publication is well-typed.
LEMMA TypeInit == Init => TypeOK
<1> SUFFICES ASSUME Init PROVE TypeOK
  OBVIOUS
<1>1. NoChannel \in Channels /\ Len(NoChannel.ring) = 0
  <2>1. <<>> \in Seq(Records) /\ Len(<<>>) = 0
    OBVIOUS
  <2> QED BY <2>1, RecordTypes, EventAssumption
          DEF NoChannel, Channels, ChannelStates
<1>2. \A s \in Sessions : Len(channels[s].ring) <= QueueCapacity
  BY <1>1, EventAssumption DEF Init
<1>3. InitialGate \in Gates
  BY DEF InitialGate, Gates, EventSourceStates
<1>4. resident = <<>> /\ <<>> \in Seq(Sessions) /\ Len(resident) <= MaxActive
  BY EventAssumption DEF Init
<1>5. delivered \in [Sessions -> Seq(Records)]
  <2>1. <<>> \in Seq(Records)
    OBVIOUS
  <2> QED BY <2>1 DEF Init
<1> QED BY <1>1, <1>2, <1>3, <1>4, <1>5, RecordTypes DEF Init, TypeOK

\* Every step of publication, handlers and clients keeps the types.
LEMMA TypeStep == TypeOK /\ [Next]_vars => TypeOK'
<1> SUFFICES ASSUME TypeOK, [Next]_vars PROVE TypeOK'
  OBVIOUS
<1>1. CASE Lifecycle
  <2>1. gate' \in Gates /\ feed' \in BOOLEAN
    <3>1. gate \in Gates /\ gate.gen \in Nat /\ feed \in BOOLEAN
      BY DEF TypeOK, Gates
    <3>2. CASE OpenGeneration
      BY <3>1, <3>2 DEF OpenGeneration, Opened, Gates, EventSourceStates
    <3>3. CASE QuiesceGeneration \/ CloseGenerationReplaced
               \/ CloseGenerationPermanently \/ Shutdown
      <4>1. gate' \in {Quiesced(gate), Replaced(gate), PermanentlyClosed(gate),
                       ShutDown(gate)}
            /\ feed' \in {FALSE, feed}
        BY <3>3 DEF QuiesceGeneration, CloseGenerationReplaced,
                    CloseGenerationPermanently, Shutdown
      <4>2. gate' \in Gates
        BY <3>1, <4>1 DEF Quiesced, Replaced, PermanentlyClosed, ShutDown,
                          Gates, EventSourceStates
      <4> QED BY <3>1, <4>1, <4>2
    <3> QED BY <1>1, <3>2, <3>3 DEF Lifecycle
  <2>2. \A s \in Sessions : channels'[s] \in Channels
                            /\ channels'[s].ring = channels[s].ring
    BY <1>1, LifecycleShape DEF HubResult
  <2>3. channels' \in [Sessions -> Channels]
    <3>1. channels' = [s \in Sessions |-> channels'[s]]
      BY <1>1 DEF Lifecycle, OpenGeneration, QuiesceGeneration,
         CloseGenerationReplaced, CloseGenerationPermanently, Shutdown, TypeOK
    <3> QED BY <2>2, <3>1
  <2>4. UNCHANGED <<count, resident, rpc, held, delivered, status>>
    BY <1>1 DEF Lifecycle, OpenGeneration, QuiesceGeneration,
       CloseGenerationReplaced, CloseGenerationPermanently, Shutdown,
       handlerVars
  <2> QED BY <2>1, <2>2, <2>3, <2>4 DEF TypeOK
<1>2. CASE PublishFails
  BY <1>2 DEF PublishFails, TypeOK, handlerVars
<1>3. ASSUME NEW stream \in Streams, Publish(stream) PROVE TypeOK'
  <2>1. \A s \in Sessions : channels'[s] \in Channels
                            /\ Len(channels'[s].ring) <= QueueCapacity
    BY <1>3, PublishShape
  <2>2. channels' \in [Sessions -> Channels]
    <3>1. channels' = [s \in Sessions |-> channels'[s]]
      BY <1>3 DEF Publish
    <3> QED BY <2>1, <3>1
  <2>3. count' \in [Streams -> Nat]
    BY <1>3 DEF Publish, TypeOK
  <2>4. feed' \in BOOLEAN
    BY <1>3, Zenon DEF Publish
  <2>5. UNCHANGED <<gate, resident, rpc, held, delivered, status>>
    BY <1>3 DEF Publish, handlerVars
  <2> QED BY <2>1, <2>2, <2>3, <2>4, <2>5 DEF TypeOK
<1>4. ASSUME NEW s \in Sessions, NEW stream \in Streams, Admit(s, stream)
      PROVE  TypeOK'
  <2> DEFINE staged == StagedChannel(stream, gate.gen)
  <2>1. staged \in Channels /\ Len(staged.ring) = 1
    <3>1. <<AcceptedRecord>> \in Seq(Records) /\ Len(<<AcceptedRecord>>) = 1
      BY RecordTypes
    <3>2. gate.gen \in Nat /\ NoRecord \in Records /\ 2 \in 1..MaxSequence
      BY RecordTypes, EventAssumption DEF TypeOK, Gates
    <3> QED BY <3>1, <3>2 DEF StagedChannel, Channels, ChannelStates
  <2>2. /\ channels' = [channels EXCEPT ![s] = staged]
        /\ resident' = Append(resident, s) /\ Len(resident) < MaxActive
        /\ rpc' = [rpc EXCEPT ![s] = "loop"]
        /\ UNCHANGED <<gate, feed, count, held, delivered, status>>
    BY <1>4 DEF Admit
  <2> HIDE DEF staged
  <2>3. channels' \in [Sessions -> Channels]
        /\ \A t \in Sessions : Len(channels'[t].ring) <= QueueCapacity
    <3>1. Len(staged.ring) <= QueueCapacity
      BY <2>1, EventAssumption
    <3> QED BY <2>1, <2>2, <3>1, OneChannel
  <2>4. resident' \in Seq(Sessions) /\ Len(resident') <= MaxActive
    BY <2>2, EventAssumption DEF TypeOK
  <2> QED BY <2>2, <2>3, <2>4 DEF TypeOK
<1>5. ASSUME NEW s \in Sessions, Refuse(s) \/ HandlerSeesState(s)
                                 \/ HandlerWrites(s) \/ HandlerGivesUp(s)
      PROVE  TypeOK'
  <2>1. UNCHANGED <<gate, feed, count, resident, channels, held>>
    BY <1>5 DEF Refuse, HandlerSeesState, HandlerWrites, HandlerGivesUp, hubVars
  <2>2. rpc' \in [Sessions -> {"idle", "loop", "empty", "write", "ack", "close",
                               "remove", "done"}]
    BY <1>5 DEF Refuse, HandlerSeesState, HandlerWrites, HandlerGivesUp, TypeOK
  <2>3. status' \in [Sessions -> {"None", "Refused", "OK", "UNAVAILABLE",
                                  "INTERNAL", "ClientGone"}]
    BY <1>5 DEF Refuse, HandlerSeesState, HandlerWrites, HandlerGivesUp, TypeOK
  <2>4. delivered' \in [Sessions -> Seq(Records)]
    <3>1. Append(delivered[s], held[s]) \in Seq(Records)
      BY SessionTypes
    <3> QED BY <1>5, <3>1 DEF Refuse, HandlerSeesState, HandlerWrites,
                              HandlerGivesUp, TypeOK
  <2> QED BY <2>1, <2>2, <2>3, <2>4 DEF TypeOK
<1>6. ASSUME NEW s \in Sessions, HandlerPeeks(s) \/ HandlerAcknowledges(s)
                                 \/ HandlerCloses(s)
      PROVE  TypeOK'
  <2>1. UNCHANGED <<gate, feed, count, resident, delivered>>
    BY <1>6 DEF HandlerPeeks, HandlerAcknowledges, HandlerCloses, hubVars
  <2>2. /\ peek(channels[s]) \in Records
        /\ acknowledge(channels[s], held[s]) \in Channels
        /\ Len(acknowledge(channels[s], held[s]).ring) <= QueueCapacity
        /\ close_from_writer(channels[s]) \in Channels
        /\ Len(close_from_writer(channels[s]).ring) <= QueueCapacity
    BY SessionTypes, HandlerShape DEF TypeOK
  <2>3. channels' \in [Sessions -> Channels]
        /\ \A t \in Sessions : Len(channels'[t].ring) <= QueueCapacity
    <3>1. \/ channels' = channels
          \/ channels' = [channels EXCEPT ![s] = acknowledge(channels[s], held[s])]
          \/ channels' = [channels EXCEPT ![s] = close_from_writer(channels[s])]
      BY <1>6 DEF HandlerPeeks, HandlerAcknowledges, HandlerCloses
    <3>2. CASE channels' = channels
      BY <3>2 DEF TypeOK
    <3> QED BY <2>2, <3>1, <3>2, OneChannel
  <2>4. held' \in [Sessions -> Records]
    BY <1>6, <2>2 DEF HandlerPeeks, HandlerAcknowledges, HandlerCloses, TypeOK
  <2>5. rpc' \in [Sessions -> {"idle", "loop", "empty", "write", "ack", "close",
                               "remove", "done"}]
    BY <1>6 DEF HandlerPeeks, HandlerAcknowledges, HandlerCloses, TypeOK
  <2>6. status' \in [Sessions -> {"None", "Refused", "OK", "UNAVAILABLE",
                                  "INTERNAL", "ClientGone"}]
    BY <1>6 DEF HandlerPeeks, HandlerAcknowledges, HandlerCloses, TypeOK
  <2> QED BY <2>1, <2>3, <2>4, <2>5, <2>6 DEF TypeOK
<1>7. ASSUME NEW s \in Sessions, HandlerRemoves(s) PROVE TypeOK'
  <2>1. NoChannel \in Channels /\ Len(NoChannel.ring) = 0
    <3>1. <<>> \in Seq(Records) /\ Len(<<>>) = 0
      OBVIOUS
    <3> QED BY <3>1, RecordTypes, EventAssumption
            DEF NoChannel, Channels, ChannelStates
  <2>2. channels' \in [Sessions -> Channels]
        /\ \A t \in Sessions : Len(channels'[t].ring) <= QueueCapacity
    <3>1. Len(NoChannel.ring) <= QueueCapacity
      BY <2>1, EventAssumption
    <3>2. channels' = [channels EXCEPT ![s] = NoChannel]
      BY <1>7 DEF HandlerRemoves
    <3> QED BY <2>1, <3>1, <3>2, OneChannel
  <2>3. resident' \in Seq(Sessions) /\ Len(resident') <= MaxActive
    <3>1. resident' = Erased(resident, s) /\ resident \in Seq(Sessions)
          /\ Len(resident) <= MaxActive
      BY <1>7 DEF HandlerRemoves, TypeOK
    <3>2. resident' \in Seq(Sessions) /\ Len(resident') <= Len(resident)
      BY <3>1, EraseShape
    <3> QED BY <3>1, <3>2, EventAssumption
  <2>4. delivered' \in [Sessions -> Seq(Records)]
    <3>1. <<>> \in Seq(Records)
      OBVIOUS
    <3> QED BY <1>7, <3>1 DEF HandlerRemoves, TypeOK
  <2> QED BY <1>7, <2>2, <2>3, <2>4, RecordTypes DEF HandlerRemoves, TypeOK
<1>8. CASE Finished \/ UNCHANGED vars
  BY <1>8 DEF Finished, vars, hubVars, handlerVars, TypeOK
<1> QED BY <1>1, <1>2, <1>3, <1>4, <1>5, <1>6, <1>7, <1>8
        DEF Next, Handler, Lifecycle

-----------------------------------------------------------------------------
\* CurrentOK survives a step that keeps the log.
LEMMA CurrentKept ==
    ASSUME TypeOK, NEW s \in Sessions, SessionOK(s), CurrentOK(s), LogKept(s),
           channels'[s].state = "Active" => channels[s].state = "Active",
           channels'[s].stream = channels[s].stream,
           feed' => feed,
           count'[channels[s].stream] = count[channels[s].stream]
    PROVE  CurrentOK(s)'
<1> SUFFICES ASSUME Live(s)', channels'[s].state = "Active", feed',
                    Total(s)' >= 1, At(s, Total(s))'.kind = "Event"
             PROVE  At(s, Total(s))'.event = count'[channels'[s].stream]
  BY DEF CurrentOK
<1>1. Live(s) /\ Total(s)' = Total(s) /\ channels[s].state = "Active" /\ feed
      /\ Total(s) >= 1
  BY DEF LogKept
<1>2. Total(s) \in 1..Total(s)
  BY <1>1, Counts
<1>3. \A k : k = Total(s) => At(s, k)' = At(s, k)
  BY <1>1, <1>2 DEF LogKept
<1>4. At(s, Total(s))' = At(s, Total(s))
  BY <1>1, <1>3 DEF At
<1> QED BY <1>1, <1>4 DEF CurrentOK

\* A fan-out step keeps every session and serves the Active ones.
LEMMA PublishStep ==
    ASSUME IInv, NEW stream \in Streams, Publish(stream), NEW s \in Sessions
    PROVE  SessionOK(s)' /\ CurrentOK(s)'
           /\ (channels'[s].state = "Active" => channels[s].state = "Active")
           /\ (channels'[s].state = "Closed" <=> channels[s].state = "Closed")
           /\ channels'[s].gen = channels[s].gen
<1> DEFINE c == channels[s]
           n == count[stream] + 1
<1>1. /\ TypeOK /\ SessionOK(s) /\ CurrentOK(s) /\ ActiveOK(s)
      /\ c \in Channels /\ Len(c.ring) <= QueueCapacity
  BY SessionTypes DEF IInv, TypeOK
<1>2. /\ count[stream] \in Nat /\ n \in Nat /\ count'[stream] = n
      /\ \A t \in Streams : t # stream => count'[t] = count[t]
      /\ rpc'[s] = rpc[s] /\ held'[s] = held[s] /\ delivered'[s] = delivered[s]
  BY <1>1 DEF Publish, TypeOK, handlerVars
<1>3. feed /\ gate' = gate
  BY DEF Publish
<1>4. CASE Receives(s, stream) /\ channels'[s] = admit_event(c, n)
           /\ admit_result(c) = "Admitted"
  <2> DEFINE new == EventRecord(c.next, c.gen, n)
  <2>1. /\ c.state = "Active" /\ channels'[s].state = "Active"
        /\ channels'[s].terminal = c.terminal
        /\ channels'[s].next = c.next + 1 /\ channels'[s].gen = c.gen
        /\ channels'[s].stream = c.stream
        /\ channels'[s].ring = Append(c.ring, new)
    BY <1>1, <1>2, <1>4, AdmitShape
  <2>2. c.ring \in Seq(Records) /\ new \in Records
    BY <1>1, <1>2, SessionTypes, RecordTypes
  <2>3. GrownBy(s, new)
    <3>1. /\ Len(channels'[s].ring) = Len(c.ring) + 1
          /\ \A i \in 1..Len(c.ring) : channels'[s].ring[i] = c.ring[i]
          /\ channels'[s].ring[Len(c.ring) + 1] = new
      BY <2>1, <2>2
    <3> QED BY <2>1, <3>1 DEF GrownBy
  <2>4. EventOf(s, new, n)
    <3>1. ASSUME Live(s), Total(s) >= 1, At(s, Total(s)).kind = "Event"
          PROVE  n = At(s, Total(s)).event + 1
      <4>1. At(s, Total(s)).event = count[c.stream]
        BY <1>1, <1>3, <2>1, <3>1 DEF CurrentOK
      <4> QED BY <1>4, <4>1 DEF Receives
    <3> QED BY <3>1 DEF EventOf, EventRecord
  <2> HIDE DEF new, n
  <2>5. SessionOK(s)' /\ (Live(s) => At(s, Total(s))'.event = n)
    BY <1>1, <1>2, <2>3, <2>4, AppendKeeps
  <2>6. Live(s)' => Live(s)
    BY <1>2, <2>1 DEF Live
  <2>7. CurrentOK(s)'
    BY <1>2, <1>4, <2>1, <2>5, <2>6 DEF CurrentOK, Receives
  <2> QED BY <2>1, <2>5, <2>7
<1>5. CASE Receives(s, stream) /\ channels'[s] = admit_event(c, n)
           /\ admit_result(c) = "Terminalized"
  <2>1. /\ c.state = "Active" /\ channels'[s].state = "TerminalGap"
        /\ channels'[s].terminal.kind = "Gap"
        /\ channels'[s].terminal.seq = c.next
        /\ channels'[s].ring = c.ring /\ channels'[s].gen = c.gen
        /\ channels'[s] \in Channels
    BY <1>1, <1>2, <1>5, AdmitShape
  <2>2. SessionOK(s)'
    BY <1>1, <1>2, <2>1, HubKeeps
  <2> QED BY <2>1, <2>2 DEF CurrentOK
<1>6. CASE channels'[s] = c
           /\ ~(c.state = "Active" /\ Receives(s, stream) /\ feed')
  <2>1. SessionOK(s)' /\ LogKept(s)
    BY <1>1, <1>2, <1>6, Untouched DEF LogKept
  <2>2. CASE c.state = "Active" /\ feed'
    <3>1. c.stream # stream
      BY <1>1, <1>6, <2>2 DEF Receives, ActiveOK
    <3>2. c.stream \in Streams
      BY <1>1, <2>2 DEF SessionOK, NoticeOK
    <3>3. count'[c.stream] = count[c.stream]
      BY <1>2, <3>1, <3>2
    <3> QED BY <1>1, <1>3, <1>6, <2>1, <2>2, <3>3, CurrentKept
  <2>3. CASE ~(c.state = "Active" /\ feed')
    BY <1>6, <2>1, <2>3 DEF CurrentOK
  <2> QED BY <1>6, <2>1, <2>2, <2>3
<1>7. CASE channels'[s] = c /\ c.state = "Active" /\ Receives(s, stream) /\ feed'
  <2>1. Resident(s)
    BY <1>1, <1>7 DEF ActiveOK
  <2>2. \A t \in Sessions : Resident(t) /\ Receives(t, stream) =>
            admit_result(channels[t]) # "AllocationFailure"
    BY <1>7 DEF Publish
  <2>3. Reached(s, stream)
    <3>1. \A j \in 1..Len(resident) :
                resident[j] \in Sessions /\ Resident(resident[j])
      BY <1>1 DEF TypeOK, Resident
    <3>2. PICK i \in 1..Len(resident) : resident[i] = s
      BY <2>1 DEF Resident
    <3>3. \A j \in 1..i : j \in 1..Len(resident)
      BY <1>1, <3>2 DEF TypeOK
    <3> QED BY <2>2, <3>1, <3>2, <3>3 DEF Reached
  <2>4. channels'[s] = admit_event(c, n)
    BY <1>2, <1>7, <2>3 DEF Publish
  <2>5. admit_result(c) \in {"Admitted", "Terminalized"}
    BY <1>1, <1>2, <1>7, <2>1, <2>2, AdmitShape
  <2> QED BY <1>4, <1>5, <1>7, <2>4, <2>5
<1>8. CASE channels'[s] = admit_event(c, n) /\ Receives(s, stream)
           /\ admit_result(c) \in {"Inactive", "AllocationFailure"}
  <2>1. channels'[s] = c
    BY <1>1, <1>2, <1>8, AdmitShape
  <2> QED BY <1>6, <1>7, <2>1
<1>9. \/ channels'[s] = c
      \/ Receives(s, stream) /\ channels'[s] = admit_event(c, n)
  BY <1>1, PublishShape
<1>10. admit_result(c) \in {"Inactive", "AllocationFailure", "Terminalized",
                            "Admitted"}
  BY <1>1, <1>2, AdmitShape
<1> QED BY <1>4, <1>5, <1>6, <1>7, <1>8, <1>9, <1>10

\* The initial states have no session.
LEMMA InvInit == Init => IInv
<1> SUFFICES ASSUME Init PROVE IInv
  OBVIOUS
<1>1. TypeOK
  BY TypeInit
<1>2. ASSUME NEW s \in Sessions
      PROVE  SessionOK(s) /\ CurrentOK(s) /\ ClosedOK(s) /\ ActiveOK(s)
             /\ EndOK(s)
  <2>1. /\ channels[s].state = "Closed" /\ rpc[s] = "idle"
        /\ delivered[s] = <<>> /\ status[s] = "None"
    BY DEF Init, NoChannel
  <2> QED BY <2>1 DEF SessionOK, LogOK, NoticeOK, HeldOK, WrittenOK, FreshOK,
          CurrentOK, ClosedOK, ActiveOK, EndOK, Live, Handling
<1> QED BY <1>1, <1>2 DEF IInv

\* Each session's part of the invariant after a step of the gate.
LEMMA LifecycleStep ==
    ASSUME IInv, Lifecycle, NEW s \in Sessions
    PROVE  SessionOK(s)' /\ CurrentOK(s)' /\ ClosedOK(s)' /\ ActiveOK(s)'
           /\ EndOK(s)'
<1> DEFINE c == channels[s]
<1>1. /\ TypeOK /\ SessionOK(s) /\ CurrentOK(s) /\ ClosedOK(s) /\ ActiveOK(s)
      /\ EndOK(s) /\ c \in Channels /\ gate \in Gates
  BY SessionTypes DEF IInv, TypeOK
<1>2. /\ HubResult(c, channels'[s]) /\ rpc'[s] = rpc[s] /\ held'[s] = held[s]
      /\ delivered'[s] = delivered[s] /\ status'[s] = status[s]
      /\ resident' = resident /\ count' = count
  BY <1>1, LifecycleShape
<1>3. SessionOK(s)'
  <2>1. CASE channels'[s] = c
    BY <1>1, <1>2, <2>1, Untouched
  <2>2. CASE channels'[s] # c
    BY <1>1, <1>2, <2>2, HubKeeps DEF HubResult
  <2> QED BY <2>1, <2>2
<1>4. channels'[s].state = "Active" =>
            channels'[s] = c /\ c.state = "Active"
            /\ gate.state \in {"Open", "Quiesced"} /\ c.gen = gate.gen
            /\ Resident(s)
  BY <1>1, <1>2 DEF HubResult, ActiveOK
<1>5. ASSUME channels'[s].state = "Active"
      PROVE  gate'.state \in {"Open", "Quiesced"} /\ gate'.gen = gate.gen
             /\ QuiesceGeneration
  <2>1. /\ channels'[s] = c /\ c.state = "Active" /\ OfGeneration(s)
        /\ Resident(s) /\ gate.state # "Closed" /\ c.terminal = NoRecord
    BY <1>1, <1>4, <1>5 DEF OfGeneration, SessionOK, NoticeOK
  <2>2. ~OpenGeneration
    BY <2>1 DEF OpenGeneration, MayOpen
  <2>3. ~CloseGenerationReplaced
    BY <1>1, <1>5, <2>1, HubShapes DEF CloseGenerationReplaced
  <2>4. ~CloseGenerationPermanently
    BY <1>1, <1>5, <2>1, HubShapes DEF CloseGenerationPermanently
  <2>5. ~Shutdown
    BY <1>1, <1>5, <2>1, HubShapes DEF Shutdown
  <2>6. QuiesceGeneration
    BY <2>2, <2>3, <2>4, <2>5 DEF Lifecycle
  <2> QED BY <1>1, <2>6 DEF QuiesceGeneration, Quiesced, Gates
<1>6. ActiveOK(s)'
  BY <1>2, <1>4, <1>5 DEF ActiveOK, Resident
<1>7. CurrentOK(s)'
  <2>1. channels'[s].state = "Active" => feed' = FALSE
    BY <1>5 DEF QuiesceGeneration
  <2> QED BY <2>1 DEF CurrentOK
<1>8. gate.state = "Shutdown" => gate'.state = "Shutdown"
  BY DEF Lifecycle, OpenGeneration, QuiesceGeneration, CloseGenerationReplaced,
         CloseGenerationPermanently, Shutdown, MayOpen, MayQuiesce, MayClose
<1>9. channels'[s].state = "Closed" /\ c.state # "Closed" =>
            gate'.state = "Shutdown"
  <2>1. CASE OpenGeneration \/ QuiesceGeneration
    BY <2>1 DEF OpenGeneration, QuiesceGeneration
  <2>2. CASE CloseGenerationReplaced
    BY <1>1, <2>2, HubShapes DEF CloseGenerationReplaced
  <2>3. CASE CloseGenerationPermanently
    BY <1>1, <2>3, HubShapes DEF CloseGenerationPermanently
  <2>4. CASE Shutdown
    BY <1>1, <2>4 DEF Shutdown, ShutDown, Gates
  <2> QED BY <2>1, <2>2, <2>3, <2>4 DEF Lifecycle
<1>10. ClosedOK(s)'
  BY <1>1, <1>2, <1>8, <1>9 DEF ClosedOK
<1>11. EndOK(s)'
  BY <1>1, <1>2, <1>8 DEF EndOK
<1> QED BY <1>3, <1>6, <1>7, <1>10, <1>11

\* A handler's own session.
LEMMA HandlerStep ==
    ASSUME IInv, NEW s \in Sessions, Handler(s) \/ Refuse(s)
    PROVE  SessionOK(s)' /\ CurrentOK(s)' /\ ClosedOK(s)' /\ ActiveOK(s)'
           /\ EndOK(s)'
<1> DEFINE c == channels[s]
<1>1. /\ TypeOK /\ SessionOK(s) /\ CurrentOK(s) /\ ClosedOK(s) /\ ActiveOK(s)
      /\ EndOK(s) /\ c \in Channels
      /\ rpc \in [Sessions -> {"idle", "loop", "empty", "write", "ack", "close",
                               "remove", "done"}]
      /\ status \in [Sessions -> {"None", "Refused", "OK", "UNAVAILABLE",
                                  "INTERNAL", "ClientGone"}]
      /\ channels \in [Sessions -> Channels]
  BY SessionTypes DEF IInv, TypeOK
<1>2. gate' = gate /\ feed' = feed /\ count' = count
  BY DEF Handler, Refuse, HandlerPeeks, HandlerSeesState, HandlerWrites,
         HandlerAcknowledges, HandlerGivesUp, HandlerCloses, HandlerRemoves,
         hubVars
<1>3. SessionOK(s)' /\ LogKept(s)
  <2>1. CASE Refuse(s)
    <3>1. channels'[s] = c /\ rpc'[s] = "done" /\ c.state = "Closed"
      BY <1>1, <2>1 DEF Refuse, SessionOK, FreshOK
    <3> QED BY <1>1, <3>1 DEF SessionOK, LogKept, LogOK, NoticeOK, HeldOK,
                              WrittenOK, FreshOK, Live, Handling
  <2> QED BY <1>1, <2>1, PeekKeeps, WriteKeeps, AcknowledgeKeeps, EndKeeps
          DEF Handler
<1>4. channels'[s].state = "Active" =>
            c.state = "Active" /\ channels'[s].stream = c.stream
            /\ channels'[s].gen = c.gen /\ resident' = resident
  <2>1. CASE Refuse(s) \/ HandlerPeeks(s) \/ HandlerSeesState(s)
             \/ HandlerWrites(s) \/ HandlerGivesUp(s)
    BY <2>1 DEF Refuse, HandlerPeeks, HandlerSeesState, HandlerWrites,
                HandlerGivesUp, hubVars
  <2>2. CASE HandlerAcknowledges(s)
    <3>1. channels'[s] = acknowledge(c, held[s]) /\ resident' = resident
      BY <1>1, <2>2 DEF HandlerAcknowledges, hubVars
    <3> QED BY <1>1, <3>1 DEF acknowledge, Channels
  <2>3. CASE HandlerCloses(s) \/ HandlerRemoves(s)
    <3>1. channels'[s] \in {close_from_writer(c), NoChannel}
      BY <1>1, <2>3 DEF HandlerCloses, HandlerRemoves
    <3>2. close_from_writer(c).state = "Closed" /\ NoChannel.state = "Closed"
      BY <1>1 DEF close_from_writer, NoChannel, Channels
    <3> QED BY <3>1, <3>2
  <2> QED BY <2>1, <2>2, <2>3 DEF Handler
<1>5. ActiveOK(s)'
  BY <1>1, <1>2, <1>4 DEF ActiveOK, Resident
<1>6. CurrentOK(s)'
  <2>1. CASE channels'[s].state = "Active"
    BY <1>1, <1>2, <1>3, <1>4, <2>1, CurrentKept
  <2>2. CASE channels'[s].state # "Active"
    BY <2>2 DEF CurrentOK
  <2> QED BY <2>1, <2>2
<1>7. ClosedOK(s)'
  <2>1. CASE Refuse(s) \/ HandlerPeeks(s) \/ HandlerSeesState(s)
             \/ HandlerWrites(s) \/ HandlerGivesUp(s)
    <3>1. channels' = channels /\ (rpc'[s] \in Handling => rpc[s] \in Handling)
      BY <1>1, <2>1 DEF Refuse, HandlerPeeks, HandlerSeesState, HandlerWrites,
                        HandlerGivesUp, Handling
    <3> QED BY <1>1, <1>2, <3>1 DEF ClosedOK
  <2>2. CASE HandlerAcknowledges(s)
    <3>1. /\ rpc[s] = "ack" /\ channels'[s] = acknowledge(c, held[s])
          /\ rpc'[s] \in Handling =>
                acknowledge_result(c, held[s]) = "Acknowledged"
      BY <1>1, <2>2 DEF HandlerAcknowledges, Handling
    <3>2. acknowledge_result(c, held[s]) = "Acknowledged" =>
                channels'[s].state = c.state /\ c.state # "Closed"
      BY <1>1, <3>1 DEF acknowledge, acknowledge_result, Channels
    <3> QED BY <3>1, <3>2 DEF ClosedOK
  <2>3. CASE HandlerCloses(s) \/ HandlerRemoves(s)
    <3>1. rpc'[s] \notin Handling
      BY <1>1, <2>3 DEF HandlerCloses, HandlerRemoves, Handling
    <3> QED BY <3>1 DEF ClosedOK
  <2> QED BY <2>1, <2>2, <2>3 DEF Handler
<1>8. EndOK(s)'
  <2>1. CASE HandlerSeesState(s)
    <3>1. /\ rpc[s] = "empty"
          /\ rpc'[s] \in {"close", "remove"} /\ status'[s] = "OK" =>
                c.state = "Closed"
      BY <1>1, <2>1 DEF HandlerSeesState
    <3> QED BY <1>1, <1>2, <3>1 DEF EndOK, ClosedOK, Handling
  <2>2. CASE HandlerAcknowledges(s)
    <3>1. /\ rpc[s] = "ack" /\ delivered'[s] = delivered[s]
          /\ rpc'[s] \in {"close", "remove"} /\ status'[s] = "OK" =>
                acknowledge_result(c, held[s]) # "Acknowledged"
                /\ (acknowledge_result(c, held[s]) = "Closed"
                    \/ acknowledge_result(c, held[s]) \notin {"Closed", "Mismatch"})
      BY <1>1, <2>2 DEF HandlerAcknowledges
    <3>2. acknowledge_result(c, held[s]) \in {"Acknowledged", "Closed", "Mismatch"}
          /\ (acknowledge_result(c, held[s]) = "Closed" =>
                c.state = "Closed" \/ held[s].kind = "Gap")
      BY DEF acknowledge_result
    <3>3. Len(delivered[s]) >= 1 /\ delivered[s][Len(delivered[s])] = held[s]
      BY <1>1, <3>1 DEF SessionOK, WrittenOK
    <3> QED BY <1>1, <1>2, <3>1, <3>2, <3>3 DEF EndOK, ClosedOK, Handling
  <2>3. CASE Refuse(s) \/ HandlerPeeks(s) \/ HandlerWrites(s)
             \/ HandlerGivesUp(s) \/ HandlerRemoves(s)
    <3>1. status'[s] # "OK" \/ rpc'[s] \notin {"close", "remove"}
      BY <1>1, <2>3 DEF Refuse, HandlerPeeks, HandlerWrites, HandlerGivesUp,
                        HandlerRemoves
    <3> QED BY <3>1 DEF EndOK
  <2>4. CASE HandlerCloses(s)
    <3>1. rpc[s] = "close" /\ status'[s] = status[s]
          /\ delivered'[s] = delivered[s]
      BY <2>4 DEF HandlerCloses
    <3> QED BY <1>1, <1>2, <3>1 DEF EndOK
  <2> QED BY <2>1, <2>2, <2>3, <2>4 DEF Handler
<1> QED BY <1>3, <1>5, <1>6, <1>7, <1>8

\* IInv is inductive.
LEMMA InvStep == IInv /\ [Next]_vars => IInv'
<1> SUFFICES ASSUME IInv, [Next]_vars PROVE IInv'
  OBVIOUS
<1> DEFINE All(t) == SessionOK(t) /\ CurrentOK(t) /\ ClosedOK(t) /\ ActiveOK(t)
                     /\ EndOK(t)
<1>1. TypeOK /\ TypeOK'
  BY TypeStep DEF IInv
<1> SUFFICES ASSUME NEW t \in Sessions PROVE All(t)'
  BY <1>1 DEF IInv
<1>2. All(t)
  BY DEF IInv
<1>3. CASE Lifecycle
  BY <1>3, LifecycleStep
<1>4. CASE PublishFails
  <2>1. UNCHANGED <<gate, count, channels, resident, rpc, held, delivered, status>>
        /\ ~feed'
    BY <1>4 DEF PublishFails, handlerVars
  <2>2. SessionOK(t)'
    BY <1>2, <2>1, Untouched
  <2> QED BY <1>2, <2>1, <2>2 DEF CurrentOK, ClosedOK, ActiveOK, EndOK, Resident
<1>5. ASSUME NEW stream \in Streams, Publish(stream) PROVE All(t)'
  <2>1. SessionOK(t)' /\ CurrentOK(t)'
        /\ (channels'[t].state = "Active" => channels[t].state = "Active")
        /\ (channels'[t].state = "Closed" <=> channels[t].state = "Closed")
        /\ channels'[t].gen = channels[t].gen
    BY <1>5, PublishStep
  <2>2. UNCHANGED <<gate, resident, rpc, held, delivered, status>>
    BY <1>5 DEF Publish, handlerVars
  <2> QED BY <1>2, <2>1, <2>2 DEF ClosedOK, ActiveOK, EndOK, Resident
<1>6. ASSUME NEW s \in Sessions, Handler(s) \/ Refuse(s) PROVE All(t)'
  <2>1. CASE s = t
    BY <1>6, <2>1, HandlerStep
  <2>2. CASE s # t
    <3>1. /\ channels'[t] = channels[t] /\ rpc'[t] = rpc[t]
          /\ held'[t] = held[t] /\ delivered'[t] = delivered[t]
          /\ status'[t] = status[t]
      BY <1>1, <1>6, <2>2, OtherSessions
    <3>2. gate' = gate /\ feed' = feed /\ count' = count
      BY <1>6 DEF Handler, Refuse, HandlerPeeks, HandlerSeesState,
         HandlerWrites, HandlerAcknowledges, HandlerGivesUp, HandlerCloses,
         HandlerRemoves, hubVars
    <3>3. Resident(t) => Resident(t)'
      <4>1. CASE HandlerRemoves(s)
        <5>1. resident' = Erased(resident, s) /\ resident \in Seq(Sessions)
          BY <1>1, <4>1 DEF HandlerRemoves, TypeOK
        <5> QED BY <2>2, <5>1, EraseShape DEF Resident
      <4>2. CASE ~HandlerRemoves(s)
        <5>1. resident' = resident
          BY <1>6, <4>2 DEF Handler, Refuse, HandlerPeeks, HandlerSeesState,
             HandlerWrites, HandlerAcknowledges, HandlerGivesUp, HandlerCloses,
             hubVars
        <5> QED BY <5>1 DEF Resident
      <4> QED BY <4>1, <4>2
    <3>4. SessionOK(t)' /\ LogKept(t)
      BY <1>2, <3>1, Untouched DEF LogKept
    <3>5. CurrentOK(t)'
      BY <1>1, <1>2, <3>1, <3>2, <3>4, CurrentKept
    <3> QED BY <1>2, <3>1, <3>2, <3>3, <3>4, <3>5 DEF ClosedOK, ActiveOK, EndOK
  <2> QED BY <2>1, <2>2
<1>7. ASSUME NEW s \in Sessions, NEW stream \in Streams, Admit(s, stream)
      PROVE  All(t)'
  <2>1. /\ gate' = gate /\ feed' = feed /\ count' = count /\ status' = status
        /\ resident' = Append(resident, s) /\ gate.state = "Open"
        /\ resident \in Seq(Sessions)
    BY <1>1, <1>7 DEF Admit, TypeOK
  <2>2. /\ \A i \in 1..Len(resident) : resident'[i] = resident[i]
        /\ Len(resident') = Len(resident) + 1 /\ Len(resident) \in Nat
        /\ resident'[Len(resident) + 1] = s
    BY <2>1
  <2>3. CASE s = t
    <3>1. SessionOK(s)' /\ At(s, Total(s))'.kind = "Accepted"
      BY <1>1, <1>2, <1>7, <2>3, AdmitStarts
    <3>2. /\ channels'[s] = StagedChannel(stream, gate.gen) /\ rpc'[s] = "loop"
      BY <1>1, <1>7 DEF Admit, TypeOK
    <3>3. channels'[s].state = "Active" /\ channels'[s].gen = gate.gen
      BY <3>2 DEF StagedChannel
    <3>4. Resident(s)'
      BY <2>2 DEF Resident
    <3> QED BY <2>1, <2>3, <3>1, <3>2, <3>3, <3>4
            DEF CurrentOK, ClosedOK, ActiveOK, EndOK
  <2>4. CASE s # t
    <3>1. /\ channels'[t] = channels[t] /\ rpc'[t] = rpc[t]
          /\ held'[t] = held[t] /\ delivered'[t] = delivered[t]
      BY <1>1, <1>7, <2>4, OtherSessions
    <3>2. SessionOK(t)' /\ LogKept(t)
      BY <1>2, <3>1, Untouched DEF LogKept
    <3>3. CurrentOK(t)'
      BY <1>1, <1>2, <2>1, <3>1, <3>2, CurrentKept
    <3>4. Resident(t) => Resident(t)'
      BY <2>2 DEF Resident
    <3> QED BY <1>2, <2>1, <3>1, <3>2, <3>3, <3>4 DEF ClosedOK, ActiveOK, EndOK
  <2> QED BY <2>3, <2>4
<1>8. CASE Finished \/ UNCHANGED vars
  <2>1. UNCHANGED <<gate, feed, count, channels, resident, rpc, held, delivered, status>>
    BY <1>8 DEF Finished, vars, hubVars, handlerVars
  <2>2. SessionOK(t)' /\ LogKept(t)
    BY <1>2, <2>1, Untouched DEF LogKept
  <2>3. CurrentOK(t)'
    BY <1>1, <1>2, <2>1, <2>2, CurrentKept
  <2> QED BY <1>2, <2>1, <2>2, <2>3 DEF ClosedOK, ActiveOK, EndOK, Resident
<1> QED BY <1>3, <1>4, <1>5, <1>6, <1>7, <1>8 DEF Next, Lifecycle

\* The inductive invariant holds in every reachable state.
LEMMA EventInvariant == Spec => []IInv
BY InvInit, InvStep, PTL DEF Spec

-----------------------------------------------------------------------------
\* No queue exceeds its capacity and no session list its limit, and every
\* record, channel and status has its type.
THEOREM EventTypes == Spec => []TypeOK
<1>1. IInv => TypeOK
  BY DEF IInv
<1> QED BY <1>1, EventInvariant, PTL

\* A session that is Active belongs to the generation the gate has open or is
\* quiescing, and is listed: close_generation_replaced(),
\* close_generation_permanently() and shutdown() miss none.
THEOREM SourceTheorem == Spec => []ActiveBelongsToSource
<1>1. IInv => ActiveBelongsToSource
  BY DEF IInv, ActiveOK, ActiveBelongsToSource
<1> QED BY <1>1, EventInvariant, PTL

\* A stream that ended with OK without the client's doing ended with a gap
\* notice, or by the shutdown.
THEOREM EndTheorem == Spec => []OkMeansGapOrShutdown
<1>1. IInv => OkMeansGapOrShutdown
  <2> SUFFICES ASSUME IInv, NEW s \in Sessions, status[s] = "OK",
                      rpc[s] \in {"close", "remove"}, gate.state # "Shutdown"
               PROVE  /\ delivered[s] # <<>>
                      /\ delivered[s][Len(delivered[s])].kind = "Gap"
    BY DEF OkMeansGapOrShutdown
  <2>1. Len(delivered[s]) >= 1 /\ delivered[s][Len(delivered[s])].kind = "Gap"
    BY DEF IInv, EndOK
  <2> QED BY <2>1
<1> QED BY <1>1, EventInvariant, PTL

\* The elements of a concatenation.
LEMMA ConcatShape ==
    ASSUME NEW d \in Seq(Records), NEW u \in Seq(Records)
    PROVE  /\ d \o u \in Seq(Records) /\ Len(d \o u) = Len(d) + Len(u)
           /\ \A k \in 1..Len(d) : (d \o u)[k] = d[k]
           /\ \A k \in 1..Len(u) : (d \o u)[Len(d) + k] = u[k]
           /\ Len(d) \in Nat /\ Len(u) \in Nat
OBVIOUS

\* What is written, what is unread and the notice, if there is one.
LEMMA LogShape ==
    ASSUME NEW d \in Seq(Records), NEW u \in Seq(Records),
           NEW n \in Seq(Records)
    PROVE  LET log == d \o u \o n IN
           /\ log \in Seq(Records)
           /\ Len(log) = Len(d) + Len(u) + Len(n)
           /\ \A k \in 1..Len(d) : log[k] = d[k]
           /\ \A k \in 1..Len(u) : log[Len(d) + k] = u[k]
           /\ \A k \in 1..Len(n) : log[Len(d) + Len(u) + k] = n[k]
<1> DEFINE du == d \o u
           log == du \o n
<1>1. /\ du \in Seq(Records) /\ Len(du) = Len(d) + Len(u)
      /\ \A k \in 1..Len(d) : du[k] = d[k]
      /\ \A k \in 1..Len(u) : du[Len(d) + k] = u[k]
      /\ Len(d) \in Nat /\ Len(u) \in Nat
  BY ConcatShape
<1> HIDE DEF du
<1>2. /\ log \in Seq(Records) /\ Len(log) = Len(du) + Len(n)
      /\ \A k \in 1..Len(du) : log[k] = du[k]
      /\ \A k \in 1..Len(n) : log[Len(du) + k] = n[k]
  BY <1>1, ConcatShape
<1> HIDE DEF log
<1>3. /\ \A k \in 1..Len(d) : k \in 1..Len(du)
      /\ \A k \in 1..Len(u) : Len(d) + k \in 1..Len(du)
  BY <1>1
<1>4. /\ log \in Seq(Records)
      /\ Len(log) = Len(d) + Len(u) + Len(n)
      /\ \A k \in 1..Len(d) : log[k] = d[k]
      /\ \A k \in 1..Len(u) : log[Len(d) + k] = u[k]
      /\ \A k \in 1..Len(n) : log[Len(d) + Len(u) + k] = n[k]
  BY <1>1, <1>2, <1>3
<1> QED BY <1>4 DEF log, du

\* Positions in a sequence of two parts, and in one with a notice behind it.
LEMMA Positions ==
    /\ \A a, l \in Nat : \A k \in 1..(a + l) : k > a => k - a \in 1..l
    /\ \A t \in Nat : \A i \in 2..t : i \in 1..t /\ i - 1 \in 1..t
    /\ \A t \in Nat : \A i \in 2..(t + 1) :
            \/ i \in 1..t /\ i - 1 \in 1..t
            \/ i = t + 1 /\ i - 1 = t /\ i - 1 \in 1..t
OBVIOUS

\* What a client has read and what is queued for it is one unbroken run of its
\* stream, however the network thread, the coordinator and the handler
\* interleave.
THEOREM StreamTheorem == Spec => []UnbrokenStream
<1>1. ASSUME IInv, NEW s \in Sessions, channels[s].state # "Closed",
             rpc[s] \in {"loop", "empty", "write", "ack"}
      PROVE  LET c == channels[s]
                 unread == IF rpc[s] = "ack" /\ c.ring # <<>> THEN Tail(c.ring)
                           ELSE IF rpc[s] = "ack" THEN <<>> ELSE c.ring
                 notice == IF c.terminal # NoRecord /\ c.terminal # held[s]
                           THEN <<c.terminal>> ELSE <<>>
                 log == delivered[s] \o unread \o notice
             IN  /\ \A i \in 2..Len(log) : NextInStream(log[i - 1], log[i])
                 /\ c.state = "Active" /\ feed /\ log # <<>> =>
                        log[Len(log)].event \in {0, count[c.stream]}
  <2> DEFINE c == channels[s]
             d == delivered[s]
             unread == IF rpc[s] = "ack" /\ c.ring # <<>> THEN Tail(c.ring)
                       ELSE IF rpc[s] = "ack" THEN <<>> ELSE c.ring
             notice == IF c.terminal # NoRecord /\ c.terminal # held[s]
                       THEN <<c.terminal>> ELSE <<>>
             log == d \o unread \o notice
             T == Total(s)
  <2>1. TypeOK /\ SessionOK(s) /\ CurrentOK(s) /\ Live(s)
    BY <1>1 DEF IInv, Live, Handling
  <2>2. /\ c.ring \in Seq(Records) /\ d \in Seq(Records) /\ c.terminal \in Records
        /\ Len(c.ring) \in Nat /\ Len(d) \in Nat
        /\ c.state \in {"Active", "TerminalGap", "TerminalUnavailable"}
    BY <1>1, <2>1, SessionTypes DEF Channels, ChannelStates
  <2>3. /\ T \in Nat /\ Acked(s) \in Nat /\ T = Acked(s) + Len(c.ring)
    BY <2>1, Counts
  <2>4. unread \in Seq(Records)
    BY <2>2
  <2>5. /\ notice \in Seq(Records) /\ Len(notice) \in {0, 1}
        /\ Len(notice) = 1 => notice[1] = c.terminal /\ c.state = "TerminalGap"
                              /\ c.terminal # held[s]
    <3>1. CASE c.terminal # NoRecord /\ c.terminal # held[s]
      <4>1. c.state = "TerminalGap"
        BY <2>1, <2>2, <3>1 DEF SessionOK, NoticeOK
      <4>2. notice = <<c.terminal>>
        BY <3>1
      <4> HIDE DEF notice
      <4> QED BY <2>2, <3>1, <4>1, <4>2
    <3>2. CASE ~(c.terminal # NoRecord /\ c.terminal # held[s])
      <4>1. notice = <<>>
        BY <3>2
      <4> HIDE DEF notice
      <4> QED BY <4>1
    <3> QED BY <3>1, <3>2
  <2>6. /\ \A k \in 1..T : k <= Len(d) => At(s, k) = d[k]
        /\ \A k \in 1..T : k > Len(d) =>
                k - Len(d) \in 1..Len(unread) /\ At(s, k) = unread[k - Len(d)]
        /\ \/ T = Len(d) + Len(unread)
           \/ /\ T + 1 = Len(d) /\ Len(unread) = 0 /\ rpc[s] = "ack"
              /\ d[T + 1] = c.terminal /\ c.state = "TerminalGap"
              /\ c.terminal = held[s]
    <3>1. CASE rpc[s] # "ack"
      <4>1. Acked(s) = Len(d) /\ unread = c.ring
        BY <3>1 DEF Acked
      <4> HIDE DEF unread
      <4> HIDE DEF c, T, d
      <4>2. \A k \in 1..T : k > Len(d) => k - Len(d) \in 1..Len(c.ring)
        BY <2>2, <2>3, <4>1, Positions
      <4>3. \A k \in 1..T : k > Len(d) => ~(k <= Acked(s))
        BY <2>2, <2>3, <4>1
      <4>4. \A k \in 1..T : At(s, k) = IF k <= Len(d) THEN d[k]
                                       ELSE c.ring[k - Len(d)]
        BY <4>1 DEF At, c, d
      <4> QED BY <2>2, <2>3, <4>1, <4>2, <4>3, <4>4
    <3>2. CASE rpc[s] = "ack"
      <4>1. /\ Acked(s) = Len(d) - 1 /\ Len(d) >= 1 /\ d[Len(d)] = held[s]
        BY <2>1, <3>2 DEF Acked, SessionOK, WrittenOK
      <4>2. CASE c.ring = <<>>
        <5>1. unread = <<>> /\ Len(c.ring) = 0 /\ Len(unread) = 0
          BY <3>2, <4>2
        <5> HIDE DEF unread
        <5>2. held[s] = c.terminal /\ c.state = "TerminalGap"
          BY <2>1, <3>2, <5>1 DEF SessionOK, HeldOK
        <5>3. T + 1 = Len(d) /\ T = Acked(s)
          BY <2>2, <2>3, <4>1, <5>1
        <5>4. \A k \in 1..T : k <= Acked(s) /\ k <= Len(d)
          BY <2>2, <2>3, <5>3
        <5>5. \A k \in 1..T : At(s, k) = d[k] /\ ~(k > Len(d))
          BY <2>2, <2>3, <5>4 DEF At
        <5> HIDE DEF c, T, d
        <5>6. d[T + 1] = c.terminal
          BY <4>1, <5>2, <5>3
        <5> QED BY <3>2, <5>1, <5>2, <5>3, <5>5, <5>6
      <4>3. CASE c.ring # <<>>
        <5>1. /\ unread = Tail(c.ring) /\ Len(c.ring) >= 1
          BY <2>2, <3>2, <4>3
        <5> HIDE DEF unread
        <5>2. /\ Len(unread) = Len(c.ring) - 1
              /\ \A k \in 1..(Len(c.ring) - 1) : unread[k] = c.ring[k + 1]
          BY <2>2, <4>3, <5>1
        <5>3. c.ring[1] = held[s]
          BY <2>1, <3>2, <5>1 DEF SessionOK, HeldOK
        <5>4. T = Len(d) + Len(unread) /\ Len(d) = Acked(s) + 1
          BY <2>2, <2>3, <4>1, <5>2
        <5>5. ASSUME NEW k \in 1..T, k <= Len(d) PROVE At(s, k) = d[k]
          <6>1. CASE k <= Acked(s)
            BY <6>1 DEF At
          <6>2. CASE k = Len(d)
            <7>1. ~(k <= Acked(s)) /\ k - Acked(s) = 1
              BY <2>2, <2>3, <5>4, <6>2
            <7> QED BY <4>1, <5>3, <6>2, <7>1 DEF At
          <6> QED BY <2>2, <2>3, <5>4, <5>5, <6>1, <6>2
        <5>6. ASSUME NEW k \in 1..T, k > Len(d)
              PROVE  k - Len(d) \in 1..Len(unread)
                     /\ At(s, k) = unread[k - Len(d)]
          <6>1. k \in Nat /\ k <= Acked(s) + Len(c.ring) /\ k > Acked(s) + 1
            BY <2>2, <2>3, <5>4, <5>6
          <6>2. /\ ~(k <= Acked(s)) /\ k - Len(d) \in 1..(Len(c.ring) - 1)
                /\ (k - Len(d)) + 1 = k - Acked(s)
            <7> HIDE DEF c
            <7> QED BY <2>2, <2>3, <5>4, <6>1, BehindTheHead
          <6> QED BY <5>2, <6>2 DEF At
        <5> QED BY <5>4, <5>5, <5>6
      <4> QED BY <4>2, <4>3
    <3> QED BY <3>1, <3>2
  <2>7. /\ log \in Seq(Records)
        /\ Len(log) = Len(d) + Len(unread) + Len(notice)
        /\ \A k \in 1..Len(d) : log[k] = d[k]
        /\ \A k \in 1..Len(unread) : log[Len(d) + k] = unread[k]
        /\ \A k \in 1..Len(notice) : log[Len(d) + Len(unread) + k] = notice[k]
    <3> HIDE DEF unread, notice
    <3> QED BY <2>2, <2>4, <2>5, LogShape
  <2>8. Len(unread) \in Nat /\ Len(notice) \in Nat
    <3> HIDE DEF unread, notice
    <3> QED BY <2>4, <2>5
  <2> HIDE DEF unread, notice, log, T, d
  <2>9. \A k \in 1..T : log[k] = At(s, k)
    <3> TAKE k \in 1..T
    <3>1. CASE k <= Len(d)
      BY <2>2, <2>3, <2>6, <2>7, <3>1
    <3>2. CASE k > Len(d)
      <4>1. k - Len(d) \in 1..Len(unread) /\ At(s, k) = unread[k - Len(d)]
        BY <2>6, <3>2
      <4>2. Len(d) + (k - Len(d)) = k
        BY <2>2, <2>3
      <4> QED BY <2>7, <4>1, <4>2
    <3> QED BY <2>2, <2>3, <3>1, <3>2
  <2>10. \/ Len(log) = T
         \/ Len(log) = T + 1 /\ log[T + 1] = c.terminal /\ c.state = "TerminalGap"
    <3>1. CASE T = Len(d) + Len(unread) /\ Len(notice) = 0
      BY <2>2, <2>3, <2>7, <2>8, <3>1
    <3>2. CASE T = Len(d) + Len(unread) /\ Len(notice) = 1
      <4>1. Len(log) = T + 1 /\ 1 \in 1..Len(notice)
        BY <2>2, <2>3, <2>7, <2>8, <3>2
      <4> QED BY <2>5, <2>7, <3>2, <4>1
    <3>3. CASE /\ T + 1 = Len(d) /\ Len(unread) = 0 /\ d[T + 1] = c.terminal
               /\ c.state = "TerminalGap" /\ c.terminal = held[s]
      <4>1. Len(notice) = 0
        BY <2>5, <3>3
      <4>2. Len(log) = T + 1 /\ T + 1 \in 1..Len(d)
        BY <2>2, <2>3, <2>7, <3>3, <4>1
      <4> QED BY <2>7, <3>3, <4>2
    <3> QED BY <2>5, <2>6, <3>1, <3>2, <3>3
  <2>11. \A i \in 2..Len(log) : NextInStream(log[i - 1], log[i])
    <3> TAKE i \in 2..Len(log)
    <3>0. \/ i \in 1..T /\ i - 1 \in 1..T
          \/ i = T + 1 /\ i - 1 = T /\ i - 1 \in 1..T /\ Len(log) = T + 1
      <4>1. CASE Len(log) = T
        BY <2>3, <4>1, Positions
      <4>2. CASE Len(log) = T + 1
        BY <2>3, <4>2, Positions
      <4> QED BY <2>10, <4>1, <4>2
    <3>1. CASE i \in 1..T /\ i - 1 \in 1..T
      <4>1. i - 1 \in 1..T /\ i >= 2 /\ i = (i - 1) + 1
        BY <2>3, <3>1
      <4>2. log[i] = At(s, i) /\ log[i - 1] = At(s, i - 1)
        BY <2>9, <3>1, <4>1
      <4>3. /\ At(s, i).seq = i /\ At(s, i - 1).seq = i - 1
            /\ At(s, i - 1).kind # "Gap"
            /\ At(s, i).kind = "Event" /\ At(s, i - 1).kind = "Event" =>
                    At(s, i).event = At(s, i - 1).event + 1
                    /\ At(s, i).gen = At(s, i - 1).gen
        BY <2>1, <3>1, <4>1 DEF SessionOK, LogOK, T
      <4> QED BY <4>1, <4>2, <4>3 DEF NextInStream
    <3>2. CASE i = T + 1 /\ i - 1 = T /\ i - 1 \in 1..T /\ Len(log) = T + 1
      <4>1. i - 1 \in 1..T /\ i - 1 = T
        BY <3>2
      <4>2. log[i] = c.terminal /\ c.state = "TerminalGap"
        <5>1. Len(log) # T
          BY <2>3, <3>2
        <5> QED BY <2>10, <3>2, <5>1
      <4>5. log[i - 1] = At(s, i - 1)
        BY <2>9, <4>1
      <4>3. At(s, i - 1).seq = T /\ At(s, i - 1).kind # "Gap"
        BY <2>1, <4>1 DEF SessionOK, LogOK, T
      <4>4. c.terminal.kind = "Gap" /\ c.terminal.seq = T + 1
        BY <2>1, <4>2 DEF SessionOK, NoticeOK, T
      <4> QED BY <3>2, <4>2, <4>3, <4>4, <4>5 DEF NextInStream
    <3> QED BY <3>0, <3>1, <3>2
  <2>12. ASSUME c.state = "Active", feed, log # <<>>
         PROVE  log[Len(log)].event \in {0, count[c.stream]}
    <3>1. Len(log) = T /\ T \in 1..T
      BY <2>3, <2>7, <2>10, <2>12
    <3>2. log[Len(log)] = At(s, T)
      BY <2>9, <3>1
    <3>3. /\ At(s, T).kind \in {"Accepted", "Event"}
          /\ At(s, T).kind = "Accepted" => At(s, T).event = 0
      BY <2>1, <3>1 DEF SessionOK, LogOK, T
    <3>4. At(s, T).kind = "Event" => At(s, T).event = count[c.stream]
      BY <2>1, <2>3, <2>12, <3>1 DEF CurrentOK, T
    <3> QED BY <3>2, <3>3, <3>4
  <2> QED BY <2>11, <2>12 DEF log, unread, notice, d
<1>2. IInv => UnbrokenStream
  BY <1>1 DEF UnbrokenStream
<1> QED BY <1>2, EventInvariant, PTL

=============================================================================
