------------------------ MODULE BinanceTransportProofs ------------------------
(***************************************************************************)
(* The safety of BinanceTransport for any number of stages, frames and     *)
(* callers of stop().                                                      *)
(*                                                                         *)
(* IInv is inductive.  Its heart is OpOK, about one operation and the      *)
(* ready queue: each call and each wait of the current generation is in    *)
(* one place (outstanding, due or queued), the pending flags account for   *)
(* it, and a cancelled operation counts exactly the pieces that are still  *)
(* to come.  Around it are the callers, what they have posted, which       *)
(* operations have begun, what has been recorded and told, and the         *)
(* failures that the shutdown cut found in hand and that nothing can hide. *)
(*                                                                         *)
(* The functions of the network thread are described field by field first, *)
(* then what a handler may do to one operation, then the actions.          *)
(***************************************************************************)
EXTENDS BinanceTransport, FiniteSetTheorems, SequenceTheorems, TLAPS

\* How an asynchronous call may complete.
Outcomes == {"ok", "failed", "aborted"}

\* The types, with generations unbounded.
WaitTypes == [generation : Nat, stage : 0 .. Stages, due : BOOLEAN]

OpTypes ==
    [stage : 0 .. Stages, timer : [generation : Nat, wait : WaitTypes],
     io : {"none", "waiting"} \cup Outcomes,
     io_pending : BOOLEAN, timer_pending : BOOLEAN, cancel_requested : BOOLEAN,
     completions_pending : Nat, cancelled_result : BOOLEAN, done : BOOLEAN]

Handlers ==
    [kind : {"start", "clean", "barrier", "io", "timer"},
     op : Ops \cup {"none"}, outcome : Outcomes, wait : WaitTypes]

Nets ==
    [op : [Ops -> OpTypes], ready : Seq(Handlers), held : SUBSET Ops,
     work_guard : BOOLEAN, clean_cancel : BOOLEAN, barrier : BOOLEAN]

-----------------------------------------------------------------------------
(* One operation and its handlers in the ready queue.                        *)

\* h is the completion of o's I/O, or a wait of its timer's generation.
IsIo(h, o) == h.kind = "io" /\ h.op = o

IsWait(h, o, x) ==
    h.kind = "timer" /\ h.op = o /\ h.wait.generation = x.timer.generation

\* Such a handler is queued.
IoQueued(q, o) == \E i \in DOMAIN q : IsIo(q[i], o)

WaitQueued(q, o, x) == \E i \in DOMAIN q : IsWait(q[i], o, x)

\* A call completes once: it is outstanding or due, or queued, never both.
IoOnce(q, o, x) ==
    /\ \A i, j \in DOMAIN q : IsIo(q[i], o) /\ IsIo(q[j], o) => i = j
    /\ x.io # "none" => ~IoQueued(q, o)

\* So does a wait.
WaitOnce(q, o, x) ==
    /\ \A i, j \in DOMAIN q : IsWait(q[i], o, x) /\ IsWait(q[j], o, x) => i = j
    /\ x.timer.wait # NoWait => ~WaitQueued(q, o, x)

\* No wait is ahead of the timer, and those of its generation are the stage's.
WaitsOwn(q, o, x) ==
    /\ \A i \in DOMAIN q :
        q[i].kind = "timer" /\ q[i].op = o =>
            /\ q[i].wait.generation <= x.timer.generation
            /\ q[i].wait.generation = x.timer.generation =>
                    q[i].wait.stage = x.stage
    /\ x.timer.wait # NoWait =>
            /\ x.timer.wait.generation = x.timer.generation
            /\ x.timer.wait.stage = x.stage

Shape(q, o, x) == IoOnce(q, o, x) /\ WaitOnce(q, o, x) /\ WaitsOwn(q, o, x)

\* What cancel() has to wait for.
Pieces(x) ==
    (IF x.io_pending THEN 1 ELSE 0) + (IF x.timer_pending THEN 1 ELSE 0)

\* io_pending_ and timer_pending_ say what is outstanding, due or queued.
Accounted(q, o, x) ==
    /\ x.io_pending = (x.io # "none" \/ IoQueued(q, o))
    /\ x.timer_pending = (x.timer.wait # NoWait \/ WaitQueued(q, o, x))

\* A cancelled operation that is not done waits for as many pieces as are pending,
\* at least one; one that is under way has its I/O pending.
Counted(x) ==
    /\ x.cancel_requested =>
            x.completions_pending = Pieces(x) /\ x.completions_pending > 0
    /\ ~x.cancel_requested /\ x.stage > 0 => x.io_pending
    /\ x.cancelled_result => x.cancel_requested /\ ~x.io_pending
    /\ x.io_pending \/ x.timer_pending => x.stage > 0

\* Only cancel() makes a call of an operation that is not done complete as aborted.
Uncancelled(q, o, x) ==
    ~x.cancel_requested =>
        /\ x.io # "aborted"
        /\ \A i \in DOMAIN q :
            IsIo(q[i], o) \/ IsWait(q[i], o, x) => q[i].outcome # "aborted"

OpOK(q, o, x) ==
    /\ Shape(q, o, x)
    /\ ~x.done => Accounted(q, o, x) /\ Counted(x) /\ Uncancelled(q, o, x)

NetOK(n) == \A o \in Ops : OpOK(n.ready, o, n.op[o])

-----------------------------------------------------------------------------
(* The ready queue.                                                          *)

\* Indices of a queue.
LEMMA QueueFacts ==
    ASSUME NEW q \in Seq(Handlers)
    PROVE  /\ Len(q) \in Nat /\ DOMAIN q = 1 .. Len(q)
           /\ \A i \in DOMAIN q : q[i] \in Handlers
BY LenProperties, ElementOfSeq

\* Taking the head shifts the others forward by one.
LEMMA TailFacts ==
    ASSUME NEW q \in Seq(Handlers), q # <<>>
    PROVE  /\ Tail(q) \in Seq(Handlers) /\ Head(q) \in Handlers
           /\ 1 \in DOMAIN q /\ q[1] = Head(q)
           /\ \A i \in DOMAIN Tail(q) : i + 1 \in DOMAIN q /\ Tail(q)[i] = q[i + 1]
           /\ \A i \in DOMAIN q : i # 1 =>
                    i - 1 \in DOMAIN Tail(q) /\ Tail(q)[i - 1] = q[i]
           /\ \A i \in DOMAIN Tail(q) : i + 1 # 1
           /\ \A i, j \in DOMAIN Tail(q) : i + 1 = j + 1 => i = j
<1>1. /\ Tail(q) \in Seq(Handlers) /\ Head(q) \in Handlers
      /\ Len(Tail(q)) = Len(q) - 1
      /\ \A i \in 1 .. Len(Tail(q)) : Tail(q)[i] = q[i + 1]
  BY HeadTailProperties
<1>2. Len(q) \in Nat /\ Len(q) # 0 /\ q[1] = Head(q)
  BY EmptySeq
<1>3. DOMAIN q = 1 .. Len(q) /\ DOMAIN Tail(q) = 1 .. Len(Tail(q))
  BY <1>1, LenProperties
<1> QED BY <1>1, <1>2, <1>3

\* r is q with something behind it.
Extends(q, r) ==
    /\ r \in Seq(Handlers)
    /\ \A i \in DOMAIN q : i \in DOMAIN r /\ r[i] = q[i]

\* Append, as seen by an index.
LEMMA AppendFacts ==
    ASSUME NEW q \in Seq(Handlers), NEW h \in Handlers
    PROVE  /\ Extends(q, Append(q, h))
           /\ Len(q) + 1 \in DOMAIN Append(q, h) /\ Len(q) + 1 \notin DOMAIN q
           /\ \A i \in DOMAIN Append(q, h) :
                i \notin DOMAIN q => i = Len(q) + 1 /\ Append(q, h)[i] = h
<1>1. /\ Append(q, h) \in Seq(Handlers)
      /\ Len(q) \in Nat /\ Len(Append(q, h)) = Len(q) + 1
      /\ \A i \in 1 .. Len(q) : Append(q, h)[i] = q[i]
      /\ Append(q, h)[Len(q) + 1] = h
  OBVIOUS
<1>2. DOMAIN q = 1 .. Len(q) /\ DOMAIN Append(q, h) = 1 .. Len(Append(q, h))
  BY <1>1, LenProperties
<1> QED BY <1>1, <1>2 DEF Extends

-----------------------------------------------------------------------------
(* What one operation may become.                                            *)

\* Taking what is not its I/O leaves the I/O's completion where it is.
LEMMA TailKeepsIo ==
    ASSUME NEW q \in Seq(Handlers), q # <<>>, NEW o, NEW x,
           ~IsIo(Head(q), o), IoOnce(q, o, x)
    PROVE  IoOnce(Tail(q), o, x) /\ (IoQueued(Tail(q), o) <=> IoQueued(q, o))
<1>1. IoQueued(Tail(q), o) => IoQueued(q, o)
  BY TailFacts DEF IoQueued
<1>2. IoQueued(q, o) => IoQueued(Tail(q), o)
  <2> SUFFICES ASSUME NEW i \in DOMAIN q, IsIo(q[i], o)
               PROVE  IoQueued(Tail(q), o)
    BY DEF IoQueued
  <2>1. i - 1 \in DOMAIN Tail(q) /\ Tail(q)[i - 1] = q[i]
    BY TailFacts
  <2> QED BY <2>1 DEF IoQueued
<1>3. \A i, j \in DOMAIN Tail(q) :
            IsIo(Tail(q)[i], o) /\ IsIo(Tail(q)[j], o) => i = j
  BY TailFacts DEF IoOnce
<1> QED BY <1>1, <1>2, <1>3 DEF IoOnce

\* The same for the wait of its timer.
LEMMA TailKeepsWait ==
    ASSUME NEW q \in Seq(Handlers), q # <<>>, NEW o, NEW x,
           ~IsWait(Head(q), o, x), WaitOnce(q, o, x)
    PROVE  /\ WaitOnce(Tail(q), o, x)
           /\ WaitQueued(Tail(q), o, x) <=> WaitQueued(q, o, x)
<1>1. WaitQueued(Tail(q), o, x) => WaitQueued(q, o, x)
  BY TailFacts DEF WaitQueued
<1>2. WaitQueued(q, o, x) => WaitQueued(Tail(q), o, x)
  <2> SUFFICES ASSUME NEW i \in DOMAIN q, IsWait(q[i], o, x)
               PROVE  WaitQueued(Tail(q), o, x)
    BY DEF WaitQueued
  <2>1. i - 1 \in DOMAIN Tail(q) /\ Tail(q)[i - 1] = q[i]
    BY TailFacts
  <2> QED BY <2>1 DEF WaitQueued
<1>3. \A i, j \in DOMAIN Tail(q) :
            IsWait(Tail(q)[i], o, x) /\ IsWait(Tail(q)[j], o, x) => i = j
  BY TailFacts DEF WaitOnce
<1> QED BY <1>1, <1>2, <1>3 DEF WaitOnce

\* Another operation's handler, or a post, is taken.
LEMMA TakeOther ==
    ASSUME NEW q \in Seq(Handlers), q # <<>>, NEW o \in Ops, NEW x \in OpTypes,
           OpOK(q, o, x), Head(q).op # o
    PROVE  OpOK(Tail(q), o, x)
<1>1. ~IsIo(Head(q), o) /\ ~IsWait(Head(q), o, x)
  BY DEF IsIo, IsWait
<1>2. IoOnce(Tail(q), o, x) /\ (IoQueued(Tail(q), o) <=> IoQueued(q, o))
  BY <1>1, TailKeepsIo DEF OpOK, Shape
<1>3. WaitOnce(Tail(q), o, x) /\ (WaitQueued(Tail(q), o, x) <=> WaitQueued(q, o, x))
  BY <1>1, TailKeepsWait DEF OpOK, Shape
<1>4. WaitsOwn(Tail(q), o, x)
  BY TailFacts DEF OpOK, Shape, WaitsOwn
<1>5. ~x.done => Uncancelled(Tail(q), o, x)
  BY TailFacts DEF OpOK, Uncancelled
<1>6. ~x.done => Accounted(Tail(q), o, x)
  BY <1>2, <1>3 DEF OpOK, Accounted
<1> QED BY <1>2, <1>3, <1>4, <1>5, <1>6 DEF OpOK, Shape

\* The completion of its I/O is taken: none is left.
LEMMA TakeIo ==
    ASSUME NEW q \in Seq(Handlers), q # <<>>, NEW o \in Ops, NEW x \in OpTypes,
           OpOK(q, o, x), IsIo(Head(q), o)
    PROVE  /\ Shape(Tail(q), o, x) /\ ~IoQueued(Tail(q), o) /\ x.io = "none"
           /\ ~x.done =>
                /\ x.io_pending /\ Counted(x) /\ Uncancelled(Tail(q), o, x)
                /\ x.timer_pending
                     = (x.timer.wait # NoWait \/ WaitQueued(Tail(q), o, x))
                /\ Head(q).outcome = "aborted" => x.cancel_requested
<1>1. IoQueued(q, o) /\ x.io = "none"
  BY TailFacts DEF OpOK, Shape, IoOnce, IoQueued
<1>2. ~IoQueued(Tail(q), o) /\ IoOnce(Tail(q), o, x)
  BY TailFacts DEF OpOK, Shape, IoOnce, IoQueued
<1>3. ~IsWait(Head(q), o, x)
  BY DEF IsIo, IsWait
<1>4. WaitOnce(Tail(q), o, x) /\ (WaitQueued(Tail(q), o, x) <=> WaitQueued(q, o, x))
  BY <1>3, TailKeepsWait DEF OpOK, Shape
<1>5. WaitsOwn(Tail(q), o, x)
  BY TailFacts DEF OpOK, Shape, WaitsOwn
<1>6. ~x.done => Uncancelled(Tail(q), o, x)
  BY TailFacts DEF OpOK, Uncancelled
<1>7. ~x.done /\ Head(q).outcome = "aborted" => x.cancel_requested
  BY TailFacts DEF OpOK, Uncancelled
<1>8. ~x.done => x.io_pending /\ Counted(x)
                 /\ x.timer_pending
                     = (x.timer.wait # NoWait \/ WaitQueued(Tail(q), o, x))
  BY <1>1, <1>4 DEF OpOK, Accounted
<1> QED BY <1>1, <1>2, <1>4, <1>5, <1>6, <1>7, <1>8 DEF Shape

\* A wait of an earlier stage is taken.
LEMMA TakeStale ==
    ASSUME NEW q \in Seq(Handlers), q # <<>>, NEW o \in Ops, NEW x \in OpTypes,
           OpOK(q, o, x), Head(q).kind = "timer", ~IsWait(Head(q), o, x)
    PROVE  OpOK(Tail(q), o, x)
<1>1. ~IsIo(Head(q), o)
  BY DEF IsIo
<1>2. IoOnce(Tail(q), o, x) /\ (IoQueued(Tail(q), o) <=> IoQueued(q, o))
  BY <1>1, TailKeepsIo DEF OpOK, Shape
<1>3. WaitOnce(Tail(q), o, x) /\ (WaitQueued(Tail(q), o, x) <=> WaitQueued(q, o, x))
  BY <1>1, TailKeepsWait DEF OpOK, Shape
<1>4. WaitsOwn(Tail(q), o, x)
  BY TailFacts DEF OpOK, Shape, WaitsOwn
<1>5. ~x.done => Uncancelled(Tail(q), o, x)
  BY TailFacts DEF OpOK, Uncancelled
<1>6. ~x.done => Accounted(Tail(q), o, x)
  BY <1>2, <1>3 DEF OpOK, Accounted
<1> QED BY <1>2, <1>3, <1>4, <1>5, <1>6 DEF OpOK, Shape

\* The current wait is taken: none is left.
LEMMA TakeWait ==
    ASSUME NEW q \in Seq(Handlers), q # <<>>, NEW o \in Ops, NEW x \in OpTypes,
           OpOK(q, o, x), IsWait(Head(q), o, x)
    PROVE  /\ Shape(Tail(q), o, x) /\ ~WaitQueued(Tail(q), o, x)
           /\ x.timer.wait = NoWait /\ Head(q).wait.stage = x.stage
           /\ ~x.done =>
                /\ x.timer_pending /\ Counted(x) /\ Uncancelled(Tail(q), o, x)
                /\ x.io_pending = (x.io # "none" \/ IoQueued(Tail(q), o))
                /\ Head(q).outcome = "aborted" => x.cancel_requested
<1>1. WaitQueued(q, o, x) /\ x.timer.wait = NoWait
  BY TailFacts DEF OpOK, Shape, WaitOnce, WaitQueued
<1>2. ~WaitQueued(Tail(q), o, x) /\ WaitOnce(Tail(q), o, x)
  BY TailFacts DEF OpOK, Shape, WaitOnce, WaitQueued
<1>3. ~IsIo(Head(q), o)
  BY DEF IsIo, IsWait
<1>4. IoOnce(Tail(q), o, x) /\ (IoQueued(Tail(q), o) <=> IoQueued(q, o))
  BY <1>3, TailKeepsIo DEF OpOK, Shape
<1>5. WaitsOwn(Tail(q), o, x) /\ Head(q).wait.stage = x.stage
  BY TailFacts DEF OpOK, Shape, WaitsOwn, IsWait
<1>6. ~x.done => Uncancelled(Tail(q), o, x)
  BY TailFacts DEF OpOK, Uncancelled
<1>7. ~x.done /\ Head(q).outcome = "aborted" => x.cancel_requested
  BY TailFacts DEF OpOK, Uncancelled
<1>8. ~x.done => x.timer_pending /\ Counted(x)
                 /\ x.io_pending = (x.io # "none" \/ IoQueued(Tail(q), o))
  BY <1>1, <1>4 DEF OpOK, Accounted
<1> QED BY <1>1, <1>2, <1>4, <1>5, <1>6, <1>7, <1>8 DEF Shape

\* The timer is untouched, or its wait cancelled.
LEMMA SameTimer ==
    ASSUME NEW q \in Seq(Handlers), NEW o \in Ops, NEW x \in OpTypes,
           NEW y \in OpTypes, Shape(q, o, x),
           y.io # "none" => ~IoQueued(q, o), y.stage = x.stage,
           y.timer.generation = x.timer.generation,
           y.timer.wait \in {x.timer.wait, NoWait}
    PROVE  /\ Shape(q, o, y)
           /\ WaitQueued(q, o, y) <=> WaitQueued(q, o, x)
BY DEF Shape, IoOnce, WaitOnce, WaitsOwn, WaitQueued, IsWait

\* A new generation: every queued wait is stale.
LEMMA NewGeneration ==
    ASSUME NEW q \in Seq(Handlers), NEW o \in Ops, NEW x \in OpTypes,
           NEW y \in OpTypes, Shape(q, o, x),
           y.io # "none" => ~IoQueued(q, o),
           y.timer.generation > x.timer.generation,
           y.timer.wait # NoWait => /\ y.timer.wait.generation = y.timer.generation
                                    /\ y.timer.wait.stage = y.stage
    PROVE  Shape(q, o, y) /\ ~WaitQueued(q, o, y)
<1>1. /\ x.timer.generation \in Nat /\ y.timer.generation \in Nat
      /\ \A i \in DOMAIN q : q[i].wait.generation \in Nat
  BY QueueFacts DEF OpTypes, Handlers, WaitTypes
<1>2. \A i \in DOMAIN q : ~IsWait(q[i], o, y)
  BY <1>1 DEF Shape, WaitsOwn, IsWait
<1>3. WaitsOwn(q, o, y)
  BY <1>1 DEF Shape, WaitsOwn
<1> QED BY <1>2, <1>3 DEF Shape, IoOnce, WaitOnce, WaitQueued

-----------------------------------------------------------------------------
(* The functions of the network thread, field by field.                      *)

\* m is n, with nothing but the operation o changed.
OnlyOp(n, m, o) ==
    /\ m \in Nets /\ m.ready = n.ready /\ m.held = n.held
    /\ m.barrier = n.barrier
    /\ \A p \in Ops : p # o => m.op[p] = n.op[p]

\* What cancellation looks at is the same in x and y.
SameControl(x, y) ==
    /\ y.cancel_requested = x.cancel_requested
    /\ y.cancelled_result = x.cancelled_result

\* The record of an operation and what it is made of.
LEMMA OpFacts ==
    ASSUME NEW n \in Nets, NEW o \in Ops
    PROVE  /\ n.op[o] \in OpTypes /\ n.ready \in Seq(Handlers)
           /\ n.op[o].timer.generation \in Nat
           /\ n.op[o].timer.wait \in WaitTypes
           /\ n.op[o].stage \in 0 .. Stages
BY DEF Nets, OpTypes

\* n with y in the place of the operation o.
Put(n, o, y) == [n EXCEPT !.op[o] = y]

\* Putting a well-typed record changes that operation alone.
LEMMA PutFacts ==
    ASSUME NEW n \in Nets, NEW o \in Ops, NEW y \in OpTypes
    PROVE  Put(n, o, y).op[o] = y /\ OnlyOp(n, Put(n, o, y), o)
BY DEF Put, Nets, OnlyOp

\* One after the other, still only o.
LEMMA OnlyOpTwice ==
    ASSUME NEW n, NEW m, NEW k, NEW o, OnlyOp(n, m, o), OnlyOp(m, k, o)
    PROVE  OnlyOp(n, k, o)
BY DEF OnlyOp

\* The record that stands for no wait is a wait, and is of no generation.
LEMMA NoWaitFacts ==
    /\ NoWait \in WaitTypes /\ NoWait.due = FALSE
    /\ \A w : w.generation # 0 => w # NoWait
BY TransportAssumption DEF NoWait, WaitTypes

\* disarm_timeout() starts a generation without a wait.
LEMMA DisarmFacts ==
    ASSUME NEW n \in Nets, NEW o \in Ops
    PROVE  LET m == Disarm(n, o) IN
           /\ OnlyOp(n, m, o) /\ SameControl(n.op[o], m.op[o])
           /\ m.op[o].timer.generation = n.op[o].timer.generation + 1
           /\ m.op[o].timer.wait = NoWait /\ ~m.op[o].timer_pending
           /\ m.op[o].stage = n.op[o].stage /\ m.op[o].io = n.op[o].io
           /\ m.op[o].io_pending = n.op[o].io_pending
           /\ m.op[o].done = n.op[o].done
<1> DEFINE x == n.op[o]
           t == DisarmTimeout(x.timer)
           y == [x EXCEPT !.timer = t, !.timer_pending = FALSE]
<1>1. x \in OpTypes /\ x.timer.generation \in Nat
  BY OpFacts
<1>2. t \in [generation : Nat, wait : WaitTypes]
      /\ t.generation = x.timer.generation + 1 /\ t.wait = NoWait
  BY <1>1, NoWaitFacts DEF DisarmTimeout
<1>3. Disarm(n, o) = Put(n, o, y)
  BY DEF Disarm, Put, Nets
<1> HIDE DEF t
<1>4. y \in OpTypes /\ y.timer = t /\ ~y.timer_pending /\ SameControl(x, y)
      /\ y.stage = x.stage /\ y.io = x.io /\ y.io_pending = x.io_pending
      /\ y.done = x.done
  BY <1>1, <1>2 DEF OpTypes, SameControl
<1> HIDE DEF y
<1> QED BY <1>2, <1>3, <1>4, PutFacts

\* Closing the socket aborts what is outstanding or due.
LEMMA CloseFacts ==
    ASSUME NEW n \in Nets, NEW o \in Ops
    PROVE  LET m == CloseSocket(n, o) IN
           /\ OnlyOp(n, m, o) /\ SameControl(n.op[o], m.op[o])
           /\ m.op[o].io = (IF n.op[o].io = "none" THEN "none" ELSE "aborted")
           /\ m.op[o].timer = n.op[o].timer
           /\ m.op[o].stage = n.op[o].stage
           /\ m.op[o].io_pending = n.op[o].io_pending
           /\ m.op[o].timer_pending = n.op[o].timer_pending
           /\ m.op[o].completions_pending = n.op[o].completions_pending
           /\ m.op[o].done = n.op[o].done
<1> DEFINE x == n.op[o]
           c == IF x.io = "none" THEN "none" ELSE "aborted"
           y == [x EXCEPT !.io = c]
<1>1. x \in OpTypes
  BY OpFacts
<1>2. CloseSocket(n, o) = Put(n, o, y)
  BY <1>1 DEF CloseSocket, Put, Nets
<1>3. c \in {"none", "aborted"}
  OBVIOUS
<1> HIDE DEF c
<1>4. y \in OpTypes /\ y.io = c /\ SameControl(x, y) /\ y.timer = x.timer
      /\ y.stage = x.stage /\ y.io_pending = x.io_pending
      /\ y.timer_pending = x.timer_pending /\ y.done = x.done
      /\ y.completions_pending = x.completions_pending
  BY <1>1, <1>3 DEF OpTypes, SameControl, Outcomes
<1> HIDE DEF y
<1> QED BY <1>2, <1>4, PutFacts DEF c

\* A stage begins with a wait of its own, two generations after the last one's.
LEMMA BeginFacts ==
    ASSUME NEW n \in Nets, NEW o \in Ops, NEW k \in 1 .. Stages
    PROVE  LET m == BeginStage(n, o, k) IN
           /\ OnlyOp(n, m, o) /\ SameControl(n.op[o], m.op[o])
           /\ m.op[o].stage = k /\ m.op[o].io = "waiting"
           /\ m.op[o].io_pending /\ m.op[o].timer_pending
           /\ m.op[o].timer.generation = n.op[o].timer.generation + 1
           /\ m.op[o].timer.wait # NoWait
           /\ m.op[o].timer.wait.generation = m.op[o].timer.generation
           /\ m.op[o].timer.wait.stage = k
           /\ m.op[o].done = n.op[o].done
<1> DEFINE x == n.op[o]
           t == ArmTimeout(x.timer, k)
           y == [x EXCEPT !.stage = k, !.io = "waiting", !.io_pending = TRUE,
                          !.timer_pending = TRUE, !.timer = t]
<1>1. x \in OpTypes /\ x.timer.generation \in Nat
  BY OpFacts
<1>2. t \in [generation : Nat, wait : WaitTypes] /\ k \in 0 .. Stages
      /\ t.generation = x.timer.generation + 1
      /\ t.wait.generation = t.generation /\ t.wait.stage = k
  BY <1>1, TransportAssumption DEF ArmTimeout, WaitTypes
<1>3. t.wait # NoWait
  BY <1>1, <1>2, NoWaitFacts
<1>4. BeginStage(n, o, k) = Put(n, o, y)
  BY DEF BeginStage, Put
<1> HIDE DEF t
<1>5. y \in OpTypes /\ y.timer = t /\ y.timer_pending /\ SameControl(x, y)
      /\ y.stage = k /\ y.io = "waiting" /\ y.io_pending
      /\ y.done = x.done
  BY <1>1, <1>2 DEF OpTypes, SameControl
<1> HIDE DEF y
<1> QED BY <1>2, <1>3, <1>4, <1>5, PutFacts

\* read(), with the operation not done.
LEMMA ReadFacts ==
    ASSUME NEW n \in Nets, ~n.op["websocket"].done
    PROVE  LET m == BeginRead(n)
               x == n.op["websocket"]
               y == m.op["websocket"]
           IN
           /\ OnlyOp(n, m, "websocket") /\ SameControl(x, y)
           /\ y.stage = Stages /\ y.io = "waiting" /\ y.io_pending
           /\ y.timer = x.timer /\ y.timer_pending = x.timer_pending
           /\ ~y.done
<1> DEFINE x == n.op["websocket"]
           y == [x EXCEPT !.stage = Stages, !.io = "waiting", !.io_pending = TRUE]
<1>1. x \in OpTypes /\ "websocket" \in Ops /\ Stages \in 0 .. Stages
  BY OpFacts, TransportAssumption DEF Ops
<1>2. BeginRead(n) = Put(n, "websocket", y)
  BY DEF BeginRead, BeginStageUntimed, Put
<1>3. y \in OpTypes /\ y.timer = x.timer /\ SameControl(x, y)
      /\ y.timer_pending = x.timer_pending
      /\ y.stage = Stages /\ y.io = "waiting" /\ y.io_pending
      /\ y.done = x.done
  BY <1>1 DEF OpTypes, SameControl
<1> HIDE DEF y
<1> QED BY <1>1, <1>2, <1>3, PutFacts

\* What both ways of ending an operation leave: it is done, and nothing of it
\* is outstanding that will not be aborted.
Ends(n, m, o) ==
    /\ OnlyOp(n, m, o) /\ m.op[o].done
    /\ m.op[o].stage = n.op[o].stage /\ SameControl(n.op[o], m.op[o])

\* What fail() and finish() leave before they call back: an operation that has ended.
LEMMA FinishedFacts ==
    ASSUME NEW n \in Nets, NEW o \in Ops, Shape(n.ready, o, n.op[o])
    PROVE  LET m == Finished(n, o) IN
           Ends(n, m, o) /\ OpOK(m.ready, o, m.op[o])
<1> DEFINE x == n.op[o]
           y == [x EXCEPT !.done = TRUE, !.completions_pending = 0]
           k == Put(n, o, y)
           l == Disarm(k, o)
           m == CloseSocket(l, o)
<1>1. x \in OpTypes
  BY OpFacts
<1>2. y \in OpTypes /\ y.done /\ y.stage = x.stage /\ y.io = x.io
      /\ y.timer = x.timer /\ SameControl(x, y)
  BY <1>1 DEF OpTypes, SameControl
<1>3. Finished(n, o) = m
  BY DEF Finished, Put, Nets
<1> HIDE DEF y
<1>4. OnlyOp(n, k, o) /\ k.op[o] = y /\ k \in Nets
  BY <1>2, PutFacts DEF OnlyOp
<1> HIDE DEF k
<1>5. /\ OnlyOp(k, l, o) /\ l \in Nets /\ l.op[o].done
      /\ l.op[o].stage = x.stage /\ l.op[o].io = x.io
      /\ l.op[o].timer.generation = x.timer.generation + 1
      /\ l.op[o].timer.wait = NoWait /\ SameControl(x, l.op[o])
  BY <1>2, <1>4, DisarmFacts DEF OnlyOp, SameControl
<1> HIDE DEF l
<1>6. /\ OnlyOp(l, m, o) /\ m \in Nets /\ m.op[o].done
      /\ m.op[o].stage = x.stage /\ (m.op[o].io # "none" => x.io # "none")
      /\ m.op[o].timer.generation = x.timer.generation + 1
      /\ m.op[o].timer.wait = NoWait /\ SameControl(x, m.op[o])
  BY <1>5, CloseFacts DEF OnlyOp, SameControl
<1> HIDE DEF m
<1>7. OnlyOp(n, m, o)
  BY <1>4, <1>5, <1>6, OnlyOpTwice
<1>8. Shape(m.ready, o, m.op[o])
  <2>1. m.ready = n.ready /\ m.op[o] \in OpTypes /\ n.ready \in Seq(Handlers)
    BY <1>6, <1>7, OpFacts DEF OnlyOp
  <2>2. x.timer.generation + 1 > x.timer.generation
    BY OpFacts
  <2>3. m.op[o].io # "none" => ~IoQueued(n.ready, o)
    BY <1>6 DEF Shape, IoOnce
  <2> QED BY <1>1, <1>6, <2>1, <2>2, <2>3, NewGeneration
<1> QED BY <1>3, <1>6, <1>7, <1>8 DEF Ends, OpOK

\* The same of retire_cleanly(), which keeps the timer.
LEMMA RetireFacts ==
    ASSUME NEW n \in Nets, NEW o \in Ops, ~n.op[o].done,
           Shape(n.ready, o, n.op[o])
    PROVE  LET m == RetireCleanly(n, o) IN
           /\ Ends(n, m, o) /\ OpOK(m.ready, o, m.op[o])
           /\ m.op[o].timer = n.op[o].timer
           /\ m.op[o].io_pending = n.op[o].io_pending
           /\ m.op[o].timer_pending = n.op[o].timer_pending
<1> DEFINE x == n.op[o]
           y == [x EXCEPT !.done = TRUE]
           k == Put(n, o, y)
           m == CloseSocket(k, o)
<1>1. x \in OpTypes
  BY OpFacts
<1>2. y \in OpTypes /\ y.done /\ y.stage = x.stage /\ y.io = x.io
      /\ y.timer = x.timer /\ SameControl(x, y)
      /\ y.io_pending = x.io_pending /\ y.timer_pending = x.timer_pending
  BY <1>1 DEF OpTypes, SameControl
<1>3. RetireCleanly(n, o) = m
  BY DEF RetireCleanly, Put, Nets
<1> HIDE DEF y
<1>4. OnlyOp(n, k, o) /\ k.op[o] = y /\ k \in Nets
  BY <1>2, PutFacts DEF OnlyOp
<1> HIDE DEF k
<1>5. /\ OnlyOp(k, m, o) /\ m \in Nets /\ m.op[o].done
      /\ m.op[o].stage = x.stage /\ (m.op[o].io # "none" => x.io # "none")
      /\ m.op[o].timer = x.timer /\ SameControl(x, m.op[o])
      /\ m.op[o].io_pending = x.io_pending
      /\ m.op[o].timer_pending = x.timer_pending
  BY <1>2, <1>4, CloseFacts DEF OnlyOp, SameControl
<1> HIDE DEF m
<1>6. OnlyOp(n, m, o)
  BY <1>4, <1>5, OnlyOpTwice
<1>7. Shape(m.ready, o, m.op[o])
  <2>1. m.ready = n.ready /\ m.op[o] \in OpTypes /\ n.ready \in Seq(Handlers)
    BY <1>5, <1>6, OpFacts DEF OnlyOp
  <2>2. m.op[o].io # "none" => ~IoQueued(n.ready, o)
    BY <1>5 DEF Shape, IoOnce
  <2> QED BY <1>1, <1>5, <2>1, <2>2, SameTimer
<1> QED BY <1>3, <1>5, <1>6, <1>7 DEF Ends, OpOK

-----------------------------------------------------------------------------
(* Cancellation.                                                             *)

\* One piece of a cancelled operation is complete.
LEMMA CountedFacts ==
    ASSUME NEW n \in Nets, NEW o \in Ops
    PROVE  LET m == CountedPiece(n, o) IN
           /\ OnlyOp(n, m, o) /\ SameControl(n.op[o], m.op[o])
           /\ n.op[o].completions_pending > 0 =>
                m.op[o].completions_pending = n.op[o].completions_pending - 1
           /\ m.op[o].timer = n.op[o].timer /\ m.op[o].io = n.op[o].io
           /\ m.op[o].stage = n.op[o].stage
           /\ m.op[o].io_pending = n.op[o].io_pending
           /\ m.op[o].timer_pending = n.op[o].timer_pending
           /\ m.op[o].done = n.op[o].done
<1> DEFINE x == n.op[o]
           c == IF x.completions_pending > 0 THEN x.completions_pending - 1 ELSE 0
           y == [x EXCEPT !.completions_pending = c]
<1>1. x \in OpTypes /\ x.completions_pending \in Nat
  BY OpFacts DEF OpTypes
<1>2. c \in Nat /\ (x.completions_pending > 0 => c = x.completions_pending - 1)
  BY <1>1
<1>3. CountedPiece(n, o) = Put(n, o, y)
  BY DEF CountedPiece, Put, Nets
<1> HIDE DEF c
<1>4. y \in OpTypes /\ y.completions_pending = c /\ SameControl(x, y)
      /\ y.timer = x.timer /\ y.io = x.io /\ y.stage = x.stage
      /\ y.io_pending = x.io_pending /\ y.timer_pending = x.timer_pending
      /\ y.done = x.done
  BY <1>1, <1>2 DEF OpTypes, SameControl
<1> HIDE DEF y
<1> QED BY <1>2, <1>3, <1>4, PutFacts

\* A cancelled operation one of whose pieces has just completed.
OnePieceLess(q, o, x) ==
    /\ ~x.done /\ x.cancel_requested /\ Shape(q, o, x) /\ Accounted(q, o, x)
    /\ x.completions_pending = Pieces(x) + 1
    /\ x.cancelled_result => ~x.io_pending
    /\ x.io_pending \/ x.timer_pending => x.stage > 0

\* What the other pieces, if any, leave to be done.
LEMMA PieceFacts ==
    ASSUME NEW n \in Nets, NEW o \in Ops, OnePieceLess(n.ready, o, n.op[o])
    PROVE  LET m == CompleteCancelledPiece(n, o) IN
           /\ OnlyOp(n, m, o) /\ SameControl(n.op[o], m.op[o])
           /\ OpOK(m.ready, o, m.op[o])
           /\ m.op[o].stage = n.op[o].stage
           /\ m.op[o].done =>
                ~n.op[o].io_pending /\ ~n.op[o].timer_pending
           /\ ~m.op[o].done =>
                m.op[o].io = n.op[o].io /\ m.op[o].timer = n.op[o].timer
           /\ CountedPiece(n, o).op[o].completions_pending = 0 <=>
                ~n.op[o].io_pending /\ ~n.op[o].timer_pending
<1> DEFINE x == n.op[o]
           k == CountedPiece(n, o)
           y == k.op[o]
<1>1. Pieces(x) \in Nat /\ (Pieces(x) = 0 <=> ~x.io_pending /\ ~x.timer_pending)
  BY DEF Pieces
<1>2. x.completions_pending > 0 /\ x.completions_pending - 1 = Pieces(x)
  BY <1>1 DEF OnePieceLess
<1>3. /\ OnlyOp(n, k, o) /\ k \in Nets /\ SameControl(x, y)
      /\ y.completions_pending = Pieces(x)
      /\ y.timer = x.timer /\ y.io = x.io /\ y.stage = x.stage
      /\ y.io_pending = x.io_pending /\ y.timer_pending = x.timer_pending
      /\ y.done = x.done /\ k.ready = n.ready
  BY <1>2, CountedFacts DEF OnlyOp
<1>4. CompleteCancelledPiece(n, o)
        = IF y.completions_pending = 0 THEN RetireCleanly(k, o) ELSE k
  BY DEF CompleteCancelledPiece
<1>9. CountedPiece(n, o) = k
  OBVIOUS
<1> HIDE DEF k
<1>5. y \in OpTypes /\ x \in OpTypes /\ n.ready \in Seq(Handlers)
  BY <1>3, OpFacts
<1>6. Shape(k.ready, o, y) /\ (WaitQueued(n.ready, o, y) <=> WaitQueued(n.ready, o, x))
  <2>1. y.io # "none" => ~IoQueued(n.ready, o)
    BY <1>3 DEF OnePieceLess, Shape, IoOnce
  <2> QED BY <1>3, <1>5, <2>1, SameTimer DEF OnePieceLess
<1>7. CASE y.completions_pending = 0
  <2>1. ~y.done
    BY <1>3 DEF OnePieceLess
  <2>2. Ends(k, RetireCleanly(k, o), o)
        /\ OpOK(RetireCleanly(k, o).ready, o, RetireCleanly(k, o).op[o])
    BY <1>3, <1>6, <2>1, RetireFacts
  <2>3. OnlyOp(n, RetireCleanly(k, o), o)
    BY <1>3, <2>2, OnlyOpTwice DEF Ends
  <2> QED BY <1>1, <1>3, <1>4, <1>7, <1>9, <2>2, <2>3 DEF Ends, SameControl
<1>8. CASE y.completions_pending # 0
  <2>1. Accounted(k.ready, o, y)
    BY <1>3, <1>6 DEF OnePieceLess, Accounted
  <2>2. Counted(y)
    BY <1>1, <1>3, <1>8 DEF OnePieceLess, Counted, Pieces, SameControl
  <2>3. Uncancelled(k.ready, o, y) /\ ~y.done
    BY <1>3 DEF OnePieceLess, Uncancelled, SameControl
  <2> QED BY <1>1, <1>3, <1>4, <1>6, <1>8, <1>9, <2>1, <2>2, <2>3 DEF OpOK
<1> QED BY <1>7, <1>8

\* The handlers that a cancellation of o may add.
IsAborted(h, o) == h.kind = "timer" /\ h.op = o /\ h.outcome = "aborted"

\* The wait that timer_.cancel() aborts, if there is one, is queued.
LEMMA AbortedQueue ==
    ASSUME NEW q \in Seq(Handlers), NEW h \in Handlers, NEW t
    PROVE  LET r == q \o [i \in DOMAIN AbortedWaits(t) |-> h] IN
           /\ t.wait = NoWait => r = q
           /\ t.wait # NoWait => r = Append(q, h)
<1>1. CASE t.wait = NoWait
  <2>1. DOMAIN AbortedWaits(t) = {}
    BY <1>1 DEF AbortedWaits
  <2> DEFINE e == [i \in DOMAIN AbortedWaits(t) |-> h]
  <2>2. e = <<>>
    BY <2>1
  <2> QED BY <1>1, <2>2, ConcatEmptySeq
<1>2. CASE t.wait # NoWait
  <2>1. AbortedWaits(t) = <<t.wait>>
    BY <1>2 DEF AbortedWaits
  <2>2. DOMAIN AbortedWaits(t) = 1 .. 1
    BY <2>1
  <2> DEFINE e == [i \in DOMAIN AbortedWaits(t) |-> h]
  <2>3. e = <<h>>
    BY <2>2
  <2> QED BY <1>2, <2>3
<1> QED BY <1>1, <1>2

\* What is queued for others, or posted, does not concern o.
LEMMA ExtendOther ==
    ASSUME NEW q \in Seq(Handlers), NEW r, Extends(q, r), NEW o \in Ops,
           NEW x \in OpTypes, OpOK(q, o, x),
           \A i \in DOMAIN r : i \notin DOMAIN q => r[i].op # o
    PROVE  OpOK(r, o, x)
<1>1. \A i \in DOMAIN q : i \in DOMAIN r /\ r[i] = q[i]
  BY DEF Extends
<1>2. \A i \in DOMAIN r : r[i].op = o => i \in DOMAIN q /\ q[i] = r[i]
  BY <1>1
<1>3. IoQueued(r, o) <=> IoQueued(q, o)
  BY <1>1, <1>2 DEF IoQueued, IsIo
<1>4. WaitQueued(r, o, x) <=> WaitQueued(q, o, x)
  BY <1>1, <1>2 DEF WaitQueued, IsWait
<1>5. IoOnce(r, o, x)
  BY <1>2, <1>3 DEF OpOK, Shape, IoOnce, IsIo
<1>6. WaitOnce(r, o, x)
  BY <1>2, <1>4 DEF OpOK, Shape, WaitOnce, IsWait
<1>7. WaitsOwn(r, o, x)
  BY <1>2 DEF OpOK, Shape, WaitsOwn
<1>8. ~x.done => Uncancelled(r, o, x)
  BY <1>2 DEF OpOK, Uncancelled, IsIo, IsWait
<1>9. ~x.done => Accounted(r, o, x)
  BY <1>3, <1>4 DEF OpOK, Accounted
<1> QED BY <1>5, <1>6, <1>7, <1>8, <1>9 DEF OpOK, Shape

\* The wait of o's timer is queued: it was outstanding, and is no longer.
LEMMA ExtendWait ==
    ASSUME NEW q \in Seq(Handlers), NEW r, Extends(q, r), NEW o \in Ops,
           NEW e \in DOMAIN r, e \notin DOMAIN q, r[e] \in Handlers,
           \A i \in DOMAIN r : i \notin DOMAIN q /\ r[i].op = o => i = e,
           NEW x \in OpTypes, NEW y \in OpTypes, Shape(q, o, x),
           x.timer.wait # NoWait, r[e].kind = "timer", r[e].op = o,
           r[e].wait.generation = x.timer.wait.generation,
           r[e].wait.stage = x.timer.wait.stage,
           y.io # "none" => ~IoQueued(q, o), y.stage = x.stage,
           y.timer.generation = x.timer.generation, y.timer.wait = NoWait
    PROVE  /\ Shape(r, o, y) /\ WaitQueued(r, o, y)
           /\ IoQueued(r, o) <=> IoQueued(q, o)
           /\ \A i \in DOMAIN r : IsWait(r[i], o, y) => i = e
<1>1. /\ \A i \in DOMAIN q : i \in DOMAIN r /\ r[i] = q[i]
      /\ \A i \in DOMAIN r : i \notin DOMAIN q => i = e \/ r[i].op # o
  BY DEF Extends
<1>2. IsWait(r[e], o, y) /\ ~IsIo(r[e], o)
      /\ \A i \in DOMAIN q : ~IsWait(q[i], o, y)
  BY DEF IsWait, IsIo, Shape, WaitOnce, WaitQueued, WaitsOwn
<1>3. IoQueued(r, o) <=> IoQueued(q, o)
  BY <1>1, <1>2 DEF IoQueued, IsIo
<1>4. IoOnce(r, o, y)
  BY <1>1, <1>2, <1>3 DEF Shape, IoOnce, IsIo
<1>5. \A i \in DOMAIN r : IsWait(r[i], o, y) => i = e
  BY <1>1, <1>2 DEF IsWait
<1>6. WaitQueued(r, o, y) /\ WaitOnce(r, o, y)
  BY <1>2, <1>5 DEF WaitQueued, WaitOnce
<1>7. WaitsOwn(r, o, y)
  <2>1. r[e].wait.generation = y.timer.generation /\ r[e].wait.stage = y.stage
    BY DEF Shape, WaitsOwn
  <2>2. y.timer.generation \in Nat
    BY DEF OpTypes
  <2> QED BY <1>1, <2>1, <2>2 DEF Shape, WaitsOwn
<1> QED BY <1>3, <1>4, <1>5, <1>6, <1>7 DEF Shape

\* What a cancellation makes of an operation.
OpCancels(x, y) ==
    /\ y.stage = x.stage /\ y.cancelled_result = x.cancelled_result
    /\ y.timer.generation = x.timer.generation
    /\ y.io_pending = x.io_pending /\ y.timer_pending = x.timer_pending
    /\ x.done \/ x.cancel_requested => y = x
    /\ ~x.done /\ y.done => ~x.io_pending /\ ~x.timer_pending

\* The operations in S are cancelled.
Cancels(n, m, S) ==
    /\ m \in Nets /\ m.barrier = n.barrier
    /\ Extends(n.ready, m.ready)
    /\ \A i \in DOMAIN m.ready :
            i \notin DOMAIN n.ready => \E o \in S : IsAborted(m.ready[i], o)
    /\ \A o \in Ops : OpCancels(n.op[o], m.op[o])
    /\ \A o \in Ops \ S : m.op[o] = n.op[o]
    /\ \A o \in S : m.op[o].done \/ m.op[o].cancel_requested
    /\ NetOK(m)

\* An operation that is done, or cancelled already, is left alone.
LEMMA CancelsNothing ==
    ASSUME NEW n \in Nets, NetOK(n), NEW S,
           \A o \in S : n.op[o].done \/ n.op[o].cancel_requested
    PROVE  Cancels(n, n, S)
<1>1. Extends(n.ready, n.ready)
  BY DEF Extends, Nets
<1> QED BY <1>1 DEF Cancels, OpCancels

\* cancel() keeps count of what is pending.
LEMMA CancelFacts ==
    ASSUME NEW n \in Nets, NetOK(n), NEW o \in Ops
    PROVE  Cancels(n, Cancel(n, o), {o}) /\ Cancel(n, o).held = n.held
<1> DEFINE x == n.op[o]
           c == Pieces(x)
           y == [x EXCEPT !.cancel_requested = TRUE, !.completions_pending = c]
           k == Put(n, o, y)
           t == CancelTimer(x.timer)
           z == [y EXCEPT !.timer = t]
           h == WaitHandler(o, x.timer.wait, "aborted")
           r == n.ready \o [i \in DOMAIN AbortedWaits(x.timer) |-> h]
           l == AbortWait(k, o)
           m == CloseSocket(l, o)
<1>1. CASE x.done \/ x.cancel_requested
  BY <1>1, CancelsNothing DEF Cancel
<1>2. CASE ~(x.done \/ x.cancel_requested)
  <2>1. x \in OpTypes /\ n.ready \in Seq(Handlers) /\ c \in Nat
        /\ x.timer.wait \in WaitTypes /\ x.timer.generation \in Nat
    BY OpFacts DEF Pieces
  <2>2. h \in Handlers /\ IsAborted(h, o) /\ h.wait = x.timer.wait
    BY <2>1 DEF WaitHandler, Handlers, Outcomes, IsAborted
  <2>3. y \in OpTypes /\ y.cancel_requested /\ y.completions_pending = c
        /\ y.timer = x.timer /\ y.io = x.io /\ y.stage = x.stage
        /\ y.io_pending = x.io_pending /\ y.timer_pending = x.timer_pending
        /\ y.done = x.done /\ y.cancelled_result = x.cancelled_result
    BY <2>1 DEF OpTypes
  <2>4. Cancel(n, o) = IF c = 0 THEN RetireCleanly(m, o) ELSE m
    BY <1>2 DEF Cancel, Put, Pieces, Nets
  <2> HIDE DEF y, c
  <2>5. OnlyOp(n, k, o) /\ k.op[o] = y /\ k \in Nets
    BY <2>3, PutFacts DEF OnlyOp
  <2> HIDE DEF k
  <2>6. z \in OpTypes /\ t.generation = x.timer.generation /\ t.wait = NoWait
        /\ z.timer = t /\ z.io = x.io /\ z.stage = x.stage
        /\ z.io_pending = x.io_pending /\ z.timer_pending = x.timer_pending
        /\ z.done = x.done /\ z.cancelled_result = x.cancelled_result
        /\ z.cancel_requested /\ z.completions_pending = c
    <3>1. t \in [generation : Nat, wait : WaitTypes]
          /\ t.generation = x.timer.generation /\ t.wait = NoWait
      BY <2>1, NoWaitFacts DEF CancelTimer, OpTypes
    <3> HIDE DEF t
    <3> QED BY <2>3, <3>1 DEF OpTypes
  <2>7. /\ x.timer.wait = NoWait => r = n.ready
        /\ x.timer.wait # NoWait => r = Append(n.ready, h)
    BY <2>1, <2>2, AbortedQueue
  <2>8. Extends(n.ready, r)
        /\ \A i \in DOMAIN r : i \notin DOMAIN n.ready => r[i] = h
    BY <2>1, <2>2, <2>7, AppendFacts DEF Extends
  <2>9. l = [Put(k, o, z) EXCEPT !.ready = r]
    <3>1. l = [k EXCEPT !.op[o].timer = t, !.ready = r]
      BY <2>3, <2>5 DEF AbortWait, OnlyOp, Nets
    <3>2. [k EXCEPT !.op[o].timer = t] = Put(k, o, z)
      BY <2>5 DEF Put, Nets
    <3> QED BY <3>1, <3>2
  <2> HIDE DEF z, l, r, h, t
  <2>10. /\ l \in Nets /\ l.ready = r /\ l.op[o] = z /\ l.held = n.held
         /\ l.barrier = n.barrier /\ \A p \in Ops : p # o => l.op[p] = n.op[p]
    <3>1. Put(k, o, z).op[o] = z /\ OnlyOp(k, Put(k, o, z), o)
      BY <2>5, <2>6, PutFacts
    <3> QED BY <2>5, <2>8, <2>9, <3>1 DEF OnlyOp, Nets, Extends
  <2> DEFINE w == m.op[o]
  <2>11. /\ m \in Nets /\ m.ready = r /\ m.held = n.held
         /\ m.barrier = n.barrier /\ \A p \in Ops : p # o => m.op[p] = n.op[p]
         /\ w.timer = t /\ (w.io = "none" <=> x.io = "none") /\ w.stage = x.stage
         /\ w.io_pending = x.io_pending /\ w.timer_pending = x.timer_pending
         /\ w.done = x.done /\ w.cancelled_result = x.cancelled_result
         /\ w.cancel_requested /\ w.completions_pending = c
    BY <2>6, <2>10, CloseFacts DEF OnlyOp, SameControl
  <2> HIDE DEF m
  <2>12. OpOK(n.ready, o, x)
    BY DEF NetOK
  <2>13. /\ Shape(r, o, w)
         /\ WaitQueued(r, o, w) <=>
                x.timer.wait # NoWait \/ WaitQueued(n.ready, o, x)
         /\ IoQueued(r, o) <=> IoQueued(n.ready, o)
    <3>1. w \in OpTypes /\ (w.io # "none" => ~IoQueued(n.ready, o))
      BY <2>11, <2>12, OpFacts DEF OpOK, Shape, IoOnce
    <3>2. CASE x.timer.wait = NoWait
      BY <2>1, <2>6, <2>7, <2>11, <2>12, <3>1, <3>2, SameTimer DEF OpOK
    <3>3. CASE x.timer.wait # NoWait
      <4>1. h.kind = "timer" /\ h.op = o /\ h \in Handlers
            /\ h.wait.generation = x.timer.wait.generation
            /\ h.wait.stage = x.timer.wait.stage
        BY <2>2 DEF IsAborted
      <4>2. w.timer.generation = x.timer.generation /\ w.timer.wait = NoWait
        BY <2>6, <2>11
      <4>3. Shape(n.ready, o, x)
        BY <2>12 DEF OpOK
      <4>4. /\ Shape(Append(n.ready, h), o, w) /\ WaitQueued(Append(n.ready, h), o, w)
            /\ IoQueued(Append(n.ready, h), o) <=> IoQueued(n.ready, o)
        <5> DEFINE g == Append(n.ready, h)
                   e == Len(n.ready) + 1
        <5>1. /\ Extends(n.ready, g) /\ e \in DOMAIN g /\ e \notin DOMAIN n.ready
              /\ g[e] = h /\ \A i \in DOMAIN g : i \notin DOMAIN n.ready => i = e
          BY <2>1, <4>1, AppendFacts
        <5> HIDE DEF g, e
        <5>2. /\ g[e] \in Handlers /\ g[e].kind = "timer" /\ g[e].op = o
              /\ g[e].wait.generation = x.timer.wait.generation
              /\ g[e].wait.stage = x.timer.wait.stage
              /\ \A i \in DOMAIN g : i \notin DOMAIN n.ready /\ g[i].op = o => i = e
          BY <4>1, <5>1
        <5>3. w.stage = x.stage /\ n.ready \in Seq(Handlers) /\ x \in OpTypes
          BY <2>1, <2>11
        <5> HIDE DEF x, w
        <5>4. Shape(g, o, w) /\ WaitQueued(g, o, w)
              /\ (IoQueued(g, o) <=> IoQueued(n.ready, o))
          BY <3>1, <3>3, <4>2, <4>3, <5>1, <5>2, <5>3, ExtendWait
        <5> QED BY <5>4 DEF g
      <4> QED BY <2>7, <3>3, <4>4
    <3> QED BY <3>2, <3>3
  <2>14. \A p \in Ops : p # o => OpOK(r, p, m.op[p])
    <3> SUFFICES ASSUME NEW p \in Ops, p # o PROVE OpOK(r, p, n.op[p])
      BY <2>11
    <3>1. OpOK(n.ready, p, n.op[p]) /\ n.op[p] \in OpTypes
      BY OpFacts DEF NetOK
    <3> QED BY <2>1, <2>2, <2>8, <3>1, ExtendOther DEF IsAborted
  <2>15. CASE c # 0
    <3>1. Accounted(r, o, w)
      BY <1>2, <2>6, <2>11, <2>12, <2>13 DEF OpOK, Accounted
    <3>2. Counted(w) /\ Uncancelled(r, o, w)
      BY <1>2, <2>1, <2>11, <2>12, <2>15 DEF OpOK, Counted, Uncancelled, Pieces, c
    <3>3. NetOK(m)
      BY <2>11, <2>13, <2>14, <3>1, <3>2 DEF NetOK, OpOK
    <3>4. OpCancels(x, w)
      BY <1>2, <2>6, <2>11 DEF OpCancels
    <3> QED BY <2>2, <2>4, <2>8, <2>11, <2>15, <3>3, <3>4
            DEF Cancels, OpCancels
  <2>16. CASE c = 0
    <3> DEFINE k2 == RetireCleanly(m, o)
    <3>1. ~w.done
      BY <1>2, <2>11
    <3>2. /\ Ends(m, k2, o) /\ OpOK(k2.ready, o, k2.op[o])
          /\ k2.op[o].timer = w.timer /\ k2.op[o].io_pending = w.io_pending
          /\ k2.op[o].timer_pending = w.timer_pending
      BY <2>11, <2>13, <3>1, RetireFacts
    <3> HIDE DEF k2
    <3>3. k2 \in Nets /\ k2.ready = r /\ k2.held = n.held
          /\ k2.barrier = n.barrier /\ \A p \in Ops : p # o => k2.op[p] = n.op[p]
      BY <2>11, <3>2 DEF Ends, OnlyOp
    <3>4. NetOK(k2)
      BY <2>11, <2>14, <3>2, <3>3 DEF NetOK
    <3>5. OpCancels(x, k2.op[o])
      <4>1. ~x.io_pending /\ ~x.timer_pending
        BY <2>16 DEF c, Pieces
      <4> QED BY <1>2, <2>6, <2>11, <3>2, <4>1 DEF OpCancels, Ends, SameControl
    <3>6. k2.op[o].done
      BY <3>2 DEF Ends
    <3>7. Cancel(n, o) = k2
      BY <2>4, <2>16 DEF k2
    <3> QED BY <2>2, <2>8, <3>3, <3>4, <3>5, <3>6, <3>7 DEF Cancels, OpCancels
  <2> QED BY <2>15, <2>16
<1> QED BY <1>1, <1>2

\* One cancellation after the other.
LEMMA CancelsTwice ==
    ASSUME NEW n \in Nets, NEW m, NEW k, NEW S \in SUBSET Ops,
           NEW T \in SUBSET Ops, Cancels(n, m, S), Cancels(m, k, T)
    PROVE  Cancels(n, k, S \cup T)
<1>1. Extends(n.ready, k.ready)
  BY DEF Cancels, Extends
<1>2. ASSUME NEW i \in DOMAIN k.ready, i \notin DOMAIN n.ready
      PROVE  \E o \in S \cup T : IsAborted(k.ready[i], o)
  <2>1. CASE i \in DOMAIN m.ready
    <3>1. k.ready[i] = m.ready[i]
      BY <2>1 DEF Cancels, Extends
    <3> QED BY <1>2, <2>1, <3>1 DEF Cancels
  <2>2. CASE i \notin DOMAIN m.ready
    BY <1>2, <2>2 DEF Cancels
  <2> QED BY <2>1, <2>2
<1>3. \A o \in Ops : OpCancels(n.op[o], k.op[o])
  BY DEF Cancels, OpCancels
<1>4. \A o \in Ops \ (S \cup T) : k.op[o] = n.op[o]
  BY DEF Cancels
<1>5. \A o \in S \cup T : k.op[o].done \/ k.op[o].cancel_requested
  BY DEF Cancels, OpCancels
<1> QED BY <1>1, <1>2, <1>3, <1>4, <1>5 DEF Cancels

\* cancel_network_operations() cancels what the parent holds, once.
LEMMA CancelAll ==
    ASSUME NEW n \in Nets, NetOK(n)
    PROVE  LET m == ReleaseNetworkWork(CancelNetworkOperations(n)) IN
           Cancels(n, m, n.held) /\ m.held = {}
<1> DEFINE m == IF "websocket" \in n.held THEN Cancel(n, "websocket") ELSE n
           k == IF "depth" \in n.held THEN Cancel(m, "depth") ELSE m
           S == n.held \cap {"websocket"}
           T == n.held \cap {"depth"}
           l == ReleaseNetworkWork(CancelNetworkOperations(n))
<1>1. Cancels(n, m, S) /\ m.held = n.held
  <2>1. CASE "websocket" \in n.held
    BY <2>1, CancelFacts DEF Ops, Cancels
  <2>2. CASE "websocket" \notin n.held
    <3>1. S = {}
      BY <2>2
    <3> QED BY <2>2, <3>1, CancelsNothing
  <2> QED BY <2>1, <2>2
<1> HIDE DEF m
<1>2. m \in Nets /\ NetOK(m)
  BY <1>1 DEF Cancels
<1>3. Cancels(m, k, T) /\ k.held = n.held
  <2>1. CASE "depth" \in n.held
    BY <1>1, <1>2, <2>1, CancelFacts DEF Ops, Cancels
  <2>2. CASE "depth" \notin n.held
    <3>1. T = {}
      BY <2>2
    <3> QED BY <1>1, <1>2, <2>2, <3>1, CancelsNothing
  <2> QED BY <2>1, <2>2
<1>4. l = [[k EXCEPT !.held = {}] EXCEPT !.work_guard = FALSE]
  BY DEF ReleaseNetworkWork, CancelNetworkOperations, m
<1> HIDE DEF k
<1>5. S \cup T = n.held /\ S \in SUBSET Ops /\ T \in SUBSET Ops
  BY DEF Nets, Ops
<1>6. Cancels(n, k, n.held)
  BY <1>1, <1>3, <1>5, CancelsTwice
<1>7. l \in Nets /\ l.held = {} /\ l.ready = k.ready /\ l.op = k.op
      /\ l.barrier = k.barrier
  <2>1. k \in Nets
    BY <1>6 DEF Cancels
  <2> QED BY <1>4, <2>1 DEF Nets
<1> HIDE DEF l
<1>8. Cancels(n, l, n.held)
  BY <1>6, <1>7 DEF Cancels, NetOK
<1> QED BY <1>7, <1>8 DEF l

-----------------------------------------------------------------------------
(* The invariant of the whole transport.                                     *)

\* observation_.
ObservationTypes ==
    [started : BOOLEAN, running : BOOLEAN, stopped : BOOLEAN,
     tls_verified : BOOLEAN, websocket_handshake : BOOLEAN,
     rest_depth_fetched : BOOLEAN, frames : Nat,
     terminal_error : [code : Causes \cup {"none"}, op : Ops \cup {"none"},
                       stage : 0 .. Stages]]

\* The stop is carried out by one thread, the first to ask for it.
Carrying == {"winner", "joining", "not_started"}

\* The callers of start() and stop().
CallersOK ==
    /\ observation \in ObservationTypes /\ failing \in BOOLEAN
    /\ pc \in [Stoppers \cup {"starter"} ->
                Carrying \cup {"idle", "starting", "Started", "Stopped", "Failed",
                               "waiting", "returned"}]
    /\ stop_requested \in BOOLEAN /\ stop_in_progress \in BOOLEAN
    /\ stop_requested = (stop_in_progress \/ observation.stopped)
    /\ stop_in_progress => ~observation.stopped
    /\ \A t \in Stoppers :
        pc[t] \in Carrying =>
            stop_in_progress /\ \A u \in Stoppers : pc[u] \in Carrying => u = t
    /\ thread \in {"none", "running", "ended"}
    /\ thread # "none" <=> observation.started
    /\ pc["starter"] = "idle" => thread = "none"

\* A post of that kind is queued.
Posted(n, kind) == \E i \in DOMAIN n.ready : n.ready[i].kind = kind

\* The clean shutdown is posted once, and so is the start; only what belongs to
\* no operation is posted.
PostForm(n) ==
    /\ \A i, j \in DOMAIN n.ready :
        n.ready[i].kind \in {"clean", "barrier"}
        /\ n.ready[j].kind \in {"clean", "barrier"} => i = j
    /\ n.barrier => ~Posted(n, "clean") /\ ~Posted(n, "barrier")
    /\ \A i, j \in DOMAIN n.ready :
        n.ready[i].kind = "start" /\ n.ready[j].kind = "start" => i = j
    /\ \A i \in DOMAIN n.ready :
        n.ready[i].op = "none" <=>
            n.ready[i].kind \in {"start", "clean", "barrier"}

\* Who has posted what.
PostsOK ==
    /\ PostForm(net)
    /\ net.barrier \/ Posted(net, "clean") \/ Posted(net, "barrier") =>
            stop_requested /\ \A t \in Stoppers : pc[t] # "winner"
    /\ Posted(net, "start") => pc["starter"] # "idle"

Error == observation.terminal_error

\* An operation that has not been begun.
Idle(n, o) ==
    /\ n.op[o] = NoOp /\ o \notin n.held
    /\ \A i \in DOMAIN n.ready : n.ready[i].op # o

\* The WebSocket begins with the start handler, the depth request with the
\* handshake.
BegunOK ==
    /\ pc["starter"] = "idle" \/ Posted(net, "start") =>
            Idle(net, "websocket") /\ Error = NoError
    /\ ~observation.websocket_handshake => Idle(net, "depth") /\ Error.op # "depth"
    /\ observation.websocket_handshake => net.op["websocket"].stage = Stages
    /\ ~net.op["websocket"].cancelled_result

\* A failed transport has been cancelled; the failed operation is done and stays
\* in the stage it failed in.
ErrorOK ==
    Error # NoError =>
        /\ Error.op \in Ops /\ Error.code \in Causes
        /\ net.op[Error.op].done
        /\ Error.code = "Timeout" => Error.stage = net.op[Error.op].stage
        /\ net.held = {}

\* An operation that is under way can still be cancelled, or has been.
Cancellable(n) ==
    \A o \in Ops :
        ~n.op[o].done /\ n.op[o].stage > 0 =>
            o \in n.held \/ n.op[o].cancel_requested

HeldOK == Cancellable(net)

\* A response that arrived across a cancellation is not dropped.
ResultOK ==
    net.op["depth"].cancelled_result /\ net.op["depth"].done => Error # NoError

\* The runtime hears of one failure, exactly when there is one, and of one snapshot.
ToldOK ==
    /\ told \in [failures : Nat, snapshots : Nat]
    /\ told.failures = (IF Error = NoError THEN 0 ELSE 1)
    /\ told.snapshots \in {0, 1}
    /\ ~net.op["depth"].done => told.snapshots = 0

\* A failure that nothing can hide any more: it is queued, ahead of what would
\* make it stale, or is due before the shutdown barrier.
FailedQueued(n, o) ==
    \E i \in DOMAIN n.ready :
        IsIo(n.ready[i], o) /\ n.ready[i].outcome = "failed"

TimedOut(n, o) ==
    \E i \in DOMAIN n.ready :
        /\ IsWait(n.ready[i], o, n.op[o]) /\ n.ready[i].outcome = "ok"
        /\ \A j \in DOMAIN n.ready : j < i => ~IsIo(n.ready[j], o)

Doomed(n, o) ==
    /\ ~n.op[o].done
    /\ \/ n.op[o].io = "failed" /\ n.barrier
       \/ FailedQueued(n, o)
       \/ TimedOut(n, o)

\* A failure in hand at the cut is recorded, or on its way.
FailingOK ==
    failing => Error # NoError \/ \E o \in Ops : Doomed(net, o)

\* What the end of the thread leaves.
EndedOK ==
    thread = "ended" =>
        /\ \A o \in Ops : net.op[o].stage > 0 => net.op[o].done
        /\ net.op["depth"].cancelled_result => Error # NoError
        /\ failing => Error # NoError

IInv ==
    /\ net \in Nets /\ NetOK(net) /\ CallersOK /\ PostsOK /\ BegunOK /\ ErrorOK
    /\ HeldOK /\ ResultOK /\ ToldOK /\ FailingOK /\ EndedOK

-----------------------------------------------------------------------------
(* A failure that is on its way stays on its way.                            *)

\* What is ahead in the queue stays ahead when more is queued.
LEMMA DoomedExtends ==
    ASSUME NEW n \in Nets, NEW m \in Nets, NEW o \in Ops, Doomed(n, o),
           Extends(n.ready, m.ready), ~m.op[o].done,
           m.op[o].timer.generation = n.op[o].timer.generation,
           n.op[o].io = "failed" /\ n.barrier =>
                (m.op[o].io = "failed" /\ m.barrier) \/ FailedQueued(m, o)
    PROVE  Doomed(m, o)
<1> DEFINE q == n.ready
           r == m.ready
<1>1. q \in Seq(Handlers) /\ r \in Seq(Handlers)
  BY OpFacts
<1>2. /\ \A i \in DOMAIN q : i \in DOMAIN r /\ r[i] = q[i]
      /\ \A i \in DOMAIN q : \A j \in DOMAIN r : j < i => j \in DOMAIN q
  BY <1>1, QueueFacts DEF Extends
<1> HIDE DEF q, r
<1>3. FailedQueued(n, o) => FailedQueued(m, o)
  BY <1>2 DEF FailedQueued, q, r
<1>4. TimedOut(n, o) => TimedOut(m, o)
  <2> SUFFICES ASSUME NEW i \in DOMAIN q, IsWait(q[i], o, n.op[o]),
                      q[i].outcome = "ok",
                      \A j \in DOMAIN q : j < i => ~IsIo(q[j], o)
               PROVE  TimedOut(m, o)
    BY DEF TimedOut, q
  <2>1. i \in DOMAIN r /\ IsWait(r[i], o, m.op[o]) /\ r[i].outcome = "ok"
    BY <1>2 DEF IsWait
  <2>2. \A j \in DOMAIN r : j < i => ~IsIo(r[j], o)
    BY <1>2
  <2> QED BY <2>1, <2>2 DEF TimedOut, r
<1> QED BY <1>3, <1>4 DEF Doomed

\* A handler is taken that is neither o's completion nor its current wait.
LEMMA DoomedTail ==
    ASSUME NEW n \in Nets, NEW m \in Nets, NEW o \in Ops, Doomed(n, o),
           n.ready # <<>>, m.ready = Tail(n.ready), m.barrier = n.barrier,
           ~IsIo(Head(n.ready), o), ~IsWait(Head(n.ready), o, n.op[o]),
           ~m.op[o].done, m.op[o].io = n.op[o].io,
           m.op[o].timer.generation = n.op[o].timer.generation
    PROVE  Doomed(m, o)
<1> DEFINE q == n.ready
           r == m.ready
<1>1. q \in Seq(Handlers) /\ r \in Seq(Handlers)
  BY OpFacts
<1>2. /\ q[1] = Head(q)
      /\ \A i \in DOMAIN q : i # 1 => i - 1 \in DOMAIN r /\ r[i - 1] = q[i]
      /\ \A i \in DOMAIN r : i \in Nat /\ i + 1 \in DOMAIN q /\ r[i] = q[i + 1]
      /\ \A i \in DOMAIN q : i \in Nat
  BY <1>1, TailFacts, QueueFacts
<1>3. Head(q) = Head(n.ready)
  OBVIOUS
<1> HIDE DEF q, r
<1>4. FailedQueued(n, o) => FailedQueued(m, o)
  <2> SUFFICES ASSUME NEW i \in DOMAIN q, IsIo(q[i], o), q[i].outcome = "failed"
               PROVE  FailedQueued(m, o)
    BY DEF FailedQueued, q
  <2>1. i - 1 \in DOMAIN r /\ r[i - 1] = q[i]
    BY <1>2, <1>3
  <2> QED BY <2>1 DEF FailedQueued, r
<1>5. TimedOut(n, o) => TimedOut(m, o)
  <2> SUFFICES ASSUME NEW i \in DOMAIN q, IsWait(q[i], o, n.op[o]),
                      q[i].outcome = "ok",
                      \A j \in DOMAIN q : j < i => ~IsIo(q[j], o)
               PROVE  TimedOut(m, o)
    BY DEF TimedOut, q
  <2>1. i - 1 \in DOMAIN r /\ r[i - 1] = q[i]
    BY <1>2, <1>3
  <2>2. IsWait(r[i - 1], o, m.op[o]) /\ r[i - 1].outcome = "ok"
    BY <2>1 DEF IsWait
  <2>3. \A j \in DOMAIN r : j < i - 1 => ~IsIo(r[j], o)
    <3> SUFFICES ASSUME NEW j \in DOMAIN r, j < i - 1 PROVE ~IsIo(r[j], o)
      OBVIOUS
    <3>1. j \in Nat /\ i \in Nat /\ j + 1 \in DOMAIN q /\ r[j] = q[j + 1]
      BY <1>2
    <3>2. j + 1 < i
      BY <3>1
    <3> QED BY <3>1, <3>2
  <2> QED BY <2>1, <2>2, <2>3 DEF TimedOut, r
<1> QED BY <1>4, <1>5 DEF Doomed

\* When o's completion is the next, that completion is the failure.
LEMMA DoomedIo ==
    ASSUME NEW n \in Nets, NetOK(n), NEW o \in Ops, Doomed(n, o),
           n.ready # <<>>, IsIo(Head(n.ready), o)
    PROVE  Head(n.ready).outcome = "failed"
<1> DEFINE q == n.ready
<1>1. /\ q \in Seq(Handlers) /\ OpOK(q, o, n.op[o]) /\ n.op[o] \in OpTypes
  BY OpFacts DEF NetOK
<1>2. /\ 1 \in DOMAIN q /\ q[1] = Head(q) /\ \A i \in DOMAIN q : i \in Nat /\ i >= 1
  BY <1>1, TailFacts, QueueFacts
<1>3. n.op[o].io = "none"
  BY <1>1, TakeIo
<1>4. FailedQueued(n, o) => q[1].outcome = "failed"
  BY <1>1, <1>2 DEF FailedQueued, OpOK, Shape, IoOnce
<1>5. ~TimedOut(n, o)
  <2> SUFFICES ASSUME NEW i \in DOMAIN q, IsWait(q[i], o, n.op[o]),
                      \A j \in DOMAIN q : j < i => ~IsIo(q[j], o)
               PROVE  FALSE
    BY DEF TimedOut
  <2>1. i # 1
    BY <1>2 DEF IsIo, IsWait
  <2>2. 1 < i
    BY <1>2, <2>1
  <2> QED BY <1>2, <2>2
<1> QED BY <1>2, <1>3, <1>4, <1>5 DEF Doomed

\* When o's wait is the next and has been aborted, its I/O is the failure.
LEMMA DoomedWait ==
    ASSUME NEW n \in Nets, NetOK(n), NEW o \in Ops, Doomed(n, o),
           n.ready # <<>>, IsWait(Head(n.ready), o, n.op[o]),
           Head(n.ready).outcome = "aborted"
    PROVE  /\ n.op[o].io_pending
           /\ \A m \in Nets :
                /\ m.ready = Tail(n.ready) /\ m.barrier = n.barrier
                /\ ~m.op[o].done /\ m.op[o].io = n.op[o].io
                => Doomed(m, o)
<1> DEFINE q == n.ready
<1>1. /\ q \in Seq(Handlers) /\ OpOK(q, o, n.op[o]) /\ n.op[o] \in OpTypes
  BY OpFacts DEF NetOK
<1>2. /\ 1 \in DOMAIN q /\ q[1] = Head(q)
      /\ \A i \in DOMAIN q : i # 1 =>
            i - 1 \in DOMAIN Tail(q) /\ Tail(q)[i - 1] = q[i]
  BY <1>1, TailFacts
<1>3. ~TimedOut(n, o)
  BY <1>1, <1>2 DEF TimedOut, OpOK, Shape, WaitOnce
<1>4. ~IsIo(q[1], o)
  BY <1>2 DEF IsIo, IsWait
<1>5. n.op[o].io # "none" \/ IoQueued(q, o)
  BY <1>3 DEF Doomed, FailedQueued, IoQueued
<1>6. n.op[o].io_pending
  BY <1>1, <1>5 DEF OpOK, Accounted, Doomed
<1>7. ASSUME NEW m \in Nets, m.ready = Tail(q), FailedQueued(n, o)
      PROVE  FailedQueued(m, o)
  <2> SUFFICES ASSUME NEW i \in DOMAIN q, IsIo(q[i], o), q[i].outcome = "failed"
               PROVE  FailedQueued(m, o)
    BY <1>7 DEF FailedQueued
  <2>1. i - 1 \in DOMAIN Tail(q) /\ Tail(q)[i - 1] = q[i]
    BY <1>2, <1>4
  <2> QED BY <1>7, <2>1 DEF FailedQueued
<1> QED BY <1>3, <1>6, <1>7 DEF Doomed

\* A cancellation behind the barrier hides no failure.
LEMMA DoomedCancels ==
    ASSUME NEW n \in Nets, NetOK(n), NEW o \in Ops, Doomed(n, o), NEW m, NEW S,
           Cancels(n, m, S), ~n.barrier
    PROVE  Doomed(m, o)
<1>1. OpOK(n.ready, o, n.op[o]) /\ OpCancels(n.op[o], m.op[o]) /\ m \in Nets
  BY DEF NetOK, Cancels
<1>2. n.op[o].io_pending \/ n.op[o].timer_pending
  <2>1. IoQueued(n.ready, o) \/ WaitQueued(n.ready, o, n.op[o])
    BY DEF Doomed, FailedQueued, TimedOut, IoQueued, WaitQueued
  <2> QED BY <1>1, <2>1 DEF OpOK, Accounted, Doomed
<1>3. ~m.op[o].done
  BY <1>1, <1>2 DEF OpCancels, Doomed
<1>4. m.op[o].timer.generation = n.op[o].timer.generation
      /\ Extends(n.ready, m.ready)
  BY <1>1 DEF OpCancels, Cancels
<1> QED BY <1>1, <1>3, <1>4, DoomedExtends

-----------------------------------------------------------------------------
(* A handler of one operation, before it cancels anything else.              *)

\* Nothing but the head of the queue and the operation o has changed.
Around(n, o) ==
    /\ n \in Nets /\ n.ready = Tail(net.ready) /\ n.held = net.held
    /\ n.barrier = net.barrier /\ \A p \in Ops : p # o => n.op[p] = net.op[p]

\* The completion of o's I/O has been taken from the queue.
IoTaken(n, o) ==
    /\ Around(n, o)
    /\ n.op[o].stage = net.op[o].stage /\ n.op[o].done = net.op[o].done
    /\ n.op[o].timer = net.op[o].timer /\ n.op[o].io = net.op[o].io
    /\ n.op[o].timer_pending = net.op[o].timer_pending
    /\ n.op[o].completions_pending = net.op[o].completions_pending
    /\ SameControl(net.op[o], n.op[o])
    /\ Shape(n.ready, o, n.op[o]) /\ ~IoQueued(n.ready, o)
    /\ n.op[o].io = "none" /\ ~n.op[o].io_pending
    /\ ~net.op[o].done =>
        /\ net.op[o].stage > 0 /\ net.op[o].io_pending /\ Counted(net.op[o])
        /\ Accounted(n.ready, o, n.op[o]) /\ Uncancelled(n.ready, o, n.op[o])
        /\ Outcome = "aborted" => net.op[o].cancel_requested

\* taken: what is queued, running and of which operation.
LEMMA TakenFacts ==
    ASSUME net \in Nets, net.ready # <<>>
    PROVE  /\ Taken \in Nets /\ Taken.ready = Tail(net.ready)
           /\ Taken.op = net.op /\ Taken.held = net.held
           /\ Taken.barrier = net.barrier
<1>1. Tail(net.ready) \in Seq(Handlers)
  BY TailFacts DEF Nets
<1> QED BY <1>1 DEF Taken, Nets

\* The head of the queue, the completion of o's I/O, is taken.
LEMMA IoTakenFacts ==
    ASSUME net \in Nets, NetOK(net), NEW o \in Ops, RunsIo(o)
    PROVE  IoTaken(IoDone(o), o)
<1> DEFINE x == net.op[o]
           y == [x EXCEPT !.io_pending = FALSE]
           n == IoDone(o)
           q == net.ready
<1>1. q # <<>> /\ IsIo(Head(q), o) /\ q \in Seq(Handlers) /\ x \in OpTypes
      /\ OpOK(q, o, x)
  BY OpFacts DEF RunsIo, Runs, IsIo, NetOK
<1>2. y \in OpTypes /\ y.io_pending = FALSE /\ y.stage = x.stage /\ y.done = x.done
      /\ y.timer = x.timer /\ y.io = x.io /\ y.timer_pending = x.timer_pending
      /\ y.completions_pending = x.completions_pending /\ SameControl(x, y)
  BY <1>1 DEF OpTypes, SameControl
<1>3. n = Put(Taken, o, y)
  BY <1>1, TakenFacts DEF IoDone, Put, Nets
<1> HIDE DEF y, n
<1>4. Around(n, o) /\ n.op[o] = y
  BY <1>1, <1>2, <1>3, TakenFacts, PutFacts DEF OnlyOp, Around
<1>5. /\ Shape(Tail(q), o, x) /\ ~IoQueued(Tail(q), o) /\ x.io = "none"
      /\ ~x.done =>
           /\ x.io_pending /\ Counted(x) /\ Uncancelled(Tail(q), o, x)
           /\ x.timer_pending
                = (x.timer.wait # NoWait \/ WaitQueued(Tail(q), o, x))
           /\ Outcome = "aborted" => x.cancel_requested
  BY <1>1, TakeIo DEF Outcome
<1>6. Tail(q) \in Seq(Handlers)
  BY <1>1, TailFacts
<1>7. Shape(Tail(q), o, y)
      /\ (WaitQueued(Tail(q), o, y) <=> WaitQueued(Tail(q), o, x))
  BY <1>1, <1>2, <1>5, <1>6, SameTimer
<1>8. ~x.done => Accounted(Tail(q), o, y)
  <2>1. y.io_pending = FALSE /\ y.io = "none"
    BY <1>2, <1>5
  <2>2. y.io_pending = (y.io # "none" \/ IoQueued(Tail(q), o))
    BY <1>5, <2>1
  <2>3. (WaitQueued(Tail(q), o, y)) = (WaitQueued(Tail(q), o, x))
    BY <1>7 DEF WaitQueued
  <2>4. ~x.done => y.timer_pending
            = (y.timer.wait # NoWait \/ WaitQueued(Tail(q), o, y))
    BY <1>2, <1>5, <2>3
  <2> QED BY <2>2, <2>4 DEF Accounted
<1>9. ~x.done => Uncancelled(Tail(q), o, y)
  BY <1>2, <1>5 DEF Uncancelled, IsWait, SameControl
<1>10. ~x.done => x.stage > 0
  BY <1>5 DEF Counted
<1> QED BY <1>2, <1>4, <1>5, <1>7, <1>8, <1>9, <1>10 DEF IoTaken, Around, n

\* The current wait of o's timer has been taken from the queue.
WaitTaken(n, o) ==
    /\ Around(n, o)
    /\ n.op[o].stage = net.op[o].stage /\ n.op[o].done = net.op[o].done
    /\ n.op[o].timer = net.op[o].timer /\ n.op[o].io = net.op[o].io
    /\ n.op[o].io_pending = net.op[o].io_pending
    /\ n.op[o].completions_pending = net.op[o].completions_pending
    /\ SameControl(net.op[o], n.op[o])
    /\ Shape(n.ready, o, n.op[o]) /\ ~n.op[o].timer_pending
    /\ Head(net.ready).wait.stage = net.op[o].stage
    /\ ~net.op[o].done =>
        /\ net.op[o].stage > 0 /\ net.op[o].timer_pending /\ Counted(net.op[o])
        /\ Accounted(n.ready, o, n.op[o])
        /\ Outcome = "aborted" => net.op[o].cancel_requested

\* The head of the queue, the current wait of o's timer, is taken.
LEMMA WaitTakenFacts ==
    ASSUME net \in Nets, NetOK(net), NEW o \in Ops, RunsTimer(o), CurrentTimer(o)
    PROVE  WaitTaken(TimerDone(o), o) /\ IsWait(Head(net.ready), o, net.op[o])
<1> DEFINE x == net.op[o]
           y == [x EXCEPT !.timer_pending = FALSE]
           n == TimerDone(o)
           q == net.ready
<1>1. q # <<>> /\ IsWait(Head(q), o, x) /\ q \in Seq(Handlers) /\ x \in OpTypes
      /\ OpOK(q, o, x)
  BY OpFacts DEF RunsTimer, Runs, CurrentTimer, IsCurrent, IsWait, NetOK
<1>2. y \in OpTypes /\ y.timer_pending = FALSE /\ y.stage = x.stage /\ y.done = x.done
      /\ y.timer = x.timer /\ y.io = x.io /\ y.io_pending = x.io_pending
      /\ y.completions_pending = x.completions_pending /\ SameControl(x, y)
  BY <1>1 DEF OpTypes, SameControl
<1>3. n = Put(Taken, o, y)
  BY <1>1, TakenFacts DEF TimerDone, Put, Nets
<1> HIDE DEF y, n
<1>4. Around(n, o) /\ n.op[o] = y
  BY <1>1, <1>2, <1>3, TakenFacts, PutFacts DEF OnlyOp, Around
<1>5. /\ Shape(Tail(q), o, x) /\ ~WaitQueued(Tail(q), o, x)
      /\ x.timer.wait = NoWait /\ Head(q).wait.stage = x.stage
      /\ ~x.done =>
           /\ x.timer_pending /\ Counted(x)
           /\ x.io_pending = (x.io # "none" \/ IoQueued(Tail(q), o))
           /\ Outcome = "aborted" => x.cancel_requested
  BY <1>1, TakeWait DEF Outcome
<1>6. Tail(q) \in Seq(Handlers)
  BY <1>1, TailFacts
<1>7. Shape(Tail(q), o, y)
      /\ (WaitQueued(Tail(q), o, y) <=> WaitQueued(Tail(q), o, x))
  <2>1. y.io # "none" => ~IoQueued(Tail(q), o)
    BY <1>2, <1>5 DEF Shape, IoOnce
  <2> QED BY <1>1, <1>2, <1>5, <1>6, <2>1, SameTimer
<1>8. ~x.done => Accounted(Tail(q), o, y)
  <2>1. y.timer_pending = FALSE /\ y.timer.wait = NoWait
        /\ ~WaitQueued(Tail(q), o, y)
    BY <1>2, <1>5, <1>7
  <2>2. y.timer_pending = (y.timer.wait # NoWait \/ WaitQueued(Tail(q), o, y))
    BY <2>1
  <2>3. ~x.done => y.io_pending = (y.io # "none" \/ IoQueued(Tail(q), o))
    BY <1>2, <1>5
  <2> QED BY <2>2, <2>3 DEF Accounted
<1>9. ~x.done => x.stage > 0
  BY <1>5 DEF Counted
<1> QED BY <1>1, <1>2, <1>4, <1>5, <1>7, <1>8, <1>9 DEF WaitTaken, Around, n

\* What every such handler leaves in order.
Handled(n, o) ==
    /\ Around(n, o) /\ NetOK(n)
    /\ net.ready # <<>> /\ Head(net.ready).op = o
    /\ net.op[o].done =>
            n.op[o].done /\ n.op[o].stage = net.op[o].stage
    /\ net.op[o].done \/ net.op[o].stage > 0 \/ n.op[o].stage = net.op[o].stage
    /\ n.op[o].cancel_requested = net.op[o].cancel_requested
    /\ o = "websocket" =>
            /\ n.op[o].cancelled_result = net.op[o].cancelled_result
            /\ net.op[o].stage = Stages => n.op[o].stage = Stages

\* It neither drops a response nor hides a failure.
Discreet(n, o) ==
    /\ n.op[o].cancelled_result /\ n.op[o].done =>
            net.op[o].cancelled_result /\ net.op[o].done
    /\ Doomed(net, o) => Doomed(n, o)

\* The other operation is as it was.
LEMMA AroundOK ==
    ASSUME net \in Nets, NetOK(net), NEW o \in Ops, NEW n, Around(n, o),
           net.ready # <<>>, Head(net.ready).op = o, OpOK(n.ready, o, n.op[o])
    PROVE  NetOK(n)
<1> SUFFICES ASSUME NEW p \in Ops, p # o PROVE OpOK(n.ready, p, n.op[p])
  BY DEF NetOK
<1>1. n.ready = Tail(net.ready) /\ n.op[p] = net.op[p]
  BY DEF Around
<1>2. OpOK(net.ready, p, net.op[p]) /\ net.op[p] \in OpTypes
      /\ net.ready \in Seq(Handlers)
  BY OpFacts DEF NetOK
<1> QED BY <1>1, <1>2, TakeOther

\* A handler that lets the operation go on with its next stage.
LEMMA GoesOn ==
    ASSUME net \in Nets, NetOK(net), NEW o \in Ops, RunsIo(o), ~net.op[o].done,
           ~net.op[o].cancel_requested, Outcome = "ok",
           NEW m, Around(m, o), NEW y, y = m.op[o], Shape(m.ready, o, y), ~y.done,
           y.io = "waiting", y.io_pending = TRUE,
           y.timer_pending = (y.timer.wait # NoWait \/ WaitQueued(m.ready, o, y)),
           \A i \in DOMAIN m.ready :
                IsWait(m.ready[i], o, y) => m.ready[i].outcome # "aborted",
           SameControl(net.op[o], y), y.stage > 0,
           o = "websocket" /\ net.op[o].stage = Stages => y.stage = Stages
    PROVE  Handled(m, o) /\ Discreet(m, o)
<1>1. /\ net.op[o].stage > 0 /\ Counted(net.op[o]) /\ net.ready # <<>>
      /\ Head(net.ready).op = o /\ IsIo(Head(net.ready), o)
  BY IoTakenFacts DEF IoTaken, RunsIo, Runs, IsIo
<1>2. ~Doomed(net, o)
  BY <1>1, DoomedIo DEF Outcome
<1>3. ~IoQueued(m.ready, o)
  BY DEF Shape, IoOnce
<1>4. ~y.cancel_requested /\ ~y.cancelled_result
  BY <1>1 DEF SameControl, Counted
<1>5. Accounted(m.ready, o, y)
  BY DEF Accounted
<1>6. Counted(y)
  BY <1>4 DEF Counted
<1>7. Uncancelled(m.ready, o, y)
  BY <1>3 DEF Uncancelled, IoQueued
<1>8. NetOK(m)
  BY <1>1, <1>5, <1>6, <1>7, AroundOK DEF OpOK
<1> QED BY <1>1, <1>2, <1>4, <1>8 DEF Handled, Discreet, SameControl

\* The next stage: its timer is armed, and whatever wait is queued is stale.
LEMMA NextStage ==
    ASSUME net \in Nets, NetOK(net), NEW o \in Ops, RunsIo(o), ~net.op[o].done,
           ~net.op[o].cancel_requested, Outcome = "ok", NEW k \in 1 .. Stages,
           o = "websocket" /\ net.op[o].stage = Stages => k = Stages
    PROVE  LET m == BeginStage(Disarm(IoDone(o), o), o, k) IN
           Handled(m, o) /\ Discreet(m, o)
<1> DEFINE n == IoDone(o)
           d == Disarm(n, o)
           m == BeginStage(d, o, k)
           x == n.op[o]
           y == m.op[o]
<1>1. IoTaken(n, o)
  BY IoTakenFacts
<1> HIDE DEF n
<1>2. n \in Nets /\ x \in OpTypes /\ x.timer.generation \in Nat
      /\ n.ready \in Seq(Handlers)
  BY <1>1, OpFacts DEF IoTaken, Around
<1>3. /\ OnlyOp(n, d, o) /\ d \in Nets /\ SameControl(x, d.op[o])
      /\ d.op[o].timer.generation = x.timer.generation + 1
      /\ d.op[o].done = x.done
  BY <1>2, DisarmFacts DEF OnlyOp
<1> HIDE DEF d
<1>4. /\ OnlyOp(d, m, o) /\ m \in Nets /\ SameControl(d.op[o], y)
      /\ y.stage = k /\ y.io = "waiting" /\ y.io_pending /\ y.timer_pending
      /\ y.timer.generation = d.op[o].timer.generation + 1
      /\ y.timer.wait # NoWait /\ y.timer.wait.generation = y.timer.generation
      /\ y.timer.wait.stage = k /\ y.done = x.done
  BY <1>2, <1>3, BeginFacts DEF OnlyOp
<1> HIDE DEF m
<1>5. OnlyOp(n, m, o) /\ y \in OpTypes
  BY <1>3, <1>4, OnlyOpTwice, OpFacts
<1>6. Around(m, o) /\ m.ready = n.ready
  BY <1>1, <1>5 DEF IoTaken, Around, OnlyOp
<1>7. Shape(n.ready, o, y) /\ ~WaitQueued(n.ready, o, y)
  <2>1. Shape(n.ready, o, x) /\ ~IoQueued(n.ready, o)
    BY <1>1 DEF IoTaken
  <2>2. y.timer.generation > x.timer.generation
    BY <1>2, <1>3, <1>4
  <2> QED BY <1>2, <1>4, <1>5, <2>1, <2>2, NewGeneration
<1>8. SameControl(net.op[o], y) /\ ~y.done
  BY <1>1, <1>3, <1>4 DEF SameControl, IoTaken
<1>9. \A i \in DOMAIN m.ready : ~IsWait(m.ready[i], o, y)
  BY <1>6, <1>7 DEF WaitQueued
<1>10. y.io_pending = TRUE /\ y.timer_pending = TRUE
  BY <1>4, <1>5 DEF OpTypes
<1>11. y.timer_pending = (y.timer.wait # NoWait \/ WaitQueued(m.ready, o, y))
  BY <1>4, <1>10
<1>12. y.stage > 0 /\ (o = "websocket" /\ net.op[o].stage = Stages => y.stage = Stages)
  BY <1>4
<1>13. Handled(m, o) /\ Discreet(m, o)
  BY <1>4, <1>6, <1>7, <1>8, <1>9, <1>10, <1>11, <1>12, GoesOn
<1> QED BY <1>13 DEF m, d, n

\* The handshake is followed by the first read, which has no timer.
LEMMA FirstRead ==
    ASSUME net \in Nets, NetOK(net), RunsIo("websocket"),
           ~net.op["websocket"].done, ~net.op["websocket"].cancel_requested,
           Outcome = "ok"
    PROVE  LET m == BeginRead(Disarm(IoDone("websocket"), "websocket")) IN
           /\ Handled(m, "websocket") /\ Discreet(m, "websocket")
           /\ m.op["websocket"].stage = Stages
<1> DEFINE o == "websocket"
           n == IoDone(o)
           d == Disarm(n, o)
           m == BeginRead(d)
           x == n.op[o]
           y == m.op[o]
<1>1. IoTaken(n, o) /\ o \in Ops
  BY IoTakenFacts DEF Ops
<1> HIDE DEF n
<1>2. n \in Nets /\ x \in OpTypes /\ x.timer.generation \in Nat
      /\ n.ready \in Seq(Handlers) /\ ~x.done
  BY <1>1, OpFacts DEF IoTaken, Around
<1>3. /\ OnlyOp(n, d, o) /\ d \in Nets /\ SameControl(x, d.op[o])
      /\ d.op[o].timer.generation = x.timer.generation + 1
      /\ d.op[o].timer.wait = NoWait /\ ~d.op[o].timer_pending
      /\ ~d.op[o].done
  BY <1>1, <1>2, DisarmFacts DEF OnlyOp
<1> HIDE DEF d
<1>4. /\ OnlyOp(d, m, o) /\ m \in Nets /\ SameControl(d.op[o], y)
      /\ y.stage = Stages /\ y.io = "waiting" /\ y.io_pending
      /\ ~y.timer_pending /\ y.timer = d.op[o].timer /\ ~y.done
  BY <1>3, ReadFacts DEF OnlyOp
<1> HIDE DEF m
<1>5. OnlyOp(n, m, o) /\ y \in OpTypes
  BY <1>1, <1>3, <1>4, OnlyOpTwice, OpFacts
<1>6. Around(m, o) /\ m.ready = n.ready
  BY <1>1, <1>5 DEF IoTaken, Around, OnlyOp
<1>7. Shape(n.ready, o, y) /\ ~WaitQueued(n.ready, o, y)
  <2>1. Shape(n.ready, o, x) /\ ~IoQueued(n.ready, o)
    BY <1>1 DEF IoTaken
  <2>2. y.timer.generation > x.timer.generation
    BY <1>2, <1>3, <1>4
  <2>3. y.timer.wait = NoWait
    BY <1>3, <1>4
  <2> QED BY <1>1, <1>2, <1>5, <2>1, <2>2, <2>3, NewGeneration
<1>8. SameControl(net.op[o], y)
  BY <1>1, <1>3, <1>4 DEF SameControl, IoTaken
<1>9. \A i \in DOMAIN m.ready : ~IsWait(m.ready[i], o, y)
  BY <1>6, <1>7 DEF WaitQueued
<1>10. y.io_pending = TRUE /\ y.timer_pending = FALSE
  BY <1>4, <1>5 DEF OpTypes
<1>11. y.timer_pending = (y.timer.wait # NoWait \/ WaitQueued(m.ready, o, y))
  BY <1>3, <1>4, <1>6, <1>7, <1>10
<1>12. y.stage > 0
  BY <1>4, TransportAssumption
<1>13. Handled(m, o) /\ Discreet(m, o)
  BY <1>1, <1>4, <1>6, <1>7, <1>8, <1>9, <1>10, <1>11, <1>12, GoesOn
<1> QED BY <1>4, <1>13 DEF m, d, n

\* A frame is followed by the next read; no wait of the stage is outstanding.
LEMMA NextRead ==
    ASSUME net \in Nets, NetOK(net), RunsIo("websocket"),
           ~net.op["websocket"].done, ~net.op["websocket"].cancel_requested,
           Outcome = "ok", net.op["websocket"].stage = Stages
    PROVE  LET m == BeginRead(IoDone("websocket")) IN
           Handled(m, "websocket") /\ Discreet(m, "websocket")
<1> DEFINE o == "websocket"
           n == IoDone(o)
           m == BeginRead(n)
           x == n.op[o]
           y == m.op[o]
<1>1. IoTaken(n, o) /\ o \in Ops
  BY IoTakenFacts DEF Ops
<1> HIDE DEF n
<1>2. n \in Nets /\ x \in OpTypes /\ n.ready \in Seq(Handlers) /\ ~x.done
      /\ x.stage = Stages
  BY <1>1, OpFacts DEF IoTaken, Around
<1>3. /\ OnlyOp(n, m, o) /\ m \in Nets /\ SameControl(x, y)
      /\ y.stage = Stages /\ y.io = "waiting" /\ y.io_pending
      /\ y.timer_pending = x.timer_pending /\ y.timer = x.timer /\ ~y.done
  BY <1>2, ReadFacts DEF OnlyOp
<1> HIDE DEF m
<1>4. y \in OpTypes
  BY <1>1, <1>3, OpFacts
<1>5. Around(m, o) /\ m.ready = n.ready
  BY <1>1, <1>3 DEF IoTaken, Around, OnlyOp
<1>6. Shape(n.ready, o, y) /\ (WaitQueued(n.ready, o, y) <=> WaitQueued(n.ready, o, x))
  <2>1. Shape(n.ready, o, x) /\ ~IoQueued(n.ready, o)
    BY <1>1 DEF IoTaken
  <2> QED BY <1>1, <1>2, <1>3, <1>4, <2>1, SameTimer
<1>7. SameControl(net.op[o], y)
  BY <1>1, <1>3 DEF SameControl, IoTaken
<1>8. \A i \in DOMAIN m.ready :
            IsWait(m.ready[i], o, y) => m.ready[i].outcome # "aborted"
  BY <1>1, <1>3, <1>5 DEF IsWait, Uncancelled, IoTaken, SameControl
<1>9. y.io_pending = TRUE
  BY <1>3, <1>4 DEF OpTypes
<1>10. y.timer_pending = (y.timer.wait # NoWait \/ WaitQueued(m.ready, o, y))
  <2>1. x.timer_pending = (x.timer.wait # NoWait \/ WaitQueued(n.ready, o, x))
    BY <1>1 DEF IoTaken, Accounted
  <2>2. WaitQueued(n.ready, o, y) = WaitQueued(n.ready, o, x)
    BY <1>6 DEF WaitQueued
  <2> QED BY <1>3, <1>5, <2>1, <2>2
<1>11. y.stage > 0
  BY <1>3, TransportAssumption
<1>12. Handled(m, o) /\ Discreet(m, o)
  BY <1>1, <1>3, <1>5, <1>6, <1>7, <1>8, <1>9, <1>10, <1>11, GoesOn
<1> QED BY <1>12 DEF m, n

\* One piece of a cancelled operation has just completed, its I/O or its wait,
\* with whatever response it brought.
LEMMA PieceTaken ==
    ASSUME net \in Nets, NetOK(net), NEW o \in Ops, ~net.op[o].done,
           net.op[o].cancel_requested, NEW n, NEW y, y = n.op[o],
           Around(n, o), ~y.done, y.cancel_requested,
           Counted(net.op[o]), Shape(n.ready, o, y), Accounted(n.ready, o, y),
           y.completions_pending = net.op[o].completions_pending,
           y.stage = net.op[o].stage, net.op[o].stage > 0,
           \/ /\ y.timer_pending = net.op[o].timer_pending
              /\ net.op[o].io_pending /\ y.io_pending = FALSE
           \/ /\ y.io_pending = net.op[o].io_pending
              /\ net.op[o].timer_pending /\ y.timer_pending = FALSE
              /\ y.cancelled_result = net.op[o].cancelled_result
    PROVE  OnePieceLess(n.ready, o, y)
<1>1. Pieces(net.op[o]) = Pieces(y) + 1
  BY DEF Pieces
<1>2. y.cancelled_result => ~y.io_pending
  BY DEF Counted
<1> QED BY <1>1, <1>2 DEF OnePieceLess, Counted

\* What complete_cancelled_piece() leaves, when it has no response to deliver.
LEMMA PieceHandled ==
    ASSUME net \in Nets, NetOK(net), NEW o \in Ops, net.ready # <<>>,
           Head(net.ready).op = o, ~net.op[o].done, net.op[o].stage > 0,
           net.op[o].cancel_requested, NEW n, Around(n, o),
           OnePieceLess(n.ready, o, n.op[o]), n.op[o].stage = net.op[o].stage,
           o = "websocket" =>
                n.op[o].cancelled_result = net.op[o].cancelled_result,
           CountedPiece(n, o).op[o].completions_pending = 0 =>
                ~n.op[o].cancelled_result
    PROVE  LET m == CompleteCancelledPiece(n, o) IN
           /\ Handled(m, o)
           /\ ~(m.op[o].cancelled_result /\ m.op[o].done)
           /\ m.op[o].done =>
                ~n.op[o].io_pending /\ ~n.op[o].timer_pending
           /\ ~m.op[o].done => m.op[o].io = n.op[o].io
<1> DEFINE m == CompleteCancelledPiece(n, o)
<1>1. n \in Nets
  BY DEF Around
<1>2. /\ OnlyOp(n, m, o) /\ SameControl(n.op[o], m.op[o])
      /\ OpOK(m.ready, o, m.op[o]) /\ m.op[o].stage = n.op[o].stage
      /\ m.op[o].done => ~n.op[o].io_pending /\ ~n.op[o].timer_pending
      /\ ~m.op[o].done =>
           m.op[o].io = n.op[o].io /\ m.op[o].timer = n.op[o].timer
      /\ CountedPiece(n, o).op[o].completions_pending = 0 <=>
           ~n.op[o].io_pending /\ ~n.op[o].timer_pending
  BY <1>1, PieceFacts
<1> HIDE DEF m
<1>3. Around(m, o)
  BY <1>2 DEF Around, OnlyOp
<1>4. NetOK(m)
  BY <1>2, <1>3, AroundOK
<1>5. ~(m.op[o].cancelled_result /\ m.op[o].done)
  BY <1>2 DEF SameControl
<1>6. m.op[o].cancel_requested = net.op[o].cancel_requested
  <2>1. n.op[o] \in OpTypes /\ net.op[o] \in OpTypes
    BY <1>1, OpFacts
  <2> QED BY <1>2, <2>1 DEF SameControl, OnePieceLess, OpTypes
<1>7. Handled(m, o)
  BY <1>2, <1>3, <1>4, <1>6 DEF Handled, SameControl
<1> QED BY <1>2, <1>5, <1>7 DEF m

\* y is x, apart from the response it holds.
SameBut(x, y, result) ==
    /\ y \in OpTypes /\ y.cancelled_result = result /\ y.stage = x.stage
    /\ y.done = x.done /\ y.timer = x.timer /\ y.io = x.io
    /\ y.io_pending = x.io_pending /\ y.timer_pending = x.timer_pending
    /\ y.completions_pending = x.completions_pending
    /\ y.cancel_requested = x.cancel_requested

\* The I/O of a cancelled operation completes: no failure is hidden, since this
\* completion would have been it.
LEMMA IoPiece ==
    ASSUME net \in Nets, NetOK(net), NEW o \in Ops, RunsIo(o), ~net.op[o].done,
           net.op[o].cancel_requested, Outcome # "failed", NEW n,
           OnlyOp(IoDone(o), n, o), NEW c \in BOOLEAN,
           SameBut(IoDone(o).op[o], n.op[o], c)
    PROVE  /\ OnePieceLess(n.ready, o, n.op[o]) /\ Around(n, o)
           /\ n.op[o].cancelled_result = c
           /\ n.op[o].stage = net.op[o].stage /\ net.op[o].stage > 0
           /\ net.ready # <<>> /\ Head(net.ready).op = o /\ ~Doomed(net, o)
<1> DEFINE k == IoDone(o)
           x == k.op[o]
           y == n.op[o]
<1>1. IoTaken(k, o)
  BY IoTakenFacts
<1>2. k \in Nets /\ x \in OpTypes /\ k.ready \in Seq(Handlers)
  BY <1>1, OpFacts DEF IoTaken, Around
<1> HIDE DEF k
<1>3. /\ y \in OpTypes /\ y.cancelled_result = c /\ y.stage = x.stage
      /\ y.done = x.done /\ y.timer = x.timer /\ y.io = x.io
      /\ y.io_pending = x.io_pending /\ y.timer_pending = x.timer_pending
      /\ y.completions_pending = x.completions_pending
      /\ y.cancel_requested = x.cancel_requested
  BY DEF SameBut, k
<1> HIDE DEF y
<1>4. Around(n, o) /\ n.ready = k.ready
  BY <1>1 DEF IoTaken, Around, OnlyOp, k
<1>5. Shape(n.ready, o, y) /\ (WaitQueued(n.ready, o, y) <=> WaitQueued(n.ready, o, x))
  <2>1. Shape(k.ready, o, x) /\ ~IoQueued(k.ready, o)
    BY <1>1 DEF IoTaken
  <2> QED BY <1>2, <1>3, <1>4, <2>1, SameTimer
<1>6. Accounted(n.ready, o, y)
  <2>1. Accounted(k.ready, o, x)
    BY <1>1 DEF IoTaken
  <2>2. WaitQueued(n.ready, o, y) = WaitQueued(n.ready, o, x)
    BY <1>5 DEF WaitQueued
  <2> QED BY <1>3, <1>4, <2>1, <2>2 DEF Accounted
<1>7. /\ net.op[o].stage > 0 /\ Counted(net.op[o]) /\ net.op[o].io_pending
      /\ y.stage = net.op[o].stage /\ ~y.done /\ y.cancel_requested
      /\ y.completions_pending = net.op[o].completions_pending
      /\ y.timer_pending = net.op[o].timer_pending
  BY <1>1, <1>3 DEF IoTaken, SameControl
<1>8. y.io_pending = FALSE
  BY <1>1, <1>3 DEF IoTaken, OpTypes
<1>9. y = n.op[o]
  BY DEF y
<1>10. OnePieceLess(n.ready, o, y)
  BY <1>4, <1>5, <1>6, <1>7, <1>8, <1>9, PieceTaken
<1>11. net.ready # <<>> /\ Head(net.ready).op = o /\ IsIo(Head(net.ready), o)
  BY DEF RunsIo, Runs, IsIo
<1>12. ~Doomed(net, o)
  BY <1>11, DoomedIo DEF Outcome
<1> QED BY <1>3, <1>4, <1>7, <1>9, <1>10, <1>11, <1>12

\* The wait of a cancelled operation completes: a failure that is on its way is
\* its I/O, and still to come.
LEMMA WaitPiece ==
    ASSUME net \in Nets, NetOK(net), NEW o \in Ops, RunsTimer(o), CurrentTimer(o),
           ~net.op[o].done, Outcome = "aborted"
    PROVE  LET n == TimerDone(o) IN
           /\ OnePieceLess(n.ready, o, n.op[o]) /\ Around(n, o)
           /\ SameControl(net.op[o], n.op[o]) /\ net.op[o].cancel_requested
           /\ n.op[o].stage = net.op[o].stage /\ net.op[o].stage > 0
           /\ n.op[o].io = net.op[o].io
           /\ net.ready # <<>> /\ Head(net.ready).op = o
           /\ Doomed(net, o) =>
                /\ n.op[o].io_pending
                /\ \A m \in Nets :
                     /\ m.ready = Tail(net.ready) /\ m.barrier = net.barrier
                     /\ ~m.op[o].done /\ m.op[o].io = net.op[o].io
                     => Doomed(m, o)
<1> DEFINE n == TimerDone(o)
           y == n.op[o]
<1>1. WaitTaken(n, o) /\ IsWait(Head(net.ready), o, net.op[o])
  BY WaitTakenFacts
<1> HIDE DEF n
<1>2. y \in OpTypes
  BY <1>1, OpFacts DEF WaitTaken, Around
<1>3. y.timer_pending = FALSE
  BY <1>1, <1>2 DEF WaitTaken, OpTypes
<1>4. net.ready # <<>> /\ Head(net.ready).op = o
  BY DEF RunsTimer, Runs
<1>5. net.op[o].cancel_requested /\ net.op[o].timer_pending /\ Counted(net.op[o])
      /\ net.op[o].stage > 0 /\ Accounted(n.ready, o, y)
  BY <1>1 DEF WaitTaken
<1>6. /\ Around(n, o) /\ ~y.done /\ SameControl(net.op[o], y)
      /\ Shape(n.ready, o, y) /\ y.stage = net.op[o].stage
      /\ y.completions_pending = net.op[o].completions_pending
      /\ y.io_pending = net.op[o].io_pending /\ y.io = net.op[o].io
  BY <1>1 DEF WaitTaken
<1>7. OnePieceLess(n.ready, o, y)
  BY <1>3, <1>5, <1>6, PieceTaken DEF SameControl
<1>8. Doomed(net, o) =>
        /\ net.op[o].io_pending
        /\ \A m \in Nets :
             /\ m.ready = Tail(net.ready) /\ m.barrier = net.barrier
             /\ ~m.op[o].done /\ m.op[o].io = net.op[o].io
             => Doomed(m, o)
  BY <1>1, <1>4, DoomedWait DEF Outcome
<1> QED BY <1>4, <1>5, <1>6, <1>7, <1>8 DEF n

\* An operation that ends: its callback has not been called yet.
LEMMA EndHandled ==
    ASSUME net \in Nets, NetOK(net), NEW o \in Ops, net.ready # <<>>,
           Head(net.ready).op = o, NEW n, Around(n, o), NEW m, Ends(n, m, o),
           OpOK(m.ready, o, m.op[o]), n.op[o].stage = net.op[o].stage,
           n.op[o].cancel_requested = net.op[o].cancel_requested,
           o = "websocket" =>
                n.op[o].cancelled_result = net.op[o].cancelled_result
    PROVE  Handled(m, o) /\ m.op[o].done /\ m.op[o].stage = net.op[o].stage
           /\ m.op[o].cancelled_result = n.op[o].cancelled_result
<1>1. Around(m, o)
  BY DEF Around, Ends, OnlyOp
<1>2. NetOK(m)
  BY <1>1, AroundOK
<1> QED BY <1>1, <1>2 DEF Handled, Ends, SameControl

\* fail() and finish() after an I/O handler.
LEMMA FinishAfterIo ==
    ASSUME net \in Nets, NetOK(net), NEW o \in Ops, RunsIo(o)
    PROVE  LET m == Finished(IoDone(o), o) IN
           /\ Handled(m, o) /\ m.op[o].done /\ m.op[o].stage = net.op[o].stage
           /\ m.op[o].cancelled_result = net.op[o].cancelled_result
           /\ IoDone(o).op[o].stage = net.op[o].stage
<1> DEFINE n == IoDone(o)
           m == Finished(n, o)
<1>1. IoTaken(n, o)
  BY IoTakenFacts
<1> HIDE DEF n
<1>2. n \in Nets /\ Shape(n.ready, o, n.op[o]) /\ Around(n, o)
      /\ n.op[o].stage = net.op[o].stage /\ SameControl(net.op[o], n.op[o])
  BY <1>1 DEF IoTaken, Around
<1>3. Ends(n, m, o) /\ OpOK(m.ready, o, m.op[o])
  BY <1>2, FinishedFacts
<1> HIDE DEF m
<1>4. net.ready # <<>> /\ Head(net.ready).op = o
  BY DEF RunsIo, Runs
<1>5. Handled(m, o) /\ m.op[o].done /\ m.op[o].stage = net.op[o].stage
      /\ m.op[o].cancelled_result = n.op[o].cancelled_result
  BY <1>2, <1>3, <1>4, EndHandled DEF SameControl
<1> QED BY <1>2, <1>5 DEF m, n, SameControl

\* A refused frame retires the operation.
LEMMA RetireAfterIo ==
    ASSUME net \in Nets, NetOK(net), NEW o \in Ops, RunsIo(o), ~net.op[o].done
    PROVE  LET m == RetireCleanly(IoDone(o), o) IN
           Handled(m, o) /\ m.op[o].done /\ m.op[o].stage = net.op[o].stage
<1> DEFINE n == IoDone(o)
           m == RetireCleanly(n, o)
<1>1. IoTaken(n, o)
  BY IoTakenFacts
<1> HIDE DEF n
<1>2. n \in Nets /\ Shape(n.ready, o, n.op[o]) /\ Around(n, o) /\ ~n.op[o].done
      /\ n.op[o].stage = net.op[o].stage /\ SameControl(net.op[o], n.op[o])
  BY <1>1 DEF IoTaken, Around
<1>3. Ends(n, m, o) /\ OpOK(m.ready, o, m.op[o])
  BY <1>2, RetireFacts
<1> HIDE DEF m
<1>4. net.ready # <<>> /\ Head(net.ready).op = o
  BY DEF RunsIo, Runs
<1>5. Handled(m, o) /\ m.op[o].done /\ m.op[o].stage = net.op[o].stage
  BY <1>2, <1>3, <1>4, EndHandled DEF SameControl
<1> QED BY <1>5 DEF m, n

\* fail() and finish() after a wait handler: the wait is the stage's own.
LEMMA FinishAfterWait ==
    ASSUME net \in Nets, NetOK(net), NEW o \in Ops, RunsTimer(o), CurrentTimer(o)
    PROVE  LET m == Finished(TimerDone(o), o) IN
           /\ Handled(m, o) /\ m.op[o].done
           /\ m.op[o].stage = Head(net.ready).wait.stage
<1> DEFINE n == TimerDone(o)
           m == Finished(n, o)
<1>1. WaitTaken(n, o)
  BY WaitTakenFacts
<1> HIDE DEF n
<1>2. n \in Nets /\ Shape(n.ready, o, n.op[o]) /\ Around(n, o)
      /\ n.op[o].stage = net.op[o].stage /\ SameControl(net.op[o], n.op[o])
      /\ Head(net.ready).wait.stage = net.op[o].stage
  BY <1>1 DEF WaitTaken, Around
<1>3. Ends(n, m, o) /\ OpOK(m.ready, o, m.op[o])
  BY <1>2, FinishedFacts
<1> HIDE DEF m
<1>4. net.ready # <<>> /\ Head(net.ready).op = o
  BY DEF RunsTimer, Runs
<1>5. Handled(m, o) /\ m.op[o].done /\ m.op[o].stage = net.op[o].stage
  BY <1>2, <1>3, <1>4, EndHandled DEF SameControl
<1> QED BY <1>2, <1>5 DEF m, n

\* A completion that comes after the end changes nothing that matters.
LEMMA AfterDone ==
    ASSUME net \in Nets, NetOK(net), NEW o \in Ops, net.op[o].done, NEW n,
           \/ RunsIo(o) /\ n = IoDone(o)
           \/ RunsTimer(o) /\ CurrentTimer(o) /\ n = TimerDone(o)
    PROVE  Handled(n, o) /\ Discreet(n, o)
<1>1. /\ Around(n, o) /\ n.op[o].done /\ Shape(n.ready, o, n.op[o])
      /\ n.op[o].stage = net.op[o].stage /\ SameControl(net.op[o], n.op[o])
  BY IoTakenFacts, WaitTakenFacts DEF IoTaken, WaitTaken
<1>2. net.ready # <<>> /\ Head(net.ready).op = o
  BY DEF RunsIo, RunsTimer, Runs
<1>3. NetOK(n)
  BY <1>1, <1>2, AroundOK DEF OpOK
<1>4. ~Doomed(net, o)
  BY DEF Doomed
<1> QED BY <1>1, <1>2, <1>3, <1>4 DEF Handled, Discreet, SameControl

\* A wait of an earlier stage changes nothing at all.
LEMMA StaleHandled ==
    ASSUME net \in Nets, NetOK(net), NEW o \in Ops, RunsTimer(o), ~CurrentTimer(o)
    PROVE  Handled(Taken, o) /\ Discreet(Taken, o)
<1> DEFINE q == net.ready
<1>1. /\ q # <<>> /\ Head(q).op = o /\ Head(q).kind = "timer"
      /\ ~IsWait(Head(q), o, net.op[o]) /\ ~IsIo(Head(q), o)
  BY DEF RunsTimer, Runs, CurrentTimer, IsCurrent, IsWait, IsIo
<1>2. /\ Taken \in Nets /\ Taken.ready = Tail(q) /\ Taken.op = net.op
      /\ Taken.held = net.held /\ Taken.barrier = net.barrier
  BY <1>1, TakenFacts
<1>3. q \in Seq(Handlers) /\ net.op[o] \in OpTypes /\ OpOK(q, o, net.op[o])
  BY OpFacts DEF NetOK
<1>4. OpOK(Tail(q), o, net.op[o])
  BY <1>1, <1>3, TakeStale
<1>5. Around(Taken, o)
  BY <1>2 DEF Around
<1>6. NetOK(Taken)
  BY <1>1, <1>2, <1>4, <1>5, AroundOK
<1>7. Doomed(net, o) => Doomed(Taken, o)
  <2> SUFFICES ASSUME Doomed(net, o) PROVE Doomed(Taken, o)
    OBVIOUS
  <2>1. ~Taken.op[o].done
    BY <1>2 DEF Doomed
  <2> QED BY <1>1, <1>2, <2>1, DoomedTail
<1> QED BY <1>1, <1>2, <1>5, <1>6, <1>7 DEF Handled, Discreet

-----------------------------------------------------------------------------
(* The whole step of a handler.                                              *)

\* Taking a handler posts nothing.
LEMMA PostsTail ==
    ASSUME NEW n \in Nets, NEW m, n.ready # <<>>, m.ready = Tail(n.ready),
           m.barrier = n.barrier, PostForm(n)
    PROVE  PostForm(m) /\ \A kind : Posted(m, kind) => Posted(n, kind)
<1> DEFINE q == n.ready
           r == m.ready
<1>1. n.ready \in Seq(Handlers)
  BY DEF Nets
<1>2. /\ \A i \in DOMAIN r : i + 1 \in DOMAIN q /\ r[i] = q[i + 1]
      /\ \A i, j \in DOMAIN r : i + 1 = j + 1 => i = j
  BY <1>1, TailFacts
<1> HIDE DEF q, r
<1>3. \A kind : Posted(m, kind) => Posted(n, kind)
  BY <1>2 DEF Posted, q, r
<1>4. /\ \A i, j \in DOMAIN r :
            r[i].kind \in {"clean", "barrier"} /\ r[j].kind \in {"clean", "barrier"}
            => i = j
      /\ \A i, j \in DOMAIN r : r[i].kind = "start" /\ r[j].kind = "start" => i = j
  BY <1>2 DEF PostForm, q
<1>5. \A i \in DOMAIN r : r[i].op = "none" <=> r[i].kind \in {"start", "clean", "barrier"}
  BY <1>2 DEF PostForm, q
<1>6. m.barrier => ~Posted(m, "clean") /\ ~Posted(m, "barrier")
  BY <1>3 DEF PostForm
<1> QED BY <1>3, <1>4, <1>5, <1>6 DEF PostForm, r

\* Nor does queueing what belongs to an operation.
LEMMA PostsExtend ==
    ASSUME NEW n \in Nets, NEW m, Extends(n.ready, m.ready),
           m.barrier = n.barrier, PostForm(n),
           \A i \in DOMAIN m.ready : i \notin DOMAIN n.ready =>
                m.ready[i].op \in Ops /\ m.ready[i].kind \in {"io", "timer"}
    PROVE  PostForm(m) /\ \A kind \in {"start", "clean", "barrier"} :
                                Posted(m, kind) => Posted(n, kind)
<1> DEFINE q == n.ready
           r == m.ready
<1>1. \A i \in DOMAIN r : r[i].kind \in {"start", "clean", "barrier"} =>
            i \in DOMAIN q /\ r[i] = q[i]
  BY DEF Extends
<1>2. \A i \in DOMAIN r : i \in DOMAIN q => r[i] = q[i]
  BY DEF Extends
<1> HIDE DEF q, r
<1>3. \A kind \in {"start", "clean", "barrier"} : Posted(m, kind) => Posted(n, kind)
  BY <1>1 DEF Posted, q, r
<1>4. /\ \A i, j \in DOMAIN r :
            r[i].kind \in {"clean", "barrier"} /\ r[j].kind \in {"clean", "barrier"}
            => i = j
      /\ \A i, j \in DOMAIN r : r[i].kind = "start" /\ r[j].kind = "start" => i = j
  BY <1>1 DEF PostForm, q
<1>5. \A i \in DOMAIN r : r[i].op = "none" <=> r[i].kind \in {"start", "clean", "barrier"}
  <2> SUFFICES ASSUME NEW i \in DOMAIN r
               PROVE  r[i].op = "none" <=> r[i].kind \in {"start", "clean", "barrier"}
    OBVIOUS
  <2>1. CASE i \in DOMAIN q
    BY <1>2, <2>1 DEF PostForm, q
  <2>2. CASE i \notin DOMAIN q
    BY <2>2 DEF q, r, Ops
  <2> QED BY <2>1, <2>2
<1>6. m.barrier => ~Posted(m, "clean") /\ ~Posted(m, "barrier")
  BY <1>3 DEF PostForm
<1> QED BY <1>3, <1>4, <1>5, <1>6 DEF PostForm, r

\* Nothing of an operation is queued as long as the start is.
LEMMA StartFirst ==
    ASSUME IInv, Running, Posted(net, "start")
    PROVE  \A i \in DOMAIN net.ready : net.ready[i].op \notin Ops
<1>1. Idle(net, "websocket") /\ net.op["websocket"].stage = 0
  BY DEF IInv, BegunOK, Idle, NoOp
<1>2. ~observation.websocket_handshake
  BY <1>1, TransportAssumption DEF IInv, BegunOK
<1>3. Idle(net, "depth")
  BY <1>2 DEF IInv, BegunOK
<1> QED BY <1>1, <1>3 DEF Idle, Ops

\* A handler that cancels nothing keeps the invariant, when it drops no response
\* and hides no failure, or when a failure has been reported already.
LEMMA HandlerStep ==
    ASSUME IInv, Running, NEW o \in Ops, NEW n, Handled(n, o),
           Discreet(n, o) \/ Error # NoError, net' = n,
           UNCHANGED <<callerVars, thread, failing>>,
           observation' \in ObservationTypes,
           observation'.started = observation.started,
           observation'.stopped = observation.stopped,
           observation'.websocket_handshake = observation.websocket_handshake,
           observation'.terminal_error = observation.terminal_error,
           told' \in [failures : Nat, snapshots : Nat],
           told'.failures = told.failures, told'.snapshots \in {0, 1},
           ~n.op["depth"].done => told'.snapshots = 0
    PROVE  IInv'
<1> DEFINE q == net.ready
<1>1. /\ net \in Nets /\ n \in Nets /\ n.ready = Tail(q) /\ q # <<>>
      /\ Head(q).op = o /\ n.held = net.held /\ n.barrier = net.barrier
      /\ \A p \in Ops : p # o => n.op[p] = net.op[p]
  BY DEF IInv, Handled, Around
<1>2. /\ 1 \in DOMAIN q /\ q[1].op = o
      /\ \A i \in DOMAIN n.ready : i + 1 \in DOMAIN q /\ n.ready[i] = q[i + 1]
  BY <1>1, TailFacts DEF Nets
<1>3. CallersOK' /\ pc["starter"] # "idle"
  BY DEF IInv, CallersOK, callerVars, Running
<1>4. PostForm(n) /\ \A kind : Posted(n, kind) => Posted(net, kind)
  BY <1>1, PostsTail DEF IInv, PostsOK
<1>5. PostsOK'
  BY <1>1, <1>4 DEF IInv, PostsOK, callerVars
<1>6. ~Posted(net, "start")
  BY <1>2, StartFirst
<1>7. BegunOK'
  <2>1. ~observation.websocket_handshake => Idle(n, "depth") /\ Error.op # "depth"
    <3> SUFFICES ASSUME ~observation.websocket_handshake
                 PROVE  Idle(n, "depth") /\ Error.op # "depth"
      OBVIOUS
    <3>1. Idle(net, "depth") /\ Error.op # "depth"
      BY DEF IInv, BegunOK
    <3>2. o # "depth" /\ "depth" \in Ops
      BY <1>2, <3>1 DEF Idle, Ops
    <3> QED BY <1>1, <1>2, <3>1, <3>2 DEF Idle
  <2>2. /\ observation.websocket_handshake => n.op["websocket"].stage = Stages
        /\ ~n.op["websocket"].cancelled_result
    <3>1. "websocket" \in Ops
      BY DEF Ops
    <3>2. CASE o = "websocket"
      BY <3>2 DEF Handled, IInv, BegunOK
    <3>3. CASE o # "websocket"
      BY <1>1, <3>1, <3>3 DEF IInv, BegunOK
    <3> QED BY <3>2, <3>3
  <2>3. (pc["starter"] = "idle" \/ Posted(n, "start")) = FALSE
    BY <1>3, <1>4, <1>6 DEF Posted
  <2> QED BY <2>1, <2>2, <2>3 DEF BegunOK, Error, callerVars
<1>8. ErrorOK'
  BY <1>1 DEF IInv, ErrorOK, Error, Handled
<1>9. HeldOK'
  <2> SUFFICES ASSUME NEW p \in Ops, ~n.op[p].done, n.op[p].stage > 0
               PROVE  p \in n.held \/ n.op[p].cancel_requested
    BY DEF HeldOK, Cancellable
  <2>1. CASE p = o
    BY <1>1, <2>1 DEF Handled, IInv, HeldOK, Cancellable
  <2>2. CASE p # o
    BY <1>1, <2>2 DEF IInv, HeldOK, Cancellable
  <2> QED BY <2>1, <2>2
<1>10. ResultOK'
  BY <1>1 DEF IInv, ResultOK, Error, Discreet, Ops
<1>11. ToldOK'
  BY DEF IInv, ToldOK, Error
<1>12. FailingOK'
  <2> SUFFICES ASSUME failing, Error = NoError
               PROVE  \E p \in Ops : Doomed(n, p)
    BY DEF FailingOK, Error
  <2>1. PICK p \in Ops : Doomed(net, p)
    BY DEF IInv, FailingOK
  <2>2. CASE p = o
    BY <2>1, <2>2 DEF Discreet
  <2>3. CASE p # o
    <3>1. ~IsIo(Head(q), p) /\ ~IsWait(Head(q), p, net.op[p]) /\ ~n.op[p].done
      BY <1>1, <2>1, <2>3 DEF IsIo, IsWait, Doomed
    <3>2. Doomed(n, p)
      BY <1>1, <2>1, <2>3, <3>1, DoomedTail
    <3> QED BY <3>2
  <2> QED BY <2>2, <2>3
<1>13. EndedOK'
  BY DEF EndedOK, Running
<1>14. NetOK(n)
  BY DEF Handled
<1> QED BY <1>1, <1>3, <1>5, <1>7, <1>8, <1>9, <1>10, <1>11, <1>12, <1>13, <1>14
        DEF IInv

\* The network thread is about to report that o failed.
FailReady(n, o, live) ==
    /\ n \in Nets /\ NetOK(n) /\ PostForm(n) /\ n.barrier = net.barrier
    /\ \A kind \in {"clean", "barrier"} : Posted(n, kind) => Posted(net, kind)
    /\ ~Posted(n, "start")
    /\ n.op[o].done
    /\ ~live => Idle(n, "depth") /\ o # "depth"
    /\ live => n.op["websocket"].stage = Stages
    /\ ~n.op["websocket"].cancelled_result
    /\ Cancellable(n)
    /\ ~n.op["depth"].done => told.snapshots = 0

\* The first failure: it is told, and everything else is cancelled.
LEMMA FirstFailure ==
    ASSUME IInv, Running, Error = NoError, NEW o \in Ops, NEW n,
           NEW obs \in ObservationTypes, obs.started = observation.started,
           obs.stopped = observation.stopped, obs.terminal_error = NoError,
           FailReady(n, o, obs.websocket_handshake),
           NEW code \in Causes, NEW stage \in 0 .. Stages,
           code = "Timeout" => stage = n.op[o].stage,
           TerminalFailure(obs, n, code, o, stage),
           UNCHANGED <<callerVars, thread, failing>>
    PROVE  IInv'
<1> DEFINE e == [code |-> code, op |-> o, stage |-> stage]
           m == ReleaseNetworkWork(CancelNetworkOperations(n))
<1>1. /\ net' = m /\ told' = [told EXCEPT !.failures = @ + 1]
      /\ observation' = [obs EXCEPT !.terminal_error = e, !.running = FALSE]
  BY DEF TerminalFailure
<1>2. n \in Nets /\ NetOK(n)
  BY DEF FailReady
<1>3. Cancels(n, m, n.held) /\ m.held = {}
  BY <1>2, CancelAll
<1> HIDE DEF m
<1>4. /\ observation' \in ObservationTypes /\ Error' = e /\ e # NoError
      /\ observation'.started = observation.started
      /\ observation'.stopped = observation.stopped
      /\ observation'.websocket_handshake = obs.websocket_handshake
  <2>1. e \in [code : Causes \cup {"none"}, op : Ops \cup {"none"}, stage : 0 .. Stages]
        /\ e.code # "none"
    BY DEF Causes
  <2>2. e # NoError
    BY <2>1 DEF NoError
  <2> HIDE DEF e
  <2>3. observation' \in ObservationTypes
    BY <1>1, <2>1 DEF ObservationTypes
  <2> QED BY <1>1, <2>2, <2>3 DEF ObservationTypes, Error
<1>5. CallersOK' /\ pc["starter"] # "idle"
  BY <1>4 DEF IInv, CallersOK, callerVars, Running
<1>6. /\ m \in Nets /\ NetOK(m) /\ m.barrier = n.barrier /\ Extends(n.ready, m.ready)
      /\ \A i \in DOMAIN m.ready :
            i \notin DOMAIN n.ready => \E p \in n.held : IsAborted(m.ready[i], p)
      /\ \A p \in Ops : OpCancels(n.op[p], m.op[p])
      /\ \A p \in Ops : p \notin n.held => m.op[p] = n.op[p]
      /\ \A p \in n.held : m.op[p].done \/ m.op[p].cancel_requested
      /\ n.held \subseteq Ops
  BY <1>2, <1>3 DEF Cancels, Nets
<1>7. /\ PostForm(m)
      /\ \A kind \in {"start", "clean", "barrier"} : Posted(m, kind) => Posted(n, kind)
  BY <1>2, <1>6, PostsExtend DEF FailReady, IsAborted
<1>8. PostsOK' /\ ~Posted(m, "start")
  BY <1>1, <1>6, <1>7 DEF IInv, PostsOK, callerVars, FailReady
<1>9. BegunOK'
  <2>1. ~obs.websocket_handshake => Idle(m, "depth") /\ o # "depth"
    <3> SUFFICES ASSUME ~obs.websocket_handshake PROVE Idle(m, "depth") /\ o # "depth"
      OBVIOUS
    <3>1. Idle(n, "depth") /\ o # "depth" /\ "depth" \in Ops /\ "depth" \notin n.held
      BY DEF FailReady, Idle, Ops
    <3>2. m.op["depth"] = NoOp
      BY <1>6, <3>1 DEF Idle
    <3>3. \A i \in DOMAIN m.ready : m.ready[i].op # "depth"
      BY <1>6, <3>1 DEF Idle, Extends, IsAborted
    <3> QED BY <1>3, <3>1, <3>2, <3>3 DEF Idle
  <2>2. /\ obs.websocket_handshake => m.op["websocket"].stage = Stages
        /\ ~m.op["websocket"].cancelled_result
    BY <1>6 DEF FailReady, OpCancels, Ops
  <2>3. (pc["starter"] = "idle" \/ Posted(m, "start")) = FALSE
    BY <1>5, <1>8 DEF Posted
  <2>4. e.op = o
    OBVIOUS
  <2> HIDE DEF e
  <2> QED BY <1>1, <1>4, <2>1, <2>2, <2>3, <2>4 DEF BegunOK, Error, callerVars
<1>10. ErrorOK'
  <2>1. e.op = o /\ e.code = code /\ e.stage = stage
    OBVIOUS
  <2> HIDE DEF e
  <2>2. m.op[o] = n.op[o]
    BY <1>6 DEF OpCancels, FailReady
  <2> QED BY <1>1, <1>3, <1>4, <2>1, <2>2 DEF ErrorOK, FailReady
<1>11. HeldOK'
  <2> SUFFICES ASSUME NEW p \in Ops, ~m.op[p].done, m.op[p].stage > 0
               PROVE  m.op[p].cancel_requested
    BY <1>1 DEF HeldOK, Cancellable
  <2>1. CASE p \in n.held
    BY <1>6, <2>1
  <2>2. CASE p \notin n.held
    BY <1>6, <2>2 DEF FailReady, Cancellable
  <2> QED BY <2>1, <2>2
<1>12. ResultOK' /\ FailingOK'
  BY <1>4 DEF ResultOK, FailingOK, Error
<1>13. ToldOK'
  <2>1. told \in [failures : Nat, snapshots : Nat] /\ told.failures = 0
        /\ told.snapshots \in {0, 1}
    BY DEF IInv, ToldOK
  <2>2. told' \in [failures : Nat, snapshots : Nat] /\ told'.failures = 1
        /\ told'.snapshots = told.snapshots
    BY <1>1, <2>1
  <2>3. ~m.op["depth"].done => told.snapshots = 0
    BY <1>6 DEF FailReady, OpCancels, Ops
  <2> QED BY <1>1, <1>4, <2>1, <2>2, <2>3 DEF ToldOK
<1>14. EndedOK'
  BY DEF EndedOK, Running
<1> QED BY <1>1, <1>5, <1>6, <1>8, <1>9, <1>10, <1>11, <1>12, <1>13, <1>14
        DEF IInv

\* The same from a handler of the operation that fails; a later failure is
\* ignored.
LEMMA FailureStep ==
    ASSUME IInv, Running, NEW o \in Ops, NEW n, Handled(n, o), n.op[o].done,
           NEW code \in Causes, NEW stage \in 0 .. Stages,
           code = "Timeout" => stage = n.op[o].stage,
           TerminalFailure(observation, n, code, o, stage),
           UNCHANGED <<callerVars, thread, failing>>
    PROVE  IInv'
<1>1. observation \in ObservationTypes /\ told \in [failures : Nat, snapshots : Nat]
      /\ told.snapshots \in {0, 1} /\ net \in Nets
  BY DEF IInv, CallersOK, ToldOK
<1>2. ~n.op["depth"].done => told.snapshots = 0
  BY DEF IInv, ToldOK, Handled, Around, Ops
<1>3. CASE Error # NoError
  <2>1. net' = n /\ observation' = observation /\ told' = told
    BY <1>3 DEF TerminalFailure, Error
  <2> QED BY <1>1, <1>2, <1>3, <2>1, HandlerStep
<1>4. CASE Error = NoError
  <2> DEFINE q == net.ready
  <2>1. /\ n \in Nets /\ n.ready = Tail(q) /\ q # <<>>
        /\ Head(q).op = o /\ n.held = net.held /\ n.barrier = net.barrier
        /\ \A p \in Ops : p # o => n.op[p] = net.op[p]
    BY DEF Handled, Around
  <2>2. /\ 1 \in DOMAIN q /\ q[1].op = o
        /\ \A i \in DOMAIN n.ready : i + 1 \in DOMAIN q /\ n.ready[i] = q[i + 1]
    BY <1>1, <2>1, TailFacts DEF Nets
  <2>3. PostForm(n) /\ \A kind : Posted(n, kind) => Posted(net, kind)
    BY <1>1, <2>1, PostsTail DEF IInv, PostsOK
  <2>4. ~Posted(n, "start")
    BY <2>2, <2>3, StartFirst
  <2>5. ~observation.websocket_handshake => Idle(n, "depth") /\ o # "depth"
    <3> SUFFICES ASSUME ~observation.websocket_handshake
                 PROVE  Idle(n, "depth") /\ o # "depth"
      OBVIOUS
    <3>1. Idle(net, "depth")
      BY DEF IInv, BegunOK
    <3>2. o # "depth" /\ "depth" \in Ops
      BY <2>2, <3>1 DEF Idle, Ops
    <3> QED BY <2>1, <2>2, <3>1, <3>2 DEF Idle
  <2>6. /\ observation.websocket_handshake => n.op["websocket"].stage = Stages
        /\ ~n.op["websocket"].cancelled_result
    <3>1. "websocket" \in Ops
      BY DEF Ops
    <3>2. CASE o = "websocket"
      BY <3>2 DEF Handled, IInv, BegunOK
    <3>3. CASE o # "websocket"
      BY <2>1, <3>1, <3>3 DEF IInv, BegunOK
    <3> QED BY <3>2, <3>3
  <2>7. Cancellable(n)
    <3> SUFFICES ASSUME NEW p \in Ops, ~n.op[p].done, n.op[p].stage > 0
                 PROVE  p \in n.held \/ n.op[p].cancel_requested
      BY DEF Cancellable
    <3> QED BY <2>1 DEF IInv, HeldOK, Cancellable
  <2>8. FailReady(n, o, observation.websocket_handshake)
    BY <1>2, <2>1, <2>3, <2>4, <2>5, <2>6, <2>7 DEF FailReady, Handled
  <2> QED BY <1>1, <1>4, <2>8, FirstFailure DEF Error
<1> QED BY <1>3, <1>4

\* The response of the depth request is delivered or refused.
LEMMA ResponseStep ==
    ASSUME IInv, Running, NEW n, Handled(n, "depth"), n.op["depth"].done,
           ~net.op["depth"].done, ~n.op["depth"].cancelled_result,
           ~Doomed(net, "depth"), ReceiveDepthResponse(n),
           UNCHANGED <<callerVars, thread, failing>>
    PROVE  IInv'
<1>1. "depth" \in Ops /\ "Refused" \in Causes /\ Stages \in 0 .. Stages
  BY TransportAssumption DEF Ops, Causes
<1>2. CASE TerminalFailure(observation, n, "Refused", "depth", Stages)
  BY <1>1, <1>2, FailureStep
<1>3. CASE /\ told' = [told EXCEPT !.snapshots = @ + 1]
           /\ observation' = [observation EXCEPT !.rest_depth_fetched = TRUE]
           /\ net' = n
  <2>1. observation \in ObservationTypes /\ told \in [failures : Nat, snapshots : Nat]
        /\ told.snapshots = 0
    BY DEF IInv, CallersOK, ToldOK
  <2>2. told' \in [failures : Nat, snapshots : Nat]
        /\ told'.failures = told.failures /\ told'.snapshots = 1
    BY <1>3, <2>1
  <2>3. observation' \in ObservationTypes
        /\ observation'.started = observation.started
        /\ observation'.stopped = observation.stopped
        /\ observation'.websocket_handshake = observation.websocket_handshake
        /\ observation'.terminal_error = observation.terminal_error
    BY <1>3, <2>1 DEF ObservationTypes
  <2>4. Discreet(n, "depth")
    BY DEF Discreet
  <2> QED BY <1>1, <1>3, <2>2, <2>3, <2>4, HandlerStep
<1> QED BY <1>2, <1>3 DEF ReceiveDepthResponse

\* A handler that tells nobody anything.
LEMMA SilentStep ==
    ASSUME IInv, Running, NEW o \in Ops, NEW n, Handled(n, o), Discreet(n, o),
           net' = n, UNCHANGED <<observation, callerVars, thread, told, failing>>
    PROVE  IInv'
<1>1. observation \in ObservationTypes /\ told \in [failures : Nat, snapshots : Nat]
      /\ told.snapshots \in {0, 1}
  BY DEF IInv, CallersOK, ToldOK
<1>2. ~n.op["depth"].done => told.snapshots = 0
  BY DEF IInv, ToldOK, Handled, Around, Ops
<1> QED BY <1>1, <1>2, HandlerStep

-----------------------------------------------------------------------------
(* The handlers of the two operations.                                       *)

\* What the action lemmas take from the invariant.
LEMMA NetFacts ==
    ASSUME IInv
    PROVE  net \in Nets /\ NetOK(net) /\ "websocket" \in Ops /\ "depth" \in Ops
           /\ ~net.op["websocket"].cancelled_result
           /\ observation \in ObservationTypes
           /\ told \in [failures : Nat, snapshots : Nat]
           /\ told.snapshots \in {0, 1}
           /\ (~net.op["depth"].done => told.snapshots = 0)
BY DEF IInv, BegunOK, Ops, CallersOK, ToldOK

\* A cancelled operation hears of its I/O.
LEMMA IoPieceStep ==
    ASSUME IInv, NEW o \in Ops, RunsIo(o), ~net.op[o].done,
           net.op[o].cancel_requested, Outcome # "failed",
           ~net.op[o].cancelled_result
    PROVE  LET m == CompleteCancelledPiece(IoDone(o), o) IN
           Handled(m, o) /\ Discreet(m, o)
<1> DEFINE n == IoDone(o)
           m == CompleteCancelledPiece(n, o)
           c == net.op[o].cancelled_result
<1>1. IoTaken(n, o) /\ net.op[o] \in OpTypes
  BY NetFacts, IoTakenFacts, OpFacts
<1>2. n \in Nets /\ n.op[o] \in OpTypes /\ n.op[o].cancelled_result = c
      /\ c \in BOOLEAN
  BY <1>1, OpFacts DEF IoTaken, Around, SameControl, OpTypes
<1>3. OnlyOp(n, n, o)
  BY <1>2 DEF OnlyOp
<1>4. SameBut(n.op[o], n.op[o], c)
  BY <1>2 DEF SameBut
<1>5. /\ OnePieceLess(n.ready, o, n.op[o]) /\ Around(n, o)
      /\ n.op[o].cancelled_result = c
      /\ n.op[o].stage = net.op[o].stage /\ net.op[o].stage > 0
      /\ net.ready # <<>> /\ Head(net.ready).op = o /\ ~Doomed(net, o)
  BY <1>2, <1>3, <1>4, NetFacts, IoPiece
<1> HIDE DEF n
<1>6. Handled(m, o) /\ ~(m.op[o].cancelled_result /\ m.op[o].done)
  BY <1>5, NetFacts, PieceHandled
<1> QED BY <1>5, <1>6 DEF Discreet, m, n

\* A completed stage of the WebSocket begins the next one.
LEMMA WebSocketStageDoneOK == IInv /\ WebSocketStageDone => IInv'
<1> SUFFICES ASSUME IInv, WebSocketStageDone PROVE IInv'
  OBVIOUS
<1> DEFINE m == BeginStage(Disarm(IoDone("websocket"), "websocket"), "websocket",
                           net.op["websocket"].stage + 1)
<1>1. /\ RunsIo("websocket") /\ ~net.op["websocket"].done
      /\ ~net.op["websocket"].cancel_requested /\ Outcome = "ok"
      /\ net.op["websocket"].stage < Stages - 1 /\ net' = m
      /\ UNCHANGED <<callerVars, thread, told, failing>> /\ Running
  BY DEF WebSocketStageDone, RunsIo, Runs
<1>2. net.op["websocket"].stage \in 0 .. Stages
  BY NetFacts, OpFacts
<1>3. net.op["websocket"].stage + 1 \in 1 .. Stages
      /\ net.op["websocket"].stage # Stages
  BY <1>1, <1>2, TransportAssumption
<1>4. Handled(m, "websocket") /\ Discreet(m, "websocket")
  BY <1>1, <1>3, NetFacts, NextStage
<1> HIDE DEF m
<1>5. /\ observation' \in ObservationTypes
      /\ observation'.started = observation.started
      /\ observation'.stopped = observation.stopped
      /\ observation'.websocket_handshake = observation.websocket_handshake
      /\ observation'.terminal_error = observation.terminal_error
  <2>1. PICK v \in BOOLEAN : observation' = [observation EXCEPT !.tls_verified = v]
    BY DEF WebSocketStageDone
  <2> QED BY <2>1, NetFacts DEF ObservationTypes
<1>6. ~m.op["depth"].done => told.snapshots = 0
  BY <1>4, NetFacts DEF Handled, Around
<1> QED BY <1>1, <1>4, <1>5, <1>6, NetFacts, HandlerStep

\* A frame is counted and the next read begun, or the connection fails.
LEMMA WebSocketFrameOK == IInv /\ WebSocketFrame => IInv'
<1> SUFFICES ASSUME IInv, WebSocketFrame PROVE IInv'
  OBVIOUS
<1> DEFINE o == "websocket"
           n == IoDone(o)
           x == net.op[o]
           m == IF x.cancel_requested THEN CompleteCancelledPiece(n, o)
                ELSE BeginRead(n)
<1>1. /\ RunsIo(o) /\ ~x.done /\ Outcome = "ok" /\ x.stage = Stages /\ Running
      /\ UNCHANGED <<callerVars, thread, failing>>
  BY DEF WebSocketFrame, RunsIo, Runs
<1>2. "Refused" \in Causes /\ Stages \in 0 .. Stages
  BY TransportAssumption DEF Causes
<1>3. CASE /\ observation' = [observation EXCEPT !.frames = @ + 1]
           /\ net' = m /\ told' = told
  <2>1. Handled(m, o) /\ Discreet(m, o)
    <3>1. CASE x.cancel_requested
      BY <1>1, <3>1, NetFacts, IoPieceStep
    <3>2. CASE ~x.cancel_requested
      BY <1>1, <3>2, NetFacts, NextRead
    <3> QED BY <3>1, <3>2
  <2> HIDE DEF m
  <2>2. /\ observation' \in ObservationTypes
        /\ observation'.started = observation.started
        /\ observation'.stopped = observation.stopped
        /\ observation'.websocket_handshake = observation.websocket_handshake
        /\ observation'.terminal_error = observation.terminal_error
    BY <1>3, NetFacts DEF ObservationTypes
  <2>3. ~m.op["depth"].done => told.snapshots = 0
    BY <2>1, NetFacts DEF Handled, Around
  <2> QED BY <1>1, <1>3, <2>1, <2>2, <2>3, NetFacts, HandlerStep
<1>4. CASE TerminalFailure(observation, RetireCleanly(n, o), "Refused", o, Stages)
  <2>1. Handled(RetireCleanly(n, o), o) /\ RetireCleanly(n, o).op[o].done
    BY <1>1, NetFacts, RetireAfterIo
  <2> QED BY <1>1, <1>2, <1>4, <2>1, NetFacts, FailureStep
<1>5. CASE Fails(observation, n, o, "Refused")
  <2>1. Handled(Finished(n, o), o) /\ Finished(n, o).op[o].done
        /\ n.op[o].stage = Stages
    BY <1>1, NetFacts, FinishAfterIo
  <2>2. TerminalFailure(observation, Finished(n, o), "Refused", o, Stages)
    BY <1>5, <2>1 DEF Fails
  <2> QED BY <1>1, <1>2, <2>1, <2>2, NetFacts, FailureStep
<1> QED BY <1>3, <1>4, <1>5 DEF WebSocketFrame

\* A failed call, of either operation.
LEMMA IoFailsOK ==
    ASSUME IInv, NEW o \in Ops, RunsIo(o), ~net.op[o].done, Outcome # "ok",
           ~CleanCancellation(o),
           Fails(observation, IoDone(o), o,
                 IF Outcome = "aborted" THEN "Aborted" ELSE "Io"),
           UNCHANGED <<callerVars, thread, failing>>
    PROVE  IInv'
<1> DEFINE n == IoDone(o)
<1>1. Outcome # "aborted"
  BY NetFacts, IoTakenFacts DEF IoTaken, CleanCancellation
<1>2. Handled(Finished(n, o), o) /\ Finished(n, o).op[o].done
      /\ n.op[o].stage = net.op[o].stage
  BY NetFacts, FinishAfterIo
<1>3. TerminalFailure(observation, Finished(n, o), "Io", o, net.op[o].stage)
  BY <1>1, <1>2 DEF Fails
<1>4. "Io" \in Causes /\ net.op[o].stage \in 0 .. Stages /\ Running
  BY NetFacts, OpFacts DEF Causes, RunsIo, Runs
<1> QED BY <1>2, <1>3, <1>4, NetFacts, FailureStep

\* A failed call of the WebSocket.
LEMMA WebSocketIoFailsOK == IInv /\ WebSocketIoFails => IInv'
BY NetFacts, IoFailsOK DEF WebSocketIoFails

\* A failed call of the depth request.
LEMMA HttpsIoFailsOK == IInv /\ HttpsIoFails => IInv'
BY NetFacts, IoFailsOK DEF HttpsIoFails

\* A cancelled WebSocket hears of its I/O: one piece less to wait for.
LEMMA WebSocketIoCancelledOK == IInv /\ WebSocketIoCancelled => IInv'
<1> SUFFICES ASSUME IInv, WebSocketIoCancelled PROVE IInv'
  OBVIOUS
<1> DEFINE o == "websocket"
           m == CompleteCancelledPiece(IoDone(o), o)
<1>1. /\ RunsIo(o) /\ ~net.op[o].done /\ Outcome # "failed" /\ Running
      /\ net.op[o].cancel_requested /\ net' = m
      /\ UNCHANGED <<observation, callerVars, thread, told, failing>>
  BY DEF WebSocketIoCancelled, CleanCancellation, RunsIo, Runs
<1>2. Handled(m, o) /\ Discreet(m, o)
  BY <1>1, NetFacts, IoPieceStep
<1> QED BY <1>1, <1>2, NetFacts, SilentStep

\* A completed stage of the depth request begins the next one.
LEMMA HttpsStageDoneOK == IInv /\ HttpsStageDone => IInv'
<1> SUFFICES ASSUME IInv, HttpsStageDone PROVE IInv'
  OBVIOUS
<1> DEFINE m == BeginStage(Disarm(IoDone("depth"), "depth"), "depth",
                           net.op["depth"].stage + 1)
<1>1. /\ RunsIo("depth") /\ ~net.op["depth"].done
      /\ ~net.op["depth"].cancel_requested /\ Outcome = "ok"
      /\ net.op["depth"].stage < Stages /\ net' = m
      /\ UNCHANGED <<observation, callerVars, thread, told, failing>> /\ Running
  BY DEF HttpsStageDone, RunsIo, Runs
<1>2. net.op["depth"].stage \in 0 .. Stages
  BY NetFacts, OpFacts
<1>3. net.op["depth"].stage + 1 \in 1 .. Stages
  BY <1>1, <1>2, TransportAssumption
<1>4. Handled(m, "depth") /\ Discreet(m, "depth")
  BY <1>1, <1>3, NetFacts, NextStage
<1> HIDE DEF m
<1> QED BY <1>1, <1>4, NetFacts, SilentStep

\* The response ends the depth request; it is delivered or refused.
LEMMA HttpsResponseOK == IInv /\ HttpsResponse => IInv'
<1> SUFFICES ASSUME IInv, HttpsResponse PROVE IInv'
  OBVIOUS
<1> DEFINE o == "depth"
           m == Finished(IoDone(o), o)
<1>1. /\ RunsIo(o) /\ ~net.op[o].done /\ ~net.op[o].cancel_requested
      /\ Outcome = "ok" /\ ReceiveDepthResponse(m) /\ Running
      /\ UNCHANGED <<callerVars, thread, failing>>
  BY DEF HttpsResponse, RunsIo, Runs
<1>2. Handled(m, o) /\ m.op[o].done
      /\ m.op[o].cancelled_result = net.op[o].cancelled_result
  BY <1>1, NetFacts, FinishAfterIo
<1> HIDE DEF m
<1>3. ~net.op[o].cancelled_result
  BY <1>1, NetFacts, IoTakenFacts DEF IoTaken, Counted
<1>4. ~Doomed(net, o)
  <2>1. net.ready # <<>> /\ IsIo(Head(net.ready), o)
    BY <1>1 DEF RunsIo, Runs, IsIo
  <2> QED BY <1>1, <2>1, NetFacts, DoomedIo DEF Outcome
<1> QED BY <1>1, <1>2, <1>3, <1>4, ResponseStep

\* A cancelled depth request hears of its I/O or of its wait: the last of the
\* two delivers the response, if one came.
LEMMA HttpsPieceOK ==
    ASSUME IInv, Running, net.ready # <<>>, Head(net.ready).op = "depth",
           ~net.op["depth"].done, net.op["depth"].stage > 0,
           net.op["depth"].cancel_requested, NEW n, Around(n, "depth"),
           OnePieceLess(n.ready, "depth", n.op["depth"]),
           n.op["depth"].stage = net.op["depth"].stage,
           Doomed(net, "depth") =>
                /\ n.op["depth"].io_pending
                /\ n.op["depth"].io = net.op["depth"].io
                /\ \A m \in Nets :
                     /\ m.ready = Tail(net.ready) /\ m.barrier = net.barrier
                     /\ ~m.op["depth"].done /\ m.op["depth"].io = net.op["depth"].io
                     => Doomed(m, "depth"),
           HttpsPiece(n), UNCHANGED <<callerVars, thread, failing>>
    PROVE  IInv'
<1> DEFINE o == "depth"
           x == n.op[o]
           k == CountedPiece(n, o)
           y == k.op[o]
<1>1. n \in Nets /\ n.ready = Tail(net.ready) /\ x \in OpTypes
      /\ n.ready \in Seq(Handlers)
  BY NetFacts, OpFacts DEF Around
<1>2. y.completions_pending = 0 <=> ~x.io_pending /\ ~x.timer_pending
  BY <1>1, NetFacts, PieceFacts
<1>3. /\ OnlyOp(n, k, o) /\ k \in Nets /\ SameControl(x, y)
      /\ y.timer = x.timer /\ y.io = x.io /\ y.stage = x.stage /\ y.done = x.done
  BY <1>1, NetFacts, CountedFacts DEF OnlyOp
<1>4. CASE y.completions_pending = 0 /\ y.cancelled_result
  <2> DEFINE z == [y EXCEPT !.cancelled_result = FALSE]
             l == Put(k, o, z)
             m == Finished(l, o)
  <2>1. ReceiveDepthResponse(Finished([k EXCEPT !.op[o].cancelled_result = FALSE], o))
    BY <1>4 DEF HttpsPiece
  <2>2. [k EXCEPT !.op[o].cancelled_result = FALSE] = l
    BY <1>3 DEF Put, Nets
  <2>3. y \in OpTypes
    BY <1>3, NetFacts, OpFacts
  <2> HIDE DEF k
  <2>4. /\ z \in OpTypes /\ z.timer = x.timer /\ z.io = x.io /\ z.stage = x.stage
        /\ z.cancelled_result = FALSE /\ z.cancel_requested = x.cancel_requested
    BY <1>3, <2>3 DEF OpTypes, SameControl
  <2> HIDE DEF z
  <2>5. l.op[o] = z /\ OnlyOp(k, l, o) /\ l \in Nets
    BY <1>3, <2>4, NetFacts, PutFacts DEF OnlyOp
  <2> HIDE DEF l
  <2>6. OnlyOp(n, l, o)
    BY <1>3, <2>5, OnlyOpTwice
  <2>7. Around(l, o) /\ l.ready = n.ready
    BY <2>6 DEF Around, OnlyOp
  <2>8. Shape(l.ready, o, z)
    <3>1. Shape(n.ready, o, x) /\ (z.io # "none" => ~IoQueued(n.ready, o))
      BY <2>4 DEF OnePieceLess, Shape, IoOnce
    <3> QED BY <1>1, <2>4, <2>7, <3>1, NetFacts, SameTimer
  <2>9. Ends(l, m, o) /\ OpOK(m.ready, o, m.op[o])
    BY <2>5, <2>8, NetFacts, FinishedFacts
  <2> HIDE DEF m
  <2>10. z.cancel_requested = net.op[o].cancel_requested
    <3>1. net.op[o] \in OpTypes
      BY NetFacts, OpFacts
    <3> QED BY <1>1, <2>4, <3>1 DEF OnePieceLess, OpTypes
  <2>11. Handled(m, o) /\ m.op[o].done /\ ~m.op[o].cancelled_result
    <3>1. net \in Nets /\ NetOK(net) /\ o \in Ops
      BY NetFacts
    <3>2. l.op[o].stage = net.op[o].stage
          /\ l.op[o].cancel_requested = net.op[o].cancel_requested
          /\ l.op[o].cancelled_result = FALSE
      BY <2>4, <2>5, <2>10
    <3>3. o # "websocket"
      OBVIOUS
    <3>4. net.ready # <<>> /\ Head(net.ready).op = o
      OBVIOUS
    <3> HIDE DEF o
    <3> QED BY <2>7, <2>9, <3>1, <3>2, <3>3, <3>4, EndHandled
  <2>12. ~Doomed(net, o)
    BY <1>2, <1>4
  <2> QED BY <2>1, <2>2, <2>11, <2>12, ResponseStep DEF m
<1>5. CASE ~(y.completions_pending = 0 /\ y.cancelled_result)
  <2> DEFINE m == CompleteCancelledPiece(n, o)
  <2>1. net' = m /\ UNCHANGED <<observation, told>>
    BY <1>5 DEF HttpsPiece
  <2>2. y.completions_pending = 0 => ~x.cancelled_result
    BY <1>3, <1>5 DEF SameControl
  <2>3. /\ Handled(m, o) /\ ~(m.op[o].cancelled_result /\ m.op[o].done)
        /\ m.op[o].done => ~x.io_pending /\ ~x.timer_pending
        /\ ~m.op[o].done => m.op[o].io = x.io
    BY <2>2, NetFacts, PieceHandled
  <2> HIDE DEF m
  <2>4. Doomed(net, o) => Doomed(m, o)
    BY <2>3 DEF Handled, Around
  <2> QED BY <2>1, <2>3, <2>4, NetFacts, SilentStep DEF Discreet
<1> QED BY <1>4, <1>5

\* A cancelled depth request hears of its I/O, and may have a response to keep.
LEMMA HttpsIoCancelledOK == IInv /\ HttpsIoCancelled => IInv'
<1> SUFFICES ASSUME IInv, HttpsIoCancelled PROVE IInv'
  OBVIOUS
<1> DEFINE o == "depth"
           k == IoDone(o)
           response == net.op[o].stage = Stages /\ Outcome = "ok"
           c == k.op[o].cancelled_result \/ response
           y == [k.op[o] EXCEPT !.cancelled_result = c]
           n == Put(k, o, y)
<1>1. /\ RunsIo(o) /\ ~net.op[o].done /\ net.op[o].cancel_requested
      /\ Outcome # "failed" /\ Running
      /\ HttpsPiece([k EXCEPT !.op[o].cancelled_result = @ \/ response])
      /\ UNCHANGED <<callerVars, thread, failing>>
  BY DEF HttpsIoCancelled, RunsIo, Runs
<1>2. k \in Nets /\ k.op[o] \in OpTypes
  BY <1>1, NetFacts, IoTakenFacts, OpFacts DEF IoTaken, Around
<1>3. [k EXCEPT !.op[o].cancelled_result = @ \/ response] = n
  BY <1>2 DEF Put, Nets
<1>4. c \in BOOLEAN
  OBVIOUS
<1> HIDE DEF c
<1>5. y \in OpTypes /\ SameBut(k.op[o], y, c)
  BY <1>2, <1>4 DEF OpTypes, SameBut
<1>6. OnlyOp(k, n, o) /\ n.op[o] = y
  BY <1>2, <1>5, NetFacts, PutFacts
<1> HIDE DEF n
<1>7. /\ OnePieceLess(n.ready, o, n.op[o]) /\ Around(n, o)
      /\ n.op[o].stage = net.op[o].stage /\ net.op[o].stage > 0
      /\ net.ready # <<>> /\ Head(net.ready).op = o /\ ~Doomed(net, o)
  <2>1. net \in Nets /\ NetOK(net) /\ o \in Ops
    BY NetFacts
  <2>2. /\ OnlyOp(IoDone(o), n, o)
        /\ SameBut(IoDone(o).op[o], n.op[o], c)
    BY <1>5, <1>6
  <2>3. /\ RunsIo(o) /\ ~net.op[o].done /\ net.op[o].cancel_requested
        /\ Outcome # "failed"
    BY <1>1
  <2> HIDE DEF o, y, k
  <2> QED BY <1>4, <2>1, <2>2, <2>3, IoPiece
<1> QED BY <1>1, <1>3, <1>7, HttpsPieceOK

\* The aborted wait of a cancelled depth request, which may be its last piece.
LEMMA HttpsTimerCancelledOK == IInv /\ HttpsTimerCancelled => IInv'
<1> SUFFICES ASSUME IInv, HttpsTimerCancelled PROVE IInv'
  OBVIOUS
<1> DEFINE n == TimerDone("depth")
<1>1. /\ RunsTimer("depth") /\ CurrentTimer("depth") /\ ~net.op["depth"].done
      /\ Outcome = "aborted" /\ HttpsPiece(n) /\ Running
      /\ UNCHANGED <<callerVars, thread, failing>>
  BY DEF HttpsTimerCancelled, RunsTimer, Runs
<1>2. /\ OnePieceLess(n.ready, "depth", n.op["depth"]) /\ Around(n, "depth")
      /\ net.op["depth"].cancel_requested
      /\ n.op["depth"].stage = net.op["depth"].stage /\ net.op["depth"].stage > 0
      /\ n.op["depth"].io = net.op["depth"].io
      /\ net.ready # <<>> /\ Head(net.ready).op = "depth"
      /\ Doomed(net, "depth") =>
           /\ n.op["depth"].io_pending
           /\ \A m \in Nets :
                /\ m.ready = Tail(net.ready) /\ m.barrier = net.barrier
                /\ ~m.op["depth"].done /\ m.op["depth"].io = net.op["depth"].io
                => Doomed(m, "depth")
  BY <1>1, NetFacts, WaitPiece
<1> HIDE DEF n
<1> QED BY <1>1, <1>2, HttpsPieceOK

\* The aborted wait of a cancelled WebSocket.
LEMMA WebSocketTimerCancelledOK == IInv /\ WebSocketTimerCancelled => IInv'
<1> SUFFICES ASSUME IInv, WebSocketTimerCancelled PROVE IInv'
  OBVIOUS
<1> DEFINE o == "websocket"
           n == TimerDone(o)
           m == CompleteCancelledPiece(n, o)
<1>1. /\ RunsTimer(o) /\ CurrentTimer(o) /\ ~net.op[o].done
      /\ Outcome = "aborted" /\ net' = m /\ Running
      /\ UNCHANGED <<observation, callerVars, thread, told, failing>>
  BY DEF WebSocketTimerCancelled, RunsTimer, Runs
<1>2. /\ OnePieceLess(n.ready, o, n.op[o]) /\ Around(n, o)
      /\ net.op[o].cancel_requested /\ SameControl(net.op[o], n.op[o])
      /\ n.op[o].stage = net.op[o].stage /\ net.op[o].stage > 0
      /\ n.op[o].io = net.op[o].io
      /\ net.ready # <<>> /\ Head(net.ready).op = o
      /\ Doomed(net, o) =>
           /\ n.op[o].io_pending
           /\ \A l \in Nets :
                /\ l.ready = Tail(net.ready) /\ l.barrier = net.barrier
                /\ ~l.op[o].done /\ l.op[o].io = net.op[o].io
                => Doomed(l, o)
  BY <1>1, NetFacts, WaitPiece
<1> HIDE DEF n
<1>3. n.op[o].cancelled_result = net.op[o].cancelled_result
      /\ ~n.op[o].cancelled_result
  BY <1>2, NetFacts DEF SameControl
<1>4. /\ Handled(m, o) /\ ~(m.op[o].cancelled_result /\ m.op[o].done)
      /\ m.op[o].done => ~n.op[o].io_pending /\ ~n.op[o].timer_pending
      /\ ~m.op[o].done => m.op[o].io = n.op[o].io
  BY <1>1, <1>2, <1>3, NetFacts, PieceHandled
<1> HIDE DEF m
<1>5. Doomed(net, o) => Doomed(m, o)
  BY <1>2, <1>4 DEF Handled, Around
<1> QED BY <1>1, <1>4, <1>5, NetFacts, SilentStep DEF Discreet

\* A completion that comes after the end of its operation.
LEMMA IoAfterDoneOK == ASSUME IInv, NEW o \in Ops, IoAfterDone(o) PROVE IInv'
<1>1. RunsIo(o) /\ net.op[o].done /\ net' = IoDone(o) /\ Running
      /\ UNCHANGED <<observation, callerVars, thread, told, failing>>
  BY DEF IoAfterDone, RunsIo, Runs
<1>2. Handled(IoDone(o), o) /\ Discreet(IoDone(o), o)
  BY <1>1, NetFacts, AfterDone
<1> QED BY <1>1, <1>2, SilentStep

\* A wait that is of an earlier generation, or after the end of its operation.
LEMMA TimerIsStaleOK == ASSUME IInv, NEW o \in Ops, TimerIsStale(o) PROVE IInv'
<1>1. RunsTimer(o) /\ (~CurrentTimer(o) \/ net.op[o].done) /\ Running
      /\ net' = (IF CurrentTimer(o) THEN TimerDone(o) ELSE Taken)
      /\ UNCHANGED <<observation, callerVars, thread, told, failing>>
  BY DEF TimerIsStale, RunsTimer, Runs
<1>2. CASE CurrentTimer(o)
  <2>1. Handled(TimerDone(o), o) /\ Discreet(TimerDone(o), o)
    BY <1>1, <1>2, NetFacts, AfterDone
  <2> QED BY <1>1, <1>2, <2>1, SilentStep
<1>3. CASE ~CurrentTimer(o)
  <2>1. Handled(Taken, o) /\ Discreet(Taken, o)
    BY <1>1, <1>3, NetFacts, StaleHandled
  <2> QED BY <1>1, <1>3, <2>1, SilentStep
<1> QED BY <1>2, <1>3

\* The current wait fails the stage it was armed for.
LEMMA StageTimesOutOK == ASSUME IInv, NEW o \in Ops, StageTimesOut(o) PROVE IInv'
<1> DEFINE m == Finished(TimerDone(o), o)
           stage == Head(net.ready).wait.stage
<1>1. RunsTimer(o) /\ CurrentTimer(o) /\ Running
      /\ TerminalFailure(observation, m, "Timeout", o, stage)
      /\ UNCHANGED <<callerVars, thread, failing>>
  BY DEF StageTimesOut, RunsTimer, Runs
<1>2. Handled(m, o) /\ m.op[o].done /\ m.op[o].stage = stage
  BY <1>1, NetFacts, FinishAfterWait
<1>3. stage \in 0 .. Stages
  <2>1. net.ready # <<>> /\ net.ready \in Seq(Handlers)
    BY <1>1, NetFacts, OpFacts DEF RunsTimer, Runs
  <2>2. Head(net.ready) \in Handlers
    BY <2>1, TailFacts
  <2> QED BY <2>2 DEF Handlers, WaitTypes
<1>4. "Timeout" \in Causes
  BY DEF Causes
<1> QED BY <1>1, <1>2, <1>3, <1>4, FailureStep

-----------------------------------------------------------------------------
(* What has been posted is run, and an operation begins.                     *)

\* A posted handler is taken: the operations do not notice.
LEMMA TakePost ==
    ASSUME IInv, NEW kind \in {"start", "clean", "barrier"}, Runs(kind)
    PROVE  /\ Taken \in Nets /\ NetOK(Taken) /\ Taken.op = net.op
           /\ Taken.held = net.held /\ Taken.barrier = net.barrier
           /\ PostForm(Taken) /\ Posted(net, kind)
           /\ \A k \in {"start", "clean", "barrier"} :
                Posted(Taken, k) => Posted(net, k)
           /\ ~Posted(Taken, kind)
           /\ kind # "start" => ~Posted(Taken, "clean") /\ ~Posted(Taken, "barrier")
           /\ \A o \in Ops : Idle(net, o) => Idle(Taken, o)
           /\ \A o \in Ops : Doomed(net, o) => Doomed(Taken, o)
<1> DEFINE q == net.ready
           r == Tail(q)
<1>1. net \in Nets /\ NetOK(net) /\ q # <<>> /\ Head(q).kind = kind
      /\ q \in Seq(Handlers) /\ PostForm(net)
  BY NetFacts, OpFacts DEF Runs, IInv, PostsOK, Nets
<1>2. /\ 1 \in DOMAIN q /\ q[1] = Head(q)
      /\ \A i \in DOMAIN r : i + 1 \in DOMAIN q /\ r[i] = q[i + 1]
      /\ \A i \in DOMAIN r : i + 1 # 1
  BY <1>1, TailFacts
<1>3. Head(q).op = "none"
  BY <1>1, <1>2 DEF PostForm
<1>4. /\ Taken \in Nets /\ Taken.ready = r /\ Taken.op = net.op
      /\ Taken.held = net.held /\ Taken.barrier = net.barrier
  BY <1>1, TakenFacts
<1>5. \A o \in Ops : Head(q).op # o
  BY <1>3 DEF Ops
<1>6. NetOK(Taken)
  <2> SUFFICES ASSUME NEW o \in Ops PROVE OpOK(r, o, net.op[o])
    BY <1>4 DEF NetOK
  <2>1. OpOK(q, o, net.op[o]) /\ net.op[o] \in OpTypes
    BY <1>1, OpFacts DEF NetOK
  <2> QED BY <1>1, <1>5, <2>1, TakeOther
<1>7. PostForm(Taken) /\ \A k : Posted(Taken, k) => Posted(net, k)
  BY <1>1, <1>4, PostsTail
<1>8. Posted(net, kind)
  BY <1>1, <1>2 DEF Posted
<1>9. \A i \in DOMAIN r : r[i].kind # kind
  BY <1>1, <1>2 DEF PostForm
<1>10. ~Posted(Taken, kind)
  BY <1>4, <1>9 DEF Posted
<1>11. kind # "start" => ~Posted(Taken, "clean") /\ ~Posted(Taken, "barrier")
  <2> SUFFICES ASSUME kind # "start"
               PROVE  \A i \in DOMAIN r : r[i].kind \notin {"clean", "barrier"}
    BY <1>4 DEF Posted
  <2> QED BY <1>1, <1>2 DEF PostForm
<1>12. \A o \in Ops : Idle(net, o) => Idle(Taken, o)
  BY <1>2, <1>4 DEF Idle
<1>13. ASSUME NEW o \in Ops, Doomed(net, o) PROVE Doomed(Taken, o)
  <2>1. ~IsIo(Head(q), o) /\ ~IsWait(Head(q), o, net.op[o]) /\ ~Taken.op[o].done
    BY <1>4, <1>5, <1>13 DEF IsIo, IsWait, Doomed
  <2> QED BY <1>1, <1>4, <1>13, <2>1, DoomedTail
<1> QED BY <1>4, <1>6, <1>7, <1>8, <1>10, <1>11, <1>12, <1>13

\* What has not been begun cannot be about to fail.
LEMMA IdleIsQuiet ==
    ASSUME NEW n, NEW o, Idle(n, o)
    PROVE  ~Doomed(n, o)
BY DEF Idle, Doomed, FailedQueued, TimedOut, IsIo, IsWait, NoOp

\* An operation that the parent now holds.
Hold(n, o) == [n EXCEPT !.held = @ \cup {o}]

\* The record of an operation that has not been begun.
LEMMA NoOpFacts ==
    /\ NoOp \in OpTypes /\ NoOp.stage = 0 /\ NoOp.io = "none"
    /\ NoOp.done = FALSE /\ NoOp.cancel_requested = FALSE
    /\ NoOp.cancelled_result = FALSE /\ NoOp.timer.generation = 0
BY NoWaitFacts, TransportAssumption DEF NoOp, OpTypes, NewTimer

\* Holding an operation changes nothing else.
LEMMA HoldFacts ==
    ASSUME NEW n \in Nets, NEW o \in Ops
    PROVE  LET h == Hold(n, o) IN
           /\ h \in Nets /\ h.op = n.op /\ h.ready = n.ready
           /\ h.barrier = n.barrier /\ h.held = n.held \cup {o}
BY DEF Hold, Nets

\* m is n, with o begun, or tried and done.
Begins(n, m, o) ==
    /\ m \in Nets /\ NetOK(m) /\ m.ready = n.ready /\ m.barrier = n.barrier
    /\ m.held = n.held \cup {o}
    /\ \A p \in Ops : p # o => m.op[p] = n.op[p]
    /\ m.op[o].cancelled_result = FALSE

\* The first stage of an operation.
LEMMA BeginsFresh ==
    ASSUME NEW n \in Nets, NetOK(n), NEW o \in Ops, Idle(n, o)
    PROVE  LET m == BeginStage(Hold(n, o), o, 1) IN
           Begins(n, m, o) /\ m.op[o].done = FALSE
<1> DEFINE h == Hold(n, o)
           m == BeginStage(h, o, 1)
           y == m.op[o]
<1>1. /\ h \in Nets /\ h.op = n.op /\ h.ready = n.ready
      /\ h.barrier = n.barrier /\ h.held = n.held \cup {o}
  BY HoldFacts
<1>2. 1 \in 1 .. Stages
  BY TransportAssumption
<1>3. h.op[o] = NoOp
  BY <1>1 DEF Idle
<1> HIDE DEF h
<1>4. /\ OnlyOp(h, m, o) /\ m \in Nets /\ SameControl(NoOp, y)
      /\ y.stage = 1 /\ y.io = "waiting" /\ y.io_pending /\ y.timer_pending
      /\ y.timer.generation = 0 + 1 /\ y.timer.wait # NoWait
      /\ y.timer.wait.generation = y.timer.generation
      /\ y.timer.wait.stage = 1 /\ y.done = FALSE
  BY <1>1, <1>2, <1>3, BeginFacts, NoOpFacts DEF OnlyOp
<1> HIDE DEF m
<1>5. /\ m.ready = n.ready /\ m.barrier = n.barrier /\ m.held = n.held \cup {o}
      /\ \A p \in Ops : p # o => m.op[p] = n.op[p]
  BY <1>1, <1>4 DEF OnlyOp
<1>6. y \in OpTypes /\ n.ready \in Seq(Handlers) /\ n.op[o] \in OpTypes
  BY <1>4, OpFacts
<1>7. \A i \in DOMAIN n.ready : ~IsIo(n.ready[i], o) /\ ~IsWait(n.ready[i], o, y)
  BY DEF Idle, IsIo, IsWait
<1>8. Shape(n.ready, o, y)
  BY <1>4, <1>7 DEF Shape, IoOnce, WaitOnce, WaitsOwn, IoQueued, WaitQueued, Idle
<1>9. y.io_pending = TRUE /\ y.timer_pending = TRUE
  BY <1>4, <1>6 DEF OpTypes
<1>10. Accounted(n.ready, o, y)
  <2>1. y.io_pending = (y.io # "none" \/ IoQueued(n.ready, o))
    BY <1>4, <1>9
  <2>2. y.timer_pending = (y.timer.wait # NoWait \/ WaitQueued(n.ready, o, y))
    BY <1>4, <1>9
  <2> QED BY <2>1, <2>2 DEF Accounted
<1>11. Counted(y)
  BY <1>4, NoOpFacts DEF Counted, SameControl
<1>12. Uncancelled(n.ready, o, y)
  BY <1>4, <1>7 DEF Uncancelled
<1>13. NetOK(m)
  BY <1>5, <1>8, <1>10, <1>11, <1>12 DEF NetOK, OpOK
<1> QED BY <1>4, <1>5, <1>13, NoOpFacts DEF Begins, SameControl, m, h

\* SNI is refused: the operation is done before its first stage.
LEMMA FailsFresh ==
    ASSUME NEW n \in Nets, NetOK(n), NEW o \in Ops, Idle(n, o)
    PROVE  LET m == Finished(Hold(n, o), o) IN
           Begins(n, m, o) /\ m.op[o].done /\ m.op[o].stage = 0
           /\ Hold(n, o).op[o].stage = 0
<1> DEFINE h == Hold(n, o)
           m == Finished(h, o)
<1>1. /\ h \in Nets /\ h.op = n.op /\ h.ready = n.ready
      /\ h.barrier = n.barrier /\ h.held = n.held \cup {o}
  BY HoldFacts
<1>2. h.op[o] = NoOp /\ Shape(h.ready, o, h.op[o])
  BY <1>1 DEF Idle, NetOK, OpOK
<1> HIDE DEF h
<1>3. Ends(h, m, o) /\ OpOK(m.ready, o, m.op[o])
  BY <1>1, <1>2, FinishedFacts
<1> HIDE DEF m
<1>4. /\ m \in Nets /\ m.ready = n.ready /\ m.barrier = n.barrier
      /\ m.held = n.held \cup {o}
      /\ \A p \in Ops : p # o => m.op[p] = n.op[p]
  BY <1>1, <1>3 DEF Ends, OnlyOp
<1>5. NetOK(m)
  BY <1>3, <1>4 DEF NetOK
<1>6. m.op[o].done /\ m.op[o].stage = 0 /\ m.op[o].cancelled_result = FALSE
      /\ h.op[o].stage = 0
  BY <1>2, <1>3, NoOpFacts DEF Ends, SameControl
<1> QED BY <1>4, <1>5, <1>6 DEF Begins, m, h

\* The start handler begins the WebSocket, which was idle, or fails at once.
LEMMA StartWebsocketOK == IInv /\ StartWebsocket => IInv'
<1> SUFFICES ASSUME IInv, StartWebsocket PROVE IInv'
  OBVIOUS
<1> DEFINE o == "websocket"
           t == Taken
           h == Hold(t, o)
<1>1. Runs("start") /\ Running /\ UNCHANGED <<callerVars, thread, failing>>
  BY DEF StartWebsocket, Runs
<1>2. /\ t \in Nets /\ NetOK(t) /\ t.op = net.op
      /\ t.held = net.held /\ t.barrier = net.barrier
      /\ PostForm(t) /\ Posted(net, "start") /\ ~Posted(t, "start")
      /\ \A k \in {"start", "clean", "barrier"} : Posted(t, k) => Posted(net, k)
      /\ \A p \in Ops : Idle(net, p) => Idle(t, p)
  BY <1>1, TakePost
<1>3. Idle(net, "websocket") /\ Error = NoError
  BY <1>2 DEF IInv, BegunOK
<1>4. ~observation.websocket_handshake
  <2>1. net.op["websocket"].stage = 0
    BY <1>3 DEF Idle, NoOp
  <2> QED BY <2>1, TransportAssumption DEF IInv, BegunOK
<1>5. Idle(net, "depth")
  BY <1>4 DEF IInv, BegunOK
<1>6. Idle(t, "websocket") /\ Idle(t, "depth")
  BY <1>2, <1>3, <1>5, NetFacts
<1>7. ~failing
  BY <1>3, <1>5, IdleIsQuiet DEF IInv, FailingOK, Ops
<1>8. \A p \in Ops : p # o => t.op[p] = NoOp /\ t.op[p].done = FALSE /\ t.op[p].stage = 0
  BY <1>6, NoOpFacts DEF Idle, Ops
<1>9. \/ /\ net' = BeginStage(h, o, 1) /\ UNCHANGED <<observation, told>>
      \/ Fails(observation, h, o, "Io")
  BY DEF StartWebsocket, Hold
<1> HIDE DEF t
<1>10. CASE net' = BeginStage(h, o, 1) /\ UNCHANGED <<observation, told>>
  <2> DEFINE m == BeginStage(h, o, 1)
  <2>1. Begins(t, m, o) /\ m.op[o].done = FALSE
    BY <1>2, <1>6, NetFacts, BeginsFresh
  <2> HIDE DEF m
  <2>2. /\ m \in Nets /\ NetOK(m) /\ m.ready = t.ready /\ m.barrier = t.barrier
        /\ m.held = t.held \cup {o} /\ net' = m
        /\ m.op["depth"] = t.op["depth"] /\ ~m.op[o].cancelled_result
    BY <1>10, <2>1, NetFacts DEF Begins, m
  <2>3. CallersOK'
    BY <1>1, <1>10 DEF IInv, CallersOK, callerVars
  <2>4. PostForm(m) /\ \A k : Posted(m, k) <=> Posted(t, k)
    BY <1>2, <2>2 DEF PostForm, Posted
  <2>5. PostsOK' /\ ~Posted(m, "start") /\ pc["starter"] # "idle"
    BY <1>1, <1>2, <2>2, <2>4 DEF IInv, PostsOK, callerVars
  <2>6. Idle(m, "depth")
    BY <1>6, <2>2 DEF Idle
  <2>7. BegunOK'
    <3>1. (pc["starter"] = "idle" \/ Posted(m, "start")) = FALSE
      BY <2>5 DEF Posted
    <3>2. Error.op # "depth"
      BY <1>3 DEF NoError
    <3> QED BY <1>1, <1>4, <1>10, <2>2, <2>6, <3>1, <3>2 DEF BegunOK, Error, callerVars
  <2>8. ErrorOK' /\ FailingOK'
    BY <1>1, <1>3, <1>7, <1>10 DEF ErrorOK, Error, FailingOK
  <2>9. HeldOK'
    BY <1>8, <2>2 DEF HeldOK, Cancellable, Ops
  <2>10. ResultOK' /\ ToldOK'
    <3>1. m.op["depth"] = net.op["depth"]
      BY <1>2, <2>2
    <3> QED BY <1>10, <2>2, <3>1 DEF IInv, ResultOK, ToldOK, Error
  <2>11. EndedOK'
    BY <1>1 DEF EndedOK, Running
  <2> QED BY <2>2, <2>3, <2>5, <2>7, <2>8, <2>9, <2>10, <2>11 DEF IInv
<1>11. CASE Fails(observation, h, o, "Io")
  <2> DEFINE m == Finished(h, o)
  <2>1. Begins(t, m, o) /\ m.op[o].done /\ h.op[o].stage = 0
    BY <1>2, <1>6, NetFacts, FailsFresh
  <2>2. TerminalFailure(observation, m, "Io", o, 0)
    BY <1>11, <2>1 DEF Fails
  <2> HIDE DEF m
  <2>3. /\ m \in Nets /\ NetOK(m) /\ m.ready = t.ready /\ m.barrier = t.barrier
        /\ m.held = t.held \cup {o}
        /\ m.op["depth"] = t.op["depth"] /\ ~m.op[o].cancelled_result
    BY <2>1, NetFacts DEF Begins
  <2>4. PostForm(m) /\ \A k : Posted(m, k) <=> Posted(t, k)
    BY <1>2, <2>3 DEF PostForm, Posted
  <2>5. Idle(m, "depth")
    BY <1>6, <2>3 DEF Idle
  <2>6. Cancellable(m)
    BY <1>8, <2>1, <2>3 DEF Cancellable, Ops
  <2>7. ~m.op["depth"].done => told.snapshots = 0
    BY <1>2, <2>3, NetFacts
  <2>8. FailReady(m, o, observation.websocket_handshake)
    BY <1>2, <1>4, <2>1, <2>3, <2>4, <2>5, <2>6, <2>7 DEF FailReady
  <2>9. "Io" \in Causes /\ 0 \in 0 .. Stages
    BY TransportAssumption DEF Causes
  <2> QED BY <1>1, <1>3, <2>2, <2>8, <2>9, NetFacts, FirstFailure DEF Error
<1> QED BY <1>9, <1>10, <1>11

\* The handshake begins the first read and the depth request, which was idle.
LEMMA WebSocketActiveOK == IInv /\ WebSocketActive => IInv'
<1> SUFFICES ASSUME IInv, WebSocketActive PROVE IInv'
  OBVIOUS
<1> DEFINE o == "websocket"
           d == "depth"
           x == net.op[o]
           n == BeginRead(Disarm(IoDone(o), o))
           obs == [observation EXCEPT !.websocket_handshake = TRUE, !.running = TRUE]
           h == Hold(n, d)
           q == net.ready
<1>1. /\ RunsIo(o) /\ ~x.done /\ ~x.cancel_requested /\ x.stage = Stages - 1
      /\ Outcome = "ok" /\ UNCHANGED <<callerVars, thread, failing>> /\ Running
  BY DEF WebSocketActive, RunsIo, Runs
<1>2. \/ stop_requested /\ net' = n /\ UNCHANGED <<observation, told>>
      \/ net' = BeginStage(h, d, 1) /\ observation' = obs /\ UNCHANGED told
      \/ Fails(obs, h, d, "Io")
  BY DEF WebSocketActive, Hold
<1>3. Handled(n, o) /\ Discreet(n, o) /\ n.op[o].stage = Stages
  BY <1>1, NetFacts, FirstRead
<1> HIDE DEF n
<1>4. x.stage # Stages /\ x.stage > 0
  BY <1>1, TransportAssumption
<1>5. ~observation.websocket_handshake /\ Idle(net, d)
  BY <1>4 DEF IInv, BegunOK
<1>6. o \in net.held /\ Error = NoError
  BY <1>1, <1>4, NetFacts DEF IInv, HeldOK, Cancellable, ErrorOK
<1>7. /\ n \in Nets /\ NetOK(n) /\ n.ready = Tail(q) /\ q # <<>>
      /\ Head(q).op = o /\ n.held = net.held /\ n.barrier = net.barrier
      /\ n.op[d] = net.op[d] /\ n.op[o].cancelled_result = x.cancelled_result
  BY <1>3, NetFacts DEF Handled, Around
<1>8. /\ 1 \in DOMAIN q /\ q[1].op = o
      /\ \A i \in DOMAIN n.ready : i + 1 \in DOMAIN q /\ n.ready[i] = q[i + 1]
  BY <1>7, NetFacts, TailFacts DEF Nets
<1>9. PostForm(n) /\ \A k : Posted(n, k) => Posted(net, k)
  BY <1>7, NetFacts, PostsTail DEF IInv, PostsOK
<1>10. ~Posted(n, "start") /\ pc["starter"] # "idle"
  BY <1>1, <1>8, <1>9, NetFacts, StartFirst DEF IInv, CallersOK, Running
<1>11. Idle(n, d) /\ n.op[d].done = FALSE
  BY <1>5, <1>7, <1>8, NoOpFacts DEF Idle
<1>12. told.snapshots = 0
  BY <1>7, <1>11, NetFacts
<1>13. /\ obs \in ObservationTypes /\ obs.started = observation.started
       /\ obs.stopped = observation.stopped /\ obs.websocket_handshake = TRUE
       /\ obs.terminal_error = NoError
  BY <1>6, NetFacts DEF ObservationTypes, Error
<1> HIDE DEF obs
<1>14. CASE stop_requested /\ net' = n /\ UNCHANGED <<observation, told>>
  BY <1>1, <1>3, <1>14, NetFacts, SilentStep
<1>15. CASE net' = BeginStage(h, d, 1) /\ observation' = obs /\ UNCHANGED told
  <2> DEFINE m == BeginStage(h, d, 1)
  <2>1. Begins(n, m, d) /\ m.op[d].done = FALSE
    BY <1>7, <1>11, NetFacts, BeginsFresh
  <2> HIDE DEF m
  <2>2. /\ m \in Nets /\ NetOK(m) /\ m.ready = n.ready /\ m.barrier = n.barrier
        /\ m.held = n.held \cup {d} /\ net' = m
        /\ m.op[o] = n.op[o] /\ ~m.op[d].cancelled_result
    BY <1>15, <2>1, NetFacts DEF Begins, m
  <2>3. CallersOK'
    BY <1>1, <1>13, <1>15 DEF IInv, CallersOK, callerVars
  <2>4. PostForm(m) /\ \A k : Posted(m, k) <=> Posted(n, k)
    BY <1>9, <2>2 DEF PostForm, Posted
  <2>5. PostsOK' /\ ~Posted(m, "start")
    BY <1>1, <1>7, <1>9, <1>10, <2>2, <2>4 DEF IInv, PostsOK, callerVars
  <2>6. BegunOK'
    <3>1. (pc["starter"] = "idle" \/ Posted(m, "start")) = FALSE
      BY <1>10, <2>5 DEF Posted
    <3>2. ~m.op[o].cancelled_result
      BY <1>7, <2>2, NetFacts
    <3> QED BY <1>1, <1>3, <1>13, <1>15, <2>2, <3>1, <3>2 DEF BegunOK, Error, callerVars
  <2>7. ErrorOK' /\ Error' = NoError
    BY <1>13, <1>15 DEF ErrorOK, Error
  <2>8. HeldOK'
    BY <1>6, <1>7, <2>2 DEF HeldOK, Cancellable, Ops
  <2>9. ResultOK' /\ ToldOK'
    BY <1>6, <1>12, <1>15, <2>2, <2>7, NetFacts DEF IInv, ResultOK, ToldOK
  <2>10. FailingOK'
    <3> SUFFICES ASSUME failing PROVE \E p \in Ops : Doomed(m, p)
      BY <1>1, <2>2 DEF FailingOK
    <3>1. Doomed(net, o)
      BY <1>5, <1>6, IdleIsQuiet DEF IInv, FailingOK, Ops
    <3>2. Doomed(n, o)
      BY <1>3, <3>1 DEF Discreet
    <3>3. Doomed(m, o)
      BY <2>2, <3>2 DEF Doomed, FailedQueued, TimedOut
    <3> QED BY <3>3, NetFacts
  <2>11. EndedOK'
    BY <1>1 DEF EndedOK, Running
  <2> QED BY <2>2, <2>3, <2>5, <2>6, <2>7, <2>8, <2>9, <2>10, <2>11 DEF IInv
<1>16. CASE Fails(obs, h, d, "Io")
  <2> DEFINE m == Finished(h, d)
  <2>1. Begins(n, m, d) /\ m.op[d].done /\ h.op[d].stage = 0
    BY <1>7, <1>11, NetFacts, FailsFresh
  <2>2. TerminalFailure(obs, m, "Io", d, 0)
    BY <1>16, <2>1 DEF Fails
  <2> HIDE DEF m
  <2>3. /\ m \in Nets /\ NetOK(m) /\ m.ready = n.ready /\ m.barrier = n.barrier
        /\ m.held = n.held \cup {d} /\ m.op[o] = n.op[o]
    BY <2>1, NetFacts DEF Begins
  <2>4. PostForm(m) /\ \A k : Posted(m, k) <=> Posted(n, k)
    BY <1>9, <2>3 DEF PostForm, Posted
  <2>5. Cancellable(m)
    BY <1>6, <1>7, <2>3 DEF Cancellable, Ops
  <2>6. ~m.op[o].cancelled_result /\ m.op[o].stage = Stages
    BY <1>3, <1>7, <2>3, NetFacts
  <2>7. FailReady(m, d, obs.websocket_handshake)
    BY <1>7, <1>9, <1>10, <1>12, <1>13, <2>1, <2>3, <2>4, <2>5, <2>6 DEF FailReady
  <2>8. "Io" \in Causes /\ 0 \in 0 .. Stages
    BY TransportAssumption DEF Causes
  <2> QED BY <1>1, <1>6, <1>13, <2>2, <2>7, <2>8, NetFacts, FirstFailure
<1> QED BY <1>2, <1>14, <1>15, <1>16

\* The shutdown cut: every failure in hand is one that nothing can hide.
LEMMA BeginCleanShutdownOK == IInv /\ BeginCleanShutdown => IInv'
<1> SUFFICES ASSUME IInv, BeginCleanShutdown PROVE IInv'
  OBVIOUS
<1> DEFINE t == Taken
           m == [t EXCEPT !.clean_cancel = TRUE, !.barrier = TRUE]
<1>1. /\ Runs("clean") /\ Running /\ net' = m /\ failing' = FailureInHand(t)
      /\ UNCHANGED <<observation, callerVars, thread, told>>
  BY DEF BeginCleanShutdown, Runs
<1>2. /\ t \in Nets /\ NetOK(t) /\ t.op = net.op
      /\ t.held = net.held /\ t.barrier = net.barrier
      /\ PostForm(t) /\ Posted(net, "clean")
      /\ \A k \in {"start", "clean", "barrier"} : Posted(t, k) => Posted(net, k)
      /\ ~Posted(t, "clean") /\ ~Posted(t, "barrier")
      /\ \A p \in Ops : Idle(net, p) => Idle(t, p)
  BY <1>1, TakePost
<1> HIDE DEF t
<1>3. /\ m \in Nets /\ m.op = t.op /\ m.ready = t.ready /\ m.held = t.held
      /\ m.barrier = TRUE
  BY <1>2 DEF Nets
<1> HIDE DEF m
<1>4. NetOK(m)
  BY <1>2, <1>3 DEF NetOK
<1>5. \A k : Posted(m, k) <=> Posted(t, k)
  BY <1>3 DEF Posted
<1>6. PostForm(m)
  BY <1>2, <1>3, <1>5 DEF PostForm
<1>7. PostsOK'
  BY <1>1, <1>2, <1>3, <1>5, <1>6 DEF IInv, PostsOK, callerVars
<1>8. failing' \in BOOLEAN
  BY <1>1 DEF FailureInHand
<1>9. CallersOK'
  BY <1>1, <1>8 DEF IInv, CallersOK, callerVars
<1>10. \A p \in Ops : Idle(net, p) => Idle(m, p)
  BY <1>2, <1>3 DEF Idle
<1>11. BegunOK'
  BY <1>1, <1>2, <1>3, <1>5, <1>10, NetFacts DEF IInv, BegunOK, Error, callerVars
<1>12. ErrorOK' /\ HeldOK' /\ ResultOK' /\ ToldOK'
  BY <1>1, <1>2, <1>3 DEF IInv, ErrorOK, HeldOK, Cancellable, ResultOK, ToldOK, Error
<1>13. EndedOK'
  BY <1>1 DEF EndedOK, Running
<1>14. FailingOK'
  <2> SUFFICES ASSUME FailureInHand(t) PROVE \E o \in Ops : Doomed(m, o)
    BY <1>1 DEF FailingOK
  <2>1. PICK o \in Ops :
            /\ ~t.op[o].done
            /\ \/ t.op[o].io = "failed"
               \/ \E i \in DOMAIN t.ready :
                    /\ t.ready[i].op = o
                    /\ \/ t.ready[i].kind = "io" /\ t.ready[i].outcome = "failed"
                       \/ /\ t.ready[i].kind = "timer" /\ t.ready[i].outcome = "ok"
                          /\ IsCurrent(t.op[o].timer, t.ready[i].wait.generation)
                          /\ t.op[o].io = "waiting"
    BY DEF FailureInHand
  <2>2. CASE t.op[o].io = "failed"
    BY <1>3, <2>1, <2>2 DEF Doomed
  <2>3. CASE \E i \in DOMAIN t.ready :
                /\ t.ready[i].op = o
                /\ t.ready[i].kind = "io" /\ t.ready[i].outcome = "failed"
    BY <1>3, <2>1, <2>3 DEF Doomed, FailedQueued, IsIo
  <2>4. CASE \E i \in DOMAIN t.ready :
                /\ t.ready[i].op = o
                /\ t.ready[i].kind = "timer" /\ t.ready[i].outcome = "ok"
                /\ IsCurrent(t.op[o].timer, t.ready[i].wait.generation)
                /\ t.op[o].io = "waiting"
    <3>1. \A j \in DOMAIN t.ready : ~IsIo(t.ready[j], o)
      BY <1>2, <2>4 DEF NetOK, OpOK, Shape, IoOnce, IoQueued
    <3> QED BY <1>3, <2>1, <2>4, <3>1 DEF Doomed, TimedOut, IsWait, IsCurrent
  <2> QED BY <2>1, <2>2, <2>3, <2>4
<1> QED BY <1>1, <1>3, <1>4, <1>7, <1>9, <1>11, <1>12, <1>13, <1>14 DEF IInv

\* The cancellation of a clean shutdown: whatever failure was in hand is still
\* on its way behind it.
LEMMA ShutdownBarrierOK == IInv /\ ShutdownBarrier => IInv'
<1> SUFFICES ASSUME IInv, ShutdownBarrier PROVE IInv'
  OBVIOUS
<1> DEFINE t == Taken
           m == ReleaseNetworkWork(CancelNetworkOperations(t))
<1>1. /\ Runs("barrier") /\ Running /\ net' = m
      /\ UNCHANGED <<observation, callerVars, thread, told, failing>>
  BY DEF ShutdownBarrier, Runs
<1>2. /\ t \in Nets /\ NetOK(t) /\ t.op = net.op
      /\ t.held = net.held /\ t.barrier = net.barrier
      /\ PostForm(t) /\ Posted(net, "barrier")
      /\ \A k \in {"start", "clean", "barrier"} : Posted(t, k) => Posted(net, k)
      /\ \A p \in Ops : Idle(net, p) => Idle(t, p)
      /\ \A p \in Ops : Doomed(net, p) => Doomed(t, p)
  BY <1>1, TakePost
<1> HIDE DEF t
<1>3. Cancels(t, m, t.held) /\ m.held = {}
  BY <1>2, CancelAll
<1> HIDE DEF m
<1>4. /\ m \in Nets /\ NetOK(m) /\ m.barrier = t.barrier /\ Extends(t.ready, m.ready)
      /\ \A i \in DOMAIN m.ready :
            i \notin DOMAIN t.ready => \E p \in t.held : IsAborted(m.ready[i], p)
      /\ \A p \in Ops : OpCancels(t.op[p], m.op[p])
      /\ \A p \in Ops : p \notin t.held => m.op[p] = t.op[p]
      /\ \A p \in t.held : m.op[p].done \/ m.op[p].cancel_requested
      /\ t.held \subseteq Ops
  BY <1>2, <1>3 DEF Cancels, Nets
<1>5. ~t.barrier
  BY <1>2 DEF IInv, PostsOK, PostForm
<1>6. /\ PostForm(m)
      /\ \A k \in {"start", "clean", "barrier"} : Posted(m, k) => Posted(t, k)
  BY <1>2, <1>4, PostsExtend DEF IsAborted
<1>7. PostsOK'
  BY <1>1, <1>2, <1>4, <1>5, <1>6 DEF IInv, PostsOK, callerVars
<1>8. CallersOK'
  BY <1>1 DEF IInv, CallersOK, callerVars
<1>9. ASSUME NEW p \in Ops, Idle(net, p) PROVE Idle(m, p)
  <2>1. Idle(t, p) /\ p \notin t.held
    BY <1>2, <1>9 DEF Idle
  <2>2. m.op[p] = NoOp
    BY <1>4, <2>1 DEF Idle
  <2>3. \A i \in DOMAIN m.ready : m.ready[i].op # p
    BY <1>4, <2>1 DEF Idle, Extends, IsAborted
  <2> QED BY <1>3, <2>2, <2>3 DEF Idle
<1>10. BegunOK'
  <2>1. m.op["websocket"].stage = net.op["websocket"].stage
        /\ m.op["websocket"].cancelled_result = net.op["websocket"].cancelled_result
    BY <1>2, <1>4, NetFacts DEF OpCancels
  <2>2. Posted(m, "start") => Posted(net, "start")
    BY <1>2, <1>6
  <2> QED BY <1>1, <1>9, <2>1, <2>2, NetFacts DEF IInv, BegunOK, Error, callerVars
<1>11. ErrorOK'
  BY <1>1, <1>2, <1>3, <1>4 DEF IInv, ErrorOK, Error, OpCancels
<1>12. HeldOK'
  <2> SUFFICES ASSUME NEW p \in Ops, ~m.op[p].done, m.op[p].stage > 0
               PROVE  m.op[p].cancel_requested
    BY <1>1 DEF HeldOK, Cancellable
  <2>1. CASE p \in t.held
    BY <1>4, <2>1
  <2>2. CASE p \notin t.held
    BY <1>2, <1>4, <2>2 DEF IInv, HeldOK, Cancellable
  <2> QED BY <2>1, <2>2
<1>13. ResultOK'
  <2> DEFINE x == net.op["depth"]
             y == m.op["depth"]
  <2>1. OpCancels(x, y) /\ OpOK(net.ready, "depth", x)
    BY <1>2, <1>4, NetFacts DEF NetOK
  <2>2. y.cancelled_result /\ y.done => x.cancelled_result /\ x.done
    BY <2>1 DEF OpCancels, OpOK, Counted
  <2> QED BY <1>1, <2>2 DEF IInv, ResultOK, Error
<1>14. ToldOK'
  <2>1. net.op["depth"].done => m.op["depth"].done
    BY <1>2, <1>4, NetFacts DEF OpCancels
  <2> QED BY <1>1, <2>1 DEF IInv, ToldOK, Error
<1>15. FailingOK'
  <2> SUFFICES ASSUME failing, Error = NoError PROVE \E p \in Ops : Doomed(m, p)
    BY <1>1 DEF FailingOK, Error
  <2>1. PICK p \in Ops : Doomed(net, p)
    BY DEF IInv, FailingOK
  <2>2. Doomed(m, p)
    BY <1>2, <1>3, <1>5, <2>1, DoomedCancels
  <2> QED BY <2>2
<1>16. EndedOK'
  BY <1>1 DEF EndedOK, Running
<1> QED BY <1>1, <1>4, <1>7, <1>8, <1>10, <1>11, <1>12, <1>13, <1>14, <1>15, <1>16
        DEF IInv

-----------------------------------------------------------------------------
(* The io_context.                                                           *)

\* n with y in the place of one operation, which is not ended by it.
LEMMA OutsideStep ==
    ASSUME IInv, Running, NEW o \in Ops, NEW m, OnlyOp(net, m, o),
           NEW y, y = m.op[o], OpOK(m.ready, o, y), net' = m,
           y.stage = net.op[o].stage, net.op[o] # NoOp, y.done = net.op[o].done,
           y.cancel_requested = net.op[o].cancel_requested,
           y.cancelled_result = net.op[o].cancelled_result,
           y.timer.generation = net.op[o].timer.generation,
           net.op[o].io = "failed" => y.io = "failed",
           UNCHANGED <<observation, callerVars, thread, told, failing>>
    PROVE  IInv'
<1>1. /\ m \in Nets /\ m.ready = net.ready /\ m.held = net.held
      /\ m.barrier = net.barrier /\ net \in Nets
      /\ \A p \in Ops : p # o => m.op[p] = net.op[p]
  BY NetFacts DEF OnlyOp
<1>2. NetOK(m)
  BY <1>1, NetFacts DEF NetOK
<1>3. \A p \in Ops : /\ m.op[p].stage = net.op[p].stage
                     /\ m.op[p].done = net.op[p].done
                     /\ m.op[p].cancel_requested = net.op[p].cancel_requested
                     /\ m.op[p].cancelled_result = net.op[p].cancelled_result
  BY <1>1
<1>4. CallersOK'
  BY DEF IInv, CallersOK, callerVars
<1>5. PostForm(m) /\ \A k : Posted(m, k) <=> Posted(net, k)
  BY <1>1 DEF IInv, PostsOK, PostForm, Posted
<1>6. PostsOK'
  BY <1>1, <1>5 DEF IInv, PostsOK, callerVars
<1>7. ASSUME NEW p \in Ops, Idle(net, p) PROVE Idle(m, p)
  <2>1. p # o
    BY <1>7 DEF Idle
  <2> QED BY <1>1, <1>7, <2>1 DEF Idle
<1>8. BegunOK'
  BY <1>3, <1>5, <1>7, NetFacts DEF IInv, BegunOK, Error, callerVars
<1>9. ErrorOK' /\ HeldOK' /\ ResultOK' /\ ToldOK'
  BY <1>1, <1>3, NetFacts DEF IInv, ErrorOK, HeldOK, Cancellable, ResultOK, ToldOK, Error
<1>10. EndedOK'
  BY DEF EndedOK, Running
<1>11. FailingOK'
  <2> SUFFICES ASSUME failing, Error = NoError PROVE \E p \in Ops : Doomed(m, p)
    BY DEF FailingOK, Error
  <2>1. PICK p \in Ops : Doomed(net, p)
    BY DEF IInv, FailingOK
  <2>2. Extends(net.ready, m.ready)
    BY <1>1 DEF Extends, Nets
  <2>3. ~m.op[p].done /\ m.op[p].timer.generation = net.op[p].timer.generation
        /\ (net.op[p].io = "failed" => m.op[p].io = "failed")
    BY <1>1, <2>1 DEF Doomed
  <2>4. Doomed(m, p)
    BY <1>1, <2>1, <2>2, <2>3, DoomedExtends
  <2> QED BY <2>4
<1> QED BY <1>1, <1>2, <1>4, <1>6, <1>8, <1>9, <1>10, <1>11 DEF IInv

\* An outstanding call completes.
LEMMA IoBecomesDueOK ==
    ASSUME IInv, NEW o \in Ops, NEW out \in {"ok", "failed"}, IoBecomesDue(o, out)
    PROVE  IInv'
<1> DEFINE x == net.op[o]
           y == [x EXCEPT !.io = out]
           m == Put(net, o, y)
<1>1. /\ Running /\ x.io = "waiting" /\ net' = [net EXCEPT !.op[o].io = out]
      /\ UNCHANGED <<observation, callerVars, thread, told, failing>>
  BY DEF IoBecomesDue, Waiting
<1>2. x \in OpTypes /\ net \in Nets /\ OpOK(net.ready, o, x)
      /\ net.ready \in Seq(Handlers)
  BY NetFacts, OpFacts DEF NetOK
<1>3. net' = m
  BY <1>1, <1>2 DEF Put, Nets
<1>4. /\ y \in OpTypes /\ y.io = out /\ y.timer = x.timer /\ y.stage = x.stage
      /\ y.done = x.done /\ y.cancel_requested = x.cancel_requested
      /\ y.cancelled_result = x.cancelled_result
      /\ y.io_pending = x.io_pending /\ y.timer_pending = x.timer_pending
      /\ y.completions_pending = x.completions_pending
  BY <1>2 DEF OpTypes, Outcomes
<1> HIDE DEF y
<1>5. OnlyOp(net, m, o) /\ m.op[o] = y /\ m.ready = net.ready
  BY <1>2, <1>4, PutFacts DEF OnlyOp
<1> HIDE DEF m
<1>6. Shape(net.ready, o, y) /\ (WaitQueued(net.ready, o, y) <=> WaitQueued(net.ready, o, x))
  <2>1. Shape(net.ready, o, x) /\ ~IoQueued(net.ready, o)
    BY <1>1, <1>2 DEF OpOK, Shape, IoOnce
  <2> QED BY <1>2, <1>4, <2>1, SameTimer
<1>7. ~y.done => Accounted(net.ready, o, y)
  <2>1. ~x.done => Accounted(net.ready, o, x)
    BY <1>2 DEF OpOK
  <2>2. WaitQueued(net.ready, o, y) = WaitQueued(net.ready, o, x)
    BY <1>6 DEF WaitQueued
  <2>3. y.io # "none" /\ x.io # "none"
    BY <1>1, <1>4
  <2> QED BY <1>4, <2>1, <2>2, <2>3 DEF Accounted
<1>8. ~y.done => Counted(y)
  BY <1>2, <1>4 DEF OpOK, Counted, Pieces
<1>9. ~y.done => Uncancelled(net.ready, o, y)
  BY <1>2, <1>4 DEF OpOK, Uncancelled, IsWait
<1>10. OpOK(net.ready, o, y)
  BY <1>6, <1>7, <1>8, <1>9 DEF OpOK
<1>11. x # NoOp
  BY <1>1, NoOpFacts
<1> QED BY <1>1, <1>3, <1>4, <1>5, <1>10, <1>11, OutsideStep

\* An outstanding wait runs out.
LEMMA TimerBecomesDueOK ==
    ASSUME IInv, NEW o \in Ops, TimerBecomesDue(o)
    PROVE  IInv'
<1> DEFINE x == net.op[o]
           t == Expires(x.timer)
           y == [x EXCEPT !.timer = t]
           m == Put(net, o, y)
<1>1. /\ Running /\ x.timer.wait # NoWait /\ net' = [net EXCEPT !.op[o].timer = t]
      /\ UNCHANGED <<observation, callerVars, thread, told, failing>>
  BY NetFacts DEF TimerBecomesDue, Nets
<1>2. x \in OpTypes /\ net \in Nets /\ OpOK(net.ready, o, x)
      /\ net.ready \in Seq(Handlers)
  BY NetFacts, OpFacts DEF NetOK
<1>3. net' = m
  BY <1>1, <1>2 DEF Put, Nets
<1>4. /\ t \in [generation : Nat, wait : WaitTypes]
      /\ t.generation = x.timer.generation
      /\ t.wait.generation = x.timer.wait.generation
      /\ t.wait.stage = x.timer.wait.stage /\ t.wait.due = TRUE
  BY <1>2 DEF Expires, OpTypes, WaitTypes
<1>5. t.wait # NoWait
  BY <1>4, NoWaitFacts
<1> HIDE DEF t
<1>6. /\ y \in OpTypes /\ y.io = x.io /\ y.timer = t /\ y.stage = x.stage
      /\ y.done = x.done /\ y.cancel_requested = x.cancel_requested
      /\ y.cancelled_result = x.cancelled_result
      /\ y.io_pending = x.io_pending /\ y.timer_pending = x.timer_pending
      /\ y.completions_pending = x.completions_pending
  BY <1>2, <1>4 DEF OpTypes
<1> HIDE DEF y
<1>7. OnlyOp(net, m, o) /\ m.op[o] = y /\ m.ready = net.ready
  BY <1>2, <1>6, PutFacts DEF OnlyOp
<1> HIDE DEF m
<1>8. WaitQueued(net.ready, o, y) <=> WaitQueued(net.ready, o, x)
  BY <1>4, <1>6 DEF WaitQueued, IsWait
<1>9. Shape(net.ready, o, y)
  BY <1>1, <1>2, <1>4, <1>5, <1>6, <1>8
     DEF OpOK, Shape, IoOnce, WaitOnce, WaitsOwn, IsWait
<1>10. ~y.done => Accounted(net.ready, o, y)
  <2>1. ~x.done => Accounted(net.ready, o, x)
    BY <1>2 DEF OpOK
  <2>2. WaitQueued(net.ready, o, y) = WaitQueued(net.ready, o, x)
    BY <1>8 DEF WaitQueued
  <2>3. y.timer.wait # NoWait /\ x.timer.wait # NoWait
    BY <1>1, <1>5, <1>6
  <2> QED BY <1>6, <2>1, <2>2, <2>3 DEF Accounted
<1>11. ~y.done => Counted(y)
  BY <1>2, <1>6 DEF OpOK, Counted, Pieces
<1>12. ~y.done => Uncancelled(net.ready, o, y)
  BY <1>2, <1>4, <1>6 DEF OpOK, Uncancelled, IsWait
<1>13. OpOK(net.ready, o, y)
  BY <1>9, <1>10, <1>11, <1>12 DEF OpOK
<1>14. x # NoOp
  BY <1>1 DEF NoOp, NewTimer
<1> QED BY <1>1, <1>3, <1>4, <1>6, <1>7, <1>13, <1>14, OutsideStep

\* run() returns when nothing is outstanding: an operation that is not done would
\* have something outstanding.
LEMMA ThreadEndsOK == IInv /\ ThreadEnds => IInv'
<1> SUFFICES ASSUME IInv, ThreadEnds PROVE IInv'
  OBVIOUS
<1>1. /\ net.ready = <<>> /\ ~net.barrier /\ thread' = "ended" /\ Running
      /\ \A o \in Ops : net.op[o].io = "none" /\ net.op[o].timer.wait = NoWait
      /\ UNCHANGED <<observation, callerVars, net, told, failing>>
  BY DEF ThreadEnds
<1>2. DOMAIN net.ready = {}
  BY <1>1
<1>3. ASSUME NEW o \in Ops, ~net.op[o].done
      PROVE  net.op[o].stage = 0 /\ ~net.op[o].cancel_requested
             /\ ~net.op[o].cancelled_result
  <2>1. /\ Accounted(net.ready, o, net.op[o]) /\ Counted(net.op[o])
        /\ net.op[o].stage \in Nat
    BY <1>3, NetFacts, OpFacts DEF NetOK, OpOK
  <2>2. ~IoQueued(net.ready, o) /\ ~WaitQueued(net.ready, o, net.op[o])
    BY <1>2 DEF IoQueued, WaitQueued
  <2>3. ~net.op[o].io_pending /\ ~net.op[o].timer_pending
    BY <1>1, <2>1, <2>2 DEF Accounted
  <2> QED BY <2>1, <2>3 DEF Counted, Pieces
<1>4. \A o \in Ops : ~Doomed(net, o)
  BY <1>1, <1>2 DEF Doomed, FailedQueued, TimedOut
<1>5. failing => Error # NoError
  BY <1>4 DEF IInv, FailingOK
<1>6. net.op["depth"].cancelled_result => Error # NoError
  BY <1>3, NetFacts DEF IInv, ResultOK
<1>7. \A o \in Ops : net.op[o].stage > 0 => net.op[o].done
  BY <1>3
<1>8. EndedOK'
  BY <1>1, <1>5, <1>6, <1>7 DEF EndedOK, Error
<1>9. CallersOK'
  BY <1>1 DEF IInv, CallersOK, callerVars, Running
<1>10. /\ PostsOK' /\ BegunOK' /\ ErrorOK' /\ HeldOK' /\ ResultOK' /\ ToldOK'
       /\ FailingOK' /\ (net \in Nets)' /\ NetOK(net)'
  BY <1>1 DEF IInv, PostsOK, BegunOK, ErrorOK, HeldOK, ResultOK, ToldOK, FailingOK,
              Error, callerVars
<1> QED BY <1>8, <1>9, <1>10 DEF IInv

\* A function on 1 .. n is a sequence.
LEMMA FunctionIsSeq ==
    ASSUME NEW S, NEW n \in Nat, NEW s \in [1 .. n -> S]
    PROVE  s \in Seq(S)
BY SeqDef, Zenon

\* A permutation of a set of operations lists each of them once.
LEMMA Permutation ==
    ASSUME NEW S \in SUBSET Ops, NEW s \in SetToSeqs(S)
    PROVE  /\ s \in Seq(S)
           /\ \A p \in S : \E i \in DOMAIN s : s[i] = p
           /\ \A i, j \in DOMAIN s : s[i] = s[j] => i = j
<1> DEFINE n == Cardinality(S)
<1>1. /\ s \in [1 .. n -> S] /\ \A i, j \in 1 .. n : i # j => s[i] # s[j]
  BY DEF SetToSeqs
<1>2. CASE S = {}
  <2>1. n = 0
    BY <1>2, FS_EmptySet
  <2> HIDE DEF n
  <2> QED BY <1>1, <1>2, <2>1
<1>3. CASE \E a \in Ops : S = {a}
  <2>1. PICK a \in Ops : S = {a}
    BY <1>3
  <2>2. n = 1
    BY <2>1, FS_Singleton
  <2> HIDE DEF n
  <2>3. DOMAIN s = {1} /\ s[1] = a
    BY <1>1, <2>1, <2>2
  <2>4. s \in Seq(S)
    BY <1>1, <2>2, FunctionIsSeq
  <2> QED BY <2>1, <2>3, <2>4
<1>4. CASE S = {"websocket", "depth"}
  <2>1. n = 2
    <3>1. IsFiniteSet({"websocket"}) /\ Cardinality({"websocket"}) = 1
      BY FS_Singleton
    <3>2. {"websocket", "depth"} = {"websocket"} \cup {"depth"}
          /\ "depth" \notin {"websocket"}
      OBVIOUS
    <3>3. Cardinality({"websocket"} \cup {"depth"}) = Cardinality({"websocket"}) + 1
      BY <3>1, <3>2, FS_AddElement
    <3> QED BY <1>4, <3>1, <3>2, <3>3
  <2> HIDE DEF n
  <2>2. DOMAIN s = {1, 2} /\ s[1] \in S /\ s[2] \in S /\ s[1] # s[2]
    BY <1>1, <2>1
  <2>3. \A p \in S : s[1] = p \/ s[2] = p
    BY <1>4, <2>2
  <2>4. s \in Seq(S)
    BY <1>1, <2>1, FunctionIsSeq
  <2> QED BY <2>2, <2>3, <2>4
<1> QED BY <1>2, <1>3, <1>4 DEF Ops

\* r is q and behind it the handlers F[p], each once.
Adds(q, r, F) ==
    /\ Extends(q, r)
    /\ \A i \in DOMAIN r : i \notin DOMAIN q => \E p \in DOMAIN F : r[i] = F[p]
    /\ \A p \in DOMAIN F : \E i \in DOMAIN r : i \notin DOMAIN q /\ r[i] = F[p]
    /\ \A i, j \in DOMAIN r :
            i \notin DOMAIN q /\ j \notin DOMAIN q /\ r[i] = r[j] => i = j

\* One handler for every operation in S is queued, in the order s.
LEMMA AddsPermutation ==
    ASSUME NEW q \in Seq(Handlers), NEW S \in SUBSET Ops, NEW s \in SetToSeqs(S),
           NEW F \in [S -> Handlers], \A p, o \in S : F[p] = F[o] => p = o,
           NEW a, a = [i \in DOMAIN s |-> F[s[i]]]
    PROVE  Adds(q, q \o a, F) /\ q \o a \in Seq(Handlers)
<1> DEFINE r == q \o a
<1>1. /\ s \in Seq(S) /\ \A p \in S : \E i \in DOMAIN s : s[i] = p
      /\ \A i, j \in DOMAIN s : s[i] = s[j] => i = j
  BY Permutation
<1>2. Len(s) \in Nat /\ DOMAIN s = 1 .. Len(s) /\ \A i \in DOMAIN s : s[i] \in S
  BY <1>1
<1>3. a \in Seq(Handlers) /\ Len(a) = Len(s) /\ DOMAIN a = 1 .. Len(s)
      /\ \A i \in 1 .. Len(s) : a[i] = F[s[i]]
  <2>1. a \in [1 .. Len(s) -> Handlers]
    BY <1>2
  <2> QED BY <1>2, <2>1
<1>4. /\ r \in Seq(Handlers) /\ Len(q) \in Nat /\ Len(r) = Len(q) + Len(s)
      /\ \A i \in 1 .. Len(r) : r[i] = IF i <= Len(q) THEN q[i] ELSE a[i - Len(q)]
  BY <1>2, <1>3, ConcatProperties
<1>5. DOMAIN q = 1 .. Len(q) /\ DOMAIN r = 1 .. Len(r)
  BY <1>4, LenProperties
<1> HIDE DEF r
<1>6. Extends(q, r)
  BY <1>2, <1>4, <1>5 DEF Extends
<1>7. \A i \in DOMAIN r : i \notin DOMAIN q =>
            i - Len(q) \in DOMAIN s /\ r[i] = F[s[i - Len(q)]]
  BY <1>2, <1>3, <1>4, <1>5
<1>8. \A j \in DOMAIN s :
            /\ j + Len(q) \in DOMAIN r /\ j + Len(q) \notin DOMAIN q
            /\ r[j + Len(q)] = F[s[j]]
  BY <1>2, <1>3, <1>4, <1>5
<1>9. \A i \in DOMAIN r : i \notin DOMAIN q => \E p \in DOMAIN F : r[i] = F[p]
  BY <1>2, <1>7
<1>10. \A p \in DOMAIN F : \E i \in DOMAIN r : i \notin DOMAIN q /\ r[i] = F[p]
  BY <1>1, <1>8
<1>11. ASSUME NEW i \in DOMAIN r, NEW j \in DOMAIN r, i \notin DOMAIN q,
              j \notin DOMAIN q, r[i] = r[j]
       PROVE  i = j
  <2>1. i - Len(q) = j - Len(q)
    BY <1>1, <1>2, <1>7, <1>11
  <2> QED BY <1>4, <1>5, <2>1
<1> QED BY <1>4, <1>6, <1>9, <1>10, <1>11 DEF Adds, r

\* x and y agree on everything but what is outstanding.
SameOp(x, y) ==
    /\ y.stage = x.stage /\ y.done = x.done
    /\ y.cancel_requested = x.cancel_requested
    /\ y.cancelled_result = x.cancelled_result
    /\ y.io_pending = x.io_pending /\ y.timer_pending = x.timer_pending
    /\ y.completions_pending = x.completions_pending
    /\ y.timer.generation = x.timer.generation

\* The completion of o's I/O, which was due, is queued.
LEMMA QueueIo ==
    ASSUME NEW q \in Seq(Handlers), NEW r, Extends(q, r), NEW o \in Ops,
           NEW x \in OpTypes, NEW y \in OpTypes, OpOK(q, o, x), SameOp(x, y),
           x.io # "none", y.io = "none", y.timer = x.timer,
           NEW e \in DOMAIN r, e \notin DOMAIN q, r[e].kind = "io", r[e].op = o,
           r[e].outcome = x.io,
           \A i \in DOMAIN r : i \notin DOMAIN q /\ r[i].op = o => i = e
    PROVE  OpOK(r, o, y)
<1>1. /\ \A i \in DOMAIN q : i \in DOMAIN r /\ r[i] = q[i]
      /\ \A i \in DOMAIN r : i \notin DOMAIN q => i = e \/ r[i].op # o
  BY DEF Extends
<1>2. IsIo(r[e], o) /\ ~IsWait(r[e], o, y) /\ ~IoQueued(q, o)
  BY DEF IsIo, IsWait, OpOK, Shape, IoOnce
<1>3. \A i \in DOMAIN r : IsIo(r[i], o) => i = e
  BY <1>1, <1>2 DEF IoQueued, IsIo
<1>4. \A i \in DOMAIN r : IsWait(r[i], o, y) => i \in DOMAIN q /\ IsWait(q[i], o, x)
                                               /\ r[i] = q[i]
  BY <1>1, <1>2 DEF IsWait
<1>5. WaitQueued(r, o, y) <=> WaitQueued(q, o, x)
  BY <1>1, <1>4 DEF WaitQueued, IsWait
<1>6. IoQueued(r, o) /\ IoOnce(r, o, y)
  BY <1>2, <1>3 DEF IoQueued, IoOnce
<1>7. WaitOnce(r, o, y)
  BY <1>4, <1>5 DEF OpOK, Shape, WaitOnce
<1>8. WaitsOwn(r, o, y)
  BY <1>1, <1>2 DEF OpOK, Shape, WaitsOwn, SameOp
<1>9. ~y.done => Accounted(r, o, y)
  <2>1. ~x.done => Accounted(q, o, x)
    BY DEF OpOK
  <2>2. WaitQueued(r, o, y) = WaitQueued(q, o, x)
    BY <1>5 DEF WaitQueued
  <2>3. IoQueued(r, o) = TRUE
    BY <1>6 DEF IoQueued
  <2> QED BY <2>1, <2>2, <2>3 DEF Accounted, SameOp
<1>10. ~y.done => Counted(y)
  BY DEF OpOK, Counted, Pieces, SameOp
<1>11. ~y.done => Uncancelled(r, o, y)
  BY <1>3, <1>4 DEF OpOK, Uncancelled, SameOp
<1> QED BY <1>6, <1>7, <1>8, <1>9, <1>10, <1>11 DEF OpOK, Shape

\* The wait of o's timer, which was due, is queued.
LEMMA QueueWait ==
    ASSUME NEW q \in Seq(Handlers), NEW r, Extends(q, r), NEW o \in Ops,
           NEW x \in OpTypes, NEW y \in OpTypes, OpOK(q, o, x), SameOp(x, y),
           x.timer.wait # NoWait, y.timer.wait = NoWait, y.io = x.io,
           NEW e \in DOMAIN r, e \notin DOMAIN q, r[e].kind = "timer", r[e].op = o,
           r[e].outcome = "ok", r[e].wait = x.timer.wait,
           \A i \in DOMAIN r : i \notin DOMAIN q /\ r[i].op = o => i = e
    PROVE  OpOK(r, o, y)
<1>1. Shape(q, o, x) /\ (y.io # "none" => ~IoQueued(q, o))
  BY DEF OpOK, Shape, IoOnce
<1>2. r[e] \in Handlers
  BY QueueFacts DEF Extends
<1>3. /\ y.stage = x.stage /\ y.timer.generation = x.timer.generation
      /\ r[e].wait.generation = x.timer.wait.generation
      /\ r[e].wait.stage = x.timer.wait.stage
  BY DEF SameOp
<1>4. /\ Shape(r, o, y) /\ WaitQueued(r, o, y)
      /\ IoQueued(r, o) <=> IoQueued(q, o)
      /\ \A i \in DOMAIN r : IsWait(r[i], o, y) => i = e
  BY <1>1, <1>2, <1>3, ExtendWait
<1>5. ~y.done => Accounted(r, o, y)
  <2>1. ~x.done => Accounted(q, o, x)
    BY DEF OpOK
  <2>2. IoQueued(r, o) = IoQueued(q, o)
    BY <1>4 DEF IoQueued
  <2>3. WaitQueued(r, o, y) = TRUE
    BY <1>4 DEF WaitQueued
  <2> QED BY <2>1, <2>2, <2>3 DEF Accounted, SameOp
<1>6. ~y.done => Counted(y)
  BY DEF OpOK, Counted, Pieces, SameOp
<1>7. ~y.done => Uncancelled(r, o, y)
  <2>1. \A i \in DOMAIN r : IsIo(r[i], o) => i \in DOMAIN q /\ r[i] = q[i]
    BY DEF Extends, IsIo
  <2> QED BY <1>4, <2>1 DEF OpOK, Uncancelled, SameOp
<1> QED BY <1>4, <1>5, <1>6, <1>7 DEF OpOK

\* What a reactor turn queues: the completions that are due, the waits that are
\* due behind them, and the barrier behind these.
IoHandlers == [p \in DueIos |-> Handler("io", p, net.op[p].io)]
WaitHandlers == [p \in DueTimers |-> WaitHandler(p, net.op[p].timer.wait, "ok")]

\* They are handlers, told apart by their operation.
LEMMA ReactorHandlers ==
    ASSUME net \in Nets
    PROVE  /\ DueIos \in SUBSET Ops /\ IoHandlers \in [DueIos -> Handlers]
           /\ \A p \in DueIos : /\ IoHandlers[p].kind = "io" /\ IoHandlers[p].op = p
                                /\ IoHandlers[p].outcome = net.op[p].io
           /\ DueTimers \in SUBSET Ops /\ WaitHandlers \in [DueTimers -> Handlers]
           /\ \A p \in DueTimers :
                /\ WaitHandlers[p].kind = "timer" /\ WaitHandlers[p].op = p
                /\ WaitHandlers[p].wait = net.op[p].timer.wait
                /\ WaitHandlers[p].outcome = "ok"
                /\ net.op[p].timer.wait # NoWait
           /\ \A p \in DueIos : net.op[p].io # "none"
<1>1. /\ DueIos \in SUBSET Ops /\ DueTimers \in SUBSET Ops
      /\ \A p \in DueIos : net.op[p].io \in Outcomes
      /\ \A p \in DueTimers : net.op[p].timer.wait.due
  BY DEF DueIos, DueTimers, Outcomes
<1>2. \A p \in Ops : net.op[p].timer.wait \in WaitTypes
  BY OpFacts
<1>3. \A p \in DueIos : /\ Handler("io", p, net.op[p].io) \in Handlers
                        /\ Handler("io", p, net.op[p].io).kind = "io"
                        /\ Handler("io", p, net.op[p].io).op = p
                        /\ Handler("io", p, net.op[p].io).outcome = net.op[p].io
  BY <1>1, NoWaitFacts DEF Handler, Handlers
<1>4. \A p \in DueTimers :
        LET h == WaitHandler(p, net.op[p].timer.wait, "ok") IN
        /\ h \in Handlers /\ h.kind = "timer" /\ h.op = p /\ h.outcome = "ok"
        /\ h.wait = net.op[p].timer.wait
  BY <1>1, <1>2 DEF WaitHandler, Handlers, Outcomes
<1>5. ASSUME NEW p \in DueTimers PROVE net.op[p].timer.wait # NoWait
  <2> DEFINE w == net.op[p].timer.wait
  <2>1. net.op[p].timer.wait.due
    BY <1>5, Zenon DEF DueTimers
  <2>2. w.due = TRUE
    BY <1>1, <1>2, <1>5, <2>1 DEF WaitTypes
  <2> HIDE DEF w
  <2>3. w # NoWait
    BY <2>2, NoWaitFacts
  <2> QED BY <2>3 DEF w
<1>6. \A p \in DueIos : net.op[p].io # "none"
  BY <1>1 DEF Outcomes
<1> QED BY <1>1, <1>3, <1>4, <1>5, <1>6 DEF IoHandlers, WaitHandlers

\* The operation o after it.
LEMMA PolledFacts ==
    ASSUME net \in Nets, NEW o \in Ops
    PROVE  LET x == net.op[o]
               y == Polled(o)
           IN
           /\ y \in OpTypes /\ SameOp(x, y)
           /\ y.io = (IF o \in DueIos THEN "none" ELSE x.io)
           /\ y.timer = (IF o \in DueTimers THEN CancelTimer(x.timer) ELSE x.timer)
           /\ CancelTimer(x.timer).wait = NoWait
<1> DEFINE x == net.op[o]
           c == IF o \in DueIos THEN "none" ELSE x.io
           t == IF o \in DueTimers THEN CancelTimer(x.timer) ELSE x.timer
           y == [x EXCEPT !.io = c, !.timer = t]
<1>1. x \in OpTypes
  BY OpFacts
<1>2. /\ CancelTimer(x.timer) \in [generation : Nat, wait : WaitTypes]
      /\ CancelTimer(x.timer).wait = NoWait
      /\ CancelTimer(x.timer).generation = x.timer.generation
  BY <1>1, NoWaitFacts DEF CancelTimer, OpTypes
<1>3. c \in {"none", "waiting"} \cup Outcomes
      /\ t \in [generation : Nat, wait : WaitTypes]
      /\ t.generation = x.timer.generation
  BY <1>1, <1>2 DEF OpTypes
<1>4. Polled(o) = y
  BY <1>1 DEF Polled, OpTypes
<1> HIDE DEF c, t
<1>5. y \in OpTypes /\ y.io = c /\ y.timer = t /\ SameOp(x, y)
  BY <1>1, <1>3 DEF OpTypes, SameOp
<1> HIDE DEF y
<1> QED BY <1>2, <1>4, <1>5 DEF c, t

\* One operation, and the two parts of the queue that may concern it.
LEMMA ReactorOp ==
    ASSUME net \in Nets, NetOK(net), NEW o \in Ops, NEW q, q = net.ready,
           NEW r, Adds(q, r, IoHandlers), NEW s, Adds(r, s, WaitHandlers)
    PROVE  OpOK(s, o, Polled(o))
<1> DEFINE x == net.op[o]
           c == IF o \in DueIos THEN "none" ELSE x.io
           y == [x EXCEPT !.io = c]
           z == Polled(o)
<1>1. x \in OpTypes /\ q \in Seq(Handlers) /\ OpOK(q, o, x)
  BY OpFacts DEF NetOK
<1>2. c \in {"none", "waiting"} \cup Outcomes
  BY <1>1 DEF OpTypes
<1>3. /\ z \in OpTypes /\ SameOp(x, z) /\ z.io = c
      /\ z.timer = (IF o \in DueTimers THEN CancelTimer(x.timer) ELSE x.timer)
      /\ CancelTimer(x.timer).wait = NoWait
  BY PolledFacts
<1>4. c = "none" \/ o \notin DueIos
  OBVIOUS
<1>5. o \notin DueIos => c = x.io
  OBVIOUS
<1> HIDE DEF c, z
<1>6. y \in OpTypes /\ SameOp(x, y) /\ y.timer = x.timer /\ y.io = c
  BY <1>1, <1>2 DEF OpTypes, SameOp
<1>7. o \notin DueIos => y = x
  BY <1>1, <1>5 DEF OpTypes
<1> HIDE DEF y
<1>8. /\ DOMAIN IoHandlers = DueIos /\ DOMAIN WaitHandlers = DueTimers
      /\ \A p \in DueIos : /\ IoHandlers[p].kind = "io" /\ IoHandlers[p].op = p
                           /\ IoHandlers[p].outcome = net.op[p].io
                           /\ net.op[p].io # "none"
      /\ \A p \in DueTimers :
           /\ WaitHandlers[p].kind = "timer" /\ WaitHandlers[p].op = p
           /\ WaitHandlers[p].wait = net.op[p].timer.wait
           /\ WaitHandlers[p].outcome = "ok"
           /\ net.op[p].timer.wait # NoWait
  BY ReactorHandlers
<1>9. /\ Extends(q, r)
      /\ \A i \in DOMAIN r : i \notin DOMAIN q => \E p \in DueIos : r[i] = IoHandlers[p]
      /\ \A p \in DueIos : \E i \in DOMAIN r : i \notin DOMAIN q /\ r[i] = IoHandlers[p]
      /\ \A i, j \in DOMAIN r :
            i \notin DOMAIN q /\ j \notin DOMAIN q /\ r[i] = r[j] => i = j
  BY <1>8 DEF Adds
<1>10. /\ Extends(r, s)
       /\ \A i \in DOMAIN s : i \notin DOMAIN r => \E p \in DueTimers : s[i] = WaitHandlers[p]
       /\ \A p \in DueTimers : \E i \in DOMAIN s : i \notin DOMAIN r /\ s[i] = WaitHandlers[p]
       /\ \A i, j \in DOMAIN s :
            i \notin DOMAIN r /\ j \notin DOMAIN r /\ s[i] = s[j] => i = j
  BY <1>8 DEF Adds
<1>11. OpOK(r, o, y)
  <2>1. CASE o \notin DueIos
    <3>1. \A i \in DOMAIN r : i \notin DOMAIN q => r[i].op # o
      BY <1>8, <1>9, <2>1
    <3> QED BY <1>1, <1>7, <1>9, <2>1, <3>1, ExtendOther
  <2>2. CASE o \in DueIos
    <3>1. PICK e \in DOMAIN r : e \notin DOMAIN q /\ r[e] = IoHandlers[o]
      BY <1>9, <2>2
    <3>2. r[e].kind = "io" /\ r[e].op = o /\ r[e].outcome = x.io /\ x.io # "none"
      BY <1>8, <2>2, <3>1
    <3>3. \A i \in DOMAIN r : i \notin DOMAIN q /\ r[i].op = o => i = e
      BY <1>8, <1>9, <3>1
    <3>4. y.io = "none"
      BY <1>4, <1>6, <2>2
    <3> HIDE DEF x
    <3> QED BY <1>1, <1>6, <1>9, <3>1, <3>2, <3>3, <3>4, QueueIo
  <2> QED BY <2>1, <2>2
<1>12. r \in Seq(Handlers)
  BY <1>9 DEF Extends
<1>13. CASE o \notin DueTimers
  <2>1. \A i \in DOMAIN s : i \notin DOMAIN r => s[i].op # o
    BY <1>8, <1>10, <1>13
  <2>2. OpOK(s, o, y)
    BY <1>6, <1>10, <1>11, <1>12, <2>1, ExtendOther
  <2>3. z = y
    <3>1. z.timer = y.timer /\ z.io = y.io /\ SameOp(x, z) /\ SameOp(x, y)
      BY <1>3, <1>6, <1>13
    <3> QED BY <1>3, <1>6, <3>1 DEF SameOp, OpTypes
  <2> QED BY <2>2, <2>3 DEF z
<1>14. CASE o \in DueTimers
  <2>1. PICK e \in DOMAIN s : e \notin DOMAIN r /\ s[e] = WaitHandlers[o]
    BY <1>10, <1>14
  <2>2. s[e].kind = "timer" /\ s[e].op = o /\ s[e].outcome = "ok"
        /\ s[e].wait = y.timer.wait /\ y.timer.wait # NoWait
    BY <1>6, <1>8, <1>14, <2>1
  <2>3. \A i \in DOMAIN s : i \notin DOMAIN r /\ s[i].op = o => i = e
    BY <1>8, <1>10, <2>1
  <2>4. z.timer.wait = NoWait /\ z.io = y.io /\ SameOp(y, z)
    BY <1>3, <1>6, <1>14 DEF SameOp
  <2>5. OpOK(s, o, z)
    BY <1>3, <1>6, <1>10, <1>11, <1>12, <2>1, <2>2, <2>3, <2>4, QueueWait
  <2> QED BY <2>5 DEF z
<1> QED BY <1>13, <1>14

\* A reactor turn: what was due is queued, sockets, timers, then the barrier.
LEMMA ReactorTurnOK == IInv /\ ReactorTurn => IInv'
<1> SUFFICES ASSUME IInv, ReactorTurn PROVE IInv'
  OBVIOUS
<1>1. PICK ios \in SetToSeqs(DueIos), timers \in SetToSeqs(DueTimers) :
        net' = [net EXCEPT
            !.ready = @ \o [i \in DOMAIN ios |->
                              Handler("io", ios[i], net.op[ios[i]].io)]
                        \o [i \in DOMAIN timers |->
                              WaitHandler(timers[i],
                                          net.op[timers[i]].timer.wait, "ok")]
                        \o (IF net.barrier THEN <<Post("barrier")>> ELSE <<>>),
            !.op = [o \in Ops |-> Polled(o)],
            !.barrier = FALSE]
  BY DEF ReactorTurn
<1>2. Running /\ UNCHANGED <<observation, callerVars, thread, told, failing>>
  BY DEF ReactorTurn
<1> DEFINE q == net.ready
           a == [i \in DOMAIN ios |-> IoHandlers[ios[i]]]
           b == [i \in DOMAIN timers |-> WaitHandlers[timers[i]]]
           c == IF net.barrier THEN <<Post("barrier")>> ELSE <<>>
           r == q \o a
           s == r \o b
           u == s \o c
           f == [o \in Ops |-> Polled(o)]
           m == [net EXCEPT !.ready = u, !.op = f, !.barrier = FALSE]
<1>3. net \in Nets /\ NetOK(net) /\ q \in Seq(Handlers)
  BY NetFacts DEF Nets
<1>4. /\ DueIos \in SUBSET Ops /\ IoHandlers \in [DueIos -> Handlers]
      /\ \A p \in DueIos : /\ IoHandlers[p].kind = "io" /\ IoHandlers[p].op = p
                           /\ IoHandlers[p].outcome = net.op[p].io
      /\ DueTimers \in SUBSET Ops /\ WaitHandlers \in [DueTimers -> Handlers]
      /\ \A p \in DueTimers : WaitHandlers[p].kind = "timer" /\ WaitHandlers[p].op = p
      /\ \A p \in DueTimers : net.op[p].timer.wait # NoWait
      /\ \A p \in DueIos : net.op[p].io # "none"
  BY <1>3, ReactorHandlers
<1>5. net' = m
  <2>1. \A i \in DOMAIN ios : ios[i] \in DueIos
    BY <1>4, Permutation, ElementOfSeq, LenProperties
  <2>2. \A i \in DOMAIN timers : timers[i] \in DueTimers
    BY <1>4, Permutation, ElementOfSeq, LenProperties
  <2>3. a = [i \in DOMAIN ios |-> Handler("io", ios[i], net.op[ios[i]].io)]
    BY <2>1 DEF IoHandlers
  <2>4. b = [i \in DOMAIN timers |->
                WaitHandler(timers[i], net.op[timers[i]].timer.wait, "ok")]
    BY <2>2 DEF WaitHandlers
  <2> HIDE DEF a, b
  <2> QED BY <1>1, <2>3, <2>4
<1>6. Adds(q, r, IoHandlers) /\ r \in Seq(Handlers)
  <2>1. \A p, o \in DueIos : IoHandlers[p] = IoHandlers[o] => p = o
    BY <1>4
  <2>2. a = [i \in DOMAIN ios |-> IoHandlers[ios[i]]]
    OBVIOUS
  <2> HIDE DEF a
  <2> QED BY <1>3, <1>4, <2>1, <2>2, AddsPermutation
<1> HIDE DEF r
<1>7. Adds(r, s, WaitHandlers) /\ s \in Seq(Handlers)
  <2>1. \A p, o \in DueTimers : WaitHandlers[p] = WaitHandlers[o] => p = o
    BY <1>4
  <2>2. b = [i \in DOMAIN timers |-> WaitHandlers[timers[i]]]
    OBVIOUS
  <2>3. DueTimers \in SUBSET Ops /\ WaitHandlers \in [DueTimers -> Handlers]
    BY <1>4
  <2> HIDE DEF b
  <2>4. Adds(r, r \o b, WaitHandlers) /\ r \o b \in Seq(Handlers)
    BY <1>6, <2>1, <2>2, <2>3, AddsPermutation
  <2> QED BY <2>4
<1> HIDE DEF s
<1>8. /\ Post("barrier") \in Handlers /\ Post("barrier").kind = "barrier"
      /\ Post("barrier").op = "none"
  BY NoWaitFacts DEF Post, Handler, Handlers, Outcomes
<1>9. /\ Extends(s, u)
      /\ \A i \in DOMAIN u : i \notin DOMAIN s =>
            net.barrier /\ i = Len(s) + 1 /\ u[i] = Post("barrier")
  <2>1. CASE net.barrier
    <3> DEFINE h == Post("barrier")
    <3>1. u = Append(s, h)
      BY <1>7, <2>1
    <3>2. h \in Handlers
      BY <1>8
    <3> HIDE DEF u, c, h
    <3>3. /\ Extends(s, Append(s, h))
          /\ \A i \in DOMAIN Append(s, h) :
                i \notin DOMAIN s => i = Len(s) + 1 /\ Append(s, h)[i] = h
      BY <1>7, <3>2, AppendFacts
    <3> QED BY <2>1, <3>1, <3>3 DEF h
  <2>2. CASE ~net.barrier
    <3>1. u = s
      BY <1>7, <2>2, ConcatEmptySeq
    <3> QED BY <1>7, <3>1 DEF Extends
  <2> QED BY <2>1, <2>2
<1> HIDE DEF u, c
<1>10. \A o \in Ops : OpOK(u, o, Polled(o)) /\ Polled(o) \in OpTypes
  <2> SUFFICES ASSUME NEW o \in Ops PROVE OpOK(u, o, Polled(o)) /\ Polled(o) \in OpTypes
    OBVIOUS
  <2>1. Polled(o) \in OpTypes
    BY <1>3, PolledFacts
  <2>2. OpOK(s, o, Polled(o))
    BY <1>3, <1>6, <1>7, ReactorOp
  <2>3. \A i \in DOMAIN u : i \notin DOMAIN s => u[i].op # o
    BY <1>8, <1>9 DEF Ops
  <2> QED BY <1>7, <1>9, <2>1, <2>2, <2>3, ExtendOther
<1>11. /\ m \in Nets /\ m.ready = u /\ m.held = net.held /\ m.barrier = FALSE
       /\ \A o \in Ops : m.op[o] = Polled(o)
  <2>1. f \in [Ops -> OpTypes] /\ \A o \in Ops : f[o] = Polled(o)
    BY <1>10
  <2>2. u \in Seq(Handlers)
    BY <1>9 DEF Extends
  <2> HIDE DEF f
  <2> QED BY <1>3, <2>1, <2>2 DEF Nets
<1> HIDE DEF m, f
<1>12. NetOK(m)
  BY <1>10, <1>11 DEF NetOK
<1>13. \A o \in Ops : SameOp(net.op[o], m.op[o])
  BY <1>3, <1>11, PolledFacts
<1>14. Extends(q, s)
       /\ \A i \in DOMAIN s : i \notin DOMAIN q =>
            \/ \E p \in DueIos : s[i] = IoHandlers[p]
            \/ \E p \in DueTimers : s[i] = WaitHandlers[p]
  <2>1. \A i \in DOMAIN r : i \notin DOMAIN q => \E p \in DueIos : r[i] = IoHandlers[p]
    BY <1>4, <1>6 DEF Adds
  <2>2. \A i \in DOMAIN s : i \notin DOMAIN r => \E p \in DueTimers : s[i] = WaitHandlers[p]
    BY <1>4, <1>7 DEF Adds
  <2>3. Extends(q, r) /\ Extends(r, s)
    BY <1>6, <1>7 DEF Adds
  <2> QED BY <2>1, <2>2, <2>3 DEF Extends
<1>15. Extends(q, u)
  BY <1>9, <1>14 DEF Extends
<1> DEFINE k == [net EXCEPT !.ready = s]
<1>16. PostForm(k) /\ k.ready = s
       /\ \A kind \in {"start", "clean", "barrier"} : Posted(k, kind) => Posted(net, kind)
  <2>1. k.ready = s /\ k.barrier = net.barrier
    BY <1>3 DEF Nets
  <2>2. \A i \in DOMAIN s : i \notin DOMAIN q =>
            s[i].op \in Ops /\ s[i].kind \in {"io", "timer"}
    BY <1>4, <1>14
  <2> HIDE DEF k
  <2> QED BY <1>3, <1>14, <2>1, <2>2, PostsExtend DEF IInv, PostsOK
<1>17. k.barrier = net.barrier
  BY <1>3 DEF Nets
<1> HIDE DEF k
<1>18. /\ Posted(m, "start") => Posted(net, "start")
       /\ Posted(m, "clean") => Posted(net, "clean")
       /\ Posted(m, "barrier") => net.barrier \/ Posted(net, "barrier")
  BY <1>8, <1>9, <1>11, <1>16 DEF Posted, Extends
<1>19. PostForm(m)
  <2>1. \A i \in DOMAIN u : i \in DOMAIN s => u[i] = s[i]
    BY <1>9 DEF Extends
  <2>2. net.barrier => \A i \in DOMAIN s : s[i].kind \notin {"clean", "barrier"}
    BY <1>16, <1>17 DEF PostForm, Posted
  <2>3. \A i, j \in DOMAIN u :
            u[i].kind \in {"clean", "barrier"} /\ u[j].kind \in {"clean", "barrier"}
            => i = j
    <3>1. \A i, j \in DOMAIN s :
            s[i].kind \in {"clean", "barrier"} /\ s[j].kind \in {"clean", "barrier"}
            => i = j
      BY <1>16 DEF PostForm
    <3> QED BY <1>9, <2>1, <2>2, <3>1
  <2>4. \A i, j \in DOMAIN u : u[i].kind = "start" /\ u[j].kind = "start" => i = j
    <3>1. \A i, j \in DOMAIN s : s[i].kind = "start" /\ s[j].kind = "start" => i = j
      BY <1>16 DEF PostForm
    <3> QED BY <1>8, <1>9, <2>1, <3>1
  <2>5. \A i \in DOMAIN u : u[i].op = "none" <=> u[i].kind \in {"start", "clean", "barrier"}
    <3>1. \A i \in DOMAIN s : s[i].op = "none" <=> s[i].kind \in {"start", "clean", "barrier"}
      BY <1>16 DEF PostForm
    <3> QED BY <1>8, <1>9, <2>1, <3>1
  <2> QED BY <1>11, <2>3, <2>4, <2>5 DEF PostForm
<1>20. PostsOK'
  BY <1>2, <1>5, <1>11, <1>18, <1>19 DEF IInv, PostsOK, callerVars
<1>21. CallersOK'
  BY <1>2 DEF IInv, CallersOK, callerVars
<1>22. ASSUME NEW p \in Ops, Idle(net, p) PROVE Idle(m, p)
  <2>1. net.op[p] = NoOp
    BY <1>22 DEF Idle
  <2>2. p \notin DueIos /\ p \notin DueTimers
    <3>1. NoOp.io = "none" /\ NoOp.timer.wait = NoWait
      BY DEF NoOp, NewTimer
    <3> QED BY <1>4, <2>1, <3>1
  <2>3. m.op[p] = NoOp
    <3>1. m.op[p].io = net.op[p].io /\ m.op[p].timer = net.op[p].timer
          /\ m.op[p] \in OpTypes /\ net.op[p] \in OpTypes
      BY <1>3, <1>10, <1>11, <2>2, PolledFacts, OpFacts
    <3>2. m.op[p] = net.op[p]
      BY <1>13, <3>1 DEF SameOp, OpTypes
    <3> QED BY <2>1, <3>2
  <2>4. \A i \in DOMAIN u : u[i].op # p
    <3>1. \A i \in DOMAIN s : s[i].op # p
      <4>1. \A i \in DOMAIN s : i \in DOMAIN q => s[i].op # p
        BY <1>14, <1>22 DEF Idle, Extends
      <4>2. \A i \in DOMAIN s : i \notin DOMAIN q => s[i].op # p
        BY <1>4, <1>14, <2>2
      <4> QED BY <4>1, <4>2
    <3> QED BY <1>8, <1>9, <3>1 DEF Extends, Ops
  <2> QED BY <1>11, <1>22, <2>3, <2>4 DEF Idle
<1>23. BegunOK'
  BY <1>2, <1>5, <1>13, <1>18, <1>22, NetFacts
     DEF IInv, BegunOK, Error, callerVars, SameOp
<1>24. ErrorOK' /\ HeldOK' /\ ResultOK' /\ ToldOK'
  BY <1>2, <1>5, <1>11, <1>13, NetFacts
     DEF IInv, ErrorOK, HeldOK, Cancellable, ResultOK, ToldOK, Error, SameOp
<1>25. EndedOK'
  BY <1>2 DEF EndedOK, Running
<1>26. FailingOK'
  <2> SUFFICES ASSUME failing, Error = NoError PROVE \E p \in Ops : Doomed(m, p)
    BY <1>2, <1>5 DEF FailingOK, Error
  <2>1. PICK p \in Ops : Doomed(net, p)
    BY DEF IInv, FailingOK
  <2>2. ~m.op[p].done /\ m.op[p].timer.generation = net.op[p].timer.generation
    BY <1>13, <2>1 DEF SameOp, Doomed
  <2>3. net.op[p].io = "failed" => FailedQueued(m, p)
    <3> SUFFICES ASSUME net.op[p].io = "failed" PROVE FailedQueued(m, p)
      OBVIOUS
    <3>1. p \in DueIos
      BY DEF DueIos
    <3>2. PICK i \in DOMAIN r : r[i] = IoHandlers[p]
      BY <1>4, <1>6, <3>1 DEF Adds
    <3>3. i \in DOMAIN u /\ u[i] = IoHandlers[p]
      BY <1>7, <1>9, <3>2 DEF Adds, Extends
    <3> QED BY <1>4, <1>11, <3>1, <3>3 DEF FailedQueued, IsIo
  <2>4. Doomed(m, p)
    BY <1>3, <1>11, <1>15, <2>1, <2>2, <2>3, DoomedExtends
  <2> QED BY <2>4
<1> QED BY <1>5, <1>11, <1>12, <1>20, <1>21, <1>23, <1>24, <1>25, <1>26 DEF IInv

-----------------------------------------------------------------------------
(* start() and stop().                                                       *)

\* What a post of k, which is not posted yet, adds to the ready queue.
LEMMA PostQueued ==
    ASSUME IInv, NEW k \in {"start", "clean"}, ~Posted(net, k),
           k = "clean" => ~Posted(net, "barrier") /\ ~net.barrier,
           NEW m \in Nets, m.ready = Append(net.ready, Post(k)), m.op = net.op,
           m.held = net.held, m.barrier = net.barrier
    PROVE  /\ NetOK(m) /\ PostForm(m) /\ Cancellable(m)
           /\ \A j : Posted(m, j) => Posted(net, j) \/ j = k
           /\ \A p \in Ops : Idle(net, p) => Idle(m, p)
           /\ \A p \in Ops : Doomed(net, p) => Doomed(m, p)
<1> DEFINE q == net.ready
           h == Post(k)
           r == m.ready
<1>1. net \in Nets /\ NetOK(net) /\ q \in Seq(Handlers)
  BY NetFacts DEF Nets
<1>2. h \in Handlers /\ h.kind = k /\ h.op = "none"
  BY NoWaitFacts DEF Post, Handler, Handlers, Outcomes
<1>3. r = Append(q, h)
  OBVIOUS
<1> HIDE DEF q, h
<1>4. /\ Extends(q, r)
      /\ \A i \in DOMAIN r : i \notin DOMAIN q => i = Len(q) + 1 /\ r[i] = h
  BY <1>1, <1>2, <1>3, AppendFacts
<1> HIDE DEF r
<1>5. /\ \A i \in DOMAIN r : i \in DOMAIN q => r[i] = q[i]
      /\ \A i \in DOMAIN r : i \notin DOMAIN q => r[i].kind = k /\ r[i].op = "none"
      /\ \A i, j \in DOMAIN r : i \notin DOMAIN q /\ j \notin DOMAIN q => i = j
  BY <1>2, <1>4 DEF Extends
<1>6. \A o \in Ops : OpOK(r, o, m.op[o])
  <2> SUFFICES ASSUME NEW o \in Ops PROVE OpOK(r, o, m.op[o])
    OBVIOUS
  <2>1. net.op[o] \in OpTypes /\ OpOK(q, o, net.op[o])
    BY <1>1, OpFacts DEF NetOK, q
  <2>2. \A i \in DOMAIN r : i \notin DOMAIN q => r[i].op # o
    BY <1>5 DEF Ops
  <2> QED BY <1>1, <1>4, <2>1, <2>2, ExtendOther
<1>7. \A j : Posted(m, j) => Posted(net, j) \/ j = k
  BY <1>5 DEF Posted, q, r
<1>8. /\ \A i, j \in DOMAIN q :
            q[i].kind \in {"clean", "barrier"} /\ q[j].kind \in {"clean", "barrier"}
            => i = j
      /\ net.barrier => ~Posted(net, "clean") /\ ~Posted(net, "barrier")
      /\ \A i, j \in DOMAIN q : q[i].kind = "start" /\ q[j].kind = "start" => i = j
      /\ \A i \in DOMAIN q : q[i].op = "none" <=> q[i].kind \in {"start", "clean", "barrier"}
  BY DEF IInv, PostsOK, PostForm, q
<1>9. /\ \A i \in DOMAIN q : q[i].kind # k
      /\ k = "clean" => \A i \in DOMAIN q : q[i].kind # "barrier"
  BY DEF Posted, q
<1>10. \A i, j \in DOMAIN r :
            r[i].kind \in {"clean", "barrier"} /\ r[j].kind \in {"clean", "barrier"}
            => i = j
  BY <1>5, <1>8, <1>9
<1>11. \A i, j \in DOMAIN r : r[i].kind = "start" /\ r[j].kind = "start" => i = j
  BY <1>5, <1>8, <1>9
<1>12. \A i \in DOMAIN r : r[i].op = "none" <=> r[i].kind \in {"start", "clean", "barrier"}
  BY <1>5, <1>8
<1>13. m.barrier => ~Posted(m, "clean") /\ ~Posted(m, "barrier")
  BY <1>7, <1>8
<1>14. PostForm(m)
  BY <1>10, <1>11, <1>12, <1>13 DEF PostForm, r
<1>15. ASSUME NEW p \in Ops, Idle(net, p) PROVE Idle(m, p)
  BY <1>5, <1>15 DEF Idle, Ops, q, r
<1>16. ASSUME NEW p \in Ops, Doomed(net, p) PROVE Doomed(m, p)
  <2>1. ~m.op[p].done
    BY <1>16 DEF Doomed
  <2>2. Extends(net.ready, m.ready)
    BY <1>4 DEF q, r
  <2> QED BY <1>1, <1>16, <2>1, <2>2, DoomedExtends
<1>17. Cancellable(m)
  BY DEF IInv, HeldOK, Cancellable
<1> QED BY <1>6, <1>7, <1>14, <1>15, <1>16, <1>17 DEF NetOK, r

\* start() posts the start handler, to a thread that has not run yet.
LEMMA CallStartOK == IInv /\ CallStart => IInv'
<1> SUFFICES ASSUME IInv, CallStart PROVE IInv'
  OBVIOUS
<1>1. /\ pc["starter"] = "idle" /\ thread = "none"
      /\ UNCHANGED <<stop_requested, stop_in_progress, told, failing>>
  BY DEF CallStart, IInv, CallersOK
<1>2. pc \in [Stoppers \cup {"starter"} ->
                Carrying \cup {"idle", "starting", "Started", "Stopped", "Failed",
                               "waiting", "returned"}]
  BY DEF IInv, CallersOK
<1>3. CASE observation.stopped
  <2>1. pc' = [pc EXCEPT !["starter"] = "Stopped"] /\ UNCHANGED <<observation, thread, net>>
    BY <1>3 DEF CallStart
  <2>2. /\ pc' \in [Stoppers \cup {"starter"} ->
                Carrying \cup {"idle", "starting", "Started", "Stopped", "Failed",
                               "waiting", "returned"}]
        /\ \A t \in Stoppers : pc'[t] = pc[t]
        /\ pc'["starter"] = "Stopped"
    BY <1>2, <2>1, TransportAssumption
  <2>3. CallersOK'
    BY <1>1, <2>1, <2>2 DEF IInv, CallersOK
  <2>4. PostsOK' /\ BegunOK'
    BY <1>1, <2>1, <2>2 DEF IInv, PostsOK, BegunOK, Error
  <2>5. ErrorOK' /\ HeldOK' /\ ResultOK' /\ ToldOK' /\ FailingOK' /\ EndedOK'
        /\ (net \in Nets)' /\ NetOK(net)'
    BY <1>1, <2>1 DEF IInv, ErrorOK, HeldOK, ResultOK, ToldOK, FailingOK, EndedOK, Error
  <2> QED BY <2>3, <2>4, <2>5 DEF IInv
<1>4. CASE ~observation.stopped
  <2> DEFINE r == Append(net.ready, Post("start"))
             m == [net EXCEPT !.work_guard = TRUE, !.ready = r]
  <2>1. /\ observation' = [observation EXCEPT !.started = TRUE]
        /\ thread' = "running" /\ net' = m
        /\ pc' = [pc EXCEPT !["starter"] = "starting"]
    BY <1>4, NetFacts DEF CallStart, Nets
  <2>2. /\ pc' \in [Stoppers \cup {"starter"} ->
                Carrying \cup {"idle", "starting", "Started", "Stopped", "Failed",
                               "waiting", "returned"}]
        /\ \A t \in Stoppers : pc'[t] = pc[t]
        /\ pc'["starter"] = "starting"
    BY <1>2, <2>1, TransportAssumption
  <2>3. /\ observation' \in ObservationTypes /\ observation'.started
        /\ observation'.stopped = observation.stopped
        /\ observation'.websocket_handshake = observation.websocket_handshake
        /\ Error' = Error
    BY <2>1, NetFacts DEF ObservationTypes, Error
  <2>4. net \in Nets /\ r \in Seq(Handlers)
    <3>1. Post("start") \in Handlers
      BY NoWaitFacts DEF Post, Handler, Handlers, Outcomes
    <3>2. net \in Nets /\ net.ready \in Seq(Handlers)
      BY NetFacts DEF Nets
    <3> QED BY <3>1, <3>2, AppendProperties
  <2> HIDE DEF r
  <2>5. /\ m \in Nets /\ m.ready = r
        /\ m.op = net.op /\ m.held = net.held /\ m.barrier = net.barrier
    BY <2>4 DEF Nets
  <2> HIDE DEF m
  <2>6. ~Posted(net, "start") /\ Idle(net, "websocket") /\ Error = NoError
    BY <1>1 DEF IInv, PostsOK, BegunOK
  <2>7. /\ NetOK(m) /\ PostForm(m) /\ Cancellable(m)
        /\ \A j : Posted(m, j) => Posted(net, j) \/ j = "start"
        /\ \A p \in Ops : Idle(net, p) => Idle(m, p)
        /\ \A p \in Ops : Doomed(net, p) => Doomed(m, p)
    BY <2>5, <2>6, PostQueued DEF r
  <2>8. CallersOK'
    BY <1>1, <2>1, <2>2, <2>3 DEF IInv, CallersOK
  <2>9. PostsOK'
    BY <1>1, <2>1, <2>2, <2>5, <2>7 DEF IInv, PostsOK
  <2>10. BegunOK'
    BY <2>1, <2>2, <2>3, <2>5, <2>6, <2>7, NetFacts DEF IInv, BegunOK
  <2>11. ErrorOK' /\ HeldOK' /\ ResultOK' /\ ToldOK'
    BY <1>1, <2>1, <2>3, <2>5, <2>7 DEF IInv, ErrorOK, HeldOK, ResultOK, ToldOK
  <2>12. FailingOK' /\ EndedOK'
    BY <1>1, <2>1, <2>3, <2>7 DEF IInv, FailingOK, EndedOK
  <2> QED BY <2>1, <2>5, <2>7, <2>8, <2>9, <2>10, <2>11, <2>12 DEF IInv
<1> QED BY <1>3, <1>4

\* The return of start() is seen by its caller alone.
LEMMA StartReturnsOK == IInv /\ StartReturns => IInv'
<1> SUFFICES ASSUME IInv, StartReturns PROVE IInv'
  OBVIOUS
<1> DEFINE v == IF stop_requested THEN "Stopped"
                ELSE IF observation.websocket_handshake THEN "Started" ELSE "Failed"
<1>1. /\ pc["starter"] = "starting" /\ pc' = [pc EXCEPT !["starter"] = v]
      /\ UNCHANGED <<observation, stop_requested, stop_in_progress, thread, net,
                     told, failing>>
  BY DEF StartReturns
<1>2. v \in {"Stopped", "Started", "Failed"}
  OBVIOUS
<1> HIDE DEF v
<1>3. /\ pc' \in [Stoppers \cup {"starter"} ->
                Carrying \cup {"idle", "starting", "Started", "Stopped", "Failed",
                               "waiting", "returned"}]
      /\ \A t \in Stoppers : pc'[t] = pc[t]
      /\ pc'["starter"] # "idle"
  BY <1>1, <1>2, TransportAssumption DEF IInv, CallersOK
<1>4. CallersOK'
  BY <1>1, <1>3 DEF IInv, CallersOK
<1>5. PostsOK' /\ BegunOK'
  BY <1>1, <1>3 DEF IInv, PostsOK, BegunOK, Error
<1>6. ErrorOK' /\ HeldOK' /\ ResultOK' /\ ToldOK' /\ FailingOK' /\ EndedOK'
      /\ (net \in Nets)' /\ NetOK(net)'
  BY <1>1 DEF IInv, ErrorOK, HeldOK, ResultOK, ToldOK, FailingOK, EndedOK, Error
<1> QED BY <1>4, <1>5, <1>6 DEF IInv

\* The first critical section of stop(): nobody else is carrying one out.
LEMMA CallStopOK == ASSUME IInv, NEW t \in Stoppers, CallStop(t) PROVE IInv'
<1> DEFINE PCs == Carrying \cup {"idle", "starting", "Started", "Stopped", "Failed",
                                 "waiting", "returned"}
           others == \A u \in Stoppers \cup {"starter"} : u # t => pc'[u] = pc[u]
<1>1. pc[t] = "idle" /\ UNCHANGED <<thread, net, told, failing>>
  BY DEF CallStop
<1>2. pc \in [Stoppers \cup {"starter"} -> PCs] /\ "starter" # t
  BY TransportAssumption DEF IInv, CallersOK
<1>3. CASE observation.stopped \/ stop_in_progress
  <2>1. PICK v \in {"returned", "waiting"} :
          /\ pc' = [pc EXCEPT ![t] = v]
          /\ UNCHANGED <<observation, stop_requested, stop_in_progress>>
    BY <1>3 DEF CallStop
  <2>2. pc' \in [Stoppers \cup {"starter"} -> PCs] /\ others /\ pc'[t] = v
    BY <1>2, <2>1
  <2>3. \A u \in Stoppers : pc'[u] \in Carrying => pc[u] \in Carrying
    BY <2>2 DEF Carrying
  <2>4. \A u \in Stoppers : pc'[u] = "winner" => pc[u] = "winner"
    BY <2>2
  <2>5. CallersOK'
    BY <1>1, <1>2, <2>1, <2>2, <2>3 DEF IInv, CallersOK
  <2>6. PostsOK' /\ BegunOK'
    BY <1>1, <1>2, <2>1, <2>2, <2>4 DEF IInv, PostsOK, BegunOK, Error
  <2>7. ErrorOK' /\ HeldOK' /\ ResultOK' /\ ToldOK' /\ FailingOK' /\ EndedOK'
        /\ (net \in Nets)' /\ NetOK(net)'
    BY <1>1, <2>1 DEF IInv, ErrorOK, HeldOK, ResultOK, ToldOK, FailingOK, EndedOK, Error
  <2> QED BY <2>5, <2>6, <2>7 DEF IInv
<1>4. CASE ~(observation.stopped \/ stop_in_progress)
  <2> DEFINE v == IF observation.started THEN "winner" ELSE "not_started"
  <2>1. /\ stop_in_progress' = TRUE /\ stop_requested' = TRUE
        /\ observation' = [observation EXCEPT !.running = FALSE]
        /\ pc' = [pc EXCEPT ![t] = v]
    BY <1>4 DEF CallStop
  <2>2. v \in {"winner", "not_started"}
    OBVIOUS
  <2> HIDE DEF v
  <2>3. pc' \in [Stoppers \cup {"starter"} -> PCs] /\ others /\ pc'[t] = v
    BY <1>2, <2>1, <2>2 DEF Carrying
  <2>4. /\ observation' \in ObservationTypes /\ Error' = Error
        /\ observation'.started = observation.started
        /\ observation'.stopped = observation.stopped
        /\ observation'.websocket_handshake = observation.websocket_handshake
    BY <2>1, NetFacts DEF ObservationTypes, Error
  <2>5. \A u \in Stoppers : pc[u] \notin Carrying
    BY <1>4 DEF IInv, CallersOK
  <2>6. \A u \in Stoppers : pc'[u] \in Carrying => u = t
    BY <2>3, <2>5
  <2>7. CallersOK'
    <3>1. \A u \in Stoppers : pc'[u] \in Carrying =>
                stop_in_progress' /\ \A w \in Stoppers : pc'[w] \in Carrying => w = u
      BY <2>1, <2>6
    <3>2. pc'["starter"] = pc["starter"]
      BY <1>2, <2>3
    <3> QED BY <1>1, <1>4, <2>1, <2>3, <2>4, <3>1, <3>2 DEF IInv, CallersOK
  <2>8. ~stop_requested
    BY <1>4 DEF IInv, CallersOK
  <2>9. PostsOK'
    BY <1>1, <1>2, <2>3, <2>8 DEF IInv, PostsOK
  <2>10. BegunOK'
    BY <1>1, <1>2, <2>3, <2>4 DEF IInv, BegunOK
  <2>11. ErrorOK' /\ HeldOK' /\ ResultOK' /\ ToldOK' /\ FailingOK' /\ EndedOK'
         /\ (net \in Nets)' /\ NetOK(net)'
    BY <1>1, <2>4 DEF IInv, ErrorOK, HeldOK, ResultOK, ToldOK, FailingOK, EndedOK
  <2> QED BY <2>7, <2>9, <2>10, <2>11 DEF IInv
<1> QED BY <1>3, <1>4

\* The winner posts the clean shutdown, which nobody has posted before it.
LEMMA StopPostsOK == ASSUME IInv, NEW t \in Stoppers, StopPosts(t) PROVE IInv'
<1> DEFINE PCs == Carrying \cup {"idle", "starting", "Started", "Stopped", "Failed",
                                 "waiting", "returned"}
           others == \A u \in Stoppers \cup {"starter"} : u # t => pc'[u] = pc[u]
           r == Append(net.ready, Post("clean"))
           m == [net EXCEPT !.ready = r]
<1>1. /\ pc[t] = "winner" /\ pc' = [pc EXCEPT ![t] = "joining"] /\ net' = m
      /\ UNCHANGED <<observation, stop_requested, stop_in_progress, thread, told,
                     failing>>
  BY NetFacts DEF StopPosts, Nets
<1>2. pc \in [Stoppers \cup {"starter"} -> PCs] /\ "starter" # t
  BY TransportAssumption DEF IInv, CallersOK
<1>3. pc' \in [Stoppers \cup {"starter"} -> PCs] /\ others /\ pc'[t] = "joining"
  BY <1>1, <1>2 DEF Carrying
<1>4. net \in Nets /\ r \in Seq(Handlers)
  <2>1. Post("clean") \in Handlers
    BY NoWaitFacts DEF Post, Handler, Handlers, Outcomes
  <2>2. net \in Nets /\ net.ready \in Seq(Handlers)
    BY NetFacts DEF Nets
  <2> QED BY <2>1, <2>2, AppendProperties
<1> HIDE DEF r
<1>5. /\ m \in Nets /\ m.ready = r
      /\ m.op = net.op /\ m.held = net.held /\ m.barrier = net.barrier
  BY <1>4 DEF Nets
<1> HIDE DEF m
<1>6. ~Posted(net, "clean") /\ ~Posted(net, "barrier") /\ ~net.barrier
  BY <1>1 DEF IInv, PostsOK
<1>7. /\ NetOK(m) /\ PostForm(m) /\ Cancellable(m)
      /\ \A j : Posted(m, j) => Posted(net, j) \/ j = "clean"
      /\ \A p \in Ops : Idle(net, p) => Idle(m, p)
      /\ \A p \in Ops : Doomed(net, p) => Doomed(m, p)
  BY <1>5, <1>6, PostQueued DEF r
<1>8. \A u \in Stoppers : (pc'[u] \in Carrying <=> pc[u] \in Carrying)
  BY <1>1, <1>3 DEF Carrying
<1>9. stop_in_progress /\ \A u \in Stoppers : pc[u] \in Carrying => u = t
  BY <1>1 DEF IInv, CallersOK, Carrying
<1>10. pc'["starter"] = pc["starter"]
  BY <1>2, <1>3
<1>11. CallersOK'
  BY <1>1, <1>3, <1>8, <1>10 DEF IInv, CallersOK
<1>12. stop_requested
  BY <1>9 DEF IInv, CallersOK
<1>13. \A u \in Stoppers : pc'[u] # "winner"
  BY <1>3, <1>9 DEF Carrying
<1>14. PostsOK'
  BY <1>1, <1>5, <1>7, <1>10, <1>12, <1>13 DEF IInv, PostsOK
<1>15. BegunOK'
  BY <1>1, <1>5, <1>7, <1>10, NetFacts DEF IInv, BegunOK, Error
<1>16. ErrorOK' /\ HeldOK' /\ ResultOK' /\ ToldOK'
  BY <1>1, <1>5, <1>7 DEF IInv, ErrorOK, HeldOK, ResultOK, ToldOK, Error
<1>17. FailingOK' /\ EndedOK'
  BY <1>1, <1>5, <1>7 DEF IInv, FailingOK, EndedOK, Error
<1> QED BY <1>1, <1>5, <1>7, <1>11, <1>14, <1>15, <1>16, <1>17 DEF IInv

\* The second critical section of stop(): the one that carried it out is done.
LEMMA StopFinishesOK == ASSUME IInv, NEW t \in Stoppers, StopFinishes(t) PROVE IInv'
<1> DEFINE PCs == Carrying \cup {"idle", "starting", "Started", "Stopped", "Failed",
                                 "waiting", "returned"}
           others == \A u \in Stoppers \cup {"starter"} : u # t => pc'[u] = pc[u]
<1>1. /\ pc[t] \in Carrying /\ pc' = [pc EXCEPT ![t] = "returned"]
      /\ observation' = [observation EXCEPT !.stopped = TRUE, !.running = FALSE]
      /\ stop_in_progress' = FALSE
      /\ UNCHANGED <<stop_requested, thread, net, told, failing>>
  BY DEF StopFinishes, Carrying
<1>2. pc \in [Stoppers \cup {"starter"} -> PCs] /\ "starter" # t
  BY TransportAssumption DEF IInv, CallersOK
<1>3. pc' \in [Stoppers \cup {"starter"} -> PCs] /\ others /\ pc'[t] = "returned"
  BY <1>1, <1>2
<1>4. stop_in_progress /\ \A u \in Stoppers : pc[u] \in Carrying => u = t
  BY <1>1 DEF IInv, CallersOK
<1>5. \A u \in Stoppers : pc'[u] \notin Carrying
  BY <1>3, <1>4 DEF Carrying
<1>6. /\ observation' \in ObservationTypes /\ Error' = Error
      /\ observation'.started = observation.started
      /\ observation'.stopped = TRUE
      /\ observation'.websocket_handshake = observation.websocket_handshake
  BY <1>1, NetFacts DEF ObservationTypes, Error
<1>7. pc'["starter"] = pc["starter"]
  BY <1>2, <1>3
<1>8. stop_requested = TRUE
  BY <1>4 DEF IInv, CallersOK
<1>9. CallersOK'
  BY <1>1, <1>3, <1>5, <1>6, <1>7, <1>8 DEF IInv, CallersOK
<1>10. PostsOK'
  BY <1>1, <1>5, <1>7 DEF IInv, PostsOK, Carrying
<1>11. BegunOK'
  BY <1>1, <1>6, <1>7 DEF IInv, BegunOK
<1>12. ErrorOK' /\ HeldOK' /\ ResultOK' /\ ToldOK' /\ FailingOK' /\ EndedOK'
       /\ (net \in Nets)' /\ NetOK(net)'
  BY <1>1, <1>6 DEF IInv, ErrorOK, HeldOK, ResultOK, ToldOK, FailingOK, EndedOK
<1> QED BY <1>9, <1>10, <1>11, <1>12 DEF IInv

\* A thread that waited for another's stop() returns.
LEMMA StopWaiterReturnsOK ==
    ASSUME IInv, NEW t \in Stoppers, StopWaiterReturns(t) PROVE IInv'
<1> DEFINE PCs == Carrying \cup {"idle", "starting", "Started", "Stopped", "Failed",
                                 "waiting", "returned"}
           others == \A u \in Stoppers \cup {"starter"} : u # t => pc'[u] = pc[u]
<1>1. /\ pc' = [pc EXCEPT ![t] = "returned"]
      /\ UNCHANGED <<observation, stop_requested, stop_in_progress, thread, net,
                     told, failing>>
  BY DEF StopWaiterReturns
<1>2. pc \in [Stoppers \cup {"starter"} -> PCs] /\ "starter" # t
  BY TransportAssumption DEF IInv, CallersOK
<1>3. pc' \in [Stoppers \cup {"starter"} -> PCs] /\ others /\ pc'[t] = "returned"
  BY <1>1, <1>2
<1>4. \A u \in Stoppers : pc'[u] \in Carrying => pc[u] \in Carrying
  BY <1>3 DEF Carrying
<1>5. \A u \in Stoppers : pc'[u] = "winner" => pc[u] = "winner"
  BY <1>3
<1>6. CallersOK'
  BY <1>1, <1>2, <1>3, <1>4 DEF IInv, CallersOK
<1>7. PostsOK' /\ BegunOK'
  BY <1>1, <1>2, <1>3, <1>5 DEF IInv, PostsOK, BegunOK, Error
<1>8. ErrorOK' /\ HeldOK' /\ ResultOK' /\ ToldOK' /\ FailingOK' /\ EndedOK'
      /\ (net \in Nets)' /\ NetOK(net)'
  BY <1>1 DEF IInv, ErrorOK, HeldOK, ResultOK, ToldOK, FailingOK, EndedOK, Error
<1> QED BY <1>6, <1>7, <1>8 DEF IInv

-----------------------------------------------------------------------------
(* The invariant holds.                                                      *)

\* Before start() nothing is begun, queued or told.
LEMMA InitOK == Init => IInv
<1> SUFFICES ASSUME Init PROVE IInv
  OBVIOUS
<1>1. NoError \in [code : Causes \cup {"none"}, op : Ops \cup {"none"}, stage : 0 .. Stages]
  BY TransportAssumption DEF NoError
<1>2. /\ observation \in ObservationTypes /\ Error = NoError
      /\ observation.started = FALSE /\ observation.stopped = FALSE
      /\ observation.websocket_handshake = FALSE
  BY <1>1 DEF Init, ObservationTypes, Error
<1>3. NoOp \in OpTypes /\ NoOp.stage = 0 /\ NoOp.done = FALSE
      /\ NoOp.cancelled_result = FALSE
  BY NoOpFacts
<1>4. /\ net \in Nets /\ net.ready = <<>> /\ net.held = {} /\ net.barrier = FALSE
      /\ \A o \in Ops : net.op[o] = NoOp
  <2> DEFINE f == [o \in Ops |-> NoOp]
  <2>1. f \in [Ops -> OpTypes] /\ \A o \in Ops : f[o] = NoOp
    BY <1>3
  <2>2. <<>> \in Seq(Handlers)
    OBVIOUS
  <2>3. net = [op |-> f, ready |-> <<>>, held |-> {},
               work_guard |-> FALSE, clean_cancel |-> FALSE, barrier |-> FALSE]
    BY DEF Init
  <2> HIDE DEF f
  <2> QED BY <2>1, <2>2, <2>3 DEF Nets
<1>5. \A i \in DOMAIN net.ready : FALSE
  BY <1>4
<1>6. \A o \in Ops : Idle(net, o)
  BY <1>4, <1>5 DEF Idle
<1>7. \A o \in Ops : OpOK(net.ready, o, NoOp)
  <2> SUFFICES ASSUME NEW o \in Ops PROVE OpOK(net.ready, o, NoOp)
    OBVIOUS
  <2>1. /\ NoOp.io = "none" /\ NoOp.timer.wait = NoWait /\ NoOp.io_pending = FALSE
        /\ NoOp.timer_pending = FALSE /\ NoOp.cancel_requested = FALSE
        /\ NoOp.cancelled_result = FALSE
    BY DEF NoOp, NewTimer
  <2>2. IoQueued(net.ready, o) = FALSE /\ WaitQueued(net.ready, o, NoOp) = FALSE
    BY <1>5 DEF IoQueued, WaitQueued
  <2>3. Shape(net.ready, o, NoOp) /\ Uncancelled(net.ready, o, NoOp)
    BY <1>5, <2>1 DEF Shape, IoOnce, WaitOnce, WaitsOwn, Uncancelled
  <2>4. Accounted(net.ready, o, NoOp)
    BY <2>1, <2>2 DEF Accounted
  <2>5. Counted(NoOp)
    BY <1>3, <2>1 DEF Counted
  <2> QED BY <2>3, <2>4, <2>5 DEF OpOK
<1>8. NetOK(net)
  BY <1>4, <1>7 DEF NetOK
<1>9. /\ \A t \in Stoppers : pc[t] = "idle"
      /\ pc["starter"] = "idle" /\ thread = "none" /\ failing = FALSE
      /\ pc \in [Stoppers \cup {"starter"} -> {"idle"}]
      /\ stop_requested = FALSE /\ stop_in_progress = FALSE
      /\ told = [failures |-> 0, snapshots |-> 0]
  BY DEF Init
<1>10. CallersOK
  BY <1>2, <1>9 DEF CallersOK, Carrying
<1>11. PostsOK
  BY <1>4, <1>5 DEF PostsOK, PostForm, Posted
<1>12. BegunOK
  BY <1>2, <1>3, <1>4, <1>6 DEF BegunOK, Ops, NoError
<1>13. ErrorOK /\ HeldOK /\ ResultOK /\ FailingOK /\ EndedOK
  BY <1>2, <1>3, <1>4, <1>9 DEF ErrorOK, HeldOK, Cancellable, ResultOK, FailingOK,
                                EndedOK, Ops
<1>14. ToldOK
  BY <1>2, <1>9 DEF ToldOK
<1> QED BY <1>4, <1>8, <1>10, <1>11, <1>12, <1>13, <1>14 DEF IInv

\* Every step keeps the invariant.
LEMMA NextOK == IInv /\ [Next]_vars => IInv'
<1> SUFFICES ASSUME IInv, [Next]_vars PROVE IInv'
  OBVIOUS
<1>1. CASE RunsHandler
  BY <1>1, StartWebsocketOK, BeginCleanShutdownOK, ShutdownBarrierOK,
     WebSocketStageDoneOK, WebSocketActiveOK, WebSocketFrameOK, WebSocketIoFailsOK,
     WebSocketIoCancelledOK, HttpsStageDoneOK, HttpsResponseOK, HttpsIoFailsOK,
     HttpsIoCancelledOK, WebSocketTimerCancelledOK, HttpsTimerCancelledOK,
     IoAfterDoneOK, TimerIsStaleOK, StageTimesOutOK DEF RunsHandler
<1>2. CASE Network
  BY <1>1, <1>2, ReactorTurnOK, ThreadEndsOK DEF Network
<1>3. CASE \E o \in Ops :
             TimerBecomesDue(o) \/ (\E out \in {"ok", "failed"} : IoBecomesDue(o, out))
  BY <1>3, TimerBecomesDueOK, IoBecomesDueOK
<1>4. CASE \E t \in Stoppers : CallStop(t) \/ StopSteps(t)
  BY <1>4, CallStopOK, StopPostsOK, StopFinishesOK, StopWaiterReturnsOK DEF StopSteps
<1>5. CASE UNCHANGED vars
  <2>1. UNCHANGED <<observation, stop_requested, stop_in_progress, pc, thread, net,
                    told, failing>>
    BY <1>5 DEF vars
  <2>2. CallersOK' /\ PostsOK' /\ BegunOK' /\ ErrorOK' /\ HeldOK' /\ ResultOK'
    BY <2>1 DEF IInv, CallersOK, PostsOK, BegunOK, ErrorOK, HeldOK, ResultOK, Error
  <2>3. ToldOK' /\ FailingOK' /\ EndedOK' /\ (net \in Nets)' /\ NetOK(net)'
    BY <2>1 DEF IInv, ToldOK, FailingOK, EndedOK, Error
  <2> QED BY <2>2, <2>3 DEF IInv
<1>6. CASE Quiet
  BY <1>5, <1>6 DEF Quiet
<1> QED BY <1>2, <1>3, <1>4, <1>5, <1>6, CallStartOK, StartReturnsOK DEF Next

\* The invariant of the transport: the accounting of outstanding, due and queued
\* completions behind cancel() and complete_cancelled_piece(), the callers of start()
\* and stop(), and the failures that are on their way.
THEOREM InvariantTheorem == Spec => []IInv
BY InitOK, NextOK, PTL DEF Spec

\* A failure in hand at the shutdown cut is the transport's terminal error when the
\* network thread has ended.
THEOREM FailureSurvivesStopTheorem == Spec => []FailureSurvivesStop
<1>1. IInv => FailureSurvivesStop
  BY DEF IInv, EndedOK, FailureSurvivesStop, Error
<1> QED BY <1>1, InvariantTheorem, PTL

\* A stage timeout that is recorded is that of the stage its operation is in: the
\* generation check of arm_timeout()'s handler lets no wait of an earlier stage pass.
THEOREM TimeoutTheorem == Spec => []TimeoutIsTheStagesOwn
<1>1. IInv => TimeoutIsTheStagesOwn
  BY DEF IInv, ErrorOK, TimeoutIsTheStagesOwn, Error, NoError
<1> QED BY <1>1, InvariantTheorem, PTL

\* When run() has returned every operation that was begun is done and no response is
\* left undelivered unless the connection failed, whatever cancel() found outstanding.
THEOREM NothingLeftBehindTheorem == Spec => []NothingLeftBehind
<1>1. IInv => NothingLeftBehind
  BY DEF IInv, EndedOK, BegunOK, NothingLeftBehind, Error, Ops
<1> QED BY <1>1, InvariantTheorem, PTL

-----------------------------------------------------------------------------
(* What the owner relies on: the transport implements TransportContract, when *)
(* start() does not overlap a stop().                                        *)

\* A transport whose stop() has returned has no thread: it was never started, or
\* the thread has been joined.
LifeOK ==
    /\ \A t \in Stoppers : pc[t] = "not_started" => ~observation.started
    /\ observation.stopped => thread # "running"

\* The flags that the owner sees.
SameFlags ==
    /\ observation'.started = observation.started
    /\ observation'.stopped = observation.stopped
    /\ observation'.websocket_handshake = observation.websocket_handshake

\* A step of the network thread that nobody hears of, or that records the first
\* failure.
QuietOrFails ==
    /\ SameFlags /\ stop_requested' = stop_requested
    /\ Error' = Error \/ Error = NoError
    /\ told'.snapshots = told.snapshots

\* A step that delivers the snapshot.
Delivers ==
    /\ SameFlags /\ stop_requested' = stop_requested /\ Error' = Error
    /\ observation.websocket_handshake
    /\ told.snapshots = 0 /\ told'.snapshots = 1

\* The handshake is announced to the owner.
Announces ==
    /\ observation'.started = observation.started
    /\ observation'.stopped = observation.stopped
    /\ observation.websocket_handshake = FALSE
    /\ observation'.websocket_handshake = TRUE
    /\ stop_requested = FALSE /\ stop_requested' = FALSE /\ Error = NoError
    /\ told'.snapshots = told.snapshots

\* What terminal_failure() does is one of these.
LEMMA TerminalFailureTells ==
    ASSUME IInv, NEW n, NEW code, NEW o, NEW stage,
           TerminalFailure(observation, n, code, o, stage), UNCHANGED callerVars
    PROVE  QuietOrFails
<1>1. observation \in ObservationTypes /\ told \in [failures : Nat, snapshots : Nat]
  BY NetFacts
<1>2. CASE Error # NoError
  BY <1>1, <1>2 DEF TerminalFailure, QuietOrFails, SameFlags, Error, callerVars
<1>3. CASE Error = NoError
  BY <1>1, <1>3 DEF TerminalFailure, QuietOrFails, SameFlags, Error, callerVars,
                    ObservationTypes
<1> QED BY <1>2, <1>3

\* And so does a step that leaves the observation alone.
LEMMA SilentTells ==
    ASSUME UNCHANGED <<observation, told, callerVars>>
    PROVE  QuietOrFails
BY DEF QuietOrFails, SameFlags, Error, callerVars

\* The depth request, when it is not done and has a handler, has not told a snapshot.
LEMMA ResponseTells ==
    ASSUME IInv, NEW n, ReceiveDepthResponse(n), UNCHANGED callerVars,
           ~net.op["depth"].done, net.ready # <<>>, Head(net.ready).op = "depth"
    PROVE  QuietOrFails \/ Delivers
<1>1. observation \in ObservationTypes /\ told \in [failures : Nat, snapshots : Nat]
      /\ told.snapshots = 0 /\ net \in Nets
  BY NetFacts
<1>2. observation.websocket_handshake
  <2>1. 1 \in DOMAIN net.ready /\ net.ready[1].op = "depth"
    BY <1>1, TailFacts DEF Nets
  <2> QED BY <2>1 DEF IInv, BegunOK, Idle
<1>3. CASE TerminalFailure(observation, n, "Refused", "depth", Stages)
  BY <1>3, TerminalFailureTells
<1>4. CASE /\ told' = [told EXCEPT !.snapshots = @ + 1]
           /\ observation' = [observation EXCEPT !.rest_depth_fetched = TRUE]
  <2>1. told'.snapshots = 1
    BY <1>1, <1>4
  <2>2. SameFlags /\ Error' = Error
    BY <1>1, <1>4 DEF SameFlags, Error, ObservationTypes
  <2>3. stop_requested' = stop_requested
    BY DEF callerVars
  <2> QED BY <1>1, <1>2, <2>1, <2>2, <2>3 DEF Delivers
<1> QED BY <1>3, <1>4 DEF ReceiveDepthResponse

\* The same of the last piece of a cancelled depth request.
LEMMA HttpsPieceTells ==
    ASSUME IInv, NEW n, HttpsPiece(n), UNCHANGED callerVars,
           ~net.op["depth"].done, net.ready # <<>>, Head(net.ready).op = "depth"
    PROVE  QuietOrFails \/ Delivers
<1>1. \/ \E m : ReceiveDepthResponse(m)
      \/ UNCHANGED <<observation, told>>
  BY Zenon DEF HttpsPiece
<1> QED BY <1>1, ResponseTells, SilentTells

\* Every handler, and what the io_context does by itself.
LEMMA ActiveTells ==
    ASSUME IInv, WebSocketActive
    PROVE  QuietOrFails \/ Announces
<1> DEFINE x == net.op["websocket"]
           n == BeginRead(Disarm(IoDone("websocket"), "websocket"))
           obs == [observation EXCEPT !.websocket_handshake = TRUE,
                                      !.running = TRUE]
           m == [n EXCEPT !.held = @ \cup {"depth"}]
<1>1. /\ ~x.done /\ ~x.cancel_requested /\ x.stage = Stages - 1
      /\ UNCHANGED callerVars
      /\ \/ UNCHANGED <<observation, told>>
         \/ ~stop_requested /\ observation' = obs /\ UNCHANGED told
         \/ ~stop_requested /\ Fails(obs, m, "depth", "Io")
  BY DEF WebSocketActive
<1> HIDE DEF n, m
<1>2. /\ observation \in ObservationTypes /\ told \in [failures : Nat, snapshots : Nat]
      /\ "websocket" \in Ops /\ stop_requested \in BOOLEAN
  BY NetFacts DEF IInv, CallersOK
<1>3. Error = NoError
  <2>1. x.stage > 0
    BY <1>1, TransportAssumption
  <2>2. "websocket" \in net.held
    BY <1>1, <1>2, <2>1 DEF IInv, HeldOK, Cancellable
  <2> QED BY <2>2 DEF IInv, ErrorOK
<1>4. observation.websocket_handshake = FALSE
  <2>1. x.stage # Stages
    BY <1>1, TransportAssumption
  <2> QED BY <1>2, <2>1 DEF IInv, BegunOK, ObservationTypes
<1>5. /\ obs.started = observation.started /\ obs.stopped = observation.stopped
      /\ obs.websocket_handshake = TRUE /\ obs.terminal_error = NoError
      /\ obs \in ObservationTypes
  BY <1>2, <1>3 DEF ObservationTypes, Error
<1> HIDE DEF obs
<1>6. CASE UNCHANGED <<observation, told>>
  BY <1>1, <1>6, SilentTells
<1>7. CASE ~stop_requested /\ observation' = obs /\ UNCHANGED told
  BY <1>1, <1>2, <1>3, <1>4, <1>5, <1>7 DEF Announces, callerVars
<1>8. CASE ~stop_requested /\ Fails(obs, m, "depth", "Io")
  <2>1. /\ observation'.started = obs.started /\ observation'.stopped = obs.stopped
        /\ observation'.websocket_handshake = obs.websocket_handshake
        /\ told'.snapshots = told.snapshots
    BY <1>2, <1>5, <1>8 DEF Fails, TerminalFailure, ObservationTypes
  <2> QED BY <1>1, <1>2, <1>3, <1>4, <1>5, <1>8, <2>1 DEF Announces, callerVars
<1> QED BY <1>1, <1>6, <1>7, <1>8

\* A frame is not told, a refused one is a failure.
LEMMA FrameTells ==
    ASSUME IInv, WebSocketFrame
    PROVE  QuietOrFails
<1>1. observation \in ObservationTypes
  BY NetFacts
<1>2. UNCHANGED callerVars
  BY DEF WebSocketFrame
<1>3. \/ observation' = [observation EXCEPT !.frames = @ + 1] /\ UNCHANGED told
      \/ \E n, code, o, stage : TerminalFailure(observation, n, code, o, stage)
  BY DEF WebSocketFrame, Fails
<1>4. CASE observation' = [observation EXCEPT !.frames = @ + 1] /\ UNCHANGED told
  BY <1>1, <1>2, <1>4 DEF QuietOrFails, SameFlags, Error, callerVars, ObservationTypes
<1> QED BY <1>2, <1>3, <1>4, TerminalFailureTells

\* tls_verified is not part of the contract.
LEMMA StageDoneTells ==
    ASSUME IInv, WebSocketStageDone
    PROVE  QuietOrFails
<1> DEFINE v == net.op["websocket"].stage = Stages - 2
<1>1. observation \in ObservationTypes
  BY NetFacts
<1>2. UNCHANGED <<callerVars, told>> /\ observation' = [observation EXCEPT !.tls_verified = v]
  BY DEF WebSocketStageDone
<1> HIDE DEF v
<1> QED BY <1>1, <1>2 DEF QuietOrFails, SameFlags, Error, callerVars, ObservationTypes

\* A step of the network thread, in the owner's terms.
LEMMA NetworkTells ==
    ASSUME IInv, RunsHandler
    PROVE  QuietOrFails \/ Delivers \/ Announces
<1>1. CASE StartWebsocket
  <2>1. UNCHANGED callerVars
        /\ \/ UNCHANGED <<observation, told>>
           \/ \E n, code, o, stage : TerminalFailure(observation, n, code, o, stage)
    BY <1>1 DEF StartWebsocket, Fails
  <2> QED BY <2>1, SilentTells, TerminalFailureTells
<1>2. CASE BeginCleanShutdown \/ ShutdownBarrier \/ WebSocketIoCancelled \/ HttpsStageDone
           \/ WebSocketTimerCancelled \/ \E o \in Ops : IoAfterDone(o) \/ TimerIsStale(o)
  <2>1. UNCHANGED <<observation, told, callerVars>>
    BY <1>2 DEF BeginCleanShutdown, ShutdownBarrier, WebSocketIoCancelled,
                HttpsStageDone, WebSocketTimerCancelled, IoAfterDone, TimerIsStale
  <2> QED BY <2>1, SilentTells
<1>3. CASE WebSocketIoFails \/ HttpsIoFails \/ \E o \in Ops : StageTimesOut(o)
  <2>1. UNCHANGED callerVars
        /\ \E n, code, o, stage : TerminalFailure(observation, n, code, o, stage)
    BY <1>3 DEF WebSocketIoFails, HttpsIoFails, StageTimesOut, Fails
  <2> QED BY <2>1, TerminalFailureTells
<1>4. CASE HttpsResponse
  <2>1. /\ UNCHANGED callerVars /\ ~net.op["depth"].done /\ net.ready # <<>>
        /\ Head(net.ready).op = "depth"
        /\ ReceiveDepthResponse(Finished(IoDone("depth"), "depth"))
    BY <1>4 DEF HttpsResponse, RunsIo, Runs
  <2> QED BY <2>1, ResponseTells
<1>5. CASE HttpsIoCancelled \/ HttpsTimerCancelled
  <2>1. /\ UNCHANGED callerVars /\ ~net.op["depth"].done /\ net.ready # <<>>
        /\ Head(net.ready).op = "depth" /\ \E n : HttpsPiece(n)
    BY <1>5 DEF HttpsIoCancelled, HttpsTimerCancelled, RunsIo, RunsTimer, Runs
  <2> QED BY <2>1, HttpsPieceTells
<1> QED BY <1>1, <1>2, <1>3, <1>4, <1>5, ActiveTells, FrameTells, StageDoneTells
        DEF RunsHandler

\* Phase, condition by condition.
LEMMA PhaseFacts ==
    ASSUME observation.stopped => stop_requested
    PROVE  /\ observation.stopped => Phase = "stopped"
           /\ ~observation.stopped /\ stop_requested => Phase = "stopping"
           /\ ~stop_requested /\ observation.websocket_handshake => Phase = "live"
           /\ ~stop_requested /\ ~observation.websocket_handshake
              /\ observation.started => Phase = "opening"
           /\ ~stop_requested /\ ~observation.websocket_handshake
              /\ ~observation.started => Phase = "idle"
<1>1. ASSUME observation.stopped PROVE Phase = "stopped"
  BY <1>1, Zenon DEF Phase
<1>2. ASSUME ~observation.stopped, stop_requested PROVE Phase = "stopping"
  BY <1>2, Zenon DEF Phase
<1>3. ASSUME ~stop_requested, observation.websocket_handshake PROVE Phase = "live"
  BY <1>3, Zenon DEF Phase
<1>4. ASSUME ~stop_requested, ~observation.websocket_handshake, observation.started
      PROVE  Phase = "opening"
  BY <1>4, Zenon DEF Phase
<1>5. ASSUME ~stop_requested, ~observation.websocket_handshake, ~observation.started
      PROVE  Phase = "idle"
  BY <1>5, Zenon DEF Phase
<1> QED BY <1>1, <1>2, <1>3, <1>4, <1>5

\* The same of the next state.
LEMMA PhaseNextFacts ==
    ASSUME (observation.stopped)' => stop_requested'
    PROVE  /\ (observation.stopped)' => Phase' = "stopped"
           /\ ~(observation.stopped)' /\ stop_requested' => Phase' = "stopping"
           /\ ~stop_requested' /\ (observation.websocket_handshake)' => Phase' = "live"
           /\ ~stop_requested' /\ ~(observation.websocket_handshake)'
              /\ (observation.started)' => Phase' = "opening"
           /\ ~stop_requested' /\ ~(observation.websocket_handshake)'
              /\ ~(observation.started)' => Phase' = "idle"
<1>1. ASSUME (observation.stopped)' PROVE Phase' = "stopped"
  BY <1>1, Zenon DEF Phase
<1>2. ASSUME ~(observation.stopped)', stop_requested' PROVE Phase' = "stopping"
  BY <1>2, Zenon DEF Phase
<1>3. ASSUME ~stop_requested', (observation.websocket_handshake)' PROVE Phase' = "live"
  BY <1>3, Zenon DEF Phase
<1>4. ASSUME ~stop_requested', ~(observation.websocket_handshake)', (observation.started)'
      PROVE  Phase' = "opening"
  BY <1>4, Zenon DEF Phase
<1>5. ASSUME ~stop_requested', ~(observation.websocket_handshake)', ~(observation.started)'
      PROVE  Phase' = "idle"
  BY <1>5, Zenon DEF Phase
<1> QED BY <1>1, <1>2, <1>3, <1>4, <1>5

\* The life of the transport, when no start() overlaps a stop().
LEMMA LifeInit == Init => LifeOK
BY DEF Init, LifeOK

\* Every step keeps it.
LEMMA LifeNext ==
    ASSUME ~Overlap, IInv, LifeOK, [Next]_vars
    PROVE  LifeOK'
<1>1. /\ pc \in [Stoppers \cup {"starter"} ->
                Carrying \cup {"idle", "starting", "Started", "Stopped", "Failed",
                               "waiting", "returned"}]
      /\ \A t \in Stoppers : pc[t] = "not_started" => stop_in_progress
      /\ thread # "none" <=> observation.started
      /\ observation \in ObservationTypes
  BY DEF IInv, CallersOK, Carrying
<1>2. ASSUME /\ observation'.started = observation.started
             /\ observation'.stopped = observation.stopped
             /\ \A t \in Stoppers : pc'[t] = "not_started" => pc[t] = "not_started"
             /\ thread' \in {thread, "ended"}
      PROVE  LifeOK'
  BY <1>2 DEF LifeOK
<1>3. CASE CallStart
  <2>1. /\ pc["starter"] = "idle" /\ ~stop_in_progress
    BY <1>3 DEF CallStart
  <2>2. \A t \in Stoppers : pc'[t] = pc[t]
    BY <1>1, <1>3, TransportAssumption DEF CallStart
  <2>3. CASE observation.stopped
    BY <1>2, <1>3, <2>2, <2>3 DEF CallStart
  <2>4. CASE ~observation.stopped
    <3>1. ~observation'.stopped
      BY <1>1, <1>3, <2>4 DEF CallStart, ObservationTypes
    <3> QED BY <1>1, <2>1, <2>2, <3>1 DEF LifeOK
  <2> QED BY <2>3, <2>4
<1>4. CASE StartReturns
  <2>1. \A t \in Stoppers : pc'[t] = pc[t]
    BY <1>1, <1>4, TransportAssumption DEF StartReturns
  <2> QED BY <1>2, <1>4, <2>1 DEF StartReturns
<1>5. CASE RunsHandler
  <2>1. pc' = pc /\ thread' = thread
    BY <1>5 DEF RunsHandler, StartWebsocket, BeginCleanShutdown, ShutdownBarrier,
                WebSocketStageDone, WebSocketActive, WebSocketFrame, WebSocketIoFails,
                WebSocketIoCancelled, HttpsStageDone, HttpsResponse, HttpsIoFails,
                HttpsIoCancelled, WebSocketTimerCancelled, HttpsTimerCancelled,
                IoAfterDone, TimerIsStale, StageTimesOut, callerVars
  <2>2. observation'.started = observation.started
        /\ observation'.stopped = observation.stopped
    BY <1>5, NetworkTells DEF QuietOrFails, Delivers, Announces, SameFlags
  <2> QED BY <1>2, <2>1, <2>2
<1>6. CASE ReactorTurn \/ ThreadEnds \/
           \E o \in Ops :
             TimerBecomesDue(o) \/ (\E out \in {"ok", "failed"} : IoBecomesDue(o, out))
  <2>1. pc' = pc /\ observation' = observation /\ thread' \in {thread, "ended"}
    BY <1>6 DEF ReactorTurn, ThreadEnds, TimerBecomesDue, IoBecomesDue, callerVars
  <2> QED BY <1>2, <2>1
<1>7. ASSUME NEW t \in Stoppers, CallStop(t) PROVE LifeOK'
  <2>1. /\ pc[t] = "idle" /\ thread' = thread
        /\ observation'.started = observation.started
        /\ observation'.stopped = observation.stopped
    BY <1>1, <1>7 DEF CallStop, ObservationTypes
  <2>2. \A u \in Stoppers : u # t => pc'[u] = pc[u]
    BY <1>1, <1>7 DEF CallStop
  <2>3. pc'[t] = "not_started" => ~observation.started
    BY <1>1, <1>7 DEF CallStop
  <2> QED BY <2>1, <2>2, <2>3 DEF LifeOK
<1>8. ASSUME NEW t \in Stoppers, StopPosts(t) \/ StopWaiterReturns(t) PROVE LifeOK'
  <2>1. observation' = observation /\ thread' = thread
        /\ \A u \in Stoppers : pc'[u] = "not_started" => pc[u] = "not_started"
    BY <1>1, <1>8 DEF StopPosts, StopWaiterReturns
  <2> QED BY <1>2, <2>1
<1>9. ASSUME NEW t \in Stoppers, StopFinishes(t) PROVE LifeOK'
  <2>1. thread' = thread /\ observation'.started = observation.started
        /\ \A u \in Stoppers : pc'[u] = "not_started" => pc[u] = "not_started"
    BY <1>1, <1>9 DEF StopFinishes, ObservationTypes
  <2>2. thread # "running"
    BY <1>1, <1>9 DEF StopFinishes, LifeOK
  <2> QED BY <2>1, <2>2 DEF LifeOK
<1>10. CASE UNCHANGED vars \/ Quiet
  <2>1. pc' = pc /\ observation' = observation /\ thread' = thread
    BY <1>10 DEF vars, Quiet
  <2> QED BY <1>2, <2>1
<1> QED BY <1>3, <1>4, <1>5, <1>6, <1>7, <1>8, <1>9, <1>10 DEF Next, Network, StopSteps

\* What the contract's variables are, in a state and in the next one.
LEMMA ContractFacts ==
    ASSUME IInv
    PROVE  /\ observation.stopped => stop_requested
           /\ Error = NoError => Error.code = "none" /\ told.failures = 0
           /\ Error # NoError => Error.code \in Causes /\ told.failures = 1
           /\ observation \in ObservationTypes /\ stop_requested \in BOOLEAN
<1>1. NoError.code = "none"
  BY DEF NoError
<1> QED BY <1>1 DEF IInv, CallersOK, ToldOK, ErrorOK

\* The same facts of the next state.
LEMMA ContractNextFacts ==
    ASSUME IInv'
    PROVE  /\ observation'.stopped => stop_requested'
           /\ Error' = NoError => Error'.code = "none" /\ told'.failures = 0
           /\ Error' # NoError => Error'.code \in Causes /\ told'.failures = 1
           /\ observation' \in ObservationTypes /\ stop_requested' \in BOOLEAN
<1>1. NoError.code = "none"
  BY DEF NoError
<1> QED BY <1>1 DEF IInv, CallersOK, ToldOK, ErrorOK

\* A step that the owner does not see, or the first failure.
LEMMA QuietRefines ==
    ASSUME IInv, IInv', QuietOrFails,
           Error' = Error \/ (observation.started /\ ~observation.stopped)
    PROVE  [Contract!ContractNext]_(Contract!contractVars)
<1>1. Phase' = Phase
  BY ContractFacts, ContractNextFacts, PhaseFacts, PhaseNextFacts
     DEF QuietOrFails, SameFlags, ObservationTypes
<1>2. told'.snapshots = told.snapshots
  BY DEF QuietOrFails
<1>3. CASE Error' = Error
  <2>1. told'.failures = told.failures
    BY <1>3, ContractFacts, ContractNextFacts
  <2> QED BY <1>1, <1>2, <1>3, <2>1 DEF Contract!contractVars, Error
<1>4. CASE Error = NoError /\ Error' # NoError
  <2>1. /\ Error.code = "none" /\ told.failures = 0
        /\ Error'.code \in Causes /\ told'.failures = 1
    BY <1>4, ContractFacts, ContractNextFacts
  <2>2. Phase \in {"opening", "live", "stopping"}
    BY <1>4, ContractFacts, PhaseFacts DEF ObservationTypes
  <2>3. Contract!FailsOnce
    BY <1>1, <1>2, <2>1, <2>2 DEF Contract!FailsOnce, Contract!RecordsFailure, Error
  <2> QED BY <2>3 DEF Contract!ContractNext
<1> QED BY <1>3, <1>4 DEF QuietOrFails

\* The one snapshot.
LEMMA DeliveryRefines ==
    ASSUME IInv, IInv', Delivers, ~observation.stopped
    PROVE  [Contract!ContractNext]_(Contract!contractVars)
<1>1. Phase' = Phase /\ Phase \in {"live", "stopping"}
  BY ContractFacts, ContractNextFacts, PhaseFacts, PhaseNextFacts
     DEF Delivers, SameFlags, ObservationTypes
<1>2. told'.failures = told.failures /\ Error' = Error
  BY ContractFacts, ContractNextFacts DEF Delivers
<1>3. Contract!DeliversSnapshot
  BY <1>1, <1>2 DEF Delivers, Contract!DeliversSnapshot, Error
<1> QED BY <1>3 DEF Contract!ContractNext

\* The handshake, whose depth request may fail at once.
LEMMA AnnouncementRefines ==
    ASSUME IInv, IInv', Announces, observation.started
    PROVE  [Contract!ContractNext]_(Contract!contractVars)
<1>1. Phase = "opening" /\ Phase' = "live"
  BY ContractFacts, ContractNextFacts, PhaseFacts, PhaseNextFacts
     DEF Announces, ObservationTypes
<1>2. Error.code = "none" /\ told.failures = 0 /\ told'.snapshots = told.snapshots
  BY ContractFacts DEF Announces
<1>3. CASE Error' = NoError
  <2>1. Error'.code = "none" /\ told'.failures = 0
    BY <1>3, ContractNextFacts
  <2>2. Contract!GoesLive
    BY <1>1, <1>2, <2>1 DEF Contract!GoesLive, Error
  <2> QED BY <2>2 DEF Contract!ContractNext
<1>4. CASE Error' # NoError
  <2>1. Error'.code \in Causes /\ told'.failures = 1
    BY <1>4, ContractNextFacts
  <2>2. Contract!GoesLive
    BY <1>1, <1>2, <2>1 DEF Contract!GoesLive, Contract!RecordsFailure, Error
  <2> QED BY <2>2 DEF Contract!ContractNext
<1> QED BY <1>3, <1>4

\* Every step of the transport is one of the contract's, or a stuttering step.
LEMMA NextRefines ==
    ASSUME IInv, IInv', LifeOK, [Next]_vars
    PROVE  [Contract!ContractNext]_(Contract!contractVars)
<1>1. ASSUME UNCHANGED <<observation, stop_requested, told>>
      PROVE  [Contract!ContractNext]_(Contract!contractVars)
  <2>1. QuietOrFails /\ Error' = Error
    BY <1>1 DEF QuietOrFails, SameFlags, Error
  <2> QED BY <2>1, QuietRefines
<1>2. Running => observation.started /\ ~observation.stopped
  BY DEF Running, LifeOK, IInv, CallersOK
<1>3. CASE RunsHandler
  <2>1. Running
    BY <1>3 DEF RunsHandler, StartWebsocket, BeginCleanShutdown, ShutdownBarrier,
                WebSocketStageDone, WebSocketActive, WebSocketFrame, WebSocketIoFails,
                WebSocketIoCancelled, HttpsStageDone, HttpsResponse, HttpsIoFails,
                HttpsIoCancelled, WebSocketTimerCancelled, HttpsTimerCancelled,
                IoAfterDone, TimerIsStale, StageTimesOut, RunsIo, RunsTimer, Runs
  <2> QED BY <1>2, <1>3, <2>1, NetworkTells, QuietRefines, DeliveryRefines,
             AnnouncementRefines
<1>4. CASE ReactorTurn \/ ThreadEnds \/ StartReturns \/ UNCHANGED vars \/ Quiet
           \/ (\E o \in Ops :
                TimerBecomesDue(o) \/ (\E out \in {"ok", "failed"} : IoBecomesDue(o, out)))
           \/ (\E t \in Stoppers : StopPosts(t) \/ StopWaiterReturns(t))
  <2>1. UNCHANGED <<observation, stop_requested, told>>
    BY <1>4 DEF ReactorTurn, ThreadEnds, StartReturns, Quiet, vars, TimerBecomesDue,
                IoBecomesDue, StopPosts, StopWaiterReturns, callerVars
  <2> QED BY <1>1, <2>1, Zenon
<1>5. CASE CallStart
  <2>1. UNCHANGED <<stop_requested, told>>
    BY <1>5 DEF CallStart
  <2>2. CASE observation.stopped
    BY <1>1, <1>5, <2>1, <2>2 DEF CallStart
  <2>3. CASE ~observation.stopped
    <3>1. observation' = [observation EXCEPT !.started = TRUE] /\ pc["starter"] = "idle"
      BY <1>5, <2>3 DEF CallStart
    <3>2. observation.started = FALSE /\ observation.websocket_handshake = FALSE
      <4>1. net.op["websocket"].stage = 0
        BY <3>1, NoOpFacts DEF IInv, BegunOK, Idle
      <4>2. net.op["websocket"].stage # Stages
        BY <4>1, TransportAssumption
      <4> QED BY <3>1, <4>2, ContractFacts DEF IInv, BegunOK, CallersOK, ObservationTypes
    <3>3. /\ observation'.started = TRUE /\ observation'.stopped = FALSE
          /\ observation'.websocket_handshake = FALSE /\ Error' = Error
      BY <2>3, <3>1, <3>2, ContractFacts DEF ObservationTypes, Error
    <3>4. CASE stop_requested
      <4>1. Phase = "stopping" /\ Phase' = "stopping"
        BY <2>1, <2>3, <3>3, <3>4, PhaseFacts, PhaseNextFacts
      <4> QED BY <2>1, <3>3, <4>1 DEF Contract!contractVars, Error
    <3>5. CASE ~stop_requested
      <4>1. Phase = "idle" /\ Phase' = "opening"
        BY <2>1, <2>3, <3>2, <3>3, <3>5, PhaseFacts, PhaseNextFacts
      <4>2. Contract!Opens
        BY <2>1, <3>3, <4>1 DEF Contract!Opens, Error
      <4> QED BY <4>2 DEF Contract!ContractNext
    <3> QED BY <3>4, <3>5
  <2> QED BY <2>2, <2>3
<1>6. ASSUME NEW t \in Stoppers, CallStop(t)
      PROVE  [Contract!ContractNext]_(Contract!contractVars)
  <2>1. UNCHANGED told
    BY <1>6 DEF CallStop
  <2>2. CASE observation.stopped \/ stop_in_progress
    BY <1>1, <1>6, <2>1, <2>2 DEF CallStop
  <2>3. CASE ~(observation.stopped \/ stop_in_progress)
    <3>1. /\ stop_requested' = TRUE /\ observation' = [observation EXCEPT !.running = FALSE]
      BY <1>6, <2>3 DEF CallStop
    <3>2. ~stop_requested
      BY <2>3 DEF IInv, CallersOK
    <3>3. observation'.stopped = observation.stopped /\ Error' = Error
      BY <3>1, ContractFacts DEF ObservationTypes, Error
    <3>4. Phase \in {"idle", "opening", "live"} /\ Phase' = "stopping"
      BY <2>3, <3>1, <3>2, <3>3, PhaseFacts, PhaseNextFacts
    <3>5. Contract!AsksToStop
      BY <2>1, <3>3, <3>4 DEF Contract!AsksToStop, Error
    <3> QED BY <3>5 DEF Contract!ContractNext
  <2> QED BY <2>2, <2>3
<1>7. ASSUME NEW t \in Stoppers, StopFinishes(t)
      PROVE  [Contract!ContractNext]_(Contract!contractVars)
  <2>1. /\ observation' = [observation EXCEPT !.stopped = TRUE, !.running = FALSE]
        /\ UNCHANGED <<stop_requested, told>> /\ pc[t] \in Carrying
    BY <1>7 DEF StopFinishes, Carrying
  <2>2. stop_requested /\ ~observation.stopped
    BY <2>1 DEF IInv, CallersOK
  <2>3. observation'.stopped = TRUE /\ Error' = Error
    BY <2>1, ContractFacts DEF ObservationTypes, Error
  <2>4. Phase = "stopping" /\ Phase' = "stopped"
    BY <2>1, <2>2, <2>3, PhaseFacts, PhaseNextFacts
  <2>5. Contract!IsStopped
    BY <2>1, <2>3, <2>4 DEF Contract!IsStopped, Error
  <2> QED BY <2>5 DEF Contract!ContractNext
<1> QED BY <1>3, <1>4, <1>5, <1>6, <1>7 DEF Next, Network, StopSteps

\* The initial states are the contract's.
LEMMA InitRefines == Init => Contract!ContractInit
<1> SUFFICES ASSUME Init PROVE Contract!ContractInit
  OBVIOUS
<1>1. /\ observation.stopped = FALSE /\ observation.websocket_handshake = FALSE
      /\ observation.started = FALSE /\ Error = NoError /\ stop_requested = FALSE
      /\ told.failures = 0 /\ told.snapshots = 0
  BY DEF Init, Error
<1>2. Phase = "idle"
  BY <1>1, PhaseFacts
<1> QED BY <1>1, <1>2 DEF Contract!ContractInit, Error, NoError

\* The transport keeps its contract.
THEOREM KeepsContractTheorem ==
    ASSUME ~Overlap
    PROVE  Spec => KeepsContract
<1>1. Init => IInv /\ LifeOK /\ Contract!ContractInit
  BY InitOK, LifeInit, InitRefines
<1>2. IInv /\ LifeOK /\ [Next]_vars => IInv' /\ LifeOK'
  BY NextOK, LifeNext
<1>3. IInv /\ IInv' /\ LifeOK /\ [Next]_vars =>
            [Contract!ContractNext]_(Contract!contractVars)
  BY NextRefines
<1> QED BY <1>1, <1>2, <1>3, PTL DEF Spec, KeepsContract, Contract!ContractSpec
=============================================================================
