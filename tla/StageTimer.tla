----------------------------- MODULE StageTimer -----------------------------
(***************************************************************************)
(* The stage timer that AsyncExchangeInfoGet, AsyncHttpsGet and            *)
(* AsyncWebSocket (src/g4/spot_transport.cpp) each keep: one steady_timer, *)
(* re-armed for every stage, whose waits are told apart by                 *)
(* timeout_generation_.                                                    *)
(*                                                                         *)
(* A timer is a record: generation is timeout_generation_, wait the        *)
(* outstanding async_wait.  Asio completes a cancelled wait with           *)
(* operation_aborted, unless its handler is in the ready queue already:    *)
(* that handler still runs, with success, after the stage it was armed for *)
(* is over.  Generations only ever grow, and a stage takes two of them.    *)
(***************************************************************************)
EXTENDS Naturals, Sequences

\* No wait is outstanding.
NoWait == [generation |-> 0, stage |-> 0, due |-> FALSE]

Waits(stages) ==
    [generation : 1 .. 2 * stages, stage : 1 .. stages, due : BOOLEAN]

NewTimer == [generation |-> 0, wait |-> NoWait]

Timers(stages) ==
    [generation : 0 .. 2 * stages + 2, wait : Waits(stages) \cup {NoWait}]

\* arm_timeout(stage): expires_after() cancels an outstanding wait.
ArmTimeout(timer, stage) ==
    [generation |-> timer.generation + 1,
     wait |-> [generation |-> timer.generation + 1, stage |-> stage,
               due |-> FALSE]]

\* disarm_timeout().
DisarmTimeout(timer) ==
    [generation |-> timer.generation + 1, wait |-> NoWait]

\* timer_.cancel() alone keeps the generation.
CancelTimer(timer) == [timer EXCEPT !.wait = NoWait]

\* The wait that a cancellation completes with operation_aborted.
AbortedWaits(timer) ==
    IF timer.wait = NoWait THEN <<>> ELSE <<timer.wait>>

\* The timer's clock runs out.
Expires(timer) == [timer EXCEPT !.wait.due = TRUE]

\* The check that every wait handler makes first.
IsCurrent(timer, generation) == generation = timer.generation
=============================================================================
