------------------------- MODULE MarketRuntimeProofs -------------------------
(***************************************************************************)
(* Proofs about MarketRuntime for every number of sessions and every       *)
(* capacity and bound.  Three invariants, each resting on the one before:  *)
(*                                                                         *)
(* TicketInv: the tickets of the ingress queue are accounted for, and the  *)
(* FIFO barrier of observe() never shows a Live book in front of an        *)
(* ingress overflow.  It needs                                             *)
(*   - the types of what the queue's bookkeeping touches;                  *)
(*   - ItemInHand: where in the owner's loop an item is in its hand;       *)
(*   - ResetAlone: while a reset is pending the source is joined, which is *)
(*     why no input can slip in between the owner's choice of the reset    *)
(*     and its commit (the one place where accepting_ becomes true again); *)
(*   - OverflowHolds: from the submit that overflows until the owner takes *)
(*     the fault the ingress is closed, the owner is not in a reset, and   *)
(*     either an admitted input is still unprocessed or the published      *)
(*     state is one that cannot become Live.                               *)
(*                                                                         *)
(* GenInv: nothing of an old connection generation survives its reset.     *)
(*                                                                         *)
(* SessionInv: every open channel is on the owner's list, and its log      *)
(* (acceptance, snapshot, updates) continues without a hole up to the      *)
(* version of the book it is served from, or ends in one gap notice.       *)
(***************************************************************************)
EXTENDS MarketRuntime, FiniteSetTheorems, TLAPS

TicketTypes ==
    /\ life \in {"NotStarted", "Running", "Stopping", "Stopped"}
    /\ state \in RuntimeStates
    /\ accepting \in BOOLEAN
    /\ ingress \in Seq(Items)
    /\ lastAdmitted \in Nat /\ processed \in Nat
    /\ pendingFault \in {"None", "IngressOverflow"}
    /\ reset \in [phase : {"None", "Pending", "Done"},
                  kind : {"None", "Recovery", "Planned"}, target : Nat,
                  result : {"None", "Reset", "InvalidState", "Stopped"}]
    /\ pc \in OwnerSteps /\ item \in Items
    /\ projection \in [status : Statuses, ver : Nat]
    /\ source \in [gen : Nat, phase : {"Fresh", "On", "Joined"},
                   fetched : BOOLEAN]

ItemSteps == {"process", "replay", "publishReplay", "publish", "finish"}

ItemInHand ==
    /\ pc \in ItemSteps => item # NoItem
    /\ pc \notin ItemSteps \cup {"fault"} => item = NoItem
    /\ item # NoItem => item.ticket \in 1..lastAdmitted

\* life follows the owner thread, and a reset in progress is still pending.
OwnerAlive ==
    /\ life = "NotStarted" => pc = "down" /\ ~accepting
    /\ life = "Stopped" => pc \in {"down", "exited"}
    /\ pc = "down" => life \in {"NotStarted", "Stopped"}
    /\ pc = "exited" => pendingFault = "None" /\ life \in {"Stopping", "Stopped"}
    /\ pc \in {"reset", "resetCommit"} => reset.phase = "Pending"

ResetAlone == reset.phase # "None" => source.phase = "Joined"

\* A published state that only a reset can turn into Live.
Settled ==
    \/ state \in {"Faulted", "Stopping", "Stopped"}
    \/ state = "NeedsResync" /\ projection.status = "NeedsResync"

OverflowHolds ==
    pendingFault # "None" =>
        /\ ~accepting
        /\ pc \notin {"down", "exited", "reset", "resetCommit"}
        /\ ingress # <<>> \/ Settled

TicketInv ==
    /\ TicketTypes /\ ItemInHand /\ OwnerAlive /\ ResetAlone
    /\ TicketsAccountedFor /\ OverflowHolds

-----------------------------------------------------------------------------
\* A runtime that was just constructed has an empty queue and no ticket.
LEMMA TicketInit == Init => TicketInv
<1> SUFFICES ASSUME Init PROVE TicketInv
  OBVIOUS
<1>1. TicketTypes
  <2>1. reset = NoReset /\ item = NoItem /\ ingress = <<>>
    BY DEF Init
  <2>2. /\ ingress \in Seq(Items) /\ item \in Items
        /\ reset \in [phase : {"None", "Pending", "Done"},
                      kind : {"None", "Recovery", "Planned"}, target : Nat,
                      result : {"None", "Reset", "InvalidState", "Stopped"}]
    BY <2>1 DEF NoReset, NoItem, Items
  <2> QED BY <2>2 DEF Init, TicketTypes, RuntimeStates, OwnerSteps, Statuses
<1>2. ItemInHand
  BY DEF Init, ItemInHand, ItemSteps
<1>3. OwnerAlive /\ ResetAlone /\ OverflowHolds
  BY DEF Init, OwnerAlive, ResetAlone, OverflowHolds, Settled, NoReset
<1>4. TicketsAccountedFor
  BY DEF Init, TicketsAccountedFor
<1> QED BY <1>1, <1>2, <1>3, <1>4 DEF TicketInv

\* submit() keeps the tickets of the queue consecutive, and an overflow leaves a
\* full queue behind it.  While the owner resets nobody submits into it.
LEMMA SubmitKeeps ==
    ASSUME TicketInv, NEW kind \in Inputs, Submit(kind),
           UNCHANGED <<life, state, pc, item, projection, reset>>,
           reset.phase = "None"
    PROVE  /\ accepting' \in BOOLEAN /\ ingress' \in Seq(Items)
           /\ lastAdmitted' \in Nat /\ processed' \in Nat
           /\ pendingFault' \in {"None", "IngressOverflow"}
           /\ accepting' => accepting
           /\ TicketsAccountedFor' /\ OverflowHolds'
<1> USE DEF TicketInv, TicketTypes
<1>1. CASE SubmitResult = "Accepted"
  <2> DEFINE new == [ticket |-> lastAdmitted + 1, kind |-> kind,
                     gen |-> source.gen]
  <2>1. /\ ingress' = Append(ingress, new) /\ lastAdmitted' = lastAdmitted + 1
        /\ accepting' = accepting /\ UNCHANGED <<pendingFault, processed>>
    BY <1>1 DEF Submit
  <2>2. new \in Items
    BY DEF Items, Inputs
  <2>3. accepting
    BY <1>1 DEF SubmitResult
  <2>4. /\ ingress' \in Seq(Items) /\ Len(ingress') = Len(ingress) + 1
        /\ \A i \in 1..Len(ingress) : ingress'[i] = ingress[i]
        /\ ingress'[Len(ingress) + 1] = new
    BY <2>1, <2>2
  <2>5. TicketsAccountedFor'
    <3>1. ASSUME NEW i \in 1..Len(ingress')
          PROVE  ingress'[i].ticket = lastAdmitted' - Len(ingress') + i
      <4>1. CASE i = Len(ingress) + 1
        BY <4>1, <2>1, <2>4
      <4>2. CASE i \in 1..Len(ingress)
        BY <4>2, <2>1, <2>4 DEF TicketsAccountedFor
      <4> QED BY <4>1, <4>2, <2>4
    <3>2. CASE item = NoItem
      BY <3>1, <3>2, <2>1, <2>4 DEF TicketsAccountedFor
    <3>3. CASE item # NoItem
      BY <3>1, <3>3, <2>1, <2>3, <2>4 DEF TicketsAccountedFor, Items
    <3> QED BY <3>2, <3>3
  <2> QED BY <2>1, <2>3, <2>4, <2>5 DEF OverflowHolds, Settled
<1>2. CASE SubmitResult = "Full"
  <2>1. /\ UNCHANGED <<ingress, lastAdmitted, processed>>
        /\ accepting' = FALSE /\ pendingFault' = "IngressOverflow"
    BY <1>2 DEF Submit
  <2>2. /\ life = "Running" /\ accepting /\ Len(ingress) = IngressCapacity
    BY <1>2 DEF SubmitResult
  <2>3. ingress # <<>>
    BY <2>2, RuntimeAssumption
  <2>4. TicketsAccountedFor'
    BY <2>1, <2>2 DEF TicketsAccountedFor
  <2>5. pc \notin {"down", "exited", "reset", "resetCommit"}
    BY <2>2 DEF OwnerAlive
  <2> QED BY <2>1, <2>2, <2>3, <2>4, <2>5 DEF OverflowHolds, Settled
<1>3. CASE SubmitResult \notin {"Accepted", "Full"}
  <2>1. UNCHANGED <<ingress, lastAdmitted, processed, accepting, pendingFault>>
    BY <1>3 DEF Submit
  <2> QED BY <2>1 DEF TicketsAccountedFor, OverflowHolds, Settled
<1> QED BY <1>1, <1>2, <1>3

\* discard_ingress_locked() moves processed_ticket_ past what it throws away.
LEMMA DiscardKeeps ==
    ASSUME TicketInv, DiscardIngress, accepting' = FALSE,
           UNCHANGED <<lastAdmitted, item>>
    PROVE  ingress' = <<>> /\ processed' \in Nat /\ TicketsAccountedFor'
<1> USE DEF TicketInv, TicketTypes
<1>1. ingress' = <<>>
  BY DEF DiscardIngress
<1>2. CASE ingress = <<>>
  <2>1. processed' = processed
    BY <1>2 DEF DiscardIngress
  <2> QED BY <1>1, <1>2, <2>1 DEF TicketsAccountedFor
<1>3. CASE ingress # <<>>
  <2>1. Len(ingress) \in Nat \ {0}
    BY <1>3
  <2>2. ingress[Len(ingress)].ticket = lastAdmitted
    BY <2>1 DEF TicketsAccountedFor
  <2>3. processed <= lastAdmitted
    BY <1>3, <2>1 DEF TicketsAccountedFor, Items
  <2>4. processed' = lastAdmitted
    BY <1>3, <2>2, <2>3 DEF DiscardIngress
  <2> QED BY <1>1, <2>4 DEF TicketsAccountedFor
<1> QED BY <1>2, <1>3

\* publish_projection_state() either leaves the queue alone or empties it, and
\* never turns a state behind which an overflow hides into Live.
LEMMA PublishKeeps ==
    ASSUME TicketInv, PublishProjectionState, pc \in ItemSteps,
           UNCHANGED <<item, projection>>, pc' \in ItemSteps
    PROVE  /\ state' \in RuntimeStates /\ accepting' \in BOOLEAN
           /\ ingress' \in Seq(Items) /\ processed' \in Nat
           /\ TicketsAccountedFor' /\ OverflowHolds'
<1> USE DEF TicketInv, TicketTypes
<1>1. /\ UNCHANGED <<life, lastAdmitted, pendingFault>>
      /\ state' = IF state \in {"Faulted", "Stopping", "Stopped"} THEN state
                  ELSE state_for_projection(projection.status)
  BY DEF PublishProjectionState
<1>2. state' \in RuntimeStates
  BY <1>1 DEF state_for_projection, RuntimeStates, Statuses
<1>3. CASE projection.status = "NeedsResync"
  <2>1. accepting' = FALSE /\ DiscardIngress
    BY <1>3 DEF PublishProjectionState
  <2>2. ingress' = <<>> /\ processed' \in Nat /\ TicketsAccountedFor'
    BY <1>1, <2>1, DiscardKeeps
  <2>3. OverflowHolds'
    BY <1>1, <1>3, <2>1 DEF OverflowHolds, Settled, state_for_projection, ItemSteps
  <2>4. ingress' \in Seq(Items)
    BY <2>2
  <2>5. accepting' \in BOOLEAN
    BY <2>1, Zenon
  <2> QED BY <1>2, <2>2, <2>3, <2>4, <2>5
<1>4. CASE projection.status # "NeedsResync"
  <2>1. UNCHANGED <<accepting, ingress, processed>>
    BY <1>4 DEF PublishProjectionState
  <2>2. TicketsAccountedFor'
    BY <1>1, <2>1 DEF TicketsAccountedFor
  <2>3. OverflowHolds'
    BY <1>1, <1>4, <2>1 DEF OverflowHolds, Settled, ItemSteps
  <2> QED BY <1>2, <2>1, <2>2, <2>3
<1> QED BY <1>3, <1>4

\* Whatever apply_update() does, a Projection that has lost its sequence stays so.
LEMMA ApplyShape ==
    ASSUME TicketTypes, NEW gen, NEW next, ApplyUpdate(gen, next)
    PROVE  /\ projection' \in [status : Statuses, ver : Nat]
           /\ projection.status = "NeedsResync" => projection' = projection
           /\ pc' \in {next, "fault"}
<1> USE DEF TicketTypes
<1>1. CASE ApplyFaults(gen)
  BY <1>1 DEF ApplyFaults, BeginFault
<1>2. CASE ApplyFansOut(gen, next)
  <2>1. /\ projection.status \in {"AwaitingBridge", "Synchronized"}
        /\ projection' = [status |-> "Synchronized", ver |-> projection.ver + 1]
    BY <1>2 DEF ApplyFansOut
  <2>2. pc' \in {next, "fault"}
    BY <1>2 DEF ApplyFansOut, BeginFault
  <2> QED BY <2>1, <2>2 DEF Statuses
<1>3. CASE ApplyIgnores(gen, next)
  BY <1>3 DEF ApplyIgnores
<1>4. CASE ApplyFindsGap(gen, next)
  BY <1>4 DEF ApplyFindsGap, Statuses
<1> QED BY <1>1, <1>2, <1>3, <1>4 DEF ApplyUpdate

-----------------------------------------------------------------------------
\* What the queue's bookkeeping depends on.
ticketVars == <<life, state, accepting, ingress, lastAdmitted, processed,
                pendingFault, reset, pc, item, projection, source>>

\* Steps of callers and handlers that leave the queue and the owner alone.
LEMMA Untouched == TicketInv /\ UNCHANGED ticketVars => TicketInv'
BY DEF TicketInv, ticketVars, TicketTypes, ItemInHand, OwnerAlive, ResetAlone,
       TicketsAccountedFor, OverflowHolds, Settled

\* Steps that move the owner without touching the queue.
LEMMA OwnerMoves ==
    ASSUME TicketInv, pc' \in OwnerSteps, pc # "down", pc # "exited",
           pc' \notin {"down", "exited", "reset", "resetCommit"},
           pc' \in ItemSteps => pc \in ItemSteps,
           pc \in ItemSteps => pc' \in ItemSteps \cup {"fault"},
           pc # "fault",
           UNCHANGED <<life, state, accepting, ingress, lastAdmitted, processed,
                       pendingFault, reset, item, source>>,
           projection' \in [status : Statuses, ver : Nat],
           projection.status = "NeedsResync" => projection' = projection
    PROVE  TicketInv'
<1> USE DEF TicketInv
<1>1. TicketTypes'
  BY DEF TicketTypes
<1>2. ItemInHand'
  BY DEF ItemInHand, ItemSteps
<1>3. OwnerAlive' /\ ResetAlone'
  BY DEF OwnerAlive, ResetAlone
<1>4. TicketsAccountedFor'
  BY DEF TicketsAccountedFor
<1>5. OverflowHolds'
  BY DEF OverflowHolds, Settled
<1> QED BY <1>1, <1>2, <1>3, <1>4, <1>5

\* TicketInv is inductive.
LEMMA TicketStep == TicketInv /\ [Next]_vars => TicketInv'
<1> SUFFICES ASSUME TicketInv, [Next]_vars PROVE TicketInv'
  OBVIOUS
<1> USE DEF lifeVars, ingressVars, requestVars, ownerVars, bookVars, envVars
<1>1. CASE Owner
  <2>1. ASSUME OwnerShutsPublication \/ OwnerSweeps \/ OwnerCapturesSnapshot
               \/ OwnerChecksAdmission \/ OwnerStagesAdmission
               \/ OwnerTakesAdmission \/ OwnerTakesSnapshot
        PROVE  TicketInv'
    <3>1. /\ pc \in {"select", "snapshot", "admit", "stage"}
          /\ pc' \in {"select", "snapshot", "admit", "stage"}
          /\ UNCHANGED <<life, state, accepting, ingress, lastAdmitted,
                         processed, pendingFault, reset, item, source,
                         projection>>
      BY <2>1 DEF OwnerShutsPublication, OwnerSweeps, OwnerCapturesSnapshot,
                  OwnerChecksAdmission, OwnerStagesAdmission, RefuseServing,
                  OwnerTakesAdmission, OwnerTakesSnapshot
    <3> QED BY <3>1, OwnerMoves DEF TicketInv, TicketTypes, OwnerSteps, ItemSteps
  <2>2. CASE OwnerTakesFault
    <3>1. /\ pc = "select" /\ pc' = "fault" /\ pendingFault' = "None"
          /\ UNCHANGED <<life, state, accepting, ingress, lastAdmitted,
                         processed, reset, item, source, projection>>
      BY <2>2 DEF OwnerTakesFault, BeginFault
    <3>2. TicketTypes'
      BY <3>1 DEF TicketInv, TicketTypes, OwnerSteps
    <3>3. ItemInHand' /\ OwnerAlive' /\ ResetAlone' /\ OverflowHolds'
      BY <3>1 DEF TicketInv, ItemInHand, ItemSteps, OwnerAlive, ResetAlone,
                  OverflowHolds, Settled
    <3>4. TicketsAccountedFor'
      BY <3>1 DEF TicketInv, TicketsAccountedFor
    <3> QED BY <3>2, <3>3, <3>4 DEF TicketInv
  <2>3. CASE OwnerTakesReset
    <3>1. /\ pc = "select" /\ pc' = "reset" /\ pendingFault = "None"
          /\ reset.phase = "Pending"
          /\ UNCHANGED <<life, state, accepting, ingress, lastAdmitted,
                         processed, pendingFault, reset, item, source,
                         projection>>
      BY <2>3 DEF OwnerTakesReset, reset_ready
    <3>2. TicketTypes'
      BY <3>1 DEF TicketInv, TicketTypes, OwnerSteps
    <3>3. ItemInHand' /\ OwnerAlive' /\ ResetAlone' /\ OverflowHolds'
      BY <3>1 DEF TicketInv, ItemInHand, ItemSteps, OwnerAlive, ResetAlone,
                  OverflowHolds, Settled
    <3>4. TicketsAccountedFor'
      BY <3>1 DEF TicketInv, TicketsAccountedFor
    <3> QED BY <3>2, <3>3, <3>4 DEF TicketInv
  <2>4. CASE OwnerTakesItem
    <3>1. /\ pc = "select" /\ pc' = "process" /\ pendingFault = "None"
          /\ ingress # <<>> /\ item' = Head(ingress) /\ ingress' = Tail(ingress)
          /\ UNCHANGED <<life, state, accepting, lastAdmitted, processed,
                         pendingFault, reset, source, projection>>
      BY <2>4 DEF OwnerTakesItem, NoControlReady
    <3>2. /\ item = NoItem /\ processed + Len(ingress) = lastAdmitted
          /\ Len(ingress) \in Nat \ {0} /\ ingress \in Seq(Items)
          /\ lastAdmitted \in Nat /\ processed \in Nat
      BY <3>1 DEF TicketInv, ItemInHand, ItemSteps, TicketsAccountedFor,
                  TicketTypes
    <3>3. /\ item' = ingress[1] /\ item' \in Items /\ ingress' \in Seq(Items)
          /\ Len(ingress') = Len(ingress) - 1
          /\ \A i \in 1..Len(ingress') : ingress'[i] = ingress[i + 1]
      BY <3>1, <3>2
    <3>4. item'.ticket = processed + 1 /\ item'.ticket = lastAdmitted - Len(ingress')
      BY <3>2, <3>3 DEF TicketInv, TicketsAccountedFor
    <3>5. item' # NoItem
      BY <3>2, <3>4 DEF NoItem
    <3>6. TicketTypes'
      BY <3>1, <3>3 DEF TicketInv, TicketTypes, OwnerSteps
    <3>7. ItemInHand'
      BY <3>1, <3>2, <3>3, <3>4, <3>5 DEF ItemInHand, ItemSteps
    <3>8. OwnerAlive' /\ ResetAlone' /\ OverflowHolds'
      BY <3>1 DEF TicketInv, OwnerAlive, ResetAlone, OverflowHolds, Settled
    <3>9. TicketsAccountedFor'
      <4>1. ASSUME NEW i \in 1..Len(ingress')
            PROVE  ingress'[i].ticket = lastAdmitted' - Len(ingress') + i
        BY <3>1, <3>2, <3>3 DEF TicketInv, TicketsAccountedFor
      <4> QED BY <4>1, <3>1, <3>4, <3>5 DEF TicketsAccountedFor
    <3> QED BY <3>6, <3>7, <3>8, <3>9 DEF TicketInv
  <2>5. CASE OwnerExits
    <3>1. /\ pc = "select" /\ pc' = "exited" /\ pendingFault = "None"
          /\ life = "Stopping" /\ state' = "Stopped"
          /\ reset' = IF reset.phase = "Pending"
                      THEN [reset EXCEPT !.phase = "Done", !.result = "Stopped"]
                      ELSE reset
          /\ UNCHANGED <<life, accepting, ingress, lastAdmitted, processed,
                         pendingFault, item, source, projection>>
      BY <2>5 DEF OwnerExits, NoControlReady
    <3>2. TicketTypes'
      BY <3>1 DEF TicketInv, TicketTypes, OwnerSteps, RuntimeStates
    <3>3. ItemInHand' /\ OwnerAlive' /\ ResetAlone' /\ OverflowHolds'
      BY <3>1 DEF TicketInv, ItemInHand, ItemSteps, OwnerAlive, ResetAlone,
                  OverflowHolds, Settled, TicketTypes
    <3>4. TicketsAccountedFor'
      BY <3>1 DEF TicketInv, TicketsAccountedFor
    <3> QED BY <3>2, <3>3, <3>4 DEF TicketInv
  <2>6. CASE OwnerResets
    <3>1. /\ pc = "reset" /\ pendingFault = "None"
          /\ UNCHANGED <<life, state, accepting, ingress, lastAdmitted,
                         processed, pendingFault, item, source>>
          /\ \/ /\ pc' = "resetCommit" /\ UNCHANGED reset
                /\ projection' = [status |-> "AwaitingBaseline", ver |-> 0]
             \/ /\ pc' = "select" /\ UNCHANGED projection
                /\ reset' = [reset EXCEPT !.phase = "Done",
                                          !.result = "InvalidState"]
      BY <2>6 DEF OwnerResets, TicketInv, OverflowHolds, Settled
    <3>2. TicketTypes'
      <4>1. projection' \in [status : Statuses, ver : Nat]
        BY <3>1 DEF TicketInv, TicketTypes, Statuses
      <4>2. reset' \in [phase : {"None", "Pending", "Done"},
                        kind : {"None", "Recovery", "Planned"}, target : Nat,
                        result : {"None", "Reset", "InvalidState", "Stopped"}]
        BY <3>1 DEF TicketInv, TicketTypes
      <4> QED BY <3>1, <4>1, <4>2 DEF TicketInv, TicketTypes, OwnerSteps
    <3>3. ItemInHand' /\ OwnerAlive' /\ ResetAlone' /\ OverflowHolds'
      BY <3>1 DEF TicketInv, ItemInHand, ItemSteps, OwnerAlive, ResetAlone,
                  OverflowHolds, Settled, TicketTypes
    <3>4. TicketsAccountedFor'
      BY <3>1 DEF TicketInv, TicketsAccountedFor
    <3> QED BY <3>2, <3>3, <3>4 DEF TicketInv
  <2>7. CASE OwnerCommitsReset
    <3>1. /\ pc = "resetCommit" /\ pc' = "select" /\ accepting' = TRUE
          /\ pendingFault = "None" /\ state' = "Buffering"
          /\ reset' = [reset EXCEPT !.phase = "Done", !.result = "Reset"]
          /\ UNCHANGED <<life, ingress, lastAdmitted, processed, pendingFault,
                         item, source, projection>>
      BY <2>7 DEF OwnerCommitsReset, TicketInv, OverflowHolds, Settled
    <3>2. accepting' \in BOOLEAN
      BY <3>1, Zenon
    <3>3. TicketTypes'
      BY <3>1, <3>2 DEF TicketInv, TicketTypes, OwnerSteps, RuntimeStates
    <3>4. ItemInHand' /\ OwnerAlive' /\ ResetAlone' /\ OverflowHolds'
      BY <3>1 DEF TicketInv, ItemInHand, ItemSteps, OwnerAlive, ResetAlone,
                  OverflowHolds, Settled, TicketTypes
    <3>5. item = NoItem
      BY <3>1 DEF TicketInv, ItemInHand, ItemSteps
    <3>6. TicketsAccountedFor'
      BY <3>1, <3>5 DEF TicketInv, TicketsAccountedFor
    <3> QED BY <3>3, <3>4, <3>6 DEF TicketInv
  <2>8. ASSUME OwnerBuffersUpdate \/ OwnerAppliesUpdate \/ OwnerInstallsSnapshot
               \/ OwnerReplays \/ OwnerTakesFailure
        PROVE  TicketInv'
    <3>1. /\ pc \in {"process", "replay"}
          /\ UNCHANGED <<life, state, accepting, ingress, lastAdmitted,
                         processed, pendingFault, reset, item, source>>
      BY <2>8 DEF OwnerBuffersUpdate, OwnerAppliesUpdate, OwnerInstallsSnapshot,
                  OwnerReplays, OwnerTakesFailure
    <3>2. /\ projection' \in [status : Statuses, ver : Nat]
          /\ projection.status = "NeedsResync" => projection' = projection
          /\ pc' \in {"publish", "publishReplay", "replay", "fault"}
      <4>1. CASE OwnerBuffersUpdate
        BY <4>1 DEF OwnerBuffersUpdate, BeginFault, TicketInv, TicketTypes
      <4>2. CASE OwnerAppliesUpdate
        BY <4>2, ApplyShape DEF OwnerAppliesUpdate, TicketInv
      <4>3. CASE OwnerInstallsSnapshot
        BY <4>3 DEF OwnerInstallsSnapshot, BeginFault, TicketInv, TicketTypes,
                    Statuses
      <4>4. CASE OwnerReplays
        BY <4>4, ApplyShape DEF OwnerReplays, TicketInv
      <4>5. CASE OwnerTakesFailure
        BY <4>5 DEF OwnerTakesFailure, BeginFault, TicketInv, TicketTypes
      <4> QED BY <2>8, <4>1, <4>2, <4>3, <4>4, <4>5
    <3> QED BY <3>1, <3>2, OwnerMoves DEF OwnerSteps, ItemSteps
  <2>9. ASSUME OwnerPublishesReplay \/ OwnerPublishes
        PROVE  TicketInv'
    <3>1. /\ pc \in {"publish", "publishReplay", "replay"}
          /\ pc' \in {"publish", "replay", "finish"}
          /\ PublishProjectionState
          /\ UNCHANGED <<reset, item, source, projection>>
      BY <2>9 DEF OwnerPublishesReplay, OwnerPublishes
    <3>2. UNCHANGED <<life, lastAdmitted, pendingFault>>
      BY <3>1 DEF PublishProjectionState
    <3>3. /\ state' \in RuntimeStates /\ accepting' \in BOOLEAN
          /\ ingress' \in Seq(Items) /\ processed' \in Nat
          /\ TicketsAccountedFor' /\ OverflowHolds'
      BY <3>1, PublishKeeps DEF ItemSteps
    <3>4. TicketTypes'
      BY <3>1, <3>2, <3>3 DEF TicketInv, TicketTypes, OwnerSteps
    <3>5. ItemInHand' /\ OwnerAlive' /\ ResetAlone'
      BY <3>1, <3>2 DEF TicketInv, ItemInHand, ItemSteps, OwnerAlive, ResetAlone
    <3> QED BY <3>3, <3>4, <3>5 DEF TicketInv
  <2>10. CASE OwnerPublishesFault
    <3>1. /\ pc = "fault" /\ pc' = (IF item = NoItem THEN "select" ELSE "finish")
          /\ accepting' = FALSE /\ state' = "Faulted" /\ DiscardIngress
          /\ UNCHANGED <<life, lastAdmitted, pendingFault, reset, item, source,
                         projection>>
      BY <2>10 DEF OwnerPublishesFault
    <3>2. ingress' = <<>> /\ processed' \in Nat /\ TicketsAccountedFor'
      BY <3>1, DiscardKeeps
    <3>3. accepting' \in BOOLEAN
      BY <3>1, Zenon
    <3>4. TicketTypes'
      BY <3>1, <3>2, <3>3 DEF TicketInv, TicketTypes, OwnerSteps, RuntimeStates
    <3>5. ItemInHand' /\ OwnerAlive' /\ ResetAlone' /\ OverflowHolds'
      BY <3>1 DEF TicketInv, ItemInHand, ItemSteps, OwnerAlive, ResetAlone,
                  OverflowHolds, Settled
    <3> QED BY <3>2, <3>4, <3>5 DEF TicketInv
  <2>11. CASE OwnerFinishes
    <3>1. /\ pc = "finish" /\ pc' = "select" /\ item' = NoItem
          /\ processed' = IF processed > item.ticket THEN processed
                                                     ELSE item.ticket
          /\ UNCHANGED <<life, state, accepting, ingress, lastAdmitted,
                         pendingFault, reset, source, projection>>
      BY <2>11 DEF OwnerFinishes
    <3>2. item # NoItem /\ item.ticket \in 1..lastAdmitted
      BY <3>1 DEF TicketInv, ItemInHand, ItemSteps
    <3>3. processed' + Len(ingress) = lastAdmitted /\ processed' \in Nat
      BY <3>1, <3>2 DEF TicketInv, TicketsAccountedFor, TicketTypes
    <3>4. TicketsAccountedFor'
      BY <3>1, <3>3 DEF TicketInv, TicketsAccountedFor
    <3>5. TicketTypes'
      BY <3>1, <3>3 DEF TicketInv, TicketTypes, OwnerSteps, NoItem, Items
    <3>6. ItemInHand' /\ OwnerAlive' /\ ResetAlone' /\ OverflowHolds'
      BY <3>1 DEF TicketInv, ItemInHand, ItemSteps, OwnerAlive, ResetAlone,
                  OverflowHolds, Settled
    <3> QED BY <3>4, <3>5, <3>6 DEF TicketInv
  <2> QED BY <1>1, <2>1, <2>2, <2>3, <2>4, <2>5, <2>6, <2>7, <2>8, <2>9, <2>10,
             <2>11 DEF Owner
<1>2. CASE Source \/ CoordinatorReflectsFailure
  <2>1. ASSUME NEW kind \in Inputs, Submit(kind),
               source' \in [gen : Nat, phase : {"Fresh", "On", "Joined"},
                            fetched : BOOLEAN],
               reset.phase = "None",
               UNCHANGED <<life, state, pc, item, projection, reset>>
        PROVE  TicketInv'
    <3>1. /\ accepting' \in BOOLEAN /\ ingress' \in Seq(Items)
          /\ lastAdmitted' \in Nat /\ processed' \in Nat
          /\ pendingFault' \in {"None", "IngressOverflow"}
          /\ accepting' => accepting
          /\ TicketsAccountedFor' /\ OverflowHolds'
      BY <2>1, SubmitKeeps
    <3>2. lastAdmitted' >= lastAdmitted
      BY <2>1 DEF Submit, TicketInv, TicketTypes
    <3>3. TicketTypes'
      BY <2>1, <3>1 DEF TicketInv, TicketTypes
    <3>4. ItemInHand'
      BY <2>1, <3>1, <3>2 DEF TicketInv, TicketTypes, ItemInHand
    <3>5. OwnerAlive' /\ ResetAlone'
      BY <2>1, <3>1 DEF TicketInv, OwnerAlive, ResetAlone, OverflowHolds, Settled
    <3> QED BY <3>1, <3>3, <3>4, <3>5 DEF TicketInv
  <2>2. ASSUME SourceConnects \/ SourceJoined
        PROVE  TicketInv'
    <3>1. /\ source.phase # "Joined"
          /\ source' \in [gen : Nat, phase : {"Fresh", "On", "Joined"},
                           fetched : BOOLEAN]
          /\ UNCHANGED <<life, state, accepting, ingress, lastAdmitted,
                         processed, pendingFault, reset, pc, item, projection>>
      BY <2>2 DEF SourceConnects, SourceJoined, TicketInv, TicketTypes
    <3>2. TicketTypes'
      BY <3>1 DEF TicketInv, TicketTypes
    <3>3. ItemInHand' /\ OwnerAlive' /\ ResetAlone' /\ OverflowHolds'
      BY <3>1 DEF TicketInv, ItemInHand, ItemSteps, OwnerAlive, ResetAlone,
                  OverflowHolds, Settled
    <3>4. TicketsAccountedFor'
      BY <3>1 DEF TicketInv, TicketsAccountedFor
    <3> QED BY <3>2, <3>3, <3>4 DEF TicketInv
  <2>3. ASSUME NEW kind \in {"Depth", "Snapshot"}, SourceSubmits(kind)
        PROVE  TicketInv'
    <3>1. kind \in Inputs /\ Submit(kind) /\ reset.phase = "None"
      BY <2>3 DEF SourceSubmits, Inputs, TicketInv, ResetAlone
    <3>2. source' \in [gen : Nat, phase : {"Fresh", "On", "Joined"},
                       fetched : BOOLEAN]
      BY <2>3 DEF SourceSubmits, TicketInv, TicketTypes
    <3>3. UNCHANGED <<life, state, pc, item, projection, reset>>
      BY <2>3 DEF SourceSubmits
    <3> QED BY <3>1, <3>2, <3>3, <2>1
  <2>4. ASSUME NEW kind \in {"TransportFailure", "SnapshotFailure"},
               SourceFails(kind)
        PROVE  TicketInv'
    <3>1. kind \in Inputs /\ Submit(kind) /\ reset.phase = "None"
      BY <2>4 DEF SourceFails, Inputs, TicketInv, ResetAlone
    <3>2. source' \in [gen : Nat, phase : {"Fresh", "On", "Joined"},
                       fetched : BOOLEAN]
      BY <2>4 DEF SourceFails, TicketInv, TicketTypes
    <3>3. UNCHANGED <<life, state, pc, item, projection, reset>>
      BY <2>4 DEF SourceFails
    <3> QED BY <3>1, <3>2, <3>3, <2>1
  <2>5. CASE CoordinatorReflectsFailure
    <3>1. /\ Submit("TransportFailure") /\ reset.phase = "None"
          /\ UNCHANGED <<life, state, pc, item, projection, reset, source>>
      BY <2>5 DEF CoordinatorReflectsFailure
    <3> QED BY <3>1, <2>1 DEF Inputs, TicketInv, TicketTypes
  <2> QED BY <1>2, <2>2, <2>3, <2>4, <2>5 DEF Source
<1>3. CASE (\E kind \in {"Recovery", "Planned"} : RequestReset(kind)) \/ ResetReturns
  <2>1. /\ UNCHANGED <<life, state, accepting, ingress, lastAdmitted, processed,
                       pendingFault, pc, item, projection>>
    BY <1>3 DEF RequestReset, ResetReturns
  <2>2. /\ reset' \in [phase : {"None", "Pending", "Done"},
                        kind : {"None", "Recovery", "Planned"}, target : Nat,
                        result : {"None", "Reset", "InvalidState", "Stopped"}]
        /\ source' \in [gen : Nat, phase : {"Fresh", "On", "Joined"},
                         fetched : BOOLEAN]
    <3>1. CASE ResetReturns
      BY <3>1 DEF ResetReturns, NoReset, TicketInv, TicketTypes
    <3>2. ASSUME NEW kind \in {"Recovery", "Planned"}, RequestReset(kind)
          PROVE  /\ reset' \in [phase : {"None", "Pending", "Done"},
                               kind : {"None", "Recovery", "Planned"},
                               target : Nat,
                               result : {"None", "Reset", "InvalidState",
                                         "Stopped"}]
                 /\ source' = source
      BY <3>2 DEF RequestReset, TicketInv, TicketTypes
    <3> QED BY <1>3, <3>1, <3>2 DEF TicketInv, TicketTypes
  <2>3. TicketTypes'
    BY <2>1, <2>2 DEF TicketInv, TicketTypes
  <2>4. ResetAlone'
    BY <1>3 DEF RequestReset, ResetReturns, NoReset, TicketInv, ResetAlone
  <2>5. OwnerAlive'
    BY <1>3, <2>1 DEF RequestReset, ResetReturns, TicketInv, OwnerAlive
  <2>6. ItemInHand' /\ OverflowHolds'
    BY <2>1 DEF TicketInv, ItemInHand, ItemSteps, OverflowHolds, Settled
  <2>7. TicketsAccountedFor'
    BY <2>1 DEF TicketInv, TicketsAccountedFor
  <2> QED BY <2>3, <2>4, <2>5, <2>6, <2>7 DEF TicketInv
<1>4. CASE Clients
  <2>1. UNCHANGED ticketVars
    BY <1>4 DEF Clients, RequestSubscription, HandlerReads, HandlerCloses,
                RequestSnapshot, SnapshotReturns, ticketVars
  <2> QED BY <2>1, Untouched
<1>5. CASE Lifecycle
  <2>1. CASE Start
    <3>1. /\ life = "NotStarted" /\ life' = "Running" /\ state' = "Buffering"
          /\ accepting' = TRUE /\ pc' = "select"
          /\ UNCHANGED <<ingress, lastAdmitted, processed, pendingFault, reset,
                         item, projection, source>>
      BY <2>1 DEF Start
    <3>2. pc = "down" /\ item = NoItem /\ pendingFault = "None"
      BY <3>1 DEF TicketInv, OwnerAlive, ItemInHand, ItemSteps, OverflowHolds, Settled
    <3>3. accepting' \in BOOLEAN
      BY <3>1, Zenon
    <3>4. TicketTypes'
      BY <3>1, <3>3 DEF TicketInv, TicketTypes, RuntimeStates, OwnerSteps
    <3>5. ItemInHand' /\ OwnerAlive' /\ ResetAlone' /\ OverflowHolds'
      BY <3>1, <3>2 DEF TicketInv, ItemInHand, ItemSteps, OwnerAlive,
                        ResetAlone, OverflowHolds, Settled
    <3>6. TicketsAccountedFor'
      BY <3>1, <3>2 DEF TicketInv, TicketsAccountedFor
    <3> QED BY <3>4, <3>5, <3>6 DEF TicketInv
  <2>2. CASE Stop \/ StopJoined
    <3>1. /\ UNCHANGED <<ingress, lastAdmitted, processed, pendingFault, reset,
                         pc, item, projection, source>>
          /\ life' \in {"Stopping", "Stopped"}
          /\ life' = "Stopped" => pc \in {"down", "exited"}
          /\ life' = "Stopping" => pc # "down"
          /\ state' \in RuntimeStates
          /\ state' \in {state, "Stopping", "Stopped"}
          /\ accepting' \in {accepting, FALSE}
      BY <2>2 DEF Stop, StopJoined, TicketInv, TicketTypes, OwnerAlive,
                  RuntimeStates
    <3>2. accepting' \in BOOLEAN /\ (accepting' => accepting)
      <4>1. accepting \in BOOLEAN /\ (accepting' = accepting \/ accepting' = FALSE)
        BY <3>1 DEF TicketInv, TicketTypes
      <4>2. CASE accepting' = accepting
        BY <4>1, <4>2
      <4>3. CASE accepting' = FALSE
        BY <4>3
      <4> QED BY <4>1, <4>2, <4>3
    <3>3. TicketTypes'
      BY <3>1, <3>2 DEF TicketInv, TicketTypes
    <3>4. ItemInHand' /\ OwnerAlive' /\ ResetAlone'
      BY <3>1, <3>2 DEF TicketInv, ItemInHand, ItemSteps, OwnerAlive, ResetAlone
    <3>5. OverflowHolds'
      BY <3>1, <3>2 DEF TicketInv, OverflowHolds, Settled
    <3>6. TicketsAccountedFor'
      BY <3>1, <3>2 DEF TicketInv, TicketsAccountedFor
    <3> QED BY <3>3, <3>4, <3>5, <3>6 DEF TicketInv
  <2>3. CASE ClosePublicationAdmission \/ ShutdownPublication
             \/ ShutdownPublicationReturns
    <3>1. UNCHANGED ticketVars
      BY <2>3 DEF ClosePublicationAdmission, ShutdownPublication,
                  ShutdownPublicationReturns, ticketVars
    <3> QED BY <3>1, Untouched
  <2> QED BY <1>5, <2>1, <2>2, <2>3 DEF Lifecycle
<1>6. CASE Terminated \/ UNCHANGED vars
  <2>1. UNCHANGED ticketVars
    BY <1>6 DEF Terminated, vars, ticketVars
  <2> QED BY <2>1, Untouched
<1> QED BY <1>1, <1>2, <1>3, <1>4, <1>5, <1>6 DEF Next, Coordinator

-----------------------------------------------------------------------------
\* The inductive invariant holds in every reachable state.
LEMMA TicketInvariant == Spec => []TicketInv
BY TicketInit, TicketStep, PTL DEF Spec

\* Every admitted ticket is accounted for, for every capacity, every number of
\* sessions and every interleaving: what is queued are the newest tickets, and
\* what is older is processed or in the owner's hand.
THEOREM TicketsTheorem == Spec => []TicketsAccountedFor
<1>1. TicketInv => TicketsAccountedFor
  BY DEF TicketInv
<1> QED BY <1>1, TicketInvariant, PTL

\* observe() cannot report a Live book while an ingress overflow is pending,
\* although the overflow itself is not a ticket of the queue.
THEOREM BarrierTheorem == Spec => []BarrierCoversOverflow
<1>1. TicketInv => BarrierCoversOverflow
  <2> SUFFICES ASSUME TicketInv, pendingFault # "None",
                      processed = lastAdmitted
               PROVE  state # "Live"
    BY DEF BarrierCoversOverflow
  <2>1. ingress = <<>>
    BY DEF TicketInv, TicketTypes, TicketsAccountedFor
  <2> QED BY <2>1 DEF TicketInv, OverflowHolds, Settled
<1> QED BY <1>1, TicketInvariant, PTL

-----------------------------------------------------------------------------
(* The coordinator's cut.  A fault that is chosen but not yet published could *)
(* still take away a Live book behind the barrier; CutInv says that it cannot *)
(* be there: the overflow the owner has taken still has its queue in front    *)
(* of it, and an item in hand counts as processed only once the published     *)
(* state is one that cannot become Live.                                      *)

CutInv ==
    /\ pc = "fault" /\ item = NoItem =>
            ~accepting /\ (ingress # <<>> \/ Settled)
    /\ item # NoItem /\ processed = lastAdmitted => Settled

\* A constructed runtime has nothing in hand behind a cut.
LEMMA CutInit == Init => CutInv
BY DEF Init, CutInv

\* What the published state and the Projection are left with by a step that is
\* neither a publication nor a reset.
LEMMA SettledStays ==
    ASSUME Settled, state' = state \/ state' \in {"Stopping", "Stopped"},
           projection.status = "NeedsResync" => projection' = projection
    PROVE  Settled'
BY DEF Settled

\* CutInv is inductive relative to TicketInv.
LEMMA CutStep == TicketInv /\ CutInv /\ [Next]_vars => CutInv'
<1> SUFFICES ASSUME TicketInv, CutInv, [Next]_vars PROVE CutInv'
  OBVIOUS
<1> USE DEF lifeVars, ingressVars, requestVars, ownerVars, bookVars, envVars
<1>1. CASE Owner
  <2>1. ASSUME pc' # "fault", item' = NoItem
        PROVE  CutInv'
    BY <2>1 DEF CutInv
  <2>2. ASSUME OwnerShutsPublication \/ OwnerSweeps \/ OwnerCapturesSnapshot
               \/ OwnerChecksAdmission \/ OwnerStagesAdmission
               \/ OwnerTakesAdmission \/ OwnerTakesSnapshot
               \/ OwnerTakesReset \/ OwnerExits \/ OwnerResets
               \/ OwnerCommitsReset
        PROVE  CutInv'
    <3>1. /\ pc \in {"select", "snapshot", "admit", "stage", "reset",
                     "resetCommit"}
          /\ pc' # "fault" /\ item' = item
      BY <2>2 DEF OwnerShutsPublication, OwnerSweeps, OwnerCapturesSnapshot,
                  OwnerChecksAdmission, OwnerStagesAdmission, RefuseServing,
                  OwnerTakesAdmission, OwnerTakesSnapshot, OwnerTakesReset,
                  OwnerExits, OwnerResets, OwnerCommitsReset
    <3>2. item = NoItem
      BY <3>1 DEF TicketInv, ItemInHand, ItemSteps
    <3> QED BY <3>1, <3>2, <2>1
  <2>3. CASE OwnerTakesFault
    <3>1. /\ pc = "select" /\ pendingFault # "None"
          /\ UNCHANGED <<state, accepting, ingress, item, projection>>
      BY <2>3 DEF OwnerTakesFault
    <3>2. item = NoItem
      BY <3>1 DEF TicketInv, ItemInHand, ItemSteps
    <3> QED BY <3>1, <3>2 DEF CutInv, TicketInv, OverflowHolds, Settled
  <2>4. CASE OwnerTakesItem
    <3>1. /\ pc = "select" /\ pc' = "process" /\ ingress # <<>>
          /\ UNCHANGED <<lastAdmitted, processed>>
      BY <2>4 DEF OwnerTakesItem
    <3>2. item = NoItem /\ processed + Len(ingress) = lastAdmitted
      BY <3>1 DEF TicketInv, ItemInHand, ItemSteps, TicketsAccountedFor
    <3>3. processed' # lastAdmitted'
      BY <3>1, <3>2 DEF TicketInv, TicketTypes
    <3> QED BY <3>1, <3>3 DEF CutInv
  <2>5. ASSUME OwnerBuffersUpdate \/ OwnerAppliesUpdate \/ OwnerInstallsSnapshot
               \/ OwnerReplays \/ OwnerTakesFailure
        PROVE  CutInv'
    <3>1. /\ pc \in {"process", "replay"}
          /\ UNCHANGED <<state, lastAdmitted, processed, item>>
      BY <2>5 DEF OwnerBuffersUpdate, OwnerAppliesUpdate, OwnerInstallsSnapshot,
                  OwnerReplays, OwnerTakesFailure
    <3>2. item # NoItem
      BY <3>1 DEF TicketInv, ItemInHand, ItemSteps
    <3>3. projection.status = "NeedsResync" => projection' = projection
      <4>1. CASE OwnerBuffersUpdate
        BY <4>1 DEF OwnerBuffersUpdate
      <4>2. CASE OwnerAppliesUpdate
        BY <4>2, ApplyShape DEF OwnerAppliesUpdate, TicketInv
      <4>3. CASE OwnerInstallsSnapshot
        BY <4>3 DEF OwnerInstallsSnapshot
      <4>4. CASE OwnerReplays
        BY <4>4, ApplyShape DEF OwnerReplays, TicketInv
      <4>5. CASE OwnerTakesFailure
        BY <4>5 DEF OwnerTakesFailure
      <4> QED BY <2>5, <4>1, <4>2, <4>3, <4>4, <4>5
    <3> QED BY <3>1, <3>2, <3>3, SettledStays DEF CutInv
  <2>6. ASSUME OwnerPublishesReplay \/ OwnerPublishes
        PROVE  CutInv'
    <3>1. /\ pc' # "fault" /\ PublishProjectionState
          /\ pc \in {"publish", "publishReplay", "replay"}
          /\ UNCHANGED <<item, projection>>
      BY <2>6 DEF OwnerPublishesReplay, OwnerPublishes
    <3>2. /\ state' = IF state \in {"Faulted", "Stopping", "Stopped"} THEN state
                      ELSE state_for_projection(projection.status)
          /\ lastAdmitted' = lastAdmitted
      BY <3>1 DEF PublishProjectionState
    <3>3. CASE projection.status = "NeedsResync"
      BY <3>1, <3>2, <3>3 DEF CutInv, Settled, state_for_projection
    <3>4. CASE projection.status # "NeedsResync"
      <4>1. processed' = processed
        BY <3>1, <3>4 DEF PublishProjectionState
      <4> QED BY <3>1, <3>2, <3>4, <4>1 DEF CutInv, Settled
    <3> QED BY <3>3, <3>4
  <2>7. CASE OwnerPublishesFault
    BY <2>7 DEF OwnerPublishesFault, CutInv, Settled
  <2>8. CASE OwnerFinishes
    BY <2>8 DEF OwnerFinishes, CutInv
  <2> QED BY <1>1, <2>2, <2>3, <2>4, <2>5, <2>6, <2>7, <2>8 DEF Owner
<1>2. ASSUME NEW kind, Submit(kind),
             UNCHANGED <<state, pc, item, projection>>
      PROVE  CutInv'
  <2>1. CASE accepting
    <3>1. ~(pc = "fault" /\ item = NoItem)
      BY <2>1 DEF CutInv
    <3>2. item # NoItem => processed # lastAdmitted /\ processed < lastAdmitted
      BY <2>1 DEF TicketInv, TicketTypes, TicketsAccountedFor, ItemInHand
    <3>3. processed' = processed /\ lastAdmitted' >= lastAdmitted
      BY <1>2 DEF Submit, TicketInv, TicketTypes
    <3>4. item' # NoItem => processed' # lastAdmitted'
      BY <1>2, <3>2, <3>3 DEF TicketInv, TicketTypes, Submit
    <3> QED BY <1>2, <3>1, <3>4 DEF CutInv
  <2>2. CASE ~accepting
    <3>1. SubmitResult \notin {"Accepted", "Full"}
      BY <2>2 DEF SubmitResult, TicketInv, TicketTypes
    <3>2. UNCHANGED <<ingress, lastAdmitted, processed, accepting>>
      BY <1>2, <2>2, <3>1 DEF Submit, TicketInv, TicketTypes
    <3> QED BY <1>2, <3>2 DEF CutInv, Settled
  <2> QED BY <2>1, <2>2
<1>3. CASE Source \/ CoordinatorReflectsFailure
  <2>1. CASE SourceConnects \/ SourceJoined
    BY <2>1 DEF SourceConnects, SourceJoined, CutInv, Settled
  <2>2. ASSUME NEW kind, SourceSubmits(kind) \/ SourceFails(kind)
        PROVE  CutInv'
    BY <2>2, <1>2 DEF SourceSubmits, SourceFails
  <2>3. CASE CoordinatorReflectsFailure
    BY <2>3, <1>2 DEF CoordinatorReflectsFailure
  <2> QED BY <1>3, <2>1, <2>2, <2>3 DEF Source
<1>4. CASE Coordinator
  <2>1. CASE (\E kind \in {"Recovery", "Planned"} : RequestReset(kind))
             \/ ResetReturns
    BY <2>1 DEF RequestReset, ResetReturns, CutInv, Settled
  <2> QED BY <1>3, <1>4, <2>1 DEF Coordinator
<1>5. CASE Clients
  <2>1. UNCHANGED ticketVars
    BY <1>5 DEF Clients, RequestSubscription, HandlerReads, HandlerCloses,
                RequestSnapshot, SnapshotReturns, ticketVars
  <2> QED BY <2>1 DEF ticketVars, CutInv, Settled
<1>6. CASE Lifecycle
  <2>1. CASE Start
    <3>1. pc = "down"
      BY <2>1 DEF Start, TicketInv, OwnerAlive
    <3>2. item = NoItem
      BY <3>1 DEF TicketInv, ItemInHand, ItemSteps
    <3> QED BY <2>1, <3>2 DEF Start, CutInv
  <2>2. CASE Stop \/ StopJoined
    <3>1. /\ UNCHANGED <<ingress, lastAdmitted, processed, pc, item, projection>>
          /\ state' = state \/ state' \in {"Stopping", "Stopped"}
          /\ accepting' = accepting \/ accepting' = FALSE
      BY <2>2 DEF Stop, StopJoined
    <3> QED BY <3>1, SettledStays DEF CutInv
  <2>3. CASE ClosePublicationAdmission \/ ShutdownPublication
             \/ ShutdownPublicationReturns
    BY <2>3 DEF ClosePublicationAdmission, ShutdownPublication,
                ShutdownPublicationReturns, CutInv, Settled
  <2> QED BY <1>6, <2>1, <2>2, <2>3 DEF Lifecycle
<1>7. CASE Terminated \/ UNCHANGED vars
  BY <1>7 DEF Terminated, vars, CutInv, Settled
<1> QED BY <1>1, <1>3, <1>4, <1>5, <1>6, <1>7 DEF Next

\* Once the source is joined and every admitted input is processed, a Live book
\* is left only by a reset or a stop: the coordinator may trust what the barrier
\* of observe() told it.
THEOREM CutTheorem == Spec => CutIsStable
<1> DEFINE Cut == source.phase = "Joined" /\ state = "Live"
                  /\ processed = lastAdmitted /\ state' # state
                  => state' \in {"Buffering", "Stopping", "Stopped"}
<1>1. ASSUME TicketInv, CutInv, Next PROVE Cut
  <2> SUFFICES ASSUME state = "Live", processed = lastAdmitted, state' # state
               PROVE  state' \in {"Buffering", "Stopping", "Stopped"}
    OBVIOUS
  <2> USE DEF lifeVars
  <2>1. item = NoItem
    BY <1>1 DEF CutInv, Settled
  <2>2. ingress = <<>>
    BY <1>1, <2>1 DEF TicketInv, TicketTypes, TicketsAccountedFor
  <2>3. pc \notin ItemSteps \cup {"fault"}
    BY <1>1, <2>1, <2>2 DEF TicketInv, ItemInHand, CutInv, Settled
  <2>4. CASE Owner
    <3>1. ~OwnerPublishesReplay /\ ~OwnerPublishes /\ ~OwnerPublishesFault
      BY <2>3 DEF OwnerPublishesReplay, OwnerPublishes, OwnerPublishesFault,
                  ItemSteps
    <3>2. CASE OwnerExits \/ OwnerCommitsReset
      BY <3>2 DEF OwnerExits, OwnerCommitsReset
    <3>3. CASE OwnerShutsPublication \/ OwnerTakesFault \/ OwnerTakesReset
               \/ OwnerTakesAdmission \/ OwnerTakesSnapshot \/ OwnerSweeps
               \/ OwnerTakesItem \/ OwnerResets \/ OwnerChecksAdmission
               \/ OwnerStagesAdmission \/ OwnerCapturesSnapshot
      BY <3>3 DEF OwnerShutsPublication, OwnerTakesFault, OwnerTakesReset,
                  OwnerTakesAdmission, OwnerTakesSnapshot, OwnerSweeps,
                  OwnerTakesItem, OwnerResets, OwnerChecksAdmission,
                  OwnerStagesAdmission, OwnerCapturesSnapshot
    <3>4. CASE OwnerBuffersUpdate \/ OwnerAppliesUpdate
               \/ OwnerInstallsSnapshot \/ OwnerReplays \/ OwnerTakesFailure
               \/ OwnerFinishes
      BY <3>4 DEF OwnerBuffersUpdate, OwnerAppliesUpdate,
                  OwnerInstallsSnapshot, OwnerReplays, OwnerTakesFailure,
                  OwnerFinishes
    <3> QED BY <2>4, <3>1, <3>2, <3>3, <3>4 DEF Owner
  <2>5. CASE Source \/ Coordinator
    BY <2>5 DEF Source, Coordinator, SourceConnects, SourceJoined, SourceSubmits,
                SourceFails, CoordinatorReflectsFailure, RequestReset,
                ResetReturns
  <2>6. CASE Clients
    BY <2>6 DEF Clients, RequestSubscription, HandlerReads, HandlerCloses,
                RequestSnapshot, SnapshotReturns
  <2>7. CASE Lifecycle
    BY <2>7 DEF Lifecycle, Start, Stop, StopJoined,
                ClosePublicationAdmission, ShutdownPublication,
                ShutdownPublicationReturns
  <2>8. CASE Terminated
    BY <2>8 DEF Terminated, vars
  <2> QED BY <1>1, <2>4, <2>5, <2>6, <2>7, <2>8 DEF Next
<1>2. TicketInv /\ CutInv /\ [Next]_vars => [Cut]_vars
  BY <1>1
<1>3. Spec => []CutInv
  BY CutInit, CutStep, TicketInvariant, PTL DEF Spec
<1> QED BY <1>2, <1>3, TicketInvariant, PTL DEF Spec, CutIsStable

-----------------------------------------------------------------------------
(* Generations.  Nothing of an old generation survives because the reset that *)
(* ends it is asked for behind the barrier, with the source joined: the queue *)
(* is empty before the reset, and stays empty until the next source starts.   *)

GenInv ==
    /\ bootstrap \in Seq(Nat) /\ source.gen >= 1
    /\ OneGeneration
    /\ reset.phase # "None" => processed = lastAdmitted
    /\ pc = "resetCommit" => bootstrap = <<>> /\ projGen = 0
    /\ reset.result = "Reset" =>
            /\ reset.phase = "Done" /\ item = NoItem /\ ingress = <<>>
            /\ bootstrap = <<>> /\ projGen = 0 /\ lastApplied = 0

\* What OneGeneration and the barrier of a reset depend on.
genVars == <<ingress, bootstrap, projGen, lastApplied, item, source, reset,
             processed, lastAdmitted>>

\* A runtime that was just constructed holds nothing of any generation.
LEMMA GenInit == Init => GenInv
BY DEF Init, GenInv, OneGeneration, NoReset, NoItem

\* Steps that leave everything a generation marks alone.
LEMMA GenQuiet ==
    ASSUME GenInv, UNCHANGED genVars, pc' = "resetCommit" => pc = "resetCommit"
    PROVE  GenInv'
BY DEF GenInv, OneGeneration, genVars

\* While a caller waits for its reset every admitted input has been processed,
\* and an empty queue stays empty in a discard.
LEMMA DiscardBehindBarrier ==
    ASSUME TicketInv, DiscardIngress, UNCHANGED <<lastAdmitted, item>>,
           processed = lastAdmitted
    PROVE  processed' = lastAdmitted'
<1>1. ingress = <<>>
  BY DEF TicketInv, TicketTypes, TicketsAccountedFor
<1> QED BY <1>1 DEF DiscardIngress

\* submit() stamps an input with the generation of the source; nobody submits
\* while a reset is under way.
LEMMA GenSubmit ==
    ASSUME TicketInv, GenInv, NEW kind, Submit(kind), reset.phase = "None",
           source'.gen = source.gen,
           UNCHANGED <<bootstrap, projGen, lastApplied, item, reset, pc>>
    PROVE  GenInv'
<1>1. reset.result # "Reset" /\ reset' = reset /\ item' = item
  BY DEF GenInv
<1>2. \A i \in 1..Len(ingress') : ingress'[i].gen = source.gen
  <2>1. CASE SubmitResult = "Accepted"
    <3> DEFINE new == [ticket |-> lastAdmitted', kind |-> kind,
                       gen |-> source.gen]
    <3>1. ingress' = Append(ingress, new) /\ new.gen = source.gen
      BY <2>1 DEF Submit
    <3>2. ingress \in Seq(Items)
      BY DEF TicketInv, TicketTypes
    <3> HIDE DEF new
    <3>3. /\ Len(ingress) \in Nat /\ Len(ingress') = Len(ingress) + 1
          /\ \A i \in 1..Len(ingress) : ingress'[i] = ingress[i]
          /\ ingress'[Len(ingress) + 1] = new
      BY <3>1, <3>2
    <3> QED BY <3>1, <3>3 DEF GenInv, OneGeneration
  <2>2. CASE SubmitResult # "Accepted"
    BY <2>2 DEF Submit, GenInv, OneGeneration
  <2> QED BY <2>1, <2>2
<1> QED BY <1>1, <1>2 DEF GenInv, OneGeneration

\* The generation that apply_update() leaves as the last applied one.
LEMMA ApplyGeneration ==
    ASSUME NEW gen, NEW next, ApplyUpdate(gen, next)
    PROVE  lastApplied' \in {lastApplied, gen} /\ pc' \in {next, "fault"}
BY DEF ApplyUpdate, ApplyFaults, ApplyFansOut, ApplyIgnores, ApplyFindsGap,
       BeginFault

\* The steps of an item in hand: what they buffer, install and apply is of the
\* item's generation, and there is no reset that has ended behind the item.
LEMMA GenItem ==
    ASSUME TicketInv, GenInv,
           OwnerBuffersUpdate \/ OwnerAppliesUpdate \/ OwnerInstallsSnapshot
           \/ OwnerReplays \/ OwnerTakesFailure
    PROVE  GenInv'
<1> USE DEF lifeVars, ingressVars, requestVars, ownerVars, bookVars, envVars
<1>1. /\ pc \in {"process", "replay"}
      /\ pc' \in {"replay", "publish", "publishReplay", "fault"}
      /\ UNCHANGED <<ingress, item, source, reset, processed, lastAdmitted>>
  <2>1. CASE OwnerBuffersUpdate \/ OwnerInstallsSnapshot \/ OwnerTakesFailure
    BY <2>1 DEF OwnerBuffersUpdate, OwnerInstallsSnapshot, OwnerTakesFailure,
                BeginFault
  <2>2. CASE OwnerAppliesUpdate \/ OwnerReplays
    BY <2>2, ApplyGeneration DEF OwnerAppliesUpdate, OwnerReplays
  <2> QED BY <2>1, <2>2
<1>2. item # NoItem
  BY <1>1 DEF TicketInv, ItemInHand, ItemSteps
<1>3. item.gen = source.gen /\ reset.result # "Reset"
  BY <1>2 DEF GenInv, OneGeneration
<1>4. item.gen \in Nat
  BY DEF TicketInv, TicketTypes, Items
<1>5. /\ bootstrap' \in Seq(Nat)
      /\ \A i \in 1..Len(bootstrap') : bootstrap'[i] = source.gen
  <2>1. CASE OwnerBuffersUpdate
    <3>1. bootstrap' = bootstrap \/ bootstrap' = Append(bootstrap, item.gen)
      BY <2>1 DEF OwnerBuffersUpdate
    <3>2. CASE bootstrap' = bootstrap
      BY <3>2 DEF GenInv, OneGeneration
    <3>3. CASE bootstrap' = Append(bootstrap, item.gen)
      <4>1. bootstrap \in Seq(Nat)
        BY DEF GenInv
      <4>2. /\ Len(bootstrap) \in Nat /\ Len(bootstrap') = Len(bootstrap) + 1
            /\ bootstrap' \in Seq(Nat)
            /\ \A i \in 1..Len(bootstrap) : bootstrap'[i] = bootstrap[i]
            /\ bootstrap'[Len(bootstrap) + 1] = item.gen
        BY <1>4, <3>3, <4>1
      <4>3. \A i \in 1..Len(bootstrap) : bootstrap[i] = source.gen
        BY DEF GenInv, OneGeneration
      <4>4. ASSUME NEW i \in 1..Len(bootstrap') PROVE bootstrap'[i] = source.gen
        <5>1. i \in 1..Len(bootstrap) \/ i = Len(bootstrap) + 1
          BY <4>2
        <5> QED BY <1>3, <4>2, <4>3, <5>1
      <4> QED BY <4>2, <4>4
    <3> QED BY <3>1, <3>2, <3>3
  <2>2. CASE OwnerReplays
    <3>1. bootstrap # <<>> /\ bootstrap' = Tail(bootstrap)
      BY <2>2 DEF OwnerReplays
    <3>2. bootstrap \in Seq(Nat)
      BY DEF GenInv
    <3>3. /\ Len(bootstrap) \in Nat /\ Len(bootstrap') = Len(bootstrap) - 1
          /\ bootstrap' \in Seq(Nat)
          /\ \A i \in 1..Len(bootstrap') : bootstrap'[i] = bootstrap[i + 1]
      BY <3>1, <3>2
    <3> QED BY <3>3 DEF GenInv, OneGeneration
  <2>3. CASE OwnerAppliesUpdate \/ OwnerInstallsSnapshot \/ OwnerTakesFailure
    <3>1. bootstrap' = bootstrap
      BY <2>3 DEF OwnerAppliesUpdate, OwnerInstallsSnapshot, OwnerTakesFailure
    <3> QED BY <3>1 DEF GenInv, OneGeneration
  <2> QED BY <2>1, <2>2, <2>3
<1>6. projGen' \in {0, source.gen}
  BY <1>3 DEF GenInv, OneGeneration, OwnerBuffersUpdate, OwnerAppliesUpdate,
              OwnerInstallsSnapshot, OwnerReplays, OwnerTakesFailure
<1>7. lastApplied' \in {0, source.gen}
  <2>1. CASE OwnerAppliesUpdate
    BY <1>3, <2>1, ApplyGeneration DEF OwnerAppliesUpdate, GenInv, OneGeneration
  <2>2. CASE OwnerReplays
    <3>1. Head(bootstrap) = source.gen
      BY <2>2 DEF OwnerReplays, GenInv, OneGeneration
    <3> QED BY <2>2, <3>1, ApplyGeneration DEF OwnerReplays, GenInv,
                                               OneGeneration
  <2>3. CASE OwnerBuffersUpdate \/ OwnerInstallsSnapshot \/ OwnerTakesFailure
    BY <2>3 DEF OwnerBuffersUpdate, OwnerInstallsSnapshot, OwnerTakesFailure,
                GenInv, OneGeneration
  <2> QED BY <2>1, <2>2, <2>3
<1> QED BY <1>1, <1>2, <1>3, <1>5, <1>6, <1>7 DEF GenInv, OneGeneration

\* GenInv is inductive relative to TicketInv.
LEMMA GenStep == TicketInv /\ GenInv /\ [Next]_vars => GenInv'
<1> SUFFICES ASSUME TicketInv, GenInv, [Next]_vars PROVE GenInv'
  OBVIOUS
<1> USE DEF lifeVars, ingressVars, requestVars, ownerVars, bookVars, envVars
<1>1. CASE Owner
  <2>1. CASE OwnerShutsPublication \/ OwnerTakesFault \/ OwnerTakesReset
             \/ OwnerTakesAdmission \/ OwnerTakesSnapshot \/ OwnerSweeps
             \/ OwnerChecksAdmission \/ OwnerStagesAdmission
             \/ OwnerCapturesSnapshot
    <3>1. UNCHANGED genVars /\ pc' # "resetCommit"
      BY <2>1 DEF OwnerShutsPublication, OwnerTakesFault, OwnerTakesReset,
                  OwnerTakesAdmission, OwnerTakesSnapshot, OwnerSweeps,
                  OwnerChecksAdmission, OwnerStagesAdmission,
                  OwnerCapturesSnapshot, BeginFault, RefuseServing, genVars
    <3> QED BY <3>1, GenQuiet
  <2>2. CASE OwnerTakesItem
    <3>1. /\ ingress # <<>> /\ item' = Head(ingress)
          /\ ingress' = Tail(ingress) /\ pc' = "process"
          /\ UNCHANGED <<bootstrap, projGen, lastApplied, source, reset,
                         processed, lastAdmitted>>
      BY <2>2 DEF OwnerTakesItem
    <3>2. ingress \in Seq(Items)
      BY DEF TicketInv, TicketTypes
    <3>3. /\ Len(ingress) \in Nat \ {0} /\ Len(ingress') = Len(ingress) - 1
          /\ \A i \in 1..Len(ingress') : ingress'[i] = ingress[i + 1]
          /\ item' = ingress[1]
      BY <3>1, <3>2
    <3>4. /\ \A i \in 1..Len(ingress') : ingress'[i].gen = source.gen
          /\ item'.gen = source.gen
      BY <3>3 DEF GenInv, OneGeneration
    <3> QED BY <3>1, <3>4 DEF GenInv, OneGeneration
  <2>3. CASE OwnerExits
    <3>1. /\ UNCHANGED <<ingress, bootstrap, projGen, lastApplied, item, source,
                         processed, lastAdmitted>>
          /\ pc' = "exited"
          /\ reset' = IF reset.phase = "Pending"
                      THEN [reset EXCEPT !.phase = "Done", !.result = "Stopped"]
                      ELSE reset
      BY <2>3 DEF OwnerExits
    <3>2. reset.phase = "Pending" => reset'.result = "Stopped"
      BY <3>1 DEF TicketInv, TicketTypes
    <3> QED BY <3>1, <3>2 DEF GenInv, OneGeneration
  <2>4. CASE OwnerResets
    <3>1. /\ pc = "reset"
          /\ UNCHANGED <<ingress, lastApplied, item, source, processed,
                         lastAdmitted>>
          /\ \/ /\ bootstrap' = <<>> /\ projGen' = 0 /\ UNCHANGED reset
             \/ /\ UNCHANGED <<bootstrap, projGen>> /\ pc' = "select"
                /\ reset' = [reset EXCEPT !.phase = "Done",
                                          !.result = "InvalidState"]
      BY <2>4 DEF OwnerResets
    <3>2. /\ reset.phase = "Pending"
          /\ reset' = reset \/ reset'.result = "InvalidState"
      BY <3>1 DEF TicketInv, TicketTypes, OwnerAlive
    <3>3. reset.result # "Reset"
      BY <3>2 DEF GenInv
    <3>4. bootstrap' \in Seq(Nat)
      <4>1. bootstrap \in Seq(Nat) /\ <<>> \in Seq(Nat)
        BY DEF GenInv
      <4> QED BY <3>1, <4>1
    <3> QED BY <3>1, <3>2, <3>3, <3>4 DEF GenInv, OneGeneration
  <2>5. CASE OwnerCommitsReset
    <3>1. /\ pc = "resetCommit" /\ pc' = "select" /\ lastApplied' = 0
          /\ UNCHANGED <<ingress, bootstrap, projGen, item, source, processed,
                         lastAdmitted>>
          /\ reset' = [reset EXCEPT !.phase = "Done", !.result = "Reset"]
      BY <2>5 DEF OwnerCommitsReset
    <3>2. reset.phase = "Pending" /\ item = NoItem /\ reset'.phase = "Done"
      BY <3>1 DEF TicketInv, TicketTypes, OwnerAlive, ItemInHand, ItemSteps
    <3>3. processed = lastAdmitted /\ bootstrap = <<>> /\ projGen = 0
      BY <3>1, <3>2 DEF GenInv
    <3>4. ingress = <<>>
      BY <3>2, <3>3 DEF TicketInv, TicketTypes, TicketsAccountedFor
    <3> QED BY <3>1, <3>2, <3>3, <3>4 DEF GenInv, OneGeneration
  <2>6. CASE OwnerBuffersUpdate \/ OwnerAppliesUpdate \/ OwnerInstallsSnapshot
             \/ OwnerReplays \/ OwnerTakesFailure
    BY <2>6, GenItem
  <2>7. CASE OwnerPublishesReplay \/ OwnerPublishes \/ OwnerPublishesFault
    <3>1. /\ UNCHANGED <<projGen, lastApplied, item, source, reset, lastAdmitted>>
          /\ pc' # "resetCommit"
          /\ bootstrap' \in {bootstrap, <<>>}
          /\ \/ UNCHANGED <<ingress, processed>>
             \/ DiscardIngress
      BY <2>7 DEF OwnerPublishesReplay, OwnerPublishes, OwnerPublishesFault,
                  PublishProjectionState
    <3>2. ingress' \in {ingress, <<>>}
      BY <3>1 DEF DiscardIngress
    <3>3. processed = lastAdmitted => processed' = lastAdmitted'
      BY <3>1, DiscardBehindBarrier
    <3>4. bootstrap' \in Seq(Nat)
      <4>1. bootstrap \in Seq(Nat) /\ <<>> \in Seq(Nat)
        BY DEF GenInv
      <4> QED BY <3>1, <4>1
    <3> QED BY <3>1, <3>2, <3>3, <3>4 DEF GenInv, OneGeneration
  <2>8. CASE OwnerFinishes
    <3>1. /\ UNCHANGED <<ingress, bootstrap, projGen, lastApplied, source, reset,
                         lastAdmitted>>
          /\ pc = "finish" /\ pc' = "select" /\ item' = NoItem
          /\ processed' = IF processed > item.ticket THEN processed
                                                     ELSE item.ticket
      BY <2>8 DEF OwnerFinishes
    <3>2. item # NoItem /\ item.ticket \in 1..lastAdmitted
      BY <3>1 DEF TicketInv, ItemInHand, ItemSteps
    <3>3. processed = lastAdmitted => processed' = lastAdmitted
      BY <3>1, <3>2 DEF TicketInv, TicketTypes
    <3> QED BY <3>1, <3>2, <3>3 DEF GenInv, OneGeneration
  <2> QED BY <1>1, <2>1, <2>2, <2>3, <2>4, <2>5, <2>6, <2>7, <2>8 DEF Owner
<1>2. CASE Source
  <2>1. CASE SourceConnects \/ SourceJoined
    <3>1. /\ UNCHANGED <<ingress, bootstrap, projGen, lastApplied, item, reset,
                         processed, lastAdmitted, pc>>
          /\ source'.gen = source.gen
      BY <2>1 DEF SourceConnects, SourceJoined, TicketInv, TicketTypes
    <3> QED BY <3>1 DEF GenInv, OneGeneration
  <2>2. ASSUME NEW kind, SourceSubmits(kind) \/ SourceFails(kind)
        PROVE  GenInv'
    <3>1. /\ Submit(kind) /\ source'.gen = source.gen
          /\ UNCHANGED <<bootstrap, projGen, lastApplied, item, reset, pc>>
          /\ source.phase # "Joined"
      BY <2>2 DEF SourceSubmits, SourceFails, TicketInv, TicketTypes
    <3>2. reset.phase = "None"
      BY <3>1 DEF TicketInv, ResetAlone
    <3> QED BY <3>1, <3>2, GenSubmit
  <2> QED BY <1>2, <2>1, <2>2 DEF Source
<1>3. CASE Coordinator
  <2>1. CASE CoordinatorReflectsFailure
    BY <2>1, GenSubmit DEF CoordinatorReflectsFailure
  <2>2. ASSUME NEW kind, RequestReset(kind)
        PROVE  GenInv'
    <3>1. /\ UNCHANGED <<ingress, bootstrap, projGen, lastApplied, item, source,
                         processed, lastAdmitted, pc>>
          /\ processed = lastAdmitted
          /\ reset' = [phase |-> "Pending", kind |-> kind,
                       target |-> lastAdmitted, result |-> "None"]
      BY <2>2 DEF RequestReset
    <3> QED BY <3>1 DEF GenInv, OneGeneration
  <2>3. CASE ResetReturns
    <3>1. /\ UNCHANGED <<ingress, bootstrap, projGen, lastApplied, item,
                         processed, lastAdmitted, pc>>
          /\ reset' = NoReset
          /\ source' = IF reset.result = "Reset"
                       THEN [gen |-> source.gen + 1, phase |-> "Fresh",
                             fetched |-> FALSE]
                       ELSE source
      BY <2>3 DEF ResetReturns
    <3>2. reset'.phase = "None" /\ reset'.result = "None"
      BY <3>1 DEF NoReset
    <3>3. CASE reset.result = "Reset"
      <4>1. /\ item = NoItem /\ ingress = <<>> /\ bootstrap = <<>>
            /\ projGen = 0 /\ lastApplied = 0
        BY <3>3 DEF GenInv
      <4>2. source'.gen >= 1
        BY <3>1, <3>3 DEF GenInv, TicketInv, TicketTypes
      <4> QED BY <3>1, <3>2, <4>1, <4>2 DEF GenInv, OneGeneration
    <3>4. CASE reset.result # "Reset"
      BY <3>1, <3>2, <3>4 DEF GenInv, OneGeneration
    <3> QED BY <3>3, <3>4
  <2> QED BY <1>3, <2>1, <2>2, <2>3 DEF Coordinator
<1>4. CASE Clients \/ Lifecycle \/ Terminated \/ UNCHANGED vars
  <2>1. CASE Clients
    <3>1. UNCHANGED genVars /\ pc' = pc
      BY <2>1 DEF Clients, RequestSubscription, HandlerReads, HandlerCloses,
                  RequestSnapshot, SnapshotReturns, genVars
    <3> QED BY <3>1, GenQuiet
  <2>2. CASE Lifecycle
    <3>1. UNCHANGED genVars /\ (pc' = pc \/ pc' = "select")
      BY <2>2 DEF Lifecycle, Start, Stop, StopJoined,
                  ClosePublicationAdmission, ShutdownPublication,
                  ShutdownPublicationReturns, genVars
    <3> QED BY <3>1, GenQuiet
  <2>3. CASE Terminated \/ UNCHANGED vars
    <3>1. UNCHANGED genVars /\ pc' = pc
      BY <2>3 DEF Terminated, vars, genVars
    <3> QED BY <3>1, GenQuiet
  <2> QED BY <1>4, <2>1, <2>2, <2>3
<1> QED BY <1>1, <1>2, <1>3, <1>4 DEF Next

\* The invariant of the generations holds in every reachable state.
LEMMA GenInvariant == Spec => []GenInv
BY GenInit, GenStep, TicketInvariant, PTL DEF Spec

\* Nothing queued, buffered, installed or reported as applied ever comes from
\* another connection generation than the source's, for any number of
\* generations and wherever overflows, faults, resets and stops fall.
THEOREM GenerationTheorem == Spec => []OneGeneration
<1>1. GenInv => OneGeneration
  BY DEF GenInv
<1> QED BY <1>1, GenInvariant, PTL

-----------------------------------------------------------------------------
(* Sessions.  WellLogged(r, c, gen, ver) says of a channel c whose handler    *)
(* has last read r that r and then the ring are a log without a hole, that a  *)
(* terminal notice takes the sequence after it, and that an Active channel    *)
(* has been given every version up to ver of the book of generation gen.      *)

NewestOf(r, c) == IF c.ring = <<>> THEN r ELSE c.ring[Len(c.ring)]

Chained(r, c) ==
    /\ c.ring # <<>> => Continues(r, c.ring[1])
    /\ \A i \in 2..Len(c.ring) : Continues(c.ring[i - 1], c.ring[i])
    /\ \A i \in 1..Len(c.ring) :
            c.ring[i].kind \in {"Accepted", "Snapshot", "Update"}
    /\ r.kind # "Gap"

UpTo(r, c, gen, ver) ==
    /\ c.terminal = NoRecord /\ c.next = NewestOf(r, c).seq + 1 /\ c.next >= 3
    /\ NewestOf(r, c).ver = ver /\ NewestOf(r, c).gen = gen
    /\ \A i \in 1..Len(c.ring) : c.ring[i].gen \in {0, gen}

EndedAfter(r, c) ==
    /\ c.terminal.kind = "Gap" /\ c.terminal.seq >= 3
    /\ c.terminal.seq = NewestOf(r, c).seq + 1

WellLogged(r, c, gen, ver) ==
    c.state # "Closed" =>
        /\ Chained(r, c)
        /\ c.state = "Active" => UpTo(r, c, gen, ver)
        /\ c.state = "TerminalGap" => EndedAfter(r, c)

\* Append, as the log uses it.
LEMMA AppendShape ==
    ASSUME NEW S, NEW old \in Seq(S), NEW e \in S, NEW new,
           new = Append(old, e)
    PROVE  /\ new \in Seq(S) /\ Len(new) = Len(old) + 1
           /\ \A i \in 1..Len(old) : new[i] = old[i]
           /\ new[Len(old) + 1] = e
OBVIOUS

\* Terminalize() leaves the log alone and ends it, whatever the book becomes.
LEMMA TerminalizeEnds ==
    ASSUME NEW r \in Records, NEW c \in Channels, NEW gen, NEW ver,
           WellLogged(r, c, gen, ver),
           NEW reason \in Reasons, NEW g \in Nat, NEW d,
           d = Terminalize(c, reason, g)
    PROVE  /\ d \in Channels /\ d.state # "Active"
           /\ d.state = "Closed" <=> c.state = "Closed"
           /\ \A gen2, ver2 : WellLogged(r, d, gen2, ver2)
<1>1. /\ c.state \in ChannelStates /\ c.ring \in Seq(Records)
      /\ c.terminal \in Records /\ c.next \in 1..MaxSequence
  BY DEF Channels
<1>2. CASE c.state # "Active"
  <2>1. d = c
    BY <1>2 DEF Terminalize
  <2> QED BY <1>2, <2>1 DEF WellLogged
<1>3. CASE c.state = "Active"
  <2>1. c.terminal = NoRecord /\ c.next = NewestOf(r, c).seq + 1
        /\ c.next >= 3 /\ Chained(r, c)
    BY <1>3 DEF WellLogged, UpTo
  <2>2. d = [c EXCEPT !.terminal = TerminalDescriptor(c.next, g, reason),
                      !.next = SaturatingNext(c), !.state = "TerminalGap"]
    BY <1>3, <2>1 DEF Terminalize
  <2>3. SaturatingNext(c) \in 1..MaxSequence
    BY <1>1, ChannelAssumption DEF SaturatingNext
  <2>4. TerminalDescriptor(c.next, g, reason) \in Records
    BY <1>1 DEF TerminalDescriptor, Records, Kinds
  <2>5. d \in Channels
    BY <1>1, <2>2, <2>3, <2>4 DEF Channels, ChannelStates
  <2>6. /\ d.state = "TerminalGap" /\ d.ring = c.ring
        /\ d.terminal = TerminalDescriptor(c.next, g, reason)
    BY <2>2 DEF Channels
  <2>7. d.terminal.kind = "Gap" /\ d.terminal.seq = c.next
    BY <2>6 DEF TerminalDescriptor
  <2>8. NewestOf(r, d) = NewestOf(r, c)
    BY <2>6 DEF NewestOf
  <2>9. Chained(r, d) /\ EndedAfter(r, d)
    BY <2>1, <2>6, <2>7, <2>8 DEF Chained, EndedAfter
  <2> QED BY <1>3, <2>5, <2>6, <2>9 DEF WellLogged
<1> QED BY <1>2, <1>3

\* What admit_update() does to the log of one session: the record continues it,
\* or a full ring ends it.  Only an exhausted sequence leaves it behind the book.
LEMMA AdmitContinues ==
    ASSUME NEW r \in Records, NEW c \in Channels, NEW gen \in Nat,
           NEW ver \in Nat, WellLogged(r, c, gen, ver), NEW d,
           d = AdmitUpdate(c, gen, ver + 1)
    PROVE  /\ d \in Channels
           /\ d.state = "Closed" <=> c.state = "Closed"
           /\ d.state = "Active" => c.state = "Active"
           /\ AdmitResult(c) # "AllocationFailure" =>
                    WellLogged(r, d, gen, ver + 1)
           /\ AdmitResult(c) = "AllocationFailure" => WellLogged(r, d, gen, ver)
<1>1. /\ c.state \in ChannelStates /\ c.ring \in Seq(Records)
      /\ c.terminal \in Records /\ c.next \in 1..MaxSequence
      /\ Len(c.ring) \in Nat
  BY DEF Channels
<1>2. CASE AdmitResult(c) = "Admitted"
  <2> DEFINE new == UpdateRecord(c.next, gen, ver + 1)
  <2>1. c.state = "Active" /\ c.next # MaxSequence
    BY <1>2 DEF AdmitResult
  <2>2. d = [c EXCEPT !.ring = Append(c.ring, new), !.next = c.next + 1]
    BY <1>2 DEF AdmitUpdate
  <2>3. /\ new \in Records /\ new.seq = c.next /\ new.gen = gen
        /\ new.ver = ver + 1 /\ new.kind = "Update"
    BY <1>1 DEF UpdateRecord, Records, Kinds, Reasons
  <2> HIDE DEF new
  <2>4. /\ d.state = "Active" /\ d.terminal = c.terminal /\ d.next = c.next + 1
        /\ d.ring = Append(c.ring, new)
    BY <2>1, <2>2 DEF Channels
  <2>5. /\ d.ring \in Seq(Records) /\ Len(d.ring) = Len(c.ring) + 1
        /\ \A i \in 1..Len(c.ring) : d.ring[i] = c.ring[i]
        /\ d.ring[Len(c.ring) + 1] = new
    <3>1. /\ c.ring \in Seq(Records) /\ new \in Records
          /\ d.ring = Append(c.ring, new)
      BY <1>1, <2>3, <2>4
    <3> QED BY ONLY <3>1, AppendShape
  <2>6. d \in Channels
    <3>1. c.next + 1 \in 1..MaxSequence
      BY <1>1, <2>1, ChannelAssumption
    <3> QED BY <1>1, <2>2, <2>4, <2>5, <3>1 DEF Channels
  <2>7. Chained(r, c) /\ UpTo(r, c, gen, ver)
    BY <2>1 DEF WellLogged
  <2>8. NewestOf(r, d) = new
    BY <1>1, <2>5 DEF NewestOf
  <2>9. Continues(NewestOf(r, c), new)
    BY <1>1, <2>3, <2>7 DEF UpTo, Continues, KindAt
  <2>10. Chained(r, d)
    <3>1. Continues(r, d.ring[1])
      <4>1. CASE c.ring = <<>>
        BY <2>5, <2>9, <4>1 DEF NewestOf
      <4>2. CASE c.ring # <<>>
        BY <1>1, <2>5, <2>7, <4>2 DEF Chained
      <4> QED BY <4>1, <4>2
    <3>2. ASSUME NEW i \in 2..Len(d.ring)
          PROVE  Continues(d.ring[i - 1], d.ring[i])
      <4>1. CASE i \in 2..Len(c.ring)
        <5>1. d.ring[i] = c.ring[i] /\ d.ring[i - 1] = c.ring[i - 1]
          <6>1. i \in 1..Len(c.ring) /\ i - 1 \in 1..Len(c.ring)
            BY <1>1, <4>1
          <6> QED BY <2>5, <6>1
        <5> QED BY <2>7, <4>1, <5>1 DEF Chained
      <4>2. CASE i = Len(c.ring) + 1
        <5>1. c.ring # <<>> /\ d.ring[i - 1] = c.ring[Len(c.ring)]
              /\ d.ring[i] = new
          BY <1>1, <2>5, <4>2
        <5> QED BY <2>9, <5>1 DEF NewestOf
      <4>3. i \in 2..Len(c.ring) \/ i = Len(c.ring) + 1
        BY <1>1, <2>5
      <4> QED BY <4>1, <4>2, <4>3
    <3>3. ASSUME NEW i \in 1..Len(d.ring)
          PROVE  d.ring[i].kind \in {"Accepted", "Snapshot", "Update"}
      <4>1. i \in 1..Len(c.ring) \/ i = Len(c.ring) + 1
        BY <1>1, <2>5
      <4> QED BY <2>3, <2>5, <2>7, <4>1 DEF Chained
    <3> QED BY <2>7, <3>1, <3>2, <3>3 DEF Chained
  <2>11. UpTo(r, d, gen, ver + 1)
    <3>1. ASSUME NEW i \in 1..Len(d.ring) PROVE d.ring[i].gen \in {0, gen}
      <4>1. i \in 1..Len(c.ring) \/ i = Len(c.ring) + 1
        BY <1>1, <2>5
      <4> QED BY <2>3, <2>5, <2>7, <4>1 DEF UpTo
    <3>2. c.terminal = NoRecord /\ d.next >= 3
      BY <1>1, <2>4, <2>7 DEF UpTo
    <3> QED BY <2>3, <2>4, <2>8, <3>1, <3>2 DEF UpTo
  <2> QED BY <1>2, <2>1, <2>4, <2>6, <2>10, <2>11 DEF WellLogged
<1>3. CASE AdmitResult(c) = "Terminalized"
  <2> DEFINE notice == TerminalDescriptor(c.next, 0, "SlowConsumer")
  <2>1. c.state = "Active"
    BY <1>3 DEF AdmitResult
  <2>2. d = [c EXCEPT !.terminal = notice, !.next = SaturatingNext(c),
                      !.state = "TerminalGap"]
    BY <1>3 DEF AdmitUpdate
  <2>3. notice \in Records /\ notice.kind = "Gap" /\ notice.seq = c.next
    BY <1>1 DEF TerminalDescriptor, Records, Kinds, Reasons
  <2> HIDE DEF notice
  <2>4. SaturatingNext(c) \in 1..MaxSequence
    BY <1>1, ChannelAssumption DEF SaturatingNext
  <2>5. d \in Channels
    BY <1>1, <2>2, <2>3, <2>4 DEF Channels, ChannelStates
  <2>6. d.state = "TerminalGap" /\ d.ring = c.ring /\ d.terminal = notice
    BY <2>2 DEF Channels
  <2>7. Chained(r, c) /\ UpTo(r, c, gen, ver)
    BY <2>1 DEF WellLogged
  <2>8. Chained(r, d) /\ EndedAfter(r, d)
    BY <2>3, <2>6, <2>7 DEF Chained, EndedAfter, NewestOf, UpTo
  <2> QED BY <1>3, <2>1, <2>5, <2>6, <2>8 DEF WellLogged
<1>4. CASE AdmitResult(c) \notin {"Admitted", "Terminalized"}
  <2>1. d = c
    BY <1>4 DEF AdmitUpdate
  <2>2. AdmitResult(c) # "AllocationFailure" => c.state # "Active"
    BY <1>4 DEF AdmitResult
  <2> QED BY <2>1, <2>2 DEF WellLogged
<1> QED BY <1>2, <1>3, <1>4

\* n may be the record that follows r on a stream: OrderedDelivery's Follows, of
\* the last record written (NoRecord before the first).
Delivers(r, n) ==
    /\ n.seq = r.seq + 1 /\ r.kind # "Gap"
    /\ \/ Continues(r, n)
       \/ n.kind = "Gap" /\ n.seq >= 3

\* A turn of the handler: acknowledging what it read moves the log by a record.
LEMMA ReadMoves ==
    ASSUME NEW r \in Records, NEW c \in Channels, NEW gen, NEW ver,
           WellLogged(r, c, gen, ver), NEW h, h = Peek(c), h # NoRecord,
           NEW d, d = Acknowledge(c, h)
    PROVE  /\ d \in Channels /\ h \in Records
           /\ c.state # "Closed"
           /\ d.state = "Active" => c.state = "Active"
           /\ WellLogged(h, d, gen, ver) /\ Delivers(r, h)
<1>1. /\ c.state \in ChannelStates /\ c.ring \in Seq(Records)
      /\ c.terminal \in Records /\ c.next \in 1..MaxSequence
      /\ Len(c.ring) \in Nat
  BY DEF Channels
<1>2. c.state # "Closed"
  BY DEF Peek
<1>3. Chained(r, c)
  BY <1>2 DEF WellLogged
<1>4. CASE c.ring # <<>>
  <2>1. h = c.ring[1] /\ h = Head(c.ring) /\ h \in Records
    BY <1>1, <1>2, <1>4 DEF Peek
  <2>2. h.kind # "Gap"
    BY <1>1, <1>3, <1>4, <2>1 DEF Chained
  <2>3. AcknowledgeResult(c, h) = "Acknowledged"
    BY <1>2, <1>4, <2>1, <2>2 DEF AcknowledgeResult
  <2>4. d = [c EXCEPT !.ring = Tail(c.ring)]
    BY <2>3 DEF Acknowledge
  <2>5. /\ d.state = c.state /\ d.terminal = c.terminal /\ d.next = c.next
        /\ d.ring = Tail(c.ring)
    BY <2>4 DEF Channels
  <2>6. /\ d.ring \in Seq(Records) /\ Len(d.ring) = Len(c.ring) - 1
        /\ \A i \in 1..Len(d.ring) : d.ring[i] = c.ring[i + 1]
    BY <1>1, <1>4, <2>5
  <2>7. d \in Channels
    BY <1>1, <2>4, <2>6, <2>5 DEF Channels
  <2>8. NewestOf(h, d) = NewestOf(r, c)
    <3>1. CASE d.ring = <<>>
      <4>1. Len(c.ring) = 1
        BY <1>1, <1>4, <2>6, <3>1
      <4> QED BY <1>4, <2>1, <3>1, <4>1 DEF NewestOf
    <3>2. CASE d.ring # <<>>
      <4>1. Len(d.ring) \in 1..Len(d.ring) /\ Len(d.ring) + 1 = Len(c.ring)
        BY <1>1, <2>6, <3>2
      <4> QED BY <1>4, <2>6, <3>2, <4>1 DEF NewestOf
    <3> QED BY <3>1, <3>2
  <2>9. Chained(h, d)
    <3>1. ASSUME d.ring # <<>> PROVE Continues(h, d.ring[1])
      <4>1. 1 \in 1..Len(d.ring) /\ 2 \in 2..Len(c.ring)
        BY <1>1, <2>6, <3>1
      <4>2. d.ring[1] = c.ring[2]
        BY <2>6, <4>1
      <4>3. Continues(c.ring[2 - 1], c.ring[2])
        BY <1>3, <4>1 DEF Chained
      <4> QED BY <2>1, <4>2, <4>3
    <3>2. ASSUME NEW i \in 2..Len(d.ring)
          PROVE  Continues(d.ring[i - 1], d.ring[i])
      <4>1. /\ i + 1 \in 2..Len(c.ring) /\ i \in 1..Len(d.ring)
            /\ i - 1 \in 1..Len(d.ring) /\ (i + 1) - 1 = i /\ (i - 1) + 1 = i
        BY <1>1, <2>6
      <4>2. d.ring[i] = c.ring[i + 1] /\ d.ring[i - 1] = c.ring[i]
        BY <2>6, <4>1
      <4>3. Continues(c.ring[(i + 1) - 1], c.ring[i + 1])
        BY <1>3, <4>1 DEF Chained
      <4> QED BY <4>1, <4>2, <4>3
    <3>3. ASSUME NEW i \in 1..Len(d.ring)
          PROVE  d.ring[i].kind \in {"Accepted", "Snapshot", "Update"}
      <4>1. i + 1 \in 1..Len(c.ring) /\ d.ring[i] = c.ring[i + 1]
        BY <1>1, <2>6
      <4> QED BY <1>3, <4>1 DEF Chained
    <3> QED BY <2>2, <3>1, <3>2, <3>3 DEF Chained
  <2>10. ASSUME d.state = "Active" PROVE UpTo(h, d, gen, ver)
    <3>1. UpTo(r, c, gen, ver)
      BY <2>5, <2>10 DEF WellLogged
    <3>2. ASSUME NEW i \in 1..Len(d.ring) PROVE d.ring[i].gen \in {0, gen}
      <4>1. i + 1 \in 1..Len(c.ring) /\ d.ring[i] = c.ring[i + 1]
        BY <1>1, <2>6
      <4> QED BY <3>1, <4>1 DEF UpTo
    <3> QED BY <2>5, <2>8, <3>1, <3>2 DEF UpTo
  <2>11. ASSUME d.state = "TerminalGap" PROVE EndedAfter(h, d)
    BY <2>5, <2>8, <2>11 DEF WellLogged, EndedAfter
  <2>12. Delivers(r, h)
    BY <1>3, <1>4, <2>1 DEF Chained, Continues, Delivers
  <2> QED BY <1>2, <2>1, <2>5, <2>7, <2>9, <2>10, <2>11, <2>12 DEF WellLogged
<1>5. CASE c.ring = <<>>
  <2>1. h = c.terminal /\ h \in Records
    BY <1>1, <1>2, <1>5 DEF Peek
  <2>2. c.state = "TerminalGap" /\ h.kind = "Gap"
    BY <1>1, <1>2, <2>1 DEF WellLogged, UpTo, EndedAfter, ChannelStates
  <2>3. AcknowledgeResult(c, h) = "Closed"
    BY <1>2, <1>5, <2>1, <2>2 DEF AcknowledgeResult
  <2>4. d = [c EXCEPT !.terminal = NoRecord, !.state = "Closed"]
    BY <1>2, <2>3 DEF Acknowledge
  <2>5. NoRecord \in Records
    BY DEF NoRecord, Records, Kinds, Reasons
  <2>6. d \in Channels
    BY <1>1, <2>4, <2>5 DEF Channels, ChannelStates
  <2>7. d.state = "Closed"
    BY <2>4 DEF Channels
  <2>8. Delivers(r, h)
    <3>1. EndedAfter(r, c) /\ NewestOf(r, c) = r
      BY <1>2, <1>5, <2>2 DEF WellLogged, NewestOf
    <3> QED BY <1>3, <2>1, <3>1 DEF EndedAfter, Chained, Delivers
  <2> QED BY <1>2, <2>1, <2>6, <2>7, <2>8 DEF WellLogged
<1> QED BY <1>4, <1>5

\* The two records an admission stages are the head of the log.
LEMMA StageBegins ==
    ASSUME NEW gen \in Nat, NEW ver \in Nat, NEW d,
           d = StageInitial(NewChannel, gen, ver)
    PROVE  /\ d \in Channels /\ d.state = "Active"
           /\ WellLogged(NoRecord, d, gen, ver)
<1> DEFINE first == AcceptedRecord
           second == SnapshotRecord(gen, ver)
<1>1. /\ first \in Records /\ first.seq = 1 /\ first.kind = "Accepted"
      /\ first.gen = 0
  BY DEF AcceptedRecord, Records, Kinds, Reasons
<1>2. /\ second \in Records /\ second.seq = 2 /\ second.kind = "Snapshot"
      /\ second.gen = gen /\ second.ver = ver
  BY DEF SnapshotRecord, Records, Kinds, Reasons
<1>3. NoRecord \in Records /\ NoRecord.seq = 0 /\ NoRecord.kind # "Gap"
  BY DEF NoRecord, Records, Kinds, Reasons
<1>4. d = [state |-> "Active", ring |-> <<first, second>>,
           terminal |-> NoRecord, next |-> 3]
  BY DEF StageInitial, NewChannel
<1> HIDE DEF first, second
<1>5. /\ d.state = "Active" /\ d.ring = <<first, second>>
      /\ d.terminal = NoRecord /\ d.next = 3
  BY <1>4
<1>6. /\ d.ring \in Seq(Records) /\ Len(d.ring) = 2
      /\ d.ring[1] = first /\ d.ring[2] = second /\ d.ring # <<>>
  BY <1>1, <1>2, <1>5
<1>7. 3 \in 1..MaxSequence
  BY ChannelAssumption
<1>8. d \in Channels
  BY <1>3, <1>4, <1>6, <1>5, <1>7 DEF Channels, ChannelStates
<1>9. NewestOf(NoRecord, d) = second
  BY <1>6 DEF NewestOf
<1>10. Chained(NoRecord, d)
  <2>1. Continues(NoRecord, first) /\ Continues(first, second)
    BY <1>1, <1>2, <1>3 DEF Continues, KindAt
  <2>2. \A i \in 2..Len(d.ring) : i = 2
    BY <1>6
  <2>3. \A i \in 1..Len(d.ring) : i = 1 \/ i = 2
    BY <1>6
  <2>4. \A i \in 2..Len(d.ring) : Continues(d.ring[i - 1], d.ring[i])
    BY <1>6, <2>1, <2>2
  <2> QED BY <1>1, <1>2, <1>3, <1>6, <2>1, <2>3, <2>4 DEF Chained
<1>11. UpTo(NoRecord, d, gen, ver)
  <2>1. \A i \in 1..Len(d.ring) : i = 1 \/ i = 2
    BY <1>6
  <2> QED BY <1>1, <1>2, <1>5, <1>6, <1>9, <2>1 DEF UpTo
<1> QED BY <1>5, <1>8, <1>10, <1>11 DEF WellLogged

\* Both ways of closing a channel leave a channel without a log to speak of.
LEMMA ClosingShape ==
    ASSUME NEW c \in Channels
    PROVE  /\ CloseFromOwner(c) \in Channels
           /\ CloseFromWriter(c) \in Channels
           /\ CloseFromOwner(c).state = "Closed"
           /\ CloseFromWriter(c).state = "Closed"
<1>1. NoRecord \in Records
  BY DEF NoRecord, Records, Kinds, Reasons
<1>2. <<>> \in Seq(Records)
  OBVIOUS
<1> QED BY <1>1, <1>2 DEF CloseFromOwner, CloseFromWriter, Channels, ChannelStates

\* sweep() keeps exactly the subscribers whose channel is open: the entries that
\* stay are counted off in their order, so each of them has one place.
LEMMA SweepKeeps ==
    ASSUME NEW subs \in Seq(Sessions)
    PROVE  /\ sweep(subs) \in Seq(Sessions)
           /\ Len(sweep(subs)) <= Len(subs)
           /\ \A s \in Sessions :
                Resident(sweep(subs), s)
                <=> Resident(subs, s) /\ channels[s].state # "Closed"
<1> DEFINE open == {i \in 1..Len(subs) : channels[subs[i]].state # "Closed"}
           upto(i) == {j \in open : j <= i}
           rank(i) == Cardinality(upto(i))
           n == Cardinality(open)
           at(k) == CHOOSE i \in open : rank(i) = k
           counted == [i \in open |-> rank(i)]
<1>1. Len(subs) \in Nat /\ \A i \in 1..Len(subs) : subs[i] \in Sessions
  OBVIOUS
<1>2. IsFiniteSet(open) /\ n \in Nat /\ n <= Len(subs)
  <2>1. IsFiniteSet(1..Len(subs)) /\ Cardinality(1..Len(subs)) = Len(subs)
    <3>1. 1 \in Int /\ Len(subs) \in Int
      BY <1>1
    <3>2. /\ IsFiniteSet(1..Len(subs))
          /\ Cardinality(1..Len(subs)) = IF 1 > Len(subs) THEN 0
                                         ELSE Len(subs) - 1 + 1
      BY ONLY <3>1, FS_Interval
    <3> QED BY <1>1, <3>2
  <2>2. open \in SUBSET (1..Len(subs))
    OBVIOUS
  <2> HIDE DEF open
  <2> QED BY <2>1, <2>2, FS_Subset, FS_CardinalityType
<1>3. \A i \in open : i \in Int
  BY <1>1
<1>4. sweep(subs) = [k \in 1..n |-> subs[at(k)]]
  BY DEF sweep
<1>5. \A i \in open : i \in 1..Len(subs) /\ channels[subs[i]].state # "Closed"
  OBVIOUS
<1>6. \A i \in 1..Len(subs) : channels[subs[i]].state # "Closed" => i \in open
  OBVIOUS
<1> HIDE DEF open
<1>7. \A i \in open : rank(i) \in 1..n
  <2> SUFFICES ASSUME NEW i \in open PROVE rank(i) \in 1..n
    OBVIOUS
  <2>1. upto(i) \in SUBSET open /\ i \in upto(i)
    BY <1>3
  <2> HIDE DEF upto
  <2>2. IsFiniteSet(upto(i)) /\ rank(i) <= n
    BY <1>2, <2>1, FS_Subset
  <2>3. rank(i) \in Nat /\ rank(i) # 0
    BY <2>1, <2>2, FS_CardinalityType, FS_EmptySet
  <2> QED BY <1>2, <2>2, <2>3
<1>8. \A i, j \in open : rank(i) = rank(j) => i = j
  <2>1. ASSUME NEW i \in open, NEW j \in open, i < j
        PROVE  rank(i) # rank(j)
    <3>1. upto(i) \in SUBSET upto(j) /\ j \in upto(j) /\ j \notin upto(i)
          /\ upto(j) \in SUBSET open
      BY <1>3, <2>1
    <3> HIDE DEF upto
    <3>2. IsFiniteSet(upto(j))
      BY <1>2, <3>1, FS_Subset
    <3> QED BY <3>1, <3>2, FS_Subset
  <2> HIDE DEF rank
  <2> QED BY <1>3, <2>1
<1> HIDE DEF rank
<1>9. \A k \in 1..n : at(k) \in open /\ rank(at(k)) = k
  <2>1. counted \in Injection(open, 1..n)
    BY <1>7, <1>8 DEF Injection, IsInjective
  <2>2. IsFiniteSet(1..n) /\ Cardinality(1..n) = n
    BY <1>2, FS_Interval
  <2>3. counted \in Surjection(open, 1..n)
    BY <2>1, <2>2, FS_Injection
  <2>4. \A k \in 1..n : \E i \in open : rank(i) = k
    BY <2>3 DEF Surjection
  <2> QED BY <2>4
<1>10. \A i \in open : at(rank(i)) = i
  BY <1>7, <1>8, <1>9
<1> HIDE DEF at, n
<1>11. /\ sweep(subs) \in Seq(Sessions) /\ Len(sweep(subs)) = n
       /\ \A k \in 1..n : sweep(subs)[k] = subs[at(k)]
  BY <1>1, <1>2, <1>4, <1>5, <1>9
<1>12. ASSUME NEW s \in Sessions
       PROVE  Resident(sweep(subs), s)
              <=> Resident(subs, s) /\ channels[s].state # "Closed"
  <2>1. ASSUME Resident(sweep(subs), s)
        PROVE  Resident(subs, s) /\ channels[s].state # "Closed"
    BY <1>5, <1>9, <1>11, <2>1 DEF Resident
  <2>2. ASSUME Resident(subs, s), channels[s].state # "Closed"
        PROVE  Resident(sweep(subs), s)
    <3>1. PICK i \in 1..Len(subs) : subs[i] = s
      BY <2>2 DEF Resident
    <3>2. i \in open
      BY <1>6, <2>2, <3>1
    <3> QED BY <1>7, <1>10, <1>11, <3>1, <3>2 DEF Resident
  <2> QED BY <2>1, <2>2
<1> QED BY <1>2, <1>11, <1>12

-----------------------------------------------------------------------------
(* The invariant of the sessions.                                             *)

SessionTypes ==
    /\ channels \in [Sessions -> Channels]
    /\ lastRead \in [Sessions -> Records]
    /\ subscribers \in Seq(Sessions)
    /\ projGen \in Nat

\* Every open channel is on the owner's list and its log is well kept; an Active
\* one has a book behind it that nothing is about to take away.
SessionOK(s) ==
    /\ WellLogged(lastRead[s], channels[s], projGen, projection.ver)
    /\ channels[s].state # "Closed" =>
            /\ Resident(subscribers, s)
            /\ pc \notin {"down", "exited"} /\ ~shutdownDone
    /\ channels[s].state = "Active" =>
            /\ projection.status = "Synchronized" /\ faultReason = "None"
            /\ pc # "fault"

\* The observation shows the book wherever an admission looks at it; a book that
\* takes updates has a generation; a shutdown of the publication was asked for.
BookOK ==
    /\ pc \in {"down", "select", "admit", "stage", "snapshot", "reset", "finish"}
            => obsStatus = projection.status
    /\ projection.status \in {"AwaitingBridge", "Synchronized"} => projGen # 0
    /\ shutdownDone => shutdownAsked

\* An RPC waits for at most one admission, and has read nothing before it.
AdmissionsOK ==
    /\ rpc \in [Sessions -> {"Idle", "Pending", "Streaming", "Refused", "Gone"}]
    /\ admissions \in Seq([session : Sessions, target : Nat])
    /\ \A i \in 1..Len(admissions) : rpc[admissions[i].session] = "Pending"
    /\ \A i, j \in 1..Len(admissions) :
            admissions[i].session = admissions[j].session => i = j
    /\ pc \in {"admit", "stage"} =>
            /\ serving \in Sessions /\ rpc[serving] = "Pending"
            /\ \A i \in 1..Len(admissions) : admissions[i].session # serving
    /\ \A s \in Sessions :
            rpc[s] \in {"Idle", "Pending"} => lastRead[s] = NoRecord

SessionInv ==
    /\ SessionTypes /\ BookOK /\ AdmissionsOK
    /\ \A s \in Sessions : SessionOK(s)

\* No session is served before the runtime starts.
LEMMA SessionInit == Init => SessionInv
<1> SUFFICES ASSUME Init PROVE SessionInv
  OBVIOUS
<1>1. NoRecord \in Records /\ NoChannel \in Channels
      /\ NoChannel.state = "Closed"
  <2>1. NoRecord \in Records
    BY DEF NoRecord, Records, Kinds, Reasons
  <2>2. NoChannel = [state |-> "Closed", ring |-> <<>>, terminal |-> NoRecord,
                     next |-> 1]
    BY DEF NoChannel, NewChannel
  <2>3. 1 \in 1..MaxSequence /\ <<>> \in Seq(Records)
    BY ChannelAssumption
  <2> QED BY <2>1, <2>2, <2>3 DEF Channels, ChannelStates
<1>2. /\ channels \in [Sessions -> Channels]
      /\ \A s \in Sessions : channels[s].state = "Closed"
      /\ lastRead \in [Sessions -> Records]
      /\ \A s \in Sessions : lastRead[s] = NoRecord
  BY <1>1 DEF Init
<1>3. SessionTypes
  BY <1>2 DEF Init, SessionTypes
<1>4. BookOK
  BY DEF Init, BookOK
<1>5. AdmissionsOK
  BY <1>2 DEF Init, AdmissionsOK
<1>6. \A s \in Sessions : SessionOK(s)
  BY <1>2 DEF SessionOK, WellLogged
<1> QED BY <1>3, <1>4, <1>5, <1>6 DEF SessionInv

\* Steps that leave every channel alone, and the book and the owner's place as
\* an Active session needs them.  The list may be swept meanwhile.
LEMMA SessionsKept ==
    ASSUME SessionInv, UNCHANGED <<channels, lastRead>>, projGen' \in Nat,
           subscribers' = subscribers \/ subscribers' = sweep(subscribers),
           \A s \in Sessions : channels[s].state # "Closed" =>
                pc' \notin {"down", "exited"} /\ ~shutdownDone',
           \A s \in Sessions : channels[s].state = "Active" =>
                /\ UNCHANGED <<projection, projGen, faultReason>>
                /\ pc' # "fault"
    PROVE  SessionTypes' /\ \A s \in Sessions : SessionOK(s)'
<1>1. SessionTypes
  BY DEF SessionInv
<1>2. subscribers' \in Seq(Sessions)
  BY <1>1, SweepKeeps DEF SessionTypes
<1>3. ASSUME NEW s \in Sessions PROVE SessionOK(s)'
  <2>1. SessionOK(s)
    BY DEF SessionInv
  <2>2. channels[s].state # "Closed" => Resident(subscribers', s)
    BY <1>1, <2>1, SweepKeeps DEF SessionTypes, SessionOK
  <2>3. WellLogged(lastRead[s], channels[s], projGen', projection'.ver)
    BY <2>1 DEF SessionOK, WellLogged
  <2> QED BY <2>1, <2>2, <2>3 DEF SessionOK
<1> QED BY <1>1, <1>2, <1>3 DEF SessionTypes

\* terminalize_active_subscribers() ends every session that was Active, because
\* all of them are on the list.  Nothing is then asked of the book.
LEMMA SessionsEnd ==
    ASSUME SessionInv, NEW chs \in [Sessions -> Channels],
           \A s \in Sessions :
                /\ \E ver : WellLogged(lastRead[s], chs[s], projGen, ver)
                /\ chs[s].state = "Closed" <=> channels[s].state = "Closed",
           NEW reason \in Reasons, NEW g \in Nat,
           channels' = terminalize_active_subscribers(chs, reason, g),
           subscribers' = sweep(subscribers), lastRead' = lastRead,
           projGen' \in Nat, pc' \notin {"down", "exited"},
           shutdownDone' => shutdownDone
    PROVE  SessionTypes' /\ \A s \in Sessions : SessionOK(s)'
<1>1. SessionTypes
  BY DEF SessionInv
<1>2. subscribers' \in Seq(Sessions)
  BY <1>1, SweepKeeps DEF SessionTypes
<1>3. ASSUME NEW s \in Sessions
      PROVE  /\ channels'[s] \in Channels /\ channels'[s].state # "Active"
             /\ channels'[s].state = "Closed" <=> channels[s].state = "Closed"
             /\ \A gen2, ver2 : WellLogged(lastRead[s], channels'[s], gen2, ver2)
  <2>1. chs[s] \in Channels /\ lastRead[s] \in Records
    BY <1>1 DEF SessionTypes
  <2>2. PICK ver : WellLogged(lastRead[s], chs[s], projGen, ver)
    OBVIOUS
  <2>3. CASE Resident(subscribers, s)
    <3>1. channels'[s] = Terminalize(chs[s], reason, g)
      BY <2>3 DEF terminalize_active_subscribers
    <3> QED BY <2>1, <2>2, <3>1, TerminalizeEnds
  <2>4. CASE ~Resident(subscribers, s)
    <3>1. channels'[s] = chs[s]
      BY <2>4 DEF terminalize_active_subscribers
    <3>2. channels[s].state = "Closed"
      BY <2>4 DEF SessionInv, SessionOK
    <3> QED BY <2>1, <3>1, <3>2 DEF WellLogged
  <2> QED BY <2>3, <2>4
<1>4. channels' \in [Sessions -> Channels]
  BY <1>3 DEF terminalize_active_subscribers
<1>5. ASSUME NEW s \in Sessions PROVE SessionOK(s)'
  <2>1. SessionOK(s)
    BY DEF SessionInv
  <2>2. channels[s].state # "Closed" => Resident(subscribers', s)
    BY <1>1, <2>1, SweepKeeps DEF SessionTypes, SessionOK
  <2> QED BY <1>3, <2>1, <2>2 DEF SessionOK
<1> QED BY <1>1, <1>2, <1>4, <1>5 DEF SessionTypes

\* transition_to_fault() up to its critical section.
LEMMA FaultEnds ==
    ASSUME SessionInv, NEW reason, BeginFault(reason, channels),
           lastRead' = lastRead, projGen' \in Nat, shutdownDone' => shutdownDone
    PROVE  SessionTypes' /\ \A s \in Sessions : SessionOK(s)'
<1>1. /\ channels' = terminalize_active_subscribers(channels,
                            "ResumeNotAvailable", projGen)
      /\ subscribers' = sweep(subscribers) /\ pc' = "fault"
  BY DEF BeginFault
<1>2. channels \in [Sessions -> Channels] /\ projGen \in Nat
  BY DEF SessionInv, SessionTypes
<1>3. \A s \in Sessions : \E ver :
            WellLogged(lastRead[s], channels[s], projGen, ver)
  BY DEF SessionInv, SessionOK
<1>4. "ResumeNotAvailable" \in Reasons
  BY DEF Reasons
<1> QED BY <1>1, <1>2, <1>3, <1>4, SessionsEnd

\* The fan-out: every session the owner reaches is given the version the book
\* reached, and if one cannot take it all of them are ended.
LEMMA FanOutKeeps ==
    ASSUME TicketInv, SessionInv, NEW gen \in Nat, gen # 0, NEW next,
           next \notin {"down", "exited", "fault"}, ApplyFansOut(gen, next),
           UNCHANGED <<lastRead, projGen, faultReason, shutdownDone>>
    PROVE  SessionTypes' /\ \A s \in Sessions : SessionOK(s)'
<1> DEFINE live == sweep(subscribers)
           pushed == [s \in Sessions |->
                        IF ~shutdownDone /\ ReachedBy(live, s)
                        THEN AdmitUpdate(channels[s], gen, projection.ver + 1)
                        ELSE channels[s]]
           exhausted == \E s \in Sessions :
                            /\ ~shutdownDone /\ Resident(live, s)
                            /\ AdmitResult(channels[s]) = "AllocationFailure"
<1>1. /\ projection.status \in {"AwaitingBridge", "Synchronized"}
      /\ GenerationMatches(gen)
      /\ projection' = [status |-> "Synchronized", ver |-> projection.ver + 1]
      /\ \/ exhausted /\ BeginFault("InternalError", pushed)
         \/ /\ ~exhausted /\ channels' = pushed /\ pc' = next
            /\ subscribers' = IF shutdownDone THEN subscribers ELSE live
         \/ BeginFault("ClockError", channels)
  BY DEF ApplyFansOut
<1>2. projGen = gen
  BY <1>1 DEF GenerationMatches, SessionInv, BookOK
<1>3. /\ SessionTypes /\ projection.ver \in Nat
      /\ projection'.status = "Synchronized"
      /\ projection'.ver = projection.ver + 1
  BY <1>1 DEF SessionInv, TicketInv, TicketTypes
<1>4. ASSUME NEW s \in Sessions
      PROVE  /\ channels[s] \in Channels /\ lastRead[s] \in Records
             /\ WellLogged(lastRead[s], channels[s], gen, projection.ver)
  BY <1>2, <1>3 DEF SessionTypes, SessionInv, SessionOK
<1>5. ASSUME NEW s \in Sessions, NEW d,
             d = AdmitUpdate(channels[s], gen, projection.ver + 1)
      PROVE  /\ d \in Channels
             /\ d.state = "Closed" <=> channels[s].state = "Closed"
             /\ AdmitResult(channels[s]) # "AllocationFailure" =>
                    WellLogged(lastRead[s], d, gen, projection.ver + 1)
             /\ AdmitResult(channels[s]) = "AllocationFailure" =>
                    WellLogged(lastRead[s], d, gen, projection.ver)
  BY <1>3, <1>4, <1>5, AdmitContinues
<1>6. \A s \in Sessions :
         pushed[s] = IF ~shutdownDone /\ ReachedBy(live, s)
                     THEN AdmitUpdate(channels[s], gen, projection.ver + 1)
                     ELSE channels[s]
  OBVIOUS
<1>7. \A s \in Sessions :
         /\ pushed[s] \in Channels
         /\ \E ver : WellLogged(lastRead[s], pushed[s], projGen, ver)
         /\ pushed[s].state = "Closed" <=> channels[s].state = "Closed"
  <2> HIDE DEF pushed
  <2> QED BY <1>2, <1>4, <1>5, <1>6
<1>8. pushed \in [Sessions -> Channels]
  BY <1>7
<1>9. CASE exhausted /\ BeginFault("InternalError", pushed)
  <2>1. /\ channels' = terminalize_active_subscribers(pushed,
                            "ResumeNotAvailable", projGen)
        /\ subscribers' = sweep(subscribers) /\ pc' = "fault"
    BY <1>9 DEF BeginFault
  <2>2. "ResumeNotAvailable" \in Reasons
    BY DEF Reasons
  <2> HIDE DEF pushed
  <2> QED BY <1>2, <1>7, <1>8, <2>1, <2>2, SessionsEnd
<1>10. CASE /\ ~exhausted /\ channels' = pushed /\ pc' = next
            /\ subscribers' = IF shutdownDone THEN subscribers ELSE live
  <2>1. \A s \in Sessions : ~shutdownDone /\ Resident(live, s) =>
            /\ AdmitResult(channels[s]) # "AllocationFailure"
    BY <1>10
  <2>2. live \in Seq(Sessions)
        /\ \A s \in Sessions : Resident(live, s) <=>
                Resident(subscribers, s) /\ channels[s].state # "Closed"
    BY <1>3, SweepKeeps DEF SessionTypes
  <2> HIDE DEF live, pushed, exhausted
  <2>3. ASSUME NEW s \in Sessions, ~shutdownDone, Resident(live, s)
        PROVE  ReachedBy(live, s)
    <3>1. PICK i \in 1..Len(live) : live[i] = s
      BY <2>3 DEF Resident
    <3>2. ASSUME NEW j \in 1..i
          PROVE  AdmitResult(channels[live[j]]) # "AllocationFailure"
      <4>1. j \in 1..Len(live) /\ live[j] \in Sessions
        BY <2>2
      <4>2. Resident(live, live[j])
        BY <4>1 DEF Resident
      <4> QED BY <2>1, <2>3, <4>1, <4>2
    <3> QED BY <3>1, <3>2 DEF ReachedBy
  <2>4. ASSUME NEW s \in Sessions PROVE SessionOK(s)'
    <3>1. SessionOK(s) /\ channels'[s] = pushed[s]
      BY <1>10 DEF SessionInv
    <3>2. CASE channels[s].state = "Closed"
      <4>1. channels'[s].state = "Closed"
        BY <1>7, <3>1, <3>2
      <4> QED BY <4>1 DEF SessionOK, WellLogged
    <3>3. CASE channels[s].state # "Closed"
      <4>1. Resident(subscribers, s) /\ ~shutdownDone
        BY <3>1, <3>3 DEF SessionOK
      <4>2. Resident(live, s) /\ ReachedBy(live, s) /\ subscribers' = live
        BY <1>10, <2>2, <2>3, <3>3, <4>1
      <4>3. channels'[s] = AdmitUpdate(channels[s], gen, projection.ver + 1)
        BY <1>6, <3>1, <4>1, <4>2
      <4>4. WellLogged(lastRead[s], channels'[s], gen, projection.ver + 1)
        BY <1>5, <2>1, <4>1, <4>2, <4>3
      <4>5. channels'[s].state = "Active" => channels[s].state = "Active"
        BY <1>3, <1>4, <4>3, AdmitContinues
      <4>6. faultReason = "None" \/ channels'[s].state # "Active"
        BY <3>1, <4>5 DEF SessionOK
      <4>7. pc' \notin {"down", "exited", "fault"}
        BY <1>10
      <4> QED BY <1>2, <1>3, <4>1, <4>2, <4>4, <4>6, <4>7 DEF SessionOK
    <3> QED BY <3>2, <3>3
  <2>5. SessionTypes'
    BY <1>3, <1>8, <1>10, <2>2 DEF SessionTypes
  <2> QED BY <2>4, <2>5
<1>11. CASE BeginFault("ClockError", channels)
  BY <1>3, <1>11, FaultEnds DEF SessionTypes
<1> QED BY <1>1, <1>9, <1>10, <1>11

\* apply_update() with an update of the book's generation or of none.
LEMMA ApplyKeeps ==
    ASSUME TicketInv, SessionInv, NEW gen \in Nat, gen # 0, NEW next,
           next \notin {"down", "exited", "fault"}, ApplyUpdate(gen, next),
           pc \notin {"down", "exited", "fault"},
           UNCHANGED <<lastRead, projGen, faultReason, shutdownDone>>
    PROVE  SessionTypes' /\ \A s \in Sessions : SessionOK(s)'
<1>1. CASE ApplyFaults(gen)
  <2>1. PICK reason : BeginFault(reason, channels)
    BY <1>1 DEF ApplyFaults
  <2> QED BY <2>1, FaultEnds DEF SessionInv, SessionTypes
<1>2. CASE ApplyFansOut(gen, next)
  BY <1>2, FanOutKeeps
<1>3. CASE ApplyIgnores(gen, next)
  <2>1. /\ UNCHANGED <<channels, subscribers, projection>> /\ pc' = next
    BY <1>3 DEF ApplyIgnores, sessionVars
  <2> QED BY <2>1, SessionsKept DEF SessionInv, SessionTypes, SessionOK
<1>4. CASE ApplyFindsGap(gen, next)
  <2>1. /\ channels' = terminalize_active_subscribers(channels,
                                        "UpstreamSequenceGap", gen)
        /\ subscribers' = sweep(subscribers) /\ pc' = next
    BY <1>4 DEF ApplyFindsGap
  <2>2. channels \in [Sessions -> Channels] /\ projGen \in Nat
    BY DEF SessionInv, SessionTypes
  <2>3. \A s \in Sessions : \E ver :
            WellLogged(lastRead[s], channels[s], projGen, ver)
    BY DEF SessionInv, SessionOK
  <2>4. "UpstreamSequenceGap" \in Reasons
    BY DEF Reasons
  <2> QED BY <2>1, <2>2, <2>3, <2>4, SessionsEnd
<1> QED BY <1>1, <1>2, <1>3, <1>4 DEF ApplyUpdate

-----------------------------------------------------------------------------
\* Requests and answers of admissions.
LEMMA AdmissionsStep == TicketInv /\ SessionInv /\ [Next]_vars => AdmissionsOK'
<1> SUFFICES ASSUME TicketInv, SessionInv, [Next]_vars PROVE AdmissionsOK'
  OBVIOUS
<1> USE DEF lifeVars, ingressVars, requestVars, admissionVars, shutdownVars,
            ownerVars, bookVars, sessionVars, clientVars, envVars
<1>1. AdmissionsOK
  BY DEF SessionInv
<1>0. \A i \in 1..Len(admissions) : admissions[i].session \in Sessions
  <2> SUFFICES ASSUME NEW i \in 1..Len(admissions)
               PROVE  admissions[i].session \in Sessions
    OBVIOUS
  <2> DEFINE Requests == [session : Sessions, target : Nat]
  <2>1. admissions \in Seq(Requests)
    BY <1>1 DEF AdmissionsOK
  <2> HIDE DEF Requests
  <2>2. admissions[i] \in Requests
    BY <2>1
  <2> USE DEF Requests
  <2> QED BY <2>2
<1>2. ASSUME UNCHANGED <<rpc, admissions, serving, lastRead>>,
             pc' \in {"admit", "stage"} => pc \in {"admit", "stage"}
      PROVE  AdmissionsOK'
  BY <1>1, <1>2 DEF AdmissionsOK
<1>3. ASSUME admissions' = <<>>, pc' \notin {"admit", "stage"},
             lastRead' = lastRead,
             rpc' = [s \in Sessions |-> IF rpc[s] = "Pending" THEN "Refused"
                                                              ELSE rpc[s]]
      PROVE  AdmissionsOK'
  <2>1. rpc' \in [Sessions ->
                    {"Idle", "Pending", "Streaming", "Refused", "Gone"}]
    BY <1>1, <1>3 DEF AdmissionsOK
  <2>2. /\ admissions' \in Seq([session : Sessions, target : Nat])
        /\ Len(admissions') = 0
    BY <1>3
  <2>3. \A s \in Sessions : rpc'[s] \in {"Idle", "Pending"} => rpc[s] = rpc'[s]
    BY <1>3
  <2> QED BY <1>1, <1>3, <2>1, <2>2, <2>3 DEF AdmissionsOK
<1>4. ASSUME NEW answer \in {"Refused", "Streaming"}, pc \in {"admit", "stage"},
             rpc' = [rpc EXCEPT ![serving] = answer],
             UNCHANGED <<admissions, lastRead>>, pc' = "select"
      PROVE  AdmissionsOK'
  BY <1>1, <1>4 DEF AdmissionsOK
<1>5. CASE Owner
  <2>1. CASE OwnerShutsPublication
    BY <1>3, <2>1 DEF OwnerShutsPublication, CompleteAllAdmissions
  <2>2. CASE OwnerExits
    BY <1>3, <2>2 DEF OwnerExits, CompleteAllAdmissions
  <2>3. CASE OwnerTakesAdmission
    <3>1. /\ admissions # <<>> /\ serving' = Head(admissions).session
          /\ admissions' = Tail(admissions) /\ UNCHANGED <<rpc, lastRead>>
      BY <2>3 DEF OwnerTakesAdmission, admission_ready
    <3>2. admissions \in Seq([session : Sessions, target : Nat])
      BY <1>1 DEF AdmissionsOK
    <3>3. /\ Len(admissions) \in Nat \ {0}
          /\ Len(admissions') = Len(admissions) - 1
          /\ admissions' \in Seq([session : Sessions, target : Nat])
          /\ \A i \in 1..Len(admissions') : admissions'[i] = admissions[i + 1]
          /\ Head(admissions) = admissions[1]
      BY <3>1, <3>2
    <3>4. \A i \in 1..Len(admissions') :
                /\ i + 1 \in 1..Len(admissions) /\ i + 1 # 1
      BY <3>3
    <3>5. 1 \in 1..Len(admissions) /\ serving' = admissions[1].session
      BY <3>1, <3>3
    <3>6. serving' \in Sessions
      BY <1>0, <3>5
    <3>7. /\ \A i \in 1..Len(admissions') : rpc[admissions'[i].session] = "Pending"
          /\ rpc[serving'] = "Pending"
          /\ \A i \in 1..Len(admissions') : admissions'[i].session # serving'
      <4> SUFFICES ASSUME NEW i \in 1..Len(admissions')
                   PROVE  /\ rpc[admissions[i + 1].session] = "Pending"
                          /\ rpc[admissions[1].session] = "Pending"
                          /\ admissions[i + 1].session # admissions[1].session
        BY <1>1, <3>3, <3>5 DEF AdmissionsOK
      <4>1. i + 1 \in 1..Len(admissions) /\ i + 1 # 1
        BY <3>4
      <4> QED BY <1>1, <3>5, <4>1 DEF AdmissionsOK
    <3>8. \A i, j \in 1..Len(admissions') :
                admissions'[i].session = admissions'[j].session => i = j
      <4> SUFFICES ASSUME NEW i \in 1..Len(admissions'),
                          NEW j \in 1..Len(admissions'),
                          admissions'[i].session = admissions'[j].session
                   PROVE  i = j
        OBVIOUS
      <4>1. admissions[i + 1].session = admissions[j + 1].session
        BY <3>3
      <4>2. i + 1 = j + 1
        BY <1>1, <3>4, <4>1 DEF AdmissionsOK
      <4> QED BY <3>3, <4>2
    <3> QED BY <1>1, <3>1, <3>3, <3>6, <3>7, <3>8 DEF AdmissionsOK
  <2>4. CASE OwnerChecksAdmission
    <3>1. CASE AdmissionStillAllowed
      BY <1>2, <2>4, <3>1 DEF OwnerChecksAdmission
    <3>2. CASE ~AdmissionStillAllowed
      BY <1>4, <2>4, <3>2 DEF OwnerChecksAdmission, RefuseServing
    <3> QED BY <3>1, <3>2
  <2>5. CASE OwnerStagesAdmission
    BY <1>4, <2>5 DEF OwnerStagesAdmission, RefuseServing
  <2>6. CASE OwnerTakesFault \/ OwnerTakesReset \/ OwnerTakesSnapshot
             \/ OwnerSweeps \/ OwnerTakesItem \/ OwnerResets
             \/ OwnerCommitsReset \/ OwnerCapturesSnapshot \/ OwnerFinishes
    <3>1. UNCHANGED <<rpc, admissions, serving, lastRead>>
      BY <2>6 DEF OwnerTakesFault, OwnerTakesReset, OwnerTakesSnapshot,
                  OwnerSweeps, OwnerTakesItem, OwnerResets, OwnerCommitsReset,
                  OwnerCapturesSnapshot, OwnerFinishes
    <3>2. pc' \notin {"admit", "stage"}
      BY <2>6 DEF OwnerTakesFault, OwnerTakesReset, OwnerTakesSnapshot,
                  OwnerSweeps, OwnerTakesItem, OwnerResets, OwnerCommitsReset,
                  OwnerCapturesSnapshot, OwnerFinishes, BeginFault
    <3> QED BY <1>2, <3>1, <3>2
  <2>7. CASE OwnerBuffersUpdate \/ OwnerAppliesUpdate \/ OwnerInstallsSnapshot
             \/ OwnerReplays \/ OwnerPublishesReplay \/ OwnerPublishes
             \/ OwnerTakesFailure \/ OwnerPublishesFault
    <3>1. UNCHANGED <<rpc, admissions, serving, lastRead>>
      BY <2>7 DEF OwnerBuffersUpdate, OwnerAppliesUpdate, OwnerInstallsSnapshot,
                  OwnerReplays, OwnerPublishesReplay, OwnerPublishes,
                  OwnerTakesFailure, OwnerPublishesFault
    <3>2. pc' \notin {"admit", "stage"}
      <4>1. CASE OwnerAppliesUpdate \/ OwnerReplays
        BY <4>1, ApplyGeneration DEF OwnerAppliesUpdate, OwnerReplays
      <4>2. CASE OwnerBuffersUpdate \/ OwnerInstallsSnapshot
                 \/ OwnerPublishesReplay \/ OwnerPublishes
                 \/ OwnerTakesFailure \/ OwnerPublishesFault
        BY <4>2 DEF OwnerBuffersUpdate, OwnerInstallsSnapshot,
                    OwnerPublishesReplay, OwnerPublishes,
                    OwnerTakesFailure, OwnerPublishesFault, BeginFault
      <4> QED BY <2>7, <4>1, <4>2
    <3> QED BY <1>2, <3>1, <3>2
  <2> QED BY <1>5, <2>1, <2>2, <2>3, <2>4, <2>5, <2>6, <2>7 DEF Owner
<1>6. CASE Source \/ Coordinator
  <2>1. UNCHANGED <<rpc, admissions, serving, lastRead, pc>>
    BY <1>6 DEF Source, Coordinator, SourceConnects, SourceJoined, SourceSubmits,
                SourceFails, CoordinatorReflectsFailure, RequestReset,
                ResetReturns
  <2> QED BY <1>2, <2>1
<1>7. CASE Clients
  <2>1. ASSUME NEW s \in Sessions, RequestSubscription(s)
        PROVE  AdmissionsOK'
    <3> DEFINE new == [session |-> s, target |-> lastAdmitted]
    <3>1. /\ rpc[s] = "Idle" /\ admissions' = Append(admissions, new)
          /\ rpc' = [rpc EXCEPT ![s] = "Pending"]
          /\ UNCHANGED <<lastRead, pc, serving, lastAdmitted>>
      BY <2>1 DEF RequestSubscription
    <3>2. new \in [session : Sessions, target : Nat] /\ new.session = s
      BY DEF TicketInv, TicketTypes
    <3> HIDE DEF new
    <3>3. admissions \in Seq([session : Sessions, target : Nat])
      BY <1>1 DEF AdmissionsOK
    <3>4. /\ admissions' \in Seq([session : Sessions, target : Nat])
          /\ Len(admissions') = Len(admissions) + 1 /\ Len(admissions) \in Nat
          /\ \A i \in 1..Len(admissions) : admissions'[i] = admissions[i]
          /\ admissions'[Len(admissions) + 1] = new
      BY <3>1, <3>2, <3>3
    <3>5. \A i \in 1..Len(admissions) : admissions[i].session # s
      BY <1>1, <3>1 DEF AdmissionsOK
    <3>6. \A i \in 1..Len(admissions') :
                i \in 1..Len(admissions) \/ i = Len(admissions) + 1
      BY <3>4
    <3>7. \A q \in Sessions : rpc'[q] = IF q = s THEN "Pending" ELSE rpc[q]
      BY <1>1, <3>1 DEF AdmissionsOK
    <3>8. rpc' \in [Sessions ->
                      {"Idle", "Pending", "Streaming", "Refused", "Gone"}]
      BY <1>1, <3>1 DEF AdmissionsOK
    <3>9. \A i \in 1..Len(admissions') : rpc'[admissions'[i].session] = "Pending"
      <4> SUFFICES ASSUME NEW i \in 1..Len(admissions')
                   PROVE  rpc'[admissions'[i].session] = "Pending"
        OBVIOUS
      <4>1. CASE i \in 1..Len(admissions)
        <5>1. /\ admissions'[i] = admissions[i]
              /\ admissions[i].session \in Sessions
          BY <1>0, <3>4, <4>1
        <5>2. rpc[admissions[i].session] = "Pending"
          BY <1>1, <4>1 DEF AdmissionsOK
        <5> QED BY <3>7, <5>1, <5>2
      <4>2. CASE i = Len(admissions) + 1
        BY <3>2, <3>4, <3>7, <4>2
      <4> QED BY <3>6, <4>1, <4>2
    <3>10. \A i, j \in 1..Len(admissions') :
                admissions'[i].session = admissions'[j].session => i = j
      BY <1>1, <3>2, <3>4, <3>5, <3>6 DEF AdmissionsOK
    <3>11. pc \in {"admit", "stage"} =>
                /\ serving \in Sessions /\ rpc'[serving] = "Pending"
                /\ \A i \in 1..Len(admissions') :
                        admissions'[i].session # serving
      <4> SUFFICES ASSUME pc \in {"admit", "stage"}
                   PROVE  /\ serving \in Sessions /\ rpc'[serving] = "Pending"
                          /\ \A i \in 1..Len(admissions') :
                                    admissions'[i].session # serving
        OBVIOUS
      <4>1. /\ serving \in Sessions /\ rpc[serving] = "Pending"
            /\ \A i \in 1..Len(admissions) : admissions[i].session # serving
        BY <1>1 DEF AdmissionsOK
      <4>2. serving # s
        BY <3>1, <4>1
      <4> QED BY <3>2, <3>4, <3>6, <3>7, <4>1, <4>2
    <3>12. \A q \in Sessions :
                rpc'[q] \in {"Idle", "Pending"} => lastRead[q] = NoRecord
      BY <1>1, <3>1, <3>7 DEF AdmissionsOK
    <3> QED BY <3>1, <3>4, <3>8, <3>9, <3>10, <3>11, <3>12 DEF AdmissionsOK
  <2>2. ASSUME NEW s \in Sessions, HandlerReads(s)
        PROVE  AdmissionsOK'
    <3>1. /\ rpc[s] = "Streaming"
          /\ lastRead' = [lastRead EXCEPT ![s] = Peek(channels[s])]
          /\ UNCHANGED <<rpc, admissions, serving, pc>>
      BY <2>2 DEF HandlerReads
    <3>2. \A q \in Sessions : q # s => lastRead'[q] = lastRead[q]
      BY <3>1 DEF SessionInv, SessionTypes
    <3>3. \A q \in Sessions :
                rpc[q] \in {"Idle", "Pending"} => lastRead'[q] = NoRecord
      BY <1>1, <3>1, <3>2 DEF AdmissionsOK
    <3> QED BY <1>1, <3>1, <3>3 DEF AdmissionsOK
  <2>3. ASSUME NEW s \in Sessions, HandlerCloses(s)
        PROVE  AdmissionsOK'
    <3>1. /\ rpc[s] = "Streaming" /\ rpc' = [rpc EXCEPT ![s] = "Gone"]
          /\ UNCHANGED <<lastRead, admissions, serving, pc>>
      BY <2>3 DEF HandlerCloses
    <3>2. \A q \in Sessions : rpc'[q] = IF q = s THEN "Gone" ELSE rpc[q]
      BY <1>1, <3>1 DEF AdmissionsOK
    <3>3. rpc' \in [Sessions ->
                      {"Idle", "Pending", "Streaming", "Refused", "Gone"}]
      BY <1>1, <3>1 DEF AdmissionsOK
    <3>4. \A q \in Sessions : rpc[q] = "Pending" => rpc'[q] = "Pending"
      BY <3>1, <3>2
    <3>5. \A i \in 1..Len(admissions) : rpc'[admissions[i].session] = "Pending"
      BY <1>1, <1>0, <3>4 DEF AdmissionsOK
    <3> QED BY <1>1, <3>1, <3>2, <3>3, <3>4, <3>5 DEF AdmissionsOK
  <2>4. CASE RequestSnapshot \/ SnapshotReturns
    <3>1. UNCHANGED <<rpc, admissions, serving, lastRead, pc>>
      BY <2>4 DEF RequestSnapshot, SnapshotReturns
    <3> QED BY <1>2, <3>1
  <2> QED BY <1>7, <2>1, <2>2, <2>3, <2>4 DEF Clients
<1>8. CASE Lifecycle
  <2>1. CASE StopJoined
    BY <1>3, <2>1 DEF StopJoined
  <2>2. CASE Start \/ Stop \/ ClosePublicationAdmission \/ ShutdownPublication
             \/ ShutdownPublicationReturns
    <3>1. UNCHANGED <<rpc, admissions, serving, lastRead>>
          /\ (pc' = pc \/ pc' = "select")
      BY <2>2 DEF Start, Stop, ClosePublicationAdmission, ShutdownPublication,
                  ShutdownPublicationReturns
    <3> QED BY <1>2, <3>1
  <2> QED BY <1>8, <2>1, <2>2 DEF Lifecycle
<1>9. CASE Terminated \/ UNCHANGED vars
  <2>1. UNCHANGED <<rpc, admissions, serving, lastRead, pc>>
    BY <1>9 DEF Terminated, vars
  <2> QED BY <1>2, <2>1
<1> QED BY <1>5, <1>6, <1>7, <1>8, <1>9 DEF Next

\* What a step leaves of the agreement of the observation with the book.
LEMMA BookStep ==
    ASSUME TicketInv, GenInv, SessionInv, [Next]_vars
    PROVE  BookOK' /\ projGen' \in Nat
<1> USE DEF lifeVars, ingressVars, requestVars, admissionVars, shutdownVars,
            ownerVars, bookVars, sessionVars, clientVars, envVars
<1> DEFINE Shown == {"down", "select", "admit", "stage", "snapshot", "reset",
                     "finish"}
<1>1. BookOK /\ projGen \in Nat
  BY DEF SessionInv, SessionTypes
<1>2. ASSUME UNCHANGED <<obsStatus, projection, projGen>>,
             pc' \in Shown => pc \in Shown, shutdownDone' => shutdownAsked'
      PROVE  BookOK' /\ projGen' \in Nat
  BY <1>1, <1>2 DEF BookOK
<1>3. ASSUME UNCHANGED <<shutdownDone, shutdownAsked>>
      PROVE  shutdownDone' => shutdownAsked'
  BY <1>1, <1>3 DEF BookOK
<1>4. ASSUME NEW gen, NEW next, next \notin Shown, ApplyUpdate(gen, next),
             UNCHANGED <<projGen, shutdownDone, shutdownAsked>>
      PROVE  BookOK' /\ projGen' \in Nat
  <2>1. pc' \notin Shown
    BY <1>4, ApplyGeneration
  <2>2. \/ projection' = projection
        \/ projection.status \in {"AwaitingBridge", "Synchronized"}
    BY <1>4 DEF ApplyUpdate, ApplyFaults, ApplyFansOut, ApplyIgnores,
                ApplyFindsGap
  <2> QED BY <1>1, <1>3, <1>4, <2>1, <2>2 DEF BookOK
<1>5. CASE Owner
  <2>1. CASE OwnerShutsPublication
    BY <1>2, <2>1 DEF OwnerShutsPublication, shutdown_ready
  <2>2. CASE OwnerTakesFault \/ OwnerTakesReset \/ OwnerTakesAdmission
             \/ OwnerTakesSnapshot \/ OwnerSweeps \/ OwnerTakesItem
             \/ OwnerChecksAdmission \/ OwnerStagesAdmission
             \/ OwnerCapturesSnapshot \/ OwnerFinishes
    <3>1. /\ UNCHANGED <<obsStatus, projection, projGen, shutdownDone,
                         shutdownAsked>>
          /\ pc \in Shown
      BY <2>2 DEF OwnerTakesFault, OwnerTakesReset, OwnerTakesAdmission,
                  OwnerTakesSnapshot, OwnerSweeps, OwnerTakesItem,
                  OwnerChecksAdmission, OwnerStagesAdmission,
                  OwnerCapturesSnapshot, OwnerFinishes
    <3> QED BY <1>2, <1>3, <3>1
  <2>3. CASE OwnerExits
    BY <1>1, <1>3, <2>3 DEF OwnerExits, BookOK
  <2>4. CASE OwnerResets
    <3>1. /\ UNCHANGED <<obsStatus, shutdownDone, shutdownAsked>> /\ pc = "reset"
          /\ \/ /\ projection' = [status |-> "AwaitingBaseline", ver |-> 0]
                /\ projGen' = 0 /\ pc' = "resetCommit"
             \/ pc' = "select" /\ UNCHANGED <<projection, projGen>>
      BY <2>4 DEF OwnerResets
    <3> QED BY <1>1, <1>3, <3>1 DEF BookOK
  <2>5. CASE OwnerCommitsReset
    BY <1>1, <1>3, <2>5 DEF OwnerCommitsReset, BookOK
  <2>6. CASE OwnerBuffersUpdate \/ OwnerTakesFailure
    <3>1. /\ UNCHANGED <<obsStatus, projection, projGen, shutdownDone,
                         shutdownAsked>>
          /\ pc' \notin Shown
      BY <2>6 DEF OwnerBuffersUpdate, OwnerTakesFailure, BeginFault
    <3> QED BY <1>2, <1>3, <3>1
  <2>7. CASE OwnerInstallsSnapshot
    <3>1. /\ UNCHANGED <<obsStatus, shutdownDone, shutdownAsked>>
          /\ pc' \notin Shown /\ pc = "process"
          /\ \/ UNCHANGED <<projection, projGen>>
             \/ projGen' = item.gen
      BY <2>7 DEF OwnerInstallsSnapshot, BeginFault
    <3>2. item # NoItem
      BY <3>1 DEF TicketInv, ItemInHand, ItemSteps
    <3>3. item.gen \in Nat /\ item.gen # 0
      BY <3>2 DEF GenInv, OneGeneration, TicketInv, TicketTypes
    <3> QED BY <1>1, <1>3, <3>1, <3>3 DEF BookOK
  <2>8. CASE OwnerAppliesUpdate
    BY <1>4, <2>8 DEF OwnerAppliesUpdate
  <2>9. CASE OwnerReplays
    BY <1>4, <2>9 DEF OwnerReplays
  <2>10. CASE OwnerPublishesReplay \/ OwnerPublishes \/ OwnerPublishesFault
    <3>1. /\ UNCHANGED <<projection, projGen, shutdownDone, shutdownAsked>>
          /\ obsStatus' = projection.status
      BY <2>10 DEF OwnerPublishesReplay, OwnerPublishes, OwnerPublishesFault,
                   PublishProjectionState
    <3> QED BY <1>1, <1>3, <3>1 DEF BookOK
  <2> QED BY <1>5, <2>1, <2>2, <2>3, <2>4, <2>5, <2>6, <2>7, <2>8, <2>9, <2>10
          DEF Owner
<1>6. CASE Source \/ Coordinator
  <2>1. UNCHANGED <<obsStatus, projection, projGen, shutdownDone, shutdownAsked,
                    pc>>
    BY <1>6 DEF Source, Coordinator, SourceConnects, SourceJoined, SourceSubmits,
                SourceFails, CoordinatorReflectsFailure, RequestReset,
                ResetReturns
  <2> QED BY <1>2, <1>3, <2>1
<1>7. CASE Clients
  <2>1. UNCHANGED <<obsStatus, projection, projGen, shutdownDone, shutdownAsked,
                    pc>>
    BY <1>7 DEF Clients, RequestSubscription, HandlerReads, HandlerCloses,
                RequestSnapshot, SnapshotReturns
  <2> QED BY <1>2, <1>3, <2>1
<1>8. CASE Lifecycle
  <2>1. CASE Start
    BY <1>1, <1>3, <2>1 DEF Start, BookOK
  <2>2. CASE Stop
    <3>1. /\ UNCHANGED <<obsStatus, projection, projGen, shutdownDone, pc>>
          /\ shutdownAsked' = shutdownAsked \/ shutdownAsked' = TRUE
      BY <2>2 DEF Stop
    <3> QED BY <1>1, <1>2, <3>1 DEF BookOK
  <2>3. CASE ShutdownPublication
    BY <1>2, <2>3 DEF ShutdownPublication
  <2>4. CASE StopJoined \/ ClosePublicationAdmission
             \/ ShutdownPublicationReturns
    <3>1. UNCHANGED <<obsStatus, projection, projGen, shutdownDone,
                      shutdownAsked, pc>>
      BY <2>4 DEF StopJoined, ClosePublicationAdmission,
                  ShutdownPublicationReturns
    <3> QED BY <1>2, <1>3, <3>1
  <2> QED BY <1>8, <2>1, <2>2, <2>3, <2>4 DEF Lifecycle
<1>9. CASE Terminated \/ UNCHANGED vars
  <2>1. UNCHANGED <<obsStatus, projection, projGen, shutdownDone, shutdownAsked,
                    pc>>
    BY <1>9 DEF Terminated, vars
  <2> QED BY <1>2, <1>3, <2>1
<1> QED BY <1>5, <1>6, <1>7, <1>8, <1>9 DEF Next

\* What a step makes of the sessions.
LEMMA SessionsStep ==
    ASSUME TicketInv, GenInv, SessionInv, [Next]_vars, projGen' \in Nat
    PROVE  SessionTypes' /\ \A s \in Sessions : SessionOK(s)'
<1> DEFINE Goal == SessionTypes' /\ \A s \in Sessions : SessionOK(s)'
<1> USE DEF lifeVars, ingressVars, requestVars, admissionVars, shutdownVars,
            ownerVars, bookVars, sessionVars, clientVars, envVars
<1>1. SessionTypes /\ \A s \in Sessions : SessionOK(s)
  BY DEF SessionInv
<1>2. ASSUME UNCHANGED <<channels, lastRead, projection, projGen, faultReason,
                         shutdownDone>>,
             subscribers' = subscribers \/ subscribers' = sweep(subscribers),
             pc' = pc \/ pc' \notin {"down", "exited", "fault"}
      PROVE  Goal
  <2>1. /\ \A s \in Sessions : channels[s].state # "Closed" =>
                pc' \notin {"down", "exited"} /\ ~shutdownDone'
        /\ \A s \in Sessions : channels[s].state = "Active" =>
                /\ UNCHANGED <<projection, projGen, faultReason>>
                /\ pc' # "fault"
    BY <1>1, <1>2 DEF SessionOK
  <2> QED BY <1>2, <2>1, SessionsKept
<1>3. ASSUME CloseAllSubscribers, lastRead' = lastRead PROVE Goal
  <2>1. /\ channels' = [s \in Sessions |-> IF Resident(subscribers, s)
                                           THEN CloseFromOwner(channels[s])
                                           ELSE channels[s]]
        /\ subscribers' = <<>>
    BY <1>3 DEF CloseAllSubscribers
  <2>2. ASSUME NEW s \in Sessions
        PROVE  channels'[s] \in Channels /\ channels'[s].state = "Closed"
    <3>1. channels[s] \in Channels
      BY <1>1 DEF SessionTypes
    <3>2. ~Resident(subscribers, s) => channels[s].state = "Closed"
      BY <1>1 DEF SessionOK
    <3> QED BY <2>1, <3>1, <3>2, ClosingShape
  <2>3. channels' \in [Sessions -> Channels]
    BY <2>1, <2>2
  <2>4. \A s \in Sessions : SessionOK(s)'
    BY <2>2 DEF SessionOK, WellLogged
  <2>5. subscribers' \in Seq(Sessions)
    BY <2>1
  <2> QED BY <1>1, <1>3, <2>3, <2>4, <2>5 DEF SessionTypes
<1>4. CASE Owner
  <2>1. CASE OwnerShutsPublication \/ OwnerExits
    BY <1>3, <2>1 DEF OwnerShutsPublication, OwnerExits
  <2>2. CASE OwnerTakesReset \/ OwnerTakesAdmission \/ OwnerTakesSnapshot
             \/ OwnerSweeps \/ OwnerTakesItem \/ OwnerChecksAdmission
             \/ OwnerCapturesSnapshot \/ OwnerFinishes
    <3>1. /\ UNCHANGED <<channels, lastRead, projection, projGen, faultReason,
                         shutdownDone>>
          /\ subscribers' = subscribers \/ subscribers' = sweep(subscribers)
      BY <2>2 DEF OwnerTakesReset, OwnerTakesAdmission, OwnerTakesSnapshot,
                  OwnerSweeps, OwnerTakesItem, OwnerChecksAdmission,
                  OwnerCapturesSnapshot, OwnerFinishes
    <3>2. pc' \notin {"down", "exited", "fault"}
      BY <2>2 DEF OwnerTakesReset, OwnerTakesAdmission, OwnerTakesSnapshot,
                  OwnerSweeps, OwnerTakesItem, OwnerChecksAdmission,
                  RefuseServing, OwnerCapturesSnapshot, OwnerFinishes
    <3> QED BY <1>2, <3>1, <3>2
  <2>3. CASE OwnerTakesFault
    BY <2>3, FaultEnds DEF OwnerTakesFault
  <2>4. CASE OwnerTakesFailure
    BY <2>4, FaultEnds DEF OwnerTakesFailure
  <2>5. CASE OwnerBuffersUpdate
    <3>1. CASE Len(bootstrap) = BootstrapCapacity
      BY <2>5, <3>1, FaultEnds DEF OwnerBuffersUpdate
    <3>2. CASE Len(bootstrap) # BootstrapCapacity
      <4>1. /\ UNCHANGED <<channels, lastRead, projection, projGen, faultReason,
                           shutdownDone, subscribers>>
            /\ pc' = "publish"
        BY <2>5, <3>2 DEF OwnerBuffersUpdate
      <4> QED BY <1>2, <4>1
    <3> QED BY <3>1, <3>2
  <2>6. CASE OwnerInstallsSnapshot
    <3>1. /\ UNCHANGED <<lastRead, faultReason, shutdownDone>>
          /\ \/ \E reason : BeginFault(reason, channels)
             \/ /\ projection.status = "AwaitingBaseline" /\ pc' = "replay"
                /\ UNCHANGED <<channels, subscribers>>
      BY <2>6 DEF OwnerInstallsSnapshot
    <3>2. CASE \E reason : BeginFault(reason, channels)
      BY <3>1, <3>2, FaultEnds
    <3>3. CASE /\ projection.status = "AwaitingBaseline" /\ pc' = "replay"
               /\ UNCHANGED <<channels, subscribers>>
      <4>1. \A s \in Sessions : channels[s].state # "Active"
        BY <1>1, <3>3 DEF SessionOK
      <4>2. \A s \in Sessions : channels[s].state # "Closed" =>
                pc' \notin {"down", "exited"} /\ ~shutdownDone'
        BY <1>1, <3>1, <3>3 DEF SessionOK
      <4> QED BY <3>1, <3>3, <4>1, <4>2, SessionsKept
    <3> QED BY <3>1, <3>2, <3>3
  <2>7. CASE OwnerAppliesUpdate
    <3>1. /\ pc = "process" /\ ApplyUpdate(item.gen, "publish")
          /\ UNCHANGED <<lastRead, projGen, faultReason, shutdownDone>>
      BY <2>7 DEF OwnerAppliesUpdate
    <3>2. item.gen \in Nat /\ item.gen # 0
      BY <3>1 DEF GenInv, OneGeneration, TicketInv, TicketTypes, ItemInHand,
                  ItemSteps
    <3> QED BY <3>1, <3>2, ApplyKeeps
  <2>8. CASE OwnerReplays
    <3>1. /\ pc = "replay" /\ bootstrap # <<>>
          /\ ApplyUpdate(Head(bootstrap), "publishReplay")
          /\ UNCHANGED <<lastRead, projGen, faultReason, shutdownDone>>
      BY <2>8 DEF OwnerReplays
    <3>2. Head(bootstrap) = source.gen
      BY <3>1 DEF GenInv, OneGeneration
    <3>3. source.gen \in Nat /\ source.gen # 0
      BY DEF GenInv, TicketInv, TicketTypes
    <3> QED BY <3>1, <3>2, <3>3, ApplyKeeps
  <2>9. CASE OwnerPublishesReplay \/ OwnerPublishes
    <3>1. /\ UNCHANGED <<channels, lastRead, projection, projGen, faultReason,
                         shutdownDone, subscribers>>
          /\ pc' \in {"publish", "replay", "finish"}
      BY <2>9 DEF OwnerPublishesReplay, OwnerPublishes, PublishProjectionState
    <3> QED BY <1>2, <3>1
  <2>10. CASE OwnerPublishesFault
    <3>1. /\ UNCHANGED <<channels, lastRead, shutdownDone, subscribers>>
          /\ pc = "fault" /\ pc' \in {"select", "finish"}
      BY <2>10 DEF OwnerPublishesFault
    <3>2. \A s \in Sessions : channels[s].state # "Active"
      BY <1>1, <3>1 DEF SessionOK
    <3>3. \A s \in Sessions : channels[s].state # "Closed" =>
                pc' \notin {"down", "exited"} /\ ~shutdownDone'
      BY <1>1, <3>1 DEF SessionOK
    <3> QED BY <3>1, <3>2, <3>3, SessionsKept
  <2>11. CASE OwnerResets
    <3>1. /\ UNCHANGED <<lastRead, shutdownDone, faultReason>>
          /\ \/ /\ \E reason \in {"GenerationChanged", "ResumeNotAvailable"} :
                     channels' = terminalize_active_subscribers(channels,
                                                            reason, projGen)
                /\ subscribers' = sweep(subscribers) /\ pc' = "resetCommit"
             \/ /\ UNCHANGED <<channels, subscribers, projection, projGen>>
                /\ pc' = "select"
      BY <2>11 DEF OwnerResets
    <3>2. CASE /\ UNCHANGED <<channels, subscribers, projection, projGen>>
               /\ pc' = "select"
      BY <1>2, <3>1, <3>2
    <3>3. ASSUME NEW reason \in {"GenerationChanged", "ResumeNotAvailable"},
                 channels' = terminalize_active_subscribers(channels, reason,
                                                            projGen),
                 subscribers' = sweep(subscribers), pc' = "resetCommit"
          PROVE  Goal
      <4>1. reason \in Reasons
        BY DEF Reasons
      <4>2. channels \in [Sessions -> Channels] /\ projGen \in Nat
        BY <1>1 DEF SessionTypes
      <4>3. \A s \in Sessions : \E ver :
                WellLogged(lastRead[s], channels[s], projGen, ver)
        BY <1>1 DEF SessionOK
      <4> QED BY <3>1, <3>3, <4>1, <4>2, <4>3, SessionsEnd
    <3> QED BY <3>1, <3>2, <3>3
  <2>12. CASE OwnerCommitsReset
    <3>1. /\ UNCHANGED <<channels, lastRead, projection, projGen, shutdownDone,
                         subscribers>>
          /\ pc = "resetCommit" /\ pc' = "select"
      BY <2>12 DEF OwnerCommitsReset
    <3>2. faultReason' = "None"
      BY <2>12 DEF OwnerCommitsReset
    <3> QED BY <1>1, <3>1, <3>2 DEF SessionTypes, SessionOK
  <2>13. CASE OwnerStagesAdmission
    <3>1. CASE RefuseServing /\ UNCHANGED sessionVars
      <4>1. /\ UNCHANGED <<channels, lastRead, projection, projGen, faultReason,
                           shutdownDone, subscribers>>
            /\ pc' = "select"
        BY <2>13, <3>1 DEF OwnerStagesAdmission, RefuseServing
      <4> QED BY <1>2, <4>1
    <3>2. CASE ~(RefuseServing /\ UNCHANGED sessionVars)
      <4> DEFINE new == StageInitial(NewChannel, projGen, projection.ver)
      <4>1. /\ AdmissionStillAllowed /\ pc = "stage" /\ pc' = "select"
            /\ channels' = [channels EXCEPT ![serving] = new]
            /\ subscribers' = Append(subscribers, serving)
            /\ UNCHANGED <<lastRead, projection, projGen, faultReason,
                           shutdownDone>>
        BY <2>13, <3>2 DEF OwnerStagesAdmission
      <4>2. /\ serving \in Sessions /\ lastRead[serving] = NoRecord
        BY <4>1 DEF SessionInv, AdmissionsOK
      <4>3. /\ projection.status = "Synchronized" /\ faultReason = "None"
            /\ ~shutdownDone
        BY <4>1 DEF AdmissionStillAllowed, HealthyObservation, SessionInv,
                    BookOK
      <4>4. projGen \in Nat /\ projection.ver \in Nat
        BY <1>1 DEF SessionTypes, TicketInv, TicketTypes
      <4>5. /\ new \in Channels /\ new.state = "Active"
            /\ WellLogged(NoRecord, new, projGen, projection.ver)
        BY <4>4, StageBegins
      <4> HIDE DEF new
      <4>6. /\ channels \in [Sessions -> Channels]
            /\ subscribers \in Seq(Sessions)
        BY <1>1 DEF SessionTypes
      <4>7. /\ channels' \in [Sessions -> Channels]
            /\ channels'[serving] = new
            /\ \A s \in Sessions \ {serving} : channels'[s] = channels[s]
        BY <4>1, <4>2, <4>5, <4>6
      <4>8. /\ subscribers' \in Seq(Sessions) /\ Len(subscribers) \in Nat
            /\ Len(subscribers') = Len(subscribers) + 1
            /\ \A i \in 1..Len(subscribers) : subscribers'[i] = subscribers[i]
            /\ subscribers'[Len(subscribers) + 1] = serving
        BY <4>1, <4>2, <4>6
      <4>9. /\ Resident(subscribers', serving)
            /\ \A s \in Sessions : Resident(subscribers, s) =>
                                        Resident(subscribers', s)
        BY <4>8 DEF Resident
      <4>10. ASSUME NEW s \in Sessions PROVE SessionOK(s)'
        <5>1. CASE s = serving
          BY <4>1, <4>2, <4>3, <4>5, <4>7, <4>9, <5>1 DEF SessionOK
        <5>2. CASE s # serving
          <6>1. SessionOK(s) /\ channels'[s] = channels[s]
            BY <1>1, <4>7, <5>2
          <6> QED BY <4>1, <4>9, <6>1 DEF SessionOK
        <5> QED BY <5>1, <5>2
      <4> QED BY <1>1, <4>1, <4>7, <4>8, <4>10 DEF SessionTypes
    <3> QED BY <3>1, <3>2
  <2> QED BY <1>4, <2>1, <2>2, <2>3, <2>4, <2>5, <2>6, <2>7, <2>8, <2>9, <2>10,
             <2>11, <2>12, <2>13 DEF Owner
<1>5. CASE Source \/ Coordinator
  <2>1. UNCHANGED <<channels, lastRead, projection, projGen, faultReason,
                    shutdownDone, subscribers, pc>>
    BY <1>5 DEF Source, Coordinator, SourceConnects, SourceJoined, SourceSubmits,
                SourceFails, CoordinatorReflectsFailure, RequestReset,
                ResetReturns
  <2> QED BY <1>2, <2>1
<1>6. CASE Clients
  <2>1. CASE (\E s \in Sessions : RequestSubscription(s))
             \/ RequestSnapshot \/ SnapshotReturns
    <3>1. UNCHANGED <<channels, lastRead, projection, projGen, faultReason,
                      shutdownDone, subscribers, pc>>
      BY <2>1 DEF RequestSubscription, RequestSnapshot, SnapshotReturns
    <3> QED BY <1>2, <3>1
  <2>2. ASSUME NEW s \in Sessions, NEW d \in Channels, NEW h \in Records,
               channels' = [channels EXCEPT ![s] = d],
               lastRead' = [lastRead EXCEPT ![s] = h],
               UNCHANGED <<projection, projGen, faultReason, shutdownDone,
                           subscribers, pc>>,
               WellLogged(h, d, projGen, projection.ver),
               d.state # "Closed" => channels[s].state # "Closed",
               d.state = "Active" => channels[s].state = "Active"
        PROVE  Goal
    <3>1. /\ channels' \in [Sessions -> Channels] /\ channels'[s] = d
          /\ lastRead' \in [Sessions -> Records] /\ lastRead'[s] = h
          /\ \A q \in Sessions \ {s} :
                channels'[q] = channels[q] /\ lastRead'[q] = lastRead[q]
      BY <1>1, <2>2 DEF SessionTypes
    <3>2. ASSUME NEW q \in Sessions PROVE SessionOK(q)'
      <4>1. SessionOK(q)
        BY <1>1
      <4>2. CASE q = s
        BY <2>2, <3>1, <4>1, <4>2 DEF SessionOK
      <4>3. CASE q # s
        BY <2>2, <3>1, <4>1, <4>3 DEF SessionOK
      <4> QED BY <4>2, <4>3
    <3> QED BY <1>1, <2>2, <3>1, <3>2 DEF SessionTypes
  <2>3. ASSUME NEW s \in Sessions, HandlerReads(s) PROVE Goal
    <3> DEFINE h == Peek(channels[s])
               d == Acknowledge(channels[s], h)
    <3>1. /\ h # NoRecord /\ channels' = [channels EXCEPT ![s] = d]
          /\ lastRead' = [lastRead EXCEPT ![s] = h]
          /\ UNCHANGED <<projection, projGen, faultReason, shutdownDone,
                         subscribers, pc>>
      BY <2>3 DEF HandlerReads
    <3>2. /\ channels[s] \in Channels /\ lastRead[s] \in Records
          /\ WellLogged(lastRead[s], channels[s], projGen, projection.ver)
      BY <1>1 DEF SessionTypes, SessionOK
    <3>3. /\ d \in Channels /\ h \in Records /\ channels[s].state # "Closed"
          /\ d.state = "Active" => channels[s].state = "Active"
          /\ WellLogged(h, d, projGen, projection.ver)
      BY <3>1, <3>2, ReadMoves
    <3> HIDE DEF h, d
    <3> QED BY <2>2, <3>1, <3>3
  <2>4. ASSUME NEW s \in Sessions, HandlerCloses(s) PROVE Goal
    <3> DEFINE d == CloseFromWriter(channels[s])
    <3>1. /\ channels' = [channels EXCEPT ![s] = d]
          /\ UNCHANGED <<lastRead, projection, projGen, faultReason,
                         shutdownDone, subscribers, pc>>
      BY <2>4 DEF HandlerCloses
    <3>2. d \in Channels /\ d.state = "Closed" /\ lastRead[s] \in Records
          /\ lastRead' = [lastRead EXCEPT ![s] = lastRead[s]]
      BY <1>1, <3>1, ClosingShape DEF SessionTypes
    <3> HIDE DEF d
    <3>3. WellLogged(lastRead[s], d, projGen, projection.ver)
      BY <3>2 DEF WellLogged
    <3> QED BY <2>2, <3>1, <3>2, <3>3
  <2> QED BY <1>6, <2>1, <2>3, <2>4 DEF Clients
<1>7. CASE Lifecycle
  <2>1. CASE ShutdownPublication
    <3>1. /\ UNCHANGED <<channels, lastRead, projection, projGen, faultReason,
                         subscribers, pc>>
          /\ ~shutdownDone /\ shutdownDone' = (life = "NotStarted")
      BY <2>1 DEF ShutdownPublication
    <3>2. life = "NotStarted" => pc = "down"
      BY DEF TicketInv, OwnerAlive
    <3> QED BY <1>1, <3>1, <3>2 DEF SessionTypes, SessionOK
  <2>2. CASE Start \/ Stop \/ StopJoined \/ ClosePublicationAdmission
             \/ ShutdownPublicationReturns
    <3>1. /\ UNCHANGED <<channels, lastRead, projection, projGen, faultReason,
                         shutdownDone, subscribers>>
          /\ pc' = pc \/ pc' = "select"
      BY <2>2 DEF Start, Stop, StopJoined, ClosePublicationAdmission,
                  ShutdownPublicationReturns
    <3> QED BY <1>2, <3>1
  <2> QED BY <1>7, <2>1, <2>2 DEF Lifecycle
<1>8. CASE Terminated \/ UNCHANGED vars
  <2>1. UNCHANGED <<channels, lastRead, projection, projGen, faultReason,
                    shutdownDone, subscribers, pc>>
    BY <1>8 DEF Terminated, vars
  <2> QED BY <1>2, <2>1
<1> QED BY <1>4, <1>5, <1>6, <1>7, <1>8 DEF Next

\* The invariant of the sessions holds in every reachable state.
LEMMA SessionInvariant == Spec => []SessionInv
<1>1. TicketInv /\ GenInv /\ SessionInv /\ [Next]_vars => SessionInv'
  BY AdmissionsStep, BookStep, SessionsStep DEF SessionInv
<1> QED BY <1>1, SessionInit, TicketInvariant, GenInvariant, PTL DEF Spec

\* An Active session is served from a Synchronized book of the generation of
\* its records, with no fault published: whoever the sessions are and however
\* many, none is carried over a gap, a fault, a recovery or a rotation.
THEOREM BookTheorem == Spec => []ActiveSessionHasBook
<1>1. SessionInv => ActiveSessionHasBook
  <2> SUFFICES ASSUME SessionInv, NEW s \in Sessions,
                      channels[s].state = "Active"
               PROVE  /\ projection.status = "Synchronized"
                      /\ faultReason = "None"
                      /\ \A i \in 1..Len(channels[s].ring) :
                            channels[s].ring[i].gen \in {0, projGen}
    BY DEF ActiveSessionHasBook
  <2>1. SessionOK(s)
    BY DEF SessionInv
  <2> QED BY <2>1 DEF SessionOK, WellLogged, UpTo
<1> QED BY <1>1, SessionInvariant, PTL

\* Snapshot, then updates, without a hole: for every capacity of the ring, every
\* largest sequence and every interleaving of the fan-out with the handlers, the
\* closings and the faults.
THEOREM ContiguousTheorem == Spec => []SessionContiguous
<1>1. ASSUME SessionInv, NEW s \in Sessions, NEW c, c = channels[s],
             c.state # "Closed", NEW log, log = <<lastRead[s]>> \o c.ring
      PROVE  /\ \A i \in 2..Len(log) : Continues(log[i - 1], log[i])
             /\ lastRead[s].kind # "Gap"
             /\ c.terminal # NoRecord =>
                    /\ c.terminal.kind = "Gap" /\ c.terminal.seq >= 3
                    /\ c.terminal.seq = log[Len(log)].seq + 1
             /\ c.state = "Active" => log[Len(log)].ver = projection.ver
  <2>1. /\ c.ring \in Seq(Records) /\ lastRead[s] \in Records
        /\ c.state \in ChannelStates
    BY <1>1 DEF SessionInv, SessionTypes, Channels
  <2>2. WellLogged(lastRead[s], c, projGen, projection.ver)
    BY <1>1 DEF SessionInv, SessionOK
  <2>3. /\ Len(c.ring) \in Nat /\ Len(log) = Len(c.ring) + 1
        /\ log[1] = lastRead[s]
        /\ \A i \in 1..Len(c.ring) : log[i + 1] = c.ring[i]
    BY <1>1, <2>1
  <2>4. Chained(lastRead[s], c)
    BY <1>1, <2>2 DEF WellLogged
  <2>5. ASSUME NEW i \in 2..Len(log) PROVE Continues(log[i - 1], log[i])
    <3>1. CASE i = 2
      <4>1. c.ring # <<>> /\ 1 \in 1..Len(c.ring)
        BY <2>1, <2>3, <3>1
      <4>2. log[2] = c.ring[1]
        BY <2>3, <4>1
      <4> QED BY <2>3, <2>4, <3>1, <4>1, <4>2 DEF Chained
    <3>2. CASE i # 2
      <4> DEFINE j == i - 1
      <4>1. /\ j \in 2..Len(c.ring) /\ j \in 1..Len(c.ring)
            /\ j - 1 \in 1..Len(c.ring) /\ i = j + 1 /\ i - 1 = (j - 1) + 1
        BY <2>3, <3>2
      <4> HIDE DEF j
      <4>2. log[i] = c.ring[j] /\ log[i - 1] = c.ring[j - 1]
        BY <2>3, <4>1
      <4> QED BY <2>4, <4>1, <4>2 DEF Chained
    <3> QED BY <3>1, <3>2
  <2>6. log[Len(log)] = NewestOf(lastRead[s], c)
    <3>1. CASE c.ring = <<>>
      BY <2>3, <3>1 DEF NewestOf
    <3>2. CASE c.ring # <<>>
      <4>1. Len(c.ring) \in 1..Len(c.ring)
        BY <2>1, <2>3, <3>2
      <4> QED BY <2>3, <3>2, <4>1 DEF NewestOf
    <3> QED BY <3>1, <3>2
  <2>7. c.terminal # NoRecord =>
            /\ c.terminal.kind = "Gap" /\ c.terminal.seq >= 3
            /\ c.terminal.seq = log[Len(log)].seq + 1
    BY <1>1, <2>1, <2>2, <2>6 DEF WellLogged, UpTo, EndedAfter, ChannelStates
  <2>8. c.state = "Active" => log[Len(log)].ver = projection.ver
    BY <2>2, <2>6 DEF WellLogged, UpTo
  <2>9. lastRead[s].kind # "Gap"
    BY <2>4 DEF Chained
  <2> QED BY <2>5, <2>7, <2>8, <2>9
<1>2. SessionInv => SessionContiguous
  <2> SUFFICES ASSUME SessionInv, NEW s \in Sessions,
                      channels[s].state # "Closed"
               PROVE  LET c == channels[s]
                          log == <<lastRead[s]>> \o c.ring
                      IN  /\ \A i \in 2..Len(log) : Continues(log[i - 1], log[i])
                          /\ lastRead[s].kind # "Gap"
                          /\ c.terminal # NoRecord =>
                                /\ c.terminal.kind = "Gap" /\ c.terminal.seq >= 3
                                /\ c.terminal.seq = log[Len(log)].seq + 1
                          /\ c.state = "Active" /\ pc = "select" =>
                                log[Len(log)].ver = projection.ver
    BY Zenon DEF SessionContiguous
  <2> DEFINE c == channels[s]
             log == <<lastRead[s]>> \o c.ring
  <2>1. /\ \A i \in 2..Len(log) : Continues(log[i - 1], log[i])
        /\ lastRead[s].kind # "Gap"
        /\ c.terminal # NoRecord =>
                /\ c.terminal.kind = "Gap" /\ c.terminal.seq >= 3
                /\ c.terminal.seq = log[Len(log)].seq + 1
        /\ c.state = "Active" => log[Len(log)].ver = projection.ver
    BY <1>1, Zenon
  <2> QED BY <2>1, Zenon
<1> QED BY <1>2, SessionInvariant, PTL

\* What the handlers of one product write: every record a handler takes follows
\* the one it took before as OrderedDelivery says, the acceptance, one snapshot,
\* the next versions of the same generation and at most one gap notice, after
\* which nothing comes.  lastRead is set by HandlerReads only.
ReadsInOrder ==
    [][\A s \in Sessions : lastRead'[s] # lastRead[s] =>
            Delivers(lastRead[s], lastRead'[s])]_vars

\* SubscriberSession shows the promise of one channel against an owner that may
\* call it at will; here it is kept with the owner itself, for any number of
\* sessions, whatever faults, resets, sweeps and shutdowns run in between.
THEOREM ReadsTheorem == Spec => ReadsInOrder
<1>1. ASSUME SessionInv, [Next]_vars, NEW s \in Sessions,
             lastRead'[s] # lastRead[s]
      PROVE  Delivers(lastRead[s], lastRead'[s])
  <2> USE DEF clientVars
  <2>1. \E q \in Sessions : HandlerReads(q)
    <3>1. CASE Owner
      BY <1>1, <3>1 DEF Owner, OwnerShutsPublication, OwnerTakesFault,
            OwnerTakesReset, OwnerTakesAdmission, OwnerTakesSnapshot,
            OwnerSweeps, OwnerTakesItem, OwnerExits, OwnerResets,
            OwnerCommitsReset, OwnerChecksAdmission, OwnerStagesAdmission,
            OwnerCapturesSnapshot, OwnerBuffersUpdate, OwnerAppliesUpdate,
            OwnerInstallsSnapshot, OwnerReplays, OwnerPublishesReplay,
            OwnerPublishes, OwnerTakesFailure, OwnerPublishesFault,
            OwnerFinishes
    <3>2. CASE Source \/ Coordinator
      BY <1>1, <3>2 DEF Source, Coordinator, SourceConnects, SourceJoined,
            SourceSubmits, SourceFails, CoordinatorReflectsFailure,
            RequestReset, ResetReturns
    <3>3. CASE Clients
      BY <1>1, <3>3 DEF Clients, RequestSubscription, HandlerCloses,
            RequestSnapshot, SnapshotReturns
    <3>4. CASE Lifecycle
      BY <1>1, <3>4 DEF Lifecycle, Start, Stop, StopJoined,
            ClosePublicationAdmission, ShutdownPublication,
            ShutdownPublicationReturns
    <3>5. CASE Terminated \/ UNCHANGED vars
      BY <1>1, <3>5 DEF Terminated, vars
    <3> QED BY <1>1, <3>1, <3>2, <3>3, <3>4, <3>5 DEF Next
  <2>2. PICK q \in Sessions : HandlerReads(q)
    BY <2>1
  <2>3. /\ channels[q] \in Channels /\ lastRead[q] \in Records
        /\ WellLogged(lastRead[q], channels[q], projGen, projection.ver)
        /\ lastRead \in [Sessions -> Records]
    BY <1>1 DEF SessionInv, SessionTypes, SessionOK
  <2>4. /\ Peek(channels[q]) # NoRecord
        /\ lastRead' = [lastRead EXCEPT ![q] = Peek(channels[q])]
    BY <2>2 DEF HandlerReads
  <2>5. q = s /\ lastRead'[s] = Peek(channels[q])
    BY <1>1, <2>3, <2>4
  <2> QED BY <2>3, <2>4, <2>5, ReadMoves
<1>2. SessionInv /\ [Next]_vars =>
        [\A s \in Sessions : lastRead'[s] # lastRead[s] =>
                Delivers(lastRead[s], lastRead'[s])]_vars
  BY <1>1
<1> QED BY <1>2, SessionInvariant, PTL DEF Spec, ReadsInOrder

\* A channel that a client is served from is on the owner's list, and none is
\* left open when the owner has exited.
THEOREM OrphanTheorem == Spec => []NoOrphanSession
<1>1. SessionInv => NoOrphanSession
  BY DEF SessionInv, SessionOK, NoOrphanSession
<1> QED BY <1>1, SessionInvariant, PTL

=============================================================================
