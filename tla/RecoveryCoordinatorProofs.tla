--------------------- MODULE RecoveryCoordinatorProofs ---------------------
(***************************************************************************)
(* RecoveryCoordinator for every queue capacity, recovery budget and       *)
(* number of generations, with and without a driver: one producer at a     *)
(* time, a gate that agrees with the transport, resets that succeed and a  *)
(* stop() that leaves nothing behind.  Everything is shown for attempts    *)
(* whose start() does not begin inside their stop() (~Overlap): that race  *)
(* is BinanceTransport's subject.                                          *)
(***************************************************************************)
EXTENDS RecoveryCoordinator, Integers, TLAPS

CoordinatorSteps ==
    {"down", "top", "create", "created", "start", "starting", "open",
     "awaitLive", "qualify", "inspect", "markLive", "live", "quiesce", "join",
     "lookAtGate", "quiesceGate", "release", "closeGlobal", "closePermanent",
     "throw", "exception", "cut", "reflect", "decide", "giveUp",
     "plannedCommit", "plannedReset", "backoffCommit", "backoff", "recovering",
     "reset", "done"}

StopperSteps ==
    {"none", "published", "requested", "stopping", "joinTaken", "joining",
     "finalStop", "finalJoin", "runtime", "stopped"}

Transports ==
    [gen : Nat, started : BOOLEAN, handshake : BOOLEAN, running : BOOLEAN,
     stopReq : BOOLEAN, awaits : BOOLEAN, stopped : BOOLEAN, error : Errors,
     fetched : BOOLEAN]

Inputs == {"Depth", "Snapshot", "Failure"}

Runtimes ==
    [state : {"Buffering", "Live", "NeedsResync", "Faulted", "Stopped"},
     fault : {"None", "Recoverable", "Terminal"}, accepting : BOOLEAN,
     queue : Seq(Inputs), overflow : BOOLEAN, base : BOOLEAN,
     buffered : BOOLEAN, barrier : Nat]

\* Between the creation of an attempt and the end of its join.
Attempting == {"created", "start", "starting", "open", "awaitLive", "qualify",
               "inspect", "markLive", "live", "quiesce", "join"}

\* The coordinator is on its way out of the loop.
Leaving == {"throw", "exception", "done"}

Quiescing == {"quiesce", "join", "lookAtGate", "quiesceGate", "release"}

\* Behind the cut of one attempt and before the next.
Between == {"down", "top", "create"}

ControlOK ==
    /\ pc \in CoordinatorSteps /\ stopper \in StopperSteps
    /\ driver \in {"idle", "checked", "submitted"}
    /\ net \in {"none", "connecting", "active", "fetched", "failing", "dead"}
    /\ generation \in Nat \ {0} /\ opened \in Nat /\ active \in Nat
    /\ retained \in Nat
    /\ pc \in Quiescing =>
            after \in {"closeGlobal", "closePermanent", "cut", "throw"}

Types ==
    /\ ControlOK
    /\ seen \in BOOLEAN /\ quiesced \in BOOLEAN
    /\ tr \in Transports /\ gate \in Gates

\* A stop joins the network thread whenever there is one.
ThreadOK ==
    /\ net = "none" <=> ~tr.started
    /\ pc \in {"created", "start"} => ~tr.started
    /\ tr.stopReq => (tr.awaits <=> tr.started)
    /\ tr.stopped => net \in {"none", "dead"}
    /\ tr.error # "None" => net \in {"failing", "dead"}
    /\ pc = "join" => tr.stopReq
    /\ stopper \in {"joinTaken", "finalJoin"} /\ tr.gen = retained => tr.stopReq

\* An attempt the coordinator does not run any more is stopped, or left for
\* stop() to find.
AttemptOK ==
    /\ active \in {0, tr.gen} /\ retained <= tr.gen /\ tr.gen <= generation
    /\ tr.gen = 0 => tr.stopped
    /\ pc \in Attempting => active = tr.gen /\ tr.gen = generation
    /\ pc \in Between => tr.gen < generation
    /\ pc \notin Attempting \cup Leaving => tr.stopped
    /\ pc \in Leaving =>
            \/ tr.stopped
            \/ opened = 0 /\ active = tr.gen
            \/ opened = 0 /\ stopper \in {"finalStop", "finalJoin"}

\* How far stop() is tells where the coordinator can be.
StopOK ==
    /\ pc = "down" => active = 0 /\ stopper \in {"none", "published", "stopped"}
    /\ stopper \in {"finalStop", "finalJoin"} =>
            pc = "done" /\ active = 0 /\ retained = tr.gen
    /\ stopper = "runtime" => pc = "done" /\ active = 0 /\ tr.stopped
    /\ stopper = "stopped" =>
            pc \in {"down", "done"} /\ active = 0 /\ tr.stopped

\* The gate is where the coordinator's source_generation_open_ and
\* source_generation_quiesced_ say, unless the publication has been shut down.
GateOK ==
    /\ stopper # "none" => gate.state = "Shutdown"
    /\ opened \in {0, tr.gen} /\ (quiesced => opened # 0 /\ tr.stopped)
    /\ pc \in {"down", "top", "create", "created", "start", "starting", "open",
              "plannedReset", "backoff", "recovering", "reset"} => opened = 0
    /\ pc \in {"lookAtGate", "quiesceGate"} => opened # 0
    /\ gate.gen <= tr.gen
    /\ gate.state = "PermanentlyClosed" => pc \in Leaving
    /\ gate.state # "Shutdown" =>
            /\ opened # 0 =>
                    /\ gate.gen = opened
                    /\ gate.state = IF quiesced THEN "Quiesced" ELSE "Open"
            /\ opened = 0 =>
                    /\ gate.state \in {"Closed", "PermanentlyClosed"}
                    /\ ~tr.stopped => gate.state = "Closed" /\ gate.gen < tr.gen

Holds(r, input) == \E i \in 1..Len(r.queue) : r.queue[i] = input

OnlyFailures(r) == \A i \in 1..Len(r.queue) : r.queue[i] = "Failure"

\* The runtime needs a reset, or will as soon as its owner has run.
Doomed(r) == RecoveryRequired(r) \/ r.overflow \/ Holds(r, "Failure")

\* The ingress closes only for a reason, and a fault empties it.
Sound(r) ==
    /\ r \in Runtimes
    /\ Len(r.queue) <= QueueCapacity
    /\ r.overflow => Len(r.queue) = QueueCapacity
    /\ RecoveryRequired(r) => ~r.accepting /\ r.queue = <<>> /\ ~r.overflow
    /\ ~r.accepting => r.overflow \/ RecoveryRequired(r) \/ r.state = "Stopped"

\* A transport error reaches the runtime before its thread ends.
RuntimeOK ==
    /\ Sound(rt)
    /\ rt.state = "Stopped" => stopper = "stopped"
    /\ tr.error # "None" /\ net = "dead" /\ pc \notin {"top", "create", "done"}
            => Doomed(rt)

\* What the coordinator has seen at the cut stays true up to the reset.
CutOK ==
    /\ pc \in {"reflect", "decide", "plannedCommit", "plannedReset"} /\ seen =>
            /\ tr.error = "None"
            /\ driver # "submitted" => Healthy(rt) /\ rt.queue = <<>>
    /\ pc \in {"plannedCommit", "plannedReset"} => seen
    /\ pc \in {"backoffCommit", "backoff", "recovering", "reset"} =>
            RecoveryRequired(rt)
    /\ pc \in Between =>
            OnlyFailures(rt) /\ (driver # "submitted" => rt.queue = <<>>)
    /\ ResetsSucceed

IInv == Types /\ ThreadOK /\ AttemptOK /\ StopOK /\ GateOK /\ RuntimeOK /\ CutOK

-----------------------------------------------------------------------------
(* The steps, by what they are for.                                          *)

\* From one generation's loop head to the open of its source.
Opening ==
    \/ Start \/ BeginsGeneration \/ CreatesAttempt \/ ChecksShutdown
    \/ StartsAttempt \/ AttemptStarted \/ OpensGeneration

\* From there to the end of Live.
Watching ==
    \/ AwaitsLive \/ QualifiesRuntime \/ InspectsTransport \/ MarksLive
    \/ LeavesLive

\* quiesce_attempt().
Quieting ==
    \/ StopsAttempt \/ JoinsAttempt \/ LooksAtGate \/ QuiescesGate
    \/ ReleasesAttempt

\* The exits through a close or an exception.
Closing ==
    \/ ClosesGlobally \/ ClosesForGood \/ CatchesException
    \/ EndsAfterException

\* From the cut to the commit of a rotation.
Cutting ==
    \/ Cuts \/ ReflectsError \/ Decides \/ GivesUp \/ CommitsRotation

\* Resets and backoff.
Renewing ==
    \/ ResetsForRotation \/ CommitsBackoff \/ BacksOff \/ CommitsRecovery
    \/ ResetsForRecovery

\* The thread in stop().
Stopping ==
    \/ ShutsPublication \/ RequestsStop \/ TakesAttempt \/ StopsTaken
    \/ JoinsTaken \/ JoinsCoordinator \/ StopsRuntime

\* The driver.
Driving ==
    \/ DriverChecks \/ DriverSubmits

\* Every step is one of these.
LEMMA StepKinds ==
    ASSUME [Next]_vars
    PROVE  \/ Opening \/ Watching \/ Quieting \/ Closing \/ Cutting \/ Renewing
           \/ Network \/ OwnerRuns \/ Stopping \/ Driving \/ UNCHANGED vars
BY DEF Next, Coordinator, Stopper, Stopped, Opening, Watching, Quieting,
   Closing, Cutting, Renewing, Stopping, Driving

\* A message that arrives is taken, or ends the attempt.
LEMMA ReceiveShape ==
    ASSUME NetReceivesDepth \/ NetReceivesSnapshot
    PROVE  /\ net = "active" /\ UNCHANGED netUnchanged
           /\ \/ UNCHANGED tr /\ net' \in {"active", "fetched"}
              \/ \E error \in {"Retry", "Fatal"} : Fails(error)
<1>1. CASE NetReceivesDepth
  <2>1. net = "active" /\ UNCHANGED netUnchanged
    BY Zenon, <1>1 DEF NetReceivesDepth
  <2>2. CASE UNCHANGED <<tr, net>>
    BY <2>1, <2>2
  <2>3. CASE Fails("Fatal") \/ Fails("Retry")
    BY Zenon, <2>1, <2>3
  <2> QED BY Zenon, <1>1, <2>2, <2>3 DEF NetReceivesDepth
<1>2. CASE NetReceivesSnapshot
  <2>1. net = "active" /\ UNCHANGED netUnchanged
    BY Zenon, <1>2 DEF NetReceivesSnapshot
  <2>2. CASE UNCHANGED tr /\ net' = "fetched"
    BY Zenon, <2>1, <2>2
  <2>3. CASE Fails("Retry")
    BY Zenon, <2>1, <2>3
  <2> QED BY Zenon, <1>2, <2>2, <2>3 DEF NetReceivesSnapshot
<1> QED BY <1>1, <1>2

\* What the network thread may do to the transport, and to nothing else.
LEMMA NetworkShape ==
    ASSUME tr \in Transports, Network
    PROVE  /\ UNCHANGED netUnchanged
           /\ tr' \in Transports
           /\ tr'.gen = tr.gen /\ tr'.started = tr.started
           /\ tr'.stopReq = tr.stopReq /\ tr'.awaits = tr.awaits
           /\ tr'.stopped = tr.stopped
           /\ net \in {"connecting", "active", "fetched", "failing"}
           /\ net' \in {"active", "fetched", "failing", "dead"}
           /\ net' # "failing" => tr'.error = tr.error
           /\ net = "failing" => net' = "dead"
<1> USE DEF Transports, Errors
<1>1. ASSUME NEW error \in {"Retry", "Fatal"}, Fails(error)
      PROVE  /\ tr' \in Transports
             /\ tr'.gen = tr.gen /\ tr'.started = tr.started
             /\ tr'.stopReq = tr.stopReq /\ tr'.awaits = tr.awaits
             /\ tr'.stopped = tr.stopped
             /\ net' = "failing"
  BY <1>1 DEF Fails
<1>2. CASE NetReceivesDepth \/ NetReceivesSnapshot
  BY ONLY <1>1, <1>2, ReceiveShape, tr \in Transports
<1>3. CASE NetFails
  <2>1. PICK error \in {"Retry", "Fatal"} : Fails(error)
    BY <1>3 DEF NetFails
  <2> QED BY <1>1, <1>3, <2>1 DEF NetFails
<1>4. CASE NetConnects \/ NetMarksFetched
  BY <1>4 DEF NetConnects, NetMarksFetched
<1>5. CASE NetReportsFailure \/ NetShutsDown
  BY <1>5 DEF NetReportsFailure, NetShutsDown
<1> QED BY <1>2, <1>3, <1>4, <1>5 DEF Network

\* The threads go where the code sends them.
LEMMA ControlStep ==
    ASSUME ~Overlap, IInv, [Next]_vars PROVE ControlOK'
<1> USE CoordinatorAssumption DEF IInv, Types, ControlOK, CoordinatorSteps,
   StopperSteps, Transports, Errors, Quiescing, coVars, obsVars, sourceVars,
   stopVars
<1>1. CASE Opening
  <2>1. CASE Start
    BY <2>1 DEF Start
  <2>2. CASE BeginsGeneration
    BY <2>2 DEF BeginsGeneration
  <2>3. CASE CreatesAttempt
    BY <2>3 DEF CreatesAttempt
  <2>4. CASE ChecksShutdown
    BY <2>4 DEF ChecksShutdown, Quiesces
  <2>5. CASE StartsAttempt
    BY <2>5 DEF StartsAttempt, TransportStarts
  <2>6. CASE AttemptStarted
    BY <2>6 DEF AttemptStarted, Quiesces
  <2>7. CASE OpensGeneration
    BY <2>7 DEF OpensGeneration
  <2> QED BY <1>1, <2>1, <2>2, <2>3, <2>4, <2>5, <2>6, <2>7 DEF Opening
<1>2. CASE Watching
  <2>1. CASE AwaitsLive
    BY <2>1 DEF AwaitsLive, Quiesces
  <2>2. CASE QualifiesRuntime
    BY <2>2 DEF QualifiesRuntime
  <2>3. CASE InspectsTransport
    BY <2>3 DEF InspectsTransport
  <2>4. CASE MarksLive
    BY <2>4 DEF MarksLive, Quiesces
  <2>5. CASE LeavesLive
    BY <2>5 DEF LeavesLive, Quiesces
  <2> QED BY <1>2, <2>1, <2>2, <2>3, <2>4, <2>5 DEF Watching
<1>3. CASE Quieting
  <2>1. CASE StopsAttempt
    BY <2>1 DEF StopsAttempt
  <2>2. CASE JoinsAttempt
    BY <2>2 DEF JoinsAttempt
  <2>3. CASE LooksAtGate
    BY <2>3 DEF LooksAtGate
  <2>4. CASE QuiescesGate
    BY <2>4 DEF QuiescesGate
  <2>5. CASE ReleasesAttempt
    BY <2>5 DEF ReleasesAttempt
  <2> QED BY <1>3, <2>1, <2>2, <2>3, <2>4, <2>5 DEF Quieting
<1>4. CASE Closing
  <2>1. CASE ClosesGlobally
    BY <2>1 DEF ClosesGlobally, CloseSource
  <2>2. CASE ClosesForGood
    BY <2>2 DEF ClosesForGood, CloseSource
  <2>3. CASE CatchesException
    BY <2>3 DEF CatchesException, CloseSource
  <2>4. CASE EndsAfterException
    BY <2>4 DEF EndsAfterException
  <2> QED BY <1>4, <2>1, <2>2, <2>3, <2>4 DEF Closing
<1>5. CASE Cutting
  <2>1. CASE Cuts
    BY <2>1 DEF Cuts
  <2>2. CASE ReflectsError
    BY <2>2 DEF ReflectsError, CloseSource
  <2>3. CASE Decides
    BY <2>3 DEF Decides
  <2>4. CASE GivesUp
    BY <2>4 DEF GivesUp, CloseSource
  <2>5. CASE CommitsRotation
    BY <2>5 DEF CommitsRotation, CloseSource
  <2> QED BY <1>5, <2>1, <2>2, <2>3, <2>4, <2>5 DEF Cutting
<1>6. CASE Renewing
  <2>1. CASE ResetsForRotation
    BY <2>1 DEF ResetsForRotation
  <2>2. CASE CommitsBackoff
    BY <2>2 DEF CommitsBackoff, CloseSource
  <2>3. CASE BacksOff
    BY <2>3 DEF BacksOff
  <2>4. CASE CommitsRecovery
    BY <2>4 DEF CommitsRecovery
  <2>5. CASE ResetsForRecovery
    BY <2>5 DEF ResetsForRecovery
  <2> QED BY <1>6, <2>1, <2>2, <2>3, <2>4, <2>5 DEF Renewing
<1>7. CASE Network
  BY ONLY IInv, <1>7, NetworkShape DEF IInv, Types, ControlOK,
     CoordinatorSteps, StopperSteps, Transports, Errors, Quiescing,
     netUnchanged, coVars, obsVars, sourceVars, stopVars
<1>8. CASE Stopping
  <2>1. CASE ShutsPublication
    BY <2>1 DEF ShutsPublication, stopUnchanged
  <2>2. CASE RequestsStop
    BY <2>2 DEF RequestsStop, stopUnchanged
  <2>3. CASE TakesAttempt
    BY <2>3 DEF TakesAttempt, stopUnchanged
  <2>4. CASE StopsTaken
    BY <2>4 DEF StopsTaken, stopUnchanged
  <2>5. CASE JoinsTaken
    BY <2>5 DEF JoinsTaken, stopUnchanged
  <2>6. CASE JoinsCoordinator
    BY <2>6 DEF JoinsCoordinator, stopUnchanged
  <2>7. CASE StopsRuntime
    BY <2>7 DEF StopsRuntime, stopUnchanged
  <2> QED BY <1>8, <2>1, <2>2, <2>3, <2>4, <2>5, <2>6, <2>7 DEF Stopping
<1>9. CASE Driving
  BY <1>9 DEF Driving, DriverChecks, DriverSubmits
<1>10. CASE OwnerRuns \/ UNCHANGED vars
  BY <1>10 DEF OwnerRuns, vars
<1> QED
  BY StepKinds, <1>1, <1>2, <1>3, <1>4, <1>5, <1>6, <1>7, <1>8, <1>9, <1>10

\* No start() slips in behind a stop(), and a stop() that has returned has joined.
LEMMA ThreadStep ==
    ASSUME ~Overlap, IInv, [Next]_vars PROVE ThreadOK'
<1> USE CoordinatorAssumption DEF IInv, Types, ThreadOK, AttemptOK, StopOK,
   ControlOK, Quiescing, CoordinatorSteps, StopperSteps, Transports, Errors,
   Attempting, Leaving, Between, coVars, obsVars, sourceVars, stopVars
<1>1. CASE Opening
  <2>1. CASE Start
    BY <2>1 DEF Start
  <2>2. CASE BeginsGeneration
    BY <2>2 DEF BeginsGeneration
  <2>3. CASE CreatesAttempt
    BY <2>3 DEF CreatesAttempt, NewTransport, NoTransport
  <2>4. CASE ChecksShutdown
    BY <2>4 DEF ChecksShutdown, Quiesces
  <2>5. CASE StartsAttempt
    BY <2>5 DEF StartsAttempt, TransportStarts
  <2>6. CASE AttemptStarted
    BY <2>6 DEF AttemptStarted, Quiesces
  <2>7. CASE OpensGeneration
    BY <2>7 DEF OpensGeneration
  <2> QED BY <1>1, <2>1, <2>2, <2>3, <2>4, <2>5, <2>6, <2>7 DEF Opening
<1>2. CASE Watching
  BY <1>2 DEF Watching, AwaitsLive, QualifiesRuntime, InspectsTransport,
     MarksLive, LeavesLive, Quiesces
<1>3. CASE Quieting
  <2>1. CASE StopsAttempt
    BY <2>1 DEF StopsAttempt, StopRequested
  <2>2. CASE JoinsAttempt
    BY <2>2 DEF JoinsAttempt, Joined
  <2>3. CASE LooksAtGate
    BY <2>3 DEF LooksAtGate
  <2>4. CASE QuiescesGate
    BY <2>4 DEF QuiescesGate
  <2>5. CASE ReleasesAttempt
    BY <2>5 DEF ReleasesAttempt
  <2> QED BY <1>3, <2>1, <2>2, <2>3, <2>4, <2>5 DEF Quieting
<1>4. CASE Closing
  BY <1>4 DEF Closing, ClosesGlobally, ClosesForGood, CatchesException,
     EndsAfterException
<1>5. CASE Cutting
  BY <1>5 DEF Cutting, Cuts, ReflectsError, Decides, GivesUp, CommitsRotation
<1>6. CASE Renewing
  BY <1>6 DEF Renewing, ResetsForRotation, CommitsBackoff, BacksOff,
     CommitsRecovery, ResetsForRecovery
<1>7. CASE Network
  BY ONLY IInv, <1>7, NetworkShape DEF IInv, Types, ThreadOK, AttemptOK,
     StopOK, ControlOK, Quiescing, CoordinatorSteps, StopperSteps, Transports,
     Errors, Attempting, Leaving, Between, netUnchanged, coVars, obsVars,
     sourceVars, stopVars
<1>8. CASE Stopping
  <2>1. CASE ShutsPublication
    BY <2>1 DEF ShutsPublication, stopUnchanged
  <2>2. CASE RequestsStop
    BY <2>2 DEF RequestsStop, stopUnchanged
  <2>3. CASE TakesAttempt
    BY <2>3 DEF TakesAttempt, stopUnchanged
  <2>4. CASE StopsTaken
    BY <2>4 DEF StopsTaken, stopUnchanged, StopRequested
  <2>5. CASE JoinsTaken
    BY <2>5 DEF JoinsTaken, stopUnchanged, Joined
  <2>6. CASE JoinsCoordinator
    BY <2>6 DEF JoinsCoordinator, stopUnchanged
  <2>7. CASE StopsRuntime
    BY <2>7 DEF StopsRuntime, stopUnchanged
  <2> QED BY <1>8, <2>1, <2>2, <2>3, <2>4, <2>5, <2>6, <2>7 DEF Stopping
<1>9. CASE Driving
  BY <1>9 DEF Driving, DriverChecks, DriverSubmits
<1>10. CASE OwnerRuns \/ UNCHANGED vars
  BY <1>10 DEF OwnerRuns, vars
<1> QED
  BY StepKinds, <1>1, <1>2, <1>3, <1>4, <1>5, <1>6, <1>7, <1>8, <1>9, <1>10

\* An attempt that is given up is stopped, or still there for stop() to take.
LEMMA AttemptStep ==
    ASSUME ~Overlap, IInv, [Next]_vars PROVE AttemptOK'
<1> USE CoordinatorAssumption DEF IInv, Types, ThreadOK, AttemptOK, StopOK,
   GateOK, ControlOK, CoordinatorSteps, Transports, Attempting, Leaving,
   Between, Quiescing, coVars, obsVars, sourceVars, stopVars
<1>1. CASE Opening
  <2>1. CASE Start
    BY <2>1 DEF Start
  <2>2. CASE BeginsGeneration
    BY <2>2 DEF BeginsGeneration
  <2>3. CASE CreatesAttempt
    BY <2>3 DEF CreatesAttempt, NewTransport, NoTransport
  <2>4. CASE ChecksShutdown
    BY <2>4 DEF ChecksShutdown, Quiesces
  <2>5. CASE StartsAttempt
    BY <2>5 DEF StartsAttempt, TransportStarts
  <2>6. CASE AttemptStarted
    BY <2>6 DEF AttemptStarted, Quiesces
  <2>7. CASE OpensGeneration
    BY <2>7 DEF OpensGeneration
  <2> QED BY <1>1, <2>1, <2>2, <2>3, <2>4, <2>5, <2>6, <2>7 DEF Opening
<1>2. CASE Watching
  BY <1>2 DEF Watching, AwaitsLive, QualifiesRuntime, InspectsTransport,
     MarksLive, LeavesLive, Quiesces
<1>3. CASE Quieting
  <2>1. CASE StopsAttempt
    BY <2>1 DEF StopsAttempt, StopRequested
  <2>2. CASE JoinsAttempt
    BY <2>2 DEF JoinsAttempt
  <2>3. CASE LooksAtGate
    BY <2>3 DEF LooksAtGate
  <2>4. CASE QuiescesGate
    BY <2>4 DEF QuiescesGate
  <2>5. CASE ReleasesAttempt
    BY <2>5 DEF ReleasesAttempt
  <2> QED BY <1>3, <2>1, <2>2, <2>3, <2>4, <2>5 DEF Quieting
<1>4. CASE Closing
  BY <1>4 DEF Closing, ClosesGlobally, ClosesForGood, CatchesException,
     EndsAfterException, CloseSource
<1>5. CASE Cutting
  BY <1>5 DEF Cutting, Cuts, ReflectsError, Decides, GivesUp, CommitsRotation,
     CloseSource
<1>6. CASE Renewing
  BY <1>6 DEF Renewing, ResetsForRotation, CommitsBackoff, BacksOff,
     CommitsRecovery, ResetsForRecovery, CloseSource
<1>7. CASE Network
  BY ONLY IInv, <1>7, NetworkShape DEF IInv, Types, ThreadOK, AttemptOK,
     StopOK, GateOK, ControlOK, CoordinatorSteps, Transports, Attempting,
     Leaving, Between, Quiescing, netUnchanged, coVars, obsVars, sourceVars,
     stopVars
<1>8. CASE Stopping
  <2>1. CASE ShutsPublication
    BY <2>1 DEF ShutsPublication, stopUnchanged
  <2>2. CASE RequestsStop
    BY <2>2 DEF RequestsStop, stopUnchanged
  <2>3. CASE TakesAttempt
    BY <2>3 DEF TakesAttempt, stopUnchanged
  <2>4. CASE StopsTaken
    BY <2>4 DEF StopsTaken, stopUnchanged, StopRequested
  <2>5. CASE JoinsTaken
    BY <2>5 DEF JoinsTaken, stopUnchanged
  <2>6. CASE JoinsCoordinator
    BY <2>6 DEF JoinsCoordinator, stopUnchanged
  <2>7. CASE StopsRuntime
    BY <2>7 DEF StopsRuntime, stopUnchanged
  <2> QED BY <1>8, <2>1, <2>2, <2>3, <2>4, <2>5, <2>6, <2>7 DEF Stopping
<1>9. CASE Driving
  BY <1>9 DEF Driving, DriverChecks, DriverSubmits
<1>10. CASE OwnerRuns \/ UNCHANGED vars
  BY <1>10 DEF OwnerRuns, vars
<1> QED
  BY StepKinds, <1>1, <1>2, <1>3, <1>4, <1>5, <1>6, <1>7, <1>8, <1>9, <1>10

\* stop() goes on to the runtime only behind the coordinator.
LEMMA StopStep ==
    ASSUME ~Overlap, IInv, [Next]_vars PROVE StopOK'
<1> USE CoordinatorAssumption DEF IInv, Types, AttemptOK, StopOK, ControlOK,
   Quiescing, CoordinatorSteps, StopperSteps, Transports, Attempting, Leaving,
   Between, coVars, obsVars, sourceVars, stopVars
<1>1. CASE Opening
  BY <1>1 DEF Opening, Start, BeginsGeneration, CreatesAttempt,
     ChecksShutdown, StartsAttempt, AttemptStarted, OpensGeneration, Quiesces,
     TransportStarts, NewTransport, NoTransport
<1>2. CASE Watching
  BY <1>2 DEF Watching, AwaitsLive, QualifiesRuntime, InspectsTransport,
     MarksLive, LeavesLive, Quiesces
<1>3. CASE Quieting
  <2>1. CASE StopsAttempt
    BY <2>1 DEF StopsAttempt, StopRequested
  <2>2. CASE JoinsAttempt
    BY <2>2 DEF JoinsAttempt
  <2>3. CASE LooksAtGate
    BY <2>3 DEF LooksAtGate
  <2>4. CASE QuiescesGate
    BY <2>4 DEF QuiescesGate
  <2>5. CASE ReleasesAttempt
    BY <2>5 DEF ReleasesAttempt
  <2> QED BY <1>3, <2>1, <2>2, <2>3, <2>4, <2>5 DEF Quieting
<1>4. CASE Closing
  BY <1>4 DEF Closing, ClosesGlobally, ClosesForGood, CatchesException,
     EndsAfterException
<1>5. CASE Cutting
  BY <1>5 DEF Cutting, Cuts, ReflectsError, Decides, GivesUp, CommitsRotation
<1>6. CASE Renewing
  BY <1>6 DEF Renewing, ResetsForRotation, CommitsBackoff, BacksOff,
     CommitsRecovery, ResetsForRecovery
<1>7. CASE Network
  BY ONLY IInv, <1>7, NetworkShape DEF IInv, Types, AttemptOK, StopOK,
     ControlOK, Quiescing, CoordinatorSteps, StopperSteps, Transports,
     Attempting, Leaving, Between, netUnchanged, coVars, obsVars, sourceVars,
     stopVars
<1>8. CASE Stopping
  <2>1. CASE ShutsPublication
    BY <2>1 DEF ShutsPublication, stopUnchanged
  <2>2. CASE RequestsStop
    BY <2>2 DEF RequestsStop, stopUnchanged
  <2>3. CASE TakesAttempt
    BY <2>3 DEF TakesAttempt, stopUnchanged
  <2>4. CASE StopsTaken
    BY <2>4 DEF StopsTaken, stopUnchanged, StopRequested
  <2>5. CASE JoinsTaken
    BY <2>5 DEF JoinsTaken, stopUnchanged
  <2>6. CASE JoinsCoordinator
    BY <2>6 DEF JoinsCoordinator, stopUnchanged
  <2>7. CASE StopsRuntime
    BY <2>7 DEF StopsRuntime, stopUnchanged
  <2> QED BY <1>8, <2>1, <2>2, <2>3, <2>4, <2>5, <2>6, <2>7 DEF Stopping
<1>9. CASE Driving
  BY <1>9 DEF Driving, DriverChecks, DriverSubmits
<1>10. CASE OwnerRuns \/ UNCHANGED vars
  BY <1>10 DEF OwnerRuns, vars
<1> QED
  BY StepKinds, <1>1, <1>2, <1>3, <1>4, <1>5, <1>6, <1>7, <1>8, <1>9, <1>10

\* The gate and the coordinator's record of it move together.
LEMMA GateStep ==
    ASSUME ~Overlap, IInv, [Next]_vars PROVE GateOK'
<1> USE CoordinatorAssumption DEF IInv, Types, ThreadOK, AttemptOK, StopOK,
   GateOK, ControlOK, CoordinatorSteps, Transports, Gates, EventSourceStates,
   Attempting, Leaving, Between, Quiescing, coVars, obsVars, sourceVars,
   stopVars
<1>1. CASE Opening
  <2>1. CASE Start
    BY <2>1 DEF Start
  <2>2. CASE BeginsGeneration
    BY <2>2 DEF BeginsGeneration
  <2>3. CASE CreatesAttempt
    BY <2>3 DEF CreatesAttempt, NewTransport, NoTransport
  <2>4. CASE ChecksShutdown
    BY <2>4 DEF ChecksShutdown, Quiesces
  <2>5. CASE StartsAttempt
    BY <2>5 DEF StartsAttempt, TransportStarts
  <2>6. CASE AttemptStarted
    BY <2>6 DEF AttemptStarted, Quiesces
  <2>7. CASE OpensGeneration
    BY <2>7 DEF OpensGeneration, MayOpen, Opened
  <2> QED BY <1>1, <2>1, <2>2, <2>3, <2>4, <2>5, <2>6, <2>7 DEF Opening
<1>2. CASE Watching
  <2>1. CASE AwaitsLive
    BY <2>1 DEF AwaitsLive, Quiesces
  <2>2. CASE QualifiesRuntime
    BY <2>2 DEF QualifiesRuntime
  <2>3. CASE InspectsTransport
    BY <2>3 DEF InspectsTransport
  <2>4. CASE MarksLive
    BY <2>4 DEF MarksLive, Quiesces
  <2>5. CASE LeavesLive
    BY <2>5 DEF LeavesLive, Quiesces
  <2> QED BY <1>2, <2>1, <2>2, <2>3, <2>4, <2>5 DEF Watching
<1>3. CASE Quieting
  <2>1. CASE StopsAttempt
    BY <2>1 DEF StopsAttempt, StopRequested
  <2>2. CASE JoinsAttempt
    BY <2>2 DEF JoinsAttempt, Joined
  <2>3. CASE LooksAtGate
    BY <2>3 DEF LooksAtGate
  <2>4. CASE QuiescesGate
    BY <2>4 DEF QuiescesGate, MayQuiesce, Quiesced
  <2>5. CASE ReleasesAttempt
    BY <2>5 DEF ReleasesAttempt
  <2> QED BY <1>3, <2>1, <2>2, <2>3, <2>4, <2>5 DEF Quieting
<1>4. CASE Closing
  BY <1>4 DEF Closing, ClosesGlobally, ClosesForGood, CatchesException,
     EndsAfterException, CloseSource, CloseRefused, MayClose, MayQuiesce,
     SetTerminal, ShutDown, Replaced, PermanentlyClosed
<1>5. CASE Cutting
  BY <1>5 DEF Cutting, Cuts, ReflectsError, Decides, GivesUp, CommitsRotation,
     CloseSource, CloseRefused, MayClose, SetTerminal, ShutDown, Replaced,
     PermanentlyClosed
<1>6. CASE Renewing
  <2>1. CASE ResetsForRotation
    BY <2>1 DEF ResetsForRotation, SetTerminal
  <2>2. CASE CommitsBackoff
    BY <2>2 DEF CommitsBackoff, CloseSource, CloseRefused, MayClose,
       SetTerminal, ShutDown, Replaced, PermanentlyClosed
  <2>3. CASE BacksOff
    BY <2>3 DEF BacksOff
  <2>4. CASE CommitsRecovery
    BY <2>4 DEF CommitsRecovery
  <2>5. CASE ResetsForRecovery
    BY <2>5 DEF ResetsForRecovery, SetTerminal
  <2> QED BY <1>6, <2>1, <2>2, <2>3, <2>4, <2>5 DEF Renewing
<1>7. CASE Network
  BY ONLY IInv, <1>7, NetworkShape DEF IInv, Types, ThreadOK, AttemptOK,
     StopOK, GateOK, ControlOK, CoordinatorSteps, Transports, Gates,
     EventSourceStates, Attempting, Leaving, Between, Quiescing, netUnchanged,
     coVars, obsVars, sourceVars, stopVars
<1>8. CASE Stopping
  <2>1. CASE ShutsPublication
    BY <2>1 DEF ShutsPublication, stopUnchanged, ShutDown
  <2>2. CASE RequestsStop
    BY <2>2 DEF RequestsStop, stopUnchanged
  <2>3. CASE TakesAttempt
    BY <2>3 DEF TakesAttempt, stopUnchanged
  <2>4. CASE StopsTaken
    BY <2>4 DEF StopsTaken, stopUnchanged, StopRequested
  <2>5. CASE JoinsTaken
    BY <2>5 DEF JoinsTaken, stopUnchanged, Joined
  <2>6. CASE JoinsCoordinator
    BY <2>6 DEF JoinsCoordinator, stopUnchanged
  <2>7. CASE StopsRuntime
    BY <2>7 DEF StopsRuntime, stopUnchanged
  <2> QED BY <1>8, <2>1, <2>2, <2>3, <2>4, <2>5, <2>6, <2>7 DEF Stopping
<1>9. CASE Driving
  BY <1>9 DEF Driving, DriverChecks, DriverSubmits
<1>10. CASE OwnerRuns \/ UNCHANGED vars
  BY <1>10 DEF OwnerRuns, vars
<1> QED
  BY StepKinds, <1>1, <1>2, <1>3, <1>4, <1>5, <1>6, <1>7, <1>8, <1>9, <1>10

\* The updates of a transport keep its type, and stop() only what it says.
LEMMA TransportEdits ==
    ASSUME NEW t \in Transports, NEW gen \in Nat
    PROVE  /\ NewTransport(gen) \in Transports
           /\ StopRequested(t) \in Transports
           /\ [t EXCEPT !.started = TRUE] \in Transports
           /\ [t EXCEPT !.stopped = TRUE] \in Transports
BY DEF Transports, Errors, NewTransport, NoTransport, StopRequested

\* The transport stays a transport.
LEMMA TransportTypes ==
    ASSUME IInv, [Next]_vars PROVE tr' \in Transports
<1>1. tr \in Transports /\ generation \in Nat
  BY DEF IInv, Types, ControlOK
<1>2. CASE CreatesAttempt
  BY <1>1, <1>2, TransportEdits DEF CreatesAttempt
<1>3. CASE StartsAttempt
  BY <1>1, <1>3, TransportEdits DEF StartsAttempt, TransportStarts
<1>4. CASE StopsAttempt \/ JoinsAttempt
  BY <1>1, <1>4, TransportEdits DEF StopsAttempt, JoinsAttempt
<1>5. CASE StopsTaken \/ JoinsTaken
  BY <1>1, <1>5, TransportEdits DEF StopsTaken, JoinsTaken
<1>6. CASE Network
  BY <1>1, <1>6, NetworkShape
<1>7. CASE UNCHANGED tr
  BY <1>1, <1>7
<1>8. CASE Opening
  BY <1>2, <1>3, <1>7, <1>8 DEF Opening, Start, BeginsGeneration,
     ChecksShutdown, AttemptStarted, OpensGeneration
<1>9. CASE Watching \/ Closing \/ Cutting \/ Renewing \/ Driving
  BY Zenon, <1>7, <1>9 DEF Watching, AwaitsLive, QualifiesRuntime,
     InspectsTransport, MarksLive, LeavesLive, Closing, ClosesGlobally,
     ClosesForGood, CatchesException, EndsAfterException, Cutting, Cuts,
     ReflectsError, Decides, GivesUp, CommitsRotation, Renewing,
     ResetsForRotation, CommitsBackoff, BacksOff, CommitsRecovery,
     ResetsForRecovery, Driving, DriverChecks, DriverSubmits
<1>10. CASE Quieting
  BY <1>4, <1>7, <1>10 DEF Quieting, LooksAtGate, QuiescesGate,
     ReleasesAttempt
<1>11. CASE Stopping
  BY <1>5, <1>7, <1>11 DEF Stopping, ShutsPublication, RequestsStop,
     TakesAttempt, JoinsCoordinator, StopsRuntime
<1>12. CASE OwnerRuns \/ UNCHANGED vars
  BY <1>7, <1>12 DEF OwnerRuns, vars
<1> QED
  BY StepKinds, <1>6, <1>8, <1>9, <1>10, <1>11, <1>12

\* The calls on the gate keep its type.
LEMMA GateEdits ==
    ASSUME NEW g \in Gates, NEW gen \in Nat
    PROVE  /\ Opened(g, gen) \in Gates /\ Quiesced(g) \in Gates
           /\ Replaced(g) \in Gates /\ PermanentlyClosed(g) \in Gates
           /\ ShutDown(g) \in Gates
BY DEF Gates, EventSourceStates, Opened, Quiesced, Replaced,
   PermanentlyClosed, ShutDown

\* The gate stays a gate.
LEMMA GateTypes ==
    ASSUME IInv, [Next]_vars PROVE gate' \in Gates
<1>1. gate \in Gates /\ generation \in Nat
  BY DEF IInv, Types, ControlOK
<1>2. CASE UNCHANGED gate
  BY <1>1, <1>2
<1>3. ASSUME NEW outcome, CloseSource(outcome)
      PROVE  gate' \in Gates
  BY <1>1, <1>3, GateEdits DEF CloseSource
<1>4. CASE Opening
  BY <1>1, <1>2, <1>4, GateEdits DEF Opening, Start, BeginsGeneration,
     CreatesAttempt, ChecksShutdown, StartsAttempt, AttemptStarted,
     OpensGeneration
<1>5. CASE Quieting
  BY <1>1, <1>2, <1>5, GateEdits DEF Quieting, StopsAttempt, JoinsAttempt,
     LooksAtGate, QuiescesGate, ReleasesAttempt
<1>6. CASE Closing
  BY Zenon, <1>2, <1>3, <1>6 DEF Closing, ClosesGlobally, ClosesForGood,
     CatchesException, EndsAfterException, sourceVars
<1>7. CASE Cutting
  BY Zenon, <1>2, <1>3, <1>7 DEF Cutting, Cuts, ReflectsError, Decides,
     GivesUp, CommitsRotation
<1>8. CASE Renewing
  BY Zenon, <1>2, <1>3, <1>8 DEF Renewing, ResetsForRotation,
     CommitsBackoff, BacksOff, CommitsRecovery, ResetsForRecovery
<1>9. CASE Stopping
  BY <1>1, <1>2, <1>9, GateEdits DEF Stopping, ShutsPublication,
     RequestsStop, TakesAttempt, StopsTaken, JoinsTaken, JoinsCoordinator,
     StopsRuntime
<1>10. CASE Watching \/ Driving
  BY Zenon, <1>2, <1>10 DEF Watching, AwaitsLive, QualifiesRuntime,
     InspectsTransport, MarksLive, LeavesLive, Driving, DriverChecks,
     DriverSubmits
<1>11. CASE Network
  BY <1>2, <1>11, NetworkShape DEF IInv, Types, netUnchanged
<1>12. CASE OwnerRuns \/ UNCHANGED vars
  BY <1>2, <1>12 DEF OwnerRuns, vars
<1> QED
  BY StepKinds, <1>4, <1>5, <1>6, <1>7, <1>8, <1>9, <1>10, <1>11, <1>12

\* seen and quiesced stay Boolean.
LEMMA FlagTypes ==
    ASSUME IInv, [Next]_vars PROVE seen' \in BOOLEAN /\ quiesced' \in BOOLEAN
<1> USE DEF sourceVars, coVars
<1>1. seen \in BOOLEAN /\ quiesced \in BOOLEAN /\ tr \in Transports
  BY DEF IInv, Types
<1>2. CASE UNCHANGED <<seen, quiesced>>
  BY <1>1, <1>2
<1>3. CASE UNCHANGED quiesced /\ seen' \in BOOLEAN
  BY <1>1, <1>3
<1>4. CASE UNCHANGED seen /\ quiesced' \in BOOLEAN
  BY <1>1, <1>4
<1>5. Healthy(rt) \in BOOLEAN
  BY Zenon DEF Healthy
<1>6. ASSUME NEW outcome, CloseSource(outcome), UNCHANGED seen
      PROVE  seen' \in BOOLEAN /\ quiesced' \in BOOLEAN
  BY Zenon, <1>1, <1>6 DEF CloseSource
<1>7. CASE Opening
  BY Zenon, <1>2, <1>7 DEF Opening, Start, BeginsGeneration, CreatesAttempt,
     ChecksShutdown, StartsAttempt, AttemptStarted, OpensGeneration
<1>8. CASE Watching
  BY Zenon, <1>2, <1>3, <1>5, <1>8 DEF Watching, AwaitsLive,
     QualifiesRuntime, InspectsTransport, MarksLive, LeavesLive
<1>9. CASE Quieting
  BY Zenon, <1>1, <1>2, <1>4, <1>9 DEF Quieting, StopsAttempt, JoinsAttempt,
     LooksAtGate, QuiescesGate, ReleasesAttempt
<1>10. CASE Closing
  <2>1. CASE CatchesException
    <3>1. UNCHANGED seen
      BY Zenon, <2>1 DEF CatchesException
    <3>2. CASE CloseSource("Permanent")
      BY <1>6, <3>1, <3>2
    <3>3. CASE quiesced' = (\/ quiesced
                            \/ /\ opened # 0 /\ ~quiesced /\ active # 0
                               /\ gate.state = "Shutdown")
      BY Zenon, <1>1, <3>1, <3>3
    <3> QED BY Zenon, <2>1, <3>2, <3>3 DEF CatchesException
  <2> QED
    BY Zenon, <1>2, <1>6, <1>10, <2>1 DEF Closing, ClosesGlobally,
       ClosesForGood, EndsAfterException
<1>11. CASE Cutting
  <2>1. CASE Cuts
    BY Zenon, <1>2, <1>3, <1>5, <2>1 DEF Cuts
  <2> QED
    BY Zenon, <1>2, <1>6, <1>11, <2>1 DEF Cutting, ReflectsError, Decides,
       GivesUp, CommitsRotation
<1>12. CASE Renewing
  BY Zenon, <1>2, <1>6, <1>12 DEF Renewing, ResetsForRotation,
     CommitsBackoff, BacksOff, CommitsRecovery, ResetsForRecovery
<1>13. CASE Stopping \/ Driving
  BY Zenon, <1>2, <1>13 DEF Stopping, ShutsPublication, RequestsStop,
     TakesAttempt, StopsTaken, JoinsTaken, JoinsCoordinator, StopsRuntime,
     stopUnchanged, Driving, DriverChecks, DriverSubmits
<1>14. CASE Network
  BY Zenon, <1>1, <1>2, <1>14, NetworkShape DEF netUnchanged
<1>15. CASE OwnerRuns \/ UNCHANGED vars
  BY Zenon, <1>2, <1>15 DEF OwnerRuns, vars
<1> QED
  BY StepKinds, <1>7, <1>8, <1>9, <1>10, <1>11, <1>12, <1>13, <1>14, <1>15

-----------------------------------------------------------------------------
(* The runtime's data.                                                       *)

\* submit() loses no bad news, and a failure is bad news.
LEMMA SubmitFacts ==
    ASSUME NEW r, Sound(r), NEW input \in Inputs
    PROVE  /\ Sound(Submitted(r, input))
           /\ Submitted(r, input).state = r.state
           /\ RecoveryRequired(r) => Submitted(r, input) = r
           /\ Doomed(r) => Doomed(Submitted(r, input))
           /\ input = "Failure" /\ r.state # "Stopped"
                => Doomed(Submitted(r, input))
           /\ input = "Failure" /\ OnlyFailures(r)
                => OnlyFailures(Submitted(r, input))
<1> DEFINE s == Submitted(r, input)
<1>1. /\ r \in Runtimes /\ r.queue \in Seq(Inputs) /\ Len(r.queue) \in Nat
      /\ r.accepting \in BOOLEAN /\ r.overflow \in BOOLEAN
  BY DEF Sound, Runtimes
<1>2. CASE SubmitAccepted(r)
  <2>1. ~(r.accepting /\ Len(r.queue) = QueueCapacity)
    BY <1>1, <1>2, CoordinatorAssumption DEF SubmitAccepted
  <2>2. s = [r EXCEPT !.queue = Append(r.queue, input)]
    BY <1>2, <2>1 DEF Submitted
  <2> DEFINE q == Append(r.queue, input)
  <2>3. q \in Seq(Inputs)
    BY <1>1
  <2> HIDE DEF q
  <2>4. /\ s \in Runtimes /\ s.queue = q
        /\ s.state = r.state /\ s.accepting = r.accepting
        /\ s.overflow = r.overflow
    BY <1>1, <2>2, <2>3 DEF Runtimes, q
  <2>5. r.accepting /\ ~RecoveryRequired(r) /\ Len(r.queue) < QueueCapacity
    BY <1>2 DEF Sound, SubmitAccepted
  <2>6. /\ Len(s.queue) = Len(r.queue) + 1
        /\ \A i \in 1..Len(r.queue) : s.queue[i] = r.queue[i]
        /\ s.queue[Len(r.queue) + 1] = input
    BY <1>1, <2>4 DEF q
  <2>7. ~RecoveryRequired(s)
    BY <2>4, <2>5 DEF RecoveryRequired
  <2>8. ~r.overflow
    BY <1>1, <2>5, CoordinatorAssumption DEF Sound
  <2>9. Sound(s)
    BY <1>1, <2>4, <2>5, <2>6, <2>7, <2>8, CoordinatorAssumption DEF Sound
  <2>10. input = "Failure" => Holds(s, "Failure")
    BY <1>1, <2>6 DEF Holds
  <2>11. Holds(r, "Failure") => Holds(s, "Failure")
    BY <1>1, <2>6 DEF Holds
  <2>12. input = "Failure" /\ OnlyFailures(r) => OnlyFailures(s)
    <3> SUFFICES ASSUME input = "Failure", OnlyFailures(r),
                        NEW i \in 1..Len(s.queue)
                 PROVE  s.queue[i] = "Failure"
      BY DEF OnlyFailures
    <3>1. i \in 1..Len(r.queue) \/ i = Len(r.queue) + 1
      BY <1>1, <2>6
    <3> QED BY <2>6, <3>1 DEF OnlyFailures
  <2> QED
    BY <2>4, <2>5, <2>8, <2>9, <2>10, <2>11, <2>12 DEF Doomed
<1>3. CASE ~SubmitAccepted(r) /\ r.accepting /\ Len(r.queue) = QueueCapacity
  <2>1. s = [r EXCEPT !.accepting = FALSE, !.overflow = TRUE]
    BY <1>3 DEF Submitted
  <2>2. /\ s \in Runtimes /\ s.queue = r.queue /\ s.state = r.state
        /\ ~s.accepting /\ s.overflow
    BY <1>1, <2>1 DEF Runtimes
  <2>3. ~RecoveryRequired(r) /\ ~RecoveryRequired(s)
    BY <1>3, <2>2 DEF Sound, RecoveryRequired
  <2> QED BY <1>1, <1>3, <2>2, <2>3 DEF Sound, Doomed, OnlyFailures
<1>4. CASE ~SubmitAccepted(r) /\ ~(r.accepting /\ Len(r.queue) = QueueCapacity)
  <2>1. s = r
    BY <1>4 DEF Submitted
  <2>2. ~r.accepting
    BY <1>1, <1>4, CoordinatorAssumption DEF SubmitAccepted, Sound
  <2> QED BY <2>1, <2>2 DEF Sound, Doomed
<1> QED BY <1>2, <1>3, <1>4

\* A fault or a gap leaves a runtime to reset.
LEMMA BrokenFacts ==
    ASSUME NEW r, Sound(r), NEW state \in {"Faulted", "NeedsResync"},
           NEW fault \in {"None", "Recoverable", "Terminal"}
    PROVE  /\ Sound(Broken(r, state, fault))
           /\ Broken(r, state, fault).state # "Stopped"
           /\ Doomed(Broken(r, state, fault))
           /\ OnlyFailures(Broken(r, state, fault))
<1> DEFINE s == Broken(r, state, fault)
<1>1. r \in Runtimes /\ <<>> \in Seq(Inputs) /\ Len(<<>>) = 0
  BY DEF Sound
<1>2. /\ s \in Runtimes /\ s.queue = <<>> /\ s.state = state
      /\ ~s.accepting /\ ~s.overflow
  BY <1>1 DEF Runtimes, Broken
<1>3. RecoveryRequired(s)
  BY <1>2 DEF RecoveryRequired
<1> QED
  BY <1>1, <1>2, <1>3, CoordinatorAssumption DEF Sound, Doomed, OnlyFailures

\* The owner takes the first input, and what is bad news stays bad news.
LEMMA OwnerFacts ==
    ASSUME Sound(rt), OwnerRuns
    PROVE  /\ Sound(rt') /\ rt'.state # "Stopped"
           /\ rt.queue # <<>> /\ ~RecoveryRequired(rt)
           /\ Doomed(rt) => Doomed(rt')
           /\ OnlyFailures(rt) => OnlyFailures(rt')
<1>1. /\ rt \in Runtimes /\ rt.queue \in Seq(Inputs)
      /\ Len(rt.queue) \in Nat /\ rt.overflow \in BOOLEAN
      /\ rt.state # "Stopped"
  BY DEF Sound, Runtimes, OwnerRuns
<1>2. rt.queue # <<>>
  <2>1. CASE rt.overflow
    <3>1. Len(rt.queue) = QueueCapacity /\ QueueCapacity # 0
      BY <2>1, CoordinatorAssumption DEF Sound
    <3> QED BY <3>1
  <2>2. CASE ~rt.overflow
    BY <2>2 DEF OwnerRuns
  <2> QED BY <2>1, <2>2
<1>3. ~RecoveryRequired(rt)
  BY <1>2 DEF Sound
<1>4. ASSUME NEW state \in {"Faulted", "NeedsResync"},
             NEW fault \in {"None", "Recoverable", "Terminal"},
             rt' = Broken(rt, state, fault)
      PROVE  /\ Sound(rt') /\ rt'.state # "Stopped" /\ Doomed(rt')
             /\ OnlyFailures(rt')
  BY <1>4, BrokenFacts
<1>5. CASE rt.overflow
  <2>1. rt' = Broken(rt, "Faulted", "Recoverable")
    BY <1>5 DEF OwnerRuns
  <2> QED BY <1>2, <1>3, <1>4, <2>1
<1>6. CASE ~rt.overflow
  <2> DEFINE rest == [rt EXCEPT !.queue = Tail(@),
                                !.barrier = IF @ = 0 THEN 0 ELSE @ - 1]
             based == [rest EXCEPT !.base = TRUE]
             kept == {rest, based, [based EXCEPT !.state = "Live"],
                      [rest EXCEPT !.buffered = TRUE]}
  <2>1. rt' \in Processed(rt)
    BY <1>6 DEF OwnerRuns
  <2>2. \/ \E state \in {"Faulted", "NeedsResync"},
              fault \in {"None", "Recoverable", "Terminal"} :
                rt' = Broken(rt, state, fault)
        \/ Head(rt.queue) # "Failure" /\ rt' \in kept
    BY Zenon, <2>1 DEF Processed
  <2>3. CASE Head(rt.queue) # "Failure" /\ rt' \in kept
    <3>1. /\ Tail(rt.queue) \in Seq(Inputs)
          /\ Len(Tail(rt.queue)) = Len(rt.queue) - 1
          /\ \A i \in 1..Len(Tail(rt.queue)) :
                Tail(rt.queue)[i] = rt.queue[i + 1]
          /\ Head(rt.queue) = rt.queue[1] /\ Len(rt.queue) >= 1
      BY <1>1, <1>2
    <3> DEFINE q == Tail(rt.queue)
               b == IF rt.barrier = 0 THEN 0 ELSE rt.barrier - 1
    <3>2. q \in Seq(Inputs) /\ b \in Nat
      BY <1>1, <3>1 DEF Runtimes
    <3>3. rest = [rt EXCEPT !.queue = q, !.barrier = b]
      OBVIOUS
    <3> HIDE DEF q, b, rest
    <3>4. rest \in Runtimes /\ rest.queue = q
          /\ rest.state = rt.state /\ rest.accepting = rt.accepting
          /\ ~rest.overflow
      BY <1>1, <1>6, <3>2, <3>3 DEF Runtimes
    <3>5. rest \in Runtimes /\ rest.queue = Tail(rt.queue)
          /\ rest.state = rt.state /\ rest.accepting = rt.accepting
          /\ ~rest.overflow
      BY <3>4 DEF q
    <3>6. /\ rt' \in Runtimes /\ rt'.queue = Tail(rt.queue)
          /\ rt'.state \in {rt.state, "Live"}
          /\ rt'.accepting = rt.accepting /\ ~rt'.overflow
      BY <2>3, <3>5 DEF Runtimes
    <3>7. ~RecoveryRequired(rt')
      BY <1>3, <3>6 DEF RecoveryRequired
    <3>8. Sound(rt')
      BY <1>1, <1>3, <1>6, <3>1, <3>6, <3>7, CoordinatorAssumption DEF Sound
    <3>9. Holds(rt, "Failure") => Holds(rt', "Failure")
      <4> SUFFICES ASSUME NEW i \in 1..Len(rt.queue), rt.queue[i] = "Failure"
                   PROVE  Holds(rt', "Failure")
        BY DEF Holds
      <4>1. i # 1
        BY <2>3, <3>1
      <4>2. i - 1 \in 1..Len(Tail(rt.queue)) /\ (i - 1) + 1 = i
        BY <1>1, <3>1, <4>1
      <4>3. Tail(rt.queue)[i - 1] = "Failure"
        BY <3>1, <4>2
      <4> QED BY <3>6, <4>2, <4>3 DEF Holds
    <3>10. ~OnlyFailures(rt)
      BY <1>1, <2>3, <3>1 DEF OnlyFailures
    <3> QED BY <1>1, <1>2, <1>3, <1>6, <3>6, <3>8, <3>9, <3>10 DEF Doomed
  <2> QED BY <1>2, <1>3, <1>4, <2>2, <2>3
<1> QED BY <1>5, <1>6

\* A wait for the owner, a reset and a stop leave sound runtimes.
LEMMA EditFacts ==
    ASSUME NEW r, Sound(r)
    PROVE  /\ Sound([r EXCEPT !.barrier = Len(r.queue)])
           /\ Doomed(r) <=> Doomed([r EXCEPT !.barrier = Len(r.queue)])
           /\ [r EXCEPT !.barrier = Len(r.queue)].state = r.state
           /\ Sound(FreshRuntime) /\ FreshRuntime.state # "Stopped"
           /\ OnlyFailures(FreshRuntime) /\ FreshRuntime.queue = <<>>
           /\ r.queue = <<>> =>
                Sound([r EXCEPT !.state = "Stopped", !.accepting = FALSE])
<1>1. /\ r \in Runtimes /\ Len(r.queue) \in Nat /\ <<>> \in Seq(Inputs)
      /\ Len(<<>>) = 0
  BY DEF Sound, Runtimes
<1>2. [r EXCEPT !.barrier = Len(r.queue)] \in Runtimes
  BY <1>1 DEF Runtimes
<1>3. /\ Sound([r EXCEPT !.barrier = Len(r.queue)])
      /\ Doomed(r) <=> Doomed([r EXCEPT !.barrier = Len(r.queue)])
      /\ [r EXCEPT !.barrier = Len(r.queue)].state = r.state
  BY <1>1, <1>2 DEF Sound, Doomed, Holds, RecoveryRequired, Runtimes
<1>4. /\ FreshRuntime \in Runtimes /\ FreshRuntime.state = "Buffering"
      /\ FreshRuntime.queue = <<>> /\ FreshRuntime.accepting
      /\ ~FreshRuntime.overflow
  BY <1>1 DEF FreshRuntime, Runtimes
<1>5. Sound(FreshRuntime) /\ OnlyFailures(FreshRuntime)
  BY <1>1, <1>4, CoordinatorAssumption DEF Sound, RecoveryRequired,
     OnlyFailures
<1>6. ASSUME r.queue = <<>>
      PROVE  Sound([r EXCEPT !.state = "Stopped", !.accepting = FALSE])
  <2> DEFINE s == [r EXCEPT !.state = "Stopped", !.accepting = FALSE]
  <2>1. /\ s \in Runtimes /\ s.queue = <<>> /\ s.state = "Stopped"
        /\ s.overflow = r.overflow
    BY <1>1, <1>6 DEF Runtimes
  <2>2. ~r.overflow
    BY <1>1, <1>6, CoordinatorAssumption DEF Sound
  <2> HIDE DEF s
  <2>3. Sound(s)
    BY <1>1, <2>1, <2>2, CoordinatorAssumption DEF Sound, RecoveryRequired
  <2> QED BY <2>3 DEF s
<1> QED BY <1>3, <1>4, <1>5, <1>6

\* Whoever touches the runtime: its owner, the network thread, the driver, the
\* coordinator as it waits or resets, and stop().  The coordinator never needs
\* to reflect an error itself.
LEMMA RuntimeMoves ==
    ASSUME IInv, [Next]_vars
    PROVE  \/ UNCHANGED rt
           \/ OwnerRuns
           \/ Network /\ \E input \in Inputs :
                    /\ rt' = Submitted(rt, input)
                    /\ net = "failing" => input = "Failure"
           \/ DriverSubmits
           \/ AwaitsLive /\ rt' = [rt EXCEPT !.barrier = Len(rt.queue)]
           \/ /\ ResetsForRotation \/ ResetsForRecovery
              /\ pc' = "top" /\ rt' = FreshRuntime
           \/ StopsRuntime
<1>1. CASE Opening \/ Quieting \/ Closing
  BY Zenon, <1>1 DEF Opening, Start, BeginsGeneration, CreatesAttempt,
     ChecksShutdown, StartsAttempt, AttemptStarted, OpensGeneration, Quieting,
     StopsAttempt, JoinsAttempt, LooksAtGate, QuiescesGate, ReleasesAttempt,
     Closing, ClosesGlobally, ClosesForGood, CatchesException,
     EndsAfterException
<1>2. CASE Watching
  BY Zenon, <1>2 DEF Watching, AwaitsLive, QualifiesRuntime,
     InspectsTransport, MarksLive, LeavesLive
<1>3. CASE Cutting
  <2>1. CASE ReflectsError
    <3>1. ~(tr.error # "None" /\ seen)
      BY Zenon, <2>1 DEF ReflectsError, IInv, CutOK
    <3> QED BY Zenon, <2>1, <3>1 DEF ReflectsError
  <2> QED
    BY Zenon, <1>3, <2>1 DEF Cutting, Cuts, Decides, GivesUp, CommitsRotation
<1>4. CASE Renewing
  BY Zenon, <1>4 DEF Renewing, ResetsForRotation, CommitsBackoff, BacksOff,
     CommitsRecovery, ResetsForRecovery
<1>5. CASE Network
  <2> USE DEF Inputs
  <2>1. CASE NetReceivesDepth
    BY Zenon, <1>5, <2>1 DEF NetReceivesDepth
  <2>2. CASE NetReceivesSnapshot
    BY Zenon, <1>5, <2>2 DEF NetReceivesSnapshot
  <2>3. CASE NetReportsFailure
    BY Zenon, <1>5, <2>3 DEF NetReportsFailure
  <2> QED
    BY Zenon, <1>5, <2>1, <2>2, <2>3 DEF Network, NetConnects, NetFails,
       NetMarksFetched, NetShutsDown
<1>6. CASE Stopping
  BY Zenon, <1>6 DEF Stopping, ShutsPublication, RequestsStop, TakesAttempt,
     StopsTaken, JoinsTaken, JoinsCoordinator
<1>7. CASE Driving
  BY Zenon, <1>7 DEF Driving, DriverChecks
<1>8. CASE UNCHANGED vars
  BY <1>8 DEF vars
<1> QED
  BY StepKinds, <1>1, <1>2, <1>3, <1>4, <1>5, <1>6, <1>7, <1>8

\* Where the coordinator's steps lead behind the cut, who sets terminal, and
\* what never goes back.
LEMMA CutPaths ==
    ASSUME IInv, [Next]_vars
    PROVE  /\ pc' \in {"reflect", "decide", "plannedCommit", "plannedReset"} =>
                \/ Cuts
                \/ /\ pc \in {"reflect", "decide", "plannedCommit", "plannedReset"}
                   /\ seen' = seen
           /\ pc' \in {"plannedCommit", "plannedReset"} =>
                pc \in {"plannedCommit", "plannedReset"} \/ seen
           /\ pc' \in {"backoffCommit", "backoff", "recovering", "reset"} =>
                \/ pc \in {"backoffCommit", "backoff", "recovering", "reset"}
                \/ Decides /\ Recoverable
           /\ pc' \in Between => pc \in Between \/ rt' = FreshRuntime
           /\ terminal' \in {"ResetFailed", "ReflectFailed"} =>
                \/ terminal' = terminal
                \/ pc = "plannedReset" /\ ~Healthy(rt)
                \/ pc = "reset" /\ ~RecoveryRequired(rt)
           /\ driver = "submitted" => driver' = "submitted"
           /\ stopper = "stopped" => stopper' = "stopped"
           /\ pc = "done" => pc' = "done"
<1> USE DEF IInv, Types, ControlOK, Quiescing, Between, coVars, obsVars,
   sourceVars, stopVars
<1>1. CASE Opening
  BY <1>1 DEF Opening, Start, BeginsGeneration, CreatesAttempt,
     ChecksShutdown, StartsAttempt, AttemptStarted, OpensGeneration, Quiesces
<1>2. CASE Watching
  BY <1>2 DEF Watching, AwaitsLive, QualifiesRuntime, InspectsTransport,
     MarksLive, LeavesLive, Quiesces
<1>3. CASE Quieting
  BY <1>3 DEF Quieting, StopsAttempt, JoinsAttempt, LooksAtGate, QuiescesGate,
     ReleasesAttempt
<1>4. CASE Closing
  BY <1>4 DEF Closing, ClosesGlobally, ClosesForGood, CatchesException,
     EndsAfterException, SetTerminal
<1>5. CASE Renewing
  BY <1>5 DEF Renewing, ResetsForRotation, CommitsBackoff, BacksOff,
     CommitsRecovery, ResetsForRecovery, SetTerminal
<1>6. CASE Stopping
  BY <1>6 DEF Stopping, ShutsPublication, RequestsStop, TakesAttempt,
     StopsTaken, JoinsTaken, JoinsCoordinator, StopsRuntime, stopUnchanged
<1>7. CASE Driving
  BY <1>7 DEF Driving, DriverChecks, DriverSubmits
<1>8. CASE Cutting
  <2>1. CASE ReflectsError
    <3>1. ~(tr.error # "None" /\ seen)
      BY Zenon, <2>1 DEF ReflectsError, CutOK
    <3> QED BY <2>1, <3>1 DEF ReflectsError
  <2>2. CASE Decides
    BY <2>2 DEF Decides, is_clean_planned_cut
  <2>3. CASE Cuts \/ GivesUp \/ CommitsRotation
    BY <2>3 DEF Cuts, GivesUp, CommitsRotation, SetTerminal
  <2> QED BY <1>8, <2>1, <2>2, <2>3 DEF Cutting
<1>9. CASE Network
  BY <1>9, NetworkShape DEF netUnchanged
<1>10. CASE OwnerRuns \/ UNCHANGED vars
  BY <1>10 DEF OwnerRuns, vars
<1> QED BY StepKinds, <1>1, <1>2, <1>3, <1>4, <1>5, <1>6, <1>7, <1>8, <1>9,
   <1>10

\* A transport error is the network thread's, and stays with its attempt.
LEMMA ErrorPaths ==
    ASSUME ~Overlap, IInv, [Next]_vars
    PROVE  /\ tr'.error # tr.error => CreatesAttempt \/ Network
           /\ tr'.error # "None" /\ net' = "dead"
                    /\ pc' \notin {"top", "create", "done"} =>
                \/ tr.error # "None" /\ net = "dead" /\ pc \notin {"top", "create"}
                \/ NetReportsFailure
<1> USE DEF IInv, Types, ControlOK, ThreadOK, Transports
<1>1. CASE Opening
  BY <1>1 DEF Opening, Start, BeginsGeneration, CreatesAttempt,
     ChecksShutdown, StartsAttempt, AttemptStarted, OpensGeneration, Quiesces,
     TransportStarts
<1>2. CASE Watching
  BY <1>2 DEF Watching, AwaitsLive, QualifiesRuntime, InspectsTransport,
     MarksLive, LeavesLive, Quiesces
<1>3. CASE Quieting
  BY <1>3 DEF Quieting, StopsAttempt, JoinsAttempt, LooksAtGate, QuiescesGate,
     ReleasesAttempt, StopRequested, Quiescing
<1>4. CASE Closing
  BY <1>4 DEF Closing, ClosesGlobally, ClosesForGood, CatchesException,
     EndsAfterException
<1>5. CASE Cutting
  BY <1>5 DEF Cutting, Cuts, ReflectsError, Decides, GivesUp, CommitsRotation
<1>6. CASE Renewing
  BY <1>6 DEF Renewing, ResetsForRotation, CommitsBackoff, BacksOff,
     CommitsRecovery, ResetsForRecovery
<1>7. CASE Stopping
  BY <1>7 DEF Stopping, ShutsPublication, RequestsStop, TakesAttempt,
     StopsTaken, JoinsTaken, JoinsCoordinator, StopsRuntime, stopUnchanged,
     StopRequested
<1>8. CASE Driving
  BY <1>8 DEF Driving, DriverChecks, DriverSubmits
<1>9. CASE Network
  <2>1. CASE NetReceivesDepth \/ NetReceivesSnapshot
    BY <2>1, <1>9, ReceiveShape DEF Fails
  <2> QED
    BY <1>9, <2>1 DEF Network, NetConnects, NetFails, Fails, NetMarksFetched,
       NetShutsDown, netUnchanged
<1>10. CASE OwnerRuns \/ UNCHANGED vars
  BY <1>10 DEF OwnerRuns, vars
<1> QED BY StepKinds, <1>1, <1>2, <1>3, <1>4, <1>5, <1>6, <1>7, <1>8, <1>9,
   <1>10

\* The runtime stays sound, is stopped last, and hears of every error.
LEMMA RuntimeStep ==
    ASSUME ~Overlap, IInv, [Next]_vars PROVE RuntimeOK'
<1>1. Sound(rt) /\ Types /\ ThreadOK /\ AttemptOK /\ StopOK /\ ControlOK
  BY DEF IInv, RuntimeOK, Types
<1>2. RuntimeOK
  BY DEF IInv
<1>3. Sound(rt') /\ (Doomed(rt) => Doomed(rt') \/ pc' \in {"top", "done"})
  <2>1. CASE \E input \in Inputs : rt' = Submitted(rt, input)
    BY <1>1, <2>1, SubmitFacts
  <2>2. CASE OwnerRuns
    BY <1>1, <2>2, OwnerFacts
  <2>3. CASE DriverSubmits
    BY <1>1, <2>1, <2>3 DEF DriverSubmits, Inputs
  <2>4. CASE StopsRuntime
    BY <1>1, <2>4, EditFacts DEF StopsRuntime, StopOK
  <2>5. CASE UNCHANGED rt
    BY <1>1, <2>5
  <2>6. CASE rt' = [rt EXCEPT !.barrier = Len(rt.queue)]
    BY <1>1, <2>6, EditFacts
  <2>7. CASE pc' = "top" /\ rt' = FreshRuntime
    BY <1>1, <2>7, EditFacts
  <2> QED
    BY Zenon, RuntimeMoves, <2>1, <2>2, <2>3, <2>4, <2>5, <2>6, <2>7
<1>4. rt'.state = "Stopped" => stopper' = "stopped"
  <2>1. CASE \/ \E input \in Inputs : rt' = Submitted(rt, input)
             \/ UNCHANGED rt \/ rt' = [rt EXCEPT !.barrier = Len(rt.queue)]
    <3>1. rt'.state = rt.state
      BY <1>1, <2>1, SubmitFacts, EditFacts
    <3>2. stopper = "stopped" => stopper' = "stopped"
      BY CutPaths
    <3> QED BY <1>2, <3>1, <3>2 DEF RuntimeOK
  <2>2. CASE OwnerRuns
    BY <1>1, <2>2, OwnerFacts
  <2>3. CASE DriverSubmits
    BY <2>1, <2>3 DEF DriverSubmits, Inputs
  <2>4. CASE StopsRuntime
    BY <2>4 DEF StopsRuntime
  <2>5. CASE rt' = FreshRuntime
    BY <1>1, <2>5, EditFacts
  <2> QED BY Zenon, RuntimeMoves, <2>1, <2>2, <2>3, <2>4, <2>5
<1>5. ASSUME tr'.error # "None", net' = "dead",
             pc' \notin {"top", "create", "done"}
      PROVE  Doomed(rt')
  <2>1. CASE tr.error # "None" /\ net = "dead" /\ pc \notin {"top", "create"}
    <3>1. pc # "done"
      BY <1>5, CutPaths
    <3> QED BY <1>2, <1>3, <1>5, <2>1, <3>1 DEF RuntimeOK
  <2>2. CASE NetReportsFailure
    <3>1. rt.state # "Stopped"
      BY <1>1, <1>2, <2>2 DEF NetReportsFailure, StopOK, ThreadOK, RuntimeOK
    <3> QED BY <1>1, <2>2, <3>1, SubmitFacts DEF NetReportsFailure, Inputs
  <2> QED BY <1>5, <2>1, <2>2, ErrorPaths
<1> QED BY <1>3, <1>4, <1>5 DEF RuntimeOK

\* Behind the join only the owner, the driver and the reset touch the runtime.
LEMMA QuietRuntime ==
    ASSUME IInv, [Next]_vars, pc \notin Attempting \cup Leaving
    PROVE  UNCHANGED rt \/ OwnerRuns \/ DriverSubmits \/ pc' = "top"
<1>1. tr \in Transports /\ net \in {"none", "dead"}
  BY DEF IInv, Types, AttemptOK, ThreadOK
<1>2. ~Network
  BY <1>1, NetworkShape
<1>3. ~AwaitsLive /\ ~StopsRuntime
  BY DEF AwaitsLive, StopsRuntime, IInv, StopOK, Attempting, Leaving
<1> QED BY Zenon, <1>2, <1>3, RuntimeMoves

\* A runtime that is to be reset stays so until its owner resets it.
LEMMA FaultStays ==
    ASSUME IInv, [Next]_vars, pc \notin Attempting \cup Leaving,
           RecoveryRequired(rt), pc' # "top"
    PROVE  rt' = rt
<1>1. Sound(rt)
  BY DEF IInv, RuntimeOK
<1>2. ~OwnerRuns
  BY <1>1, OwnerFacts
<1>3. DriverSubmits => rt' = rt
  BY <1>1, SubmitFacts DEF DriverSubmits, Inputs
<1> QED BY <1>2, <1>3, QuietRuntime

\* What the cut has seen stays true, and so every reset succeeds.
LEMMA CutStep ==
    ASSUME ~Overlap, IInv, [Next]_vars PROVE CutOK'
<1>1. Sound(rt) /\ CutOK /\ Types /\ ThreadOK /\ AttemptOK /\ RuntimeOK
  BY DEF IInv, RuntimeOK
<1>2. rt.queue = <<>> => ~OwnerRuns
  BY <1>1, OwnerFacts
<1>3. driver' # "submitted" => driver # "submitted" /\ ~DriverSubmits
  BY CutPaths DEF DriverSubmits
<1>4. ASSUME pc' \in {"reflect", "decide", "plannedCommit", "plannedReset"},
             seen'
      PROVE  /\ tr'.error = "None"
             /\ driver' # "submitted" => Healthy(rt') /\ rt'.queue = <<>>
  <2>1. CASE Cuts
    <3>1. /\ rt.queue = <<>> /\ Healthy(rt) /\ pc = "cut"
          /\ UNCHANGED <<rt, tr, driver>>
      BY Zenon, <1>4, <2>1 DEF Cuts, stopVars
    <3>2. tr.stopped /\ tr.error \in Errors
      BY <1>1, <3>1 DEF AttemptOK, Attempting, Leaving, Types, Transports
    <3>3. ~RecoveryRequired(rt) /\ ~rt.overflow /\ ~Holds(rt, "Failure")
      BY <1>1, <3>1, CoordinatorAssumption DEF Sound, Healthy,
         RecoveryRequired, Holds
    <3>4. tr.error = "None"
      BY <1>1, <3>1, <3>2, <3>3 DEF ThreadOK, RuntimeOK, Doomed
    <3> QED BY <3>1, <3>4
  <2>2. CASE /\ pc \in {"reflect", "decide", "plannedCommit", "plannedReset"}
             /\ seen' = seen
    <3>1. pc \notin Attempting \cup Leaving /\ pc # "create" /\ pc' # "top"
      BY <1>4, <2>2 DEF Attempting, Leaving
    <3>2. /\ tr.error = "None"
          /\ driver # "submitted" => Healthy(rt) /\ rt.queue = <<>>
      BY <1>1, <1>4, <2>2 DEF CutOK
    <3>3. tr'.error = tr.error
      <4>1. ~Network
        BY <1>1, <3>1, NetworkShape DEF AttemptOK, ThreadOK, Types
      <4> QED BY <3>1, <4>1, ErrorPaths DEF CreatesAttempt
    <3>4. driver' # "submitted" => rt' = rt
      BY <1>2, <1>3, <3>1, <3>2, QuietRuntime
    <3> QED BY <1>3, <3>2, <3>3, <3>4
  <2> QED BY <1>4, <2>1, <2>2, CutPaths
<1>5. ASSUME pc' \in {"plannedCommit", "plannedReset"}
      PROVE  seen'
  <2>1. seen
    BY <1>1, <1>5, CutPaths DEF CutOK
  <2>2. ~Cuts
    BY <1>5 DEF Cuts
  <2> QED BY <1>5, <2>1, <2>2, CutPaths
<1>6. ASSUME pc' \in {"backoffCommit", "backoff", "recovering", "reset"}
      PROVE  RecoveryRequired(rt')
  <2>1. CASE pc \in {"backoffCommit", "backoff", "recovering", "reset"}
    <3>1. RecoveryRequired(rt) /\ pc \notin Attempting \cup Leaving
      BY <1>1, <2>1 DEF CutOK, Attempting, Leaving
    <3> QED BY <1>6, <3>1, FaultStays
  <2>2. CASE Decides /\ Recoverable
    <3>1. pc = "decide" /\ rt.queue = <<>> /\ rt' = rt
      BY Zenon, <2>2 DEF Decides
    <3>2. ~rt.overflow /\ ~Holds(rt, "Failure")
      BY <1>1, <3>1, CoordinatorAssumption DEF Sound, Holds
    <3>3. CASE tr.error # "None"
      <4>1. net = "dead"
        BY <1>1, <3>1, <3>3 DEF AttemptOK, ThreadOK, Attempting, Leaving
      <4> QED BY <1>1, <3>1, <3>2, <3>3, <4>1 DEF RuntimeOK, Doomed
    <3>4. CASE tr.error = "None"
      BY <2>2, <3>1, <3>4 DEF Recoverable
    <3> QED BY <3>3, <3>4
  <2> QED BY <1>6, <2>1, <2>2, CutPaths
<1>7. ASSUME pc' \in Between
      PROVE  /\ OnlyFailures(rt')
             /\ driver' # "submitted" => rt'.queue = <<>>
  <2>1. CASE rt' = FreshRuntime
    BY <1>1, <2>1, EditFacts
  <2>2. CASE pc \in Between
    <3>1. pc \notin Attempting \cup Leaving
      BY <2>2 DEF Between, Attempting, Leaving
    <3>2. OnlyFailures(rt) /\ (driver # "submitted" => rt.queue = <<>>)
      BY <1>1, <2>2 DEF CutOK
    <3>3. CASE UNCHANGED rt
      BY <1>3, <3>2, <3>3
    <3>4. CASE OwnerRuns
      <4>1. driver = "submitted" /\ OnlyFailures(rt')
        BY <1>1, <1>2, <3>2, <3>4, OwnerFacts
      <4> QED BY <4>1, CutPaths
    <3>5. CASE DriverSubmits
      BY <1>1, <1>3, <3>2, <3>5, SubmitFacts DEF DriverSubmits, Inputs
    <3>6. ~Network /\ ~AwaitsLive /\ ~StopsRuntime
          /\ ~ResetsForRotation /\ ~ResetsForRecovery
      <4>1. ~Network
        BY <1>1, <3>1, NetworkShape DEF AttemptOK, ThreadOK, Types
      <4> QED
        BY <2>2, <4>1 DEF AwaitsLive, StopsRuntime, ResetsForRotation,
           ResetsForRecovery, Between, IInv, StopOK
    <3> QED BY Zenon, <3>3, <3>4, <3>5, <3>6, RuntimeMoves
  <2> QED BY <1>7, <2>1, <2>2, CutPaths
<1>8. ResetsSucceed'
  <2> SUFFICES ASSUME driver' # "submitted",
                      terminal' \in {"ResetFailed", "ReflectFailed"}
               PROVE  FALSE
    BY DEF ResetsSucceed
  <2>1. terminal' # terminal
    BY <1>1, <1>3 DEF CutOK, ResetsSucceed
  <2>2. ~(pc = "plannedReset" /\ ~Healthy(rt))
    BY <1>1, <1>3 DEF CutOK
  <2>3. ~(pc = "reset" /\ ~RecoveryRequired(rt))
    BY <1>1 DEF CutOK
  <2> QED BY <2>1, <2>2, <2>3, CutPaths
<1> QED BY <1>4, <1>5, <1>6, <1>7, <1>8 DEF CutOK

\* Generations are numbered by CreatesAttempt and the two resets.
LEMMA NewGeneration ==
    ASSUME IInv, [Next]_vars, tr'.gen # tr.gen \/ generation' # generation
    PROVE  \/ pc = "create"
           \/ pc \in {"plannedReset", "reset"} /\ rt.queue = <<>>
<1> USE DEF IInv, Types, Transports, coVars
<1>1. CASE Opening
  BY <1>1 DEF Opening, Start, BeginsGeneration, CreatesAttempt,
     ChecksShutdown, StartsAttempt, AttemptStarted, OpensGeneration,
     TransportStarts
<1>2. CASE Watching
  BY <1>2 DEF Watching, AwaitsLive, QualifiesRuntime, InspectsTransport,
     MarksLive, LeavesLive
<1>3. CASE Quieting
  BY <1>3 DEF Quieting, StopsAttempt, JoinsAttempt, LooksAtGate, QuiescesGate,
     ReleasesAttempt, StopRequested
<1>4. CASE Closing
  BY <1>4 DEF Closing, ClosesGlobally, ClosesForGood, CatchesException,
     EndsAfterException
<1>5. CASE Cutting
  BY <1>5 DEF Cutting, Cuts, ReflectsError, Decides, GivesUp, CommitsRotation
<1>6. CASE Renewing
  BY <1>6 DEF Renewing, ResetsForRotation, CommitsBackoff, BacksOff,
     CommitsRecovery, ResetsForRecovery, RuntimeOK, Sound
<1>7. CASE Stopping
  BY <1>7 DEF Stopping, ShutsPublication, RequestsStop, TakesAttempt,
     StopsTaken, JoinsTaken, JoinsCoordinator, StopsRuntime, stopUnchanged,
     StopRequested
<1>8. CASE Driving
  BY <1>8 DEF Driving, DriverChecks, DriverSubmits
<1>9. CASE Network
  BY <1>9, NetworkShape DEF netUnchanged
<1>10. CASE OwnerRuns \/ UNCHANGED vars
  BY <1>10 DEF OwnerRuns, vars
<1> QED BY StepKinds, <1>1, <1>2, <1>3, <1>4, <1>5, <1>6, <1>7, <1>8, <1>9,
   <1>10

-----------------------------------------------------------------------------
(* The invariant and the theorems.                                           *)

\* The coordinator starts inside the invariant.
LEMMA InvInit == Init => IInv
<1> SUFFICES ASSUME Init PROVE IInv
  OBVIOUS
<1> USE DEF Init
<1>1. /\ tr \in Transports /\ tr.gen = 0 /\ ~tr.started /\ tr.stopped
      /\ ~tr.stopReq /\ tr.error = "None"
  BY DEF NoTransport, Transports, Errors
<1>2. gate \in Gates /\ gate.state = "Closed" /\ gate.gen = 0
  BY DEF InitialGate, Gates, EventSourceStates
<1>3. Types
  <2>1. ControlOK
    BY DEF ControlOK, CoordinatorSteps, StopperSteps, Quiescing
  <2>2. seen \in BOOLEAN /\ quiesced \in BOOLEAN
    OBVIOUS
  <2> QED BY <1>1, <1>2, <2>1, <2>2 DEF Types
<1>4. ThreadOK /\ AttemptOK /\ StopOK /\ GateOK
  BY <1>1, <1>2 DEF ThreadOK, AttemptOK, StopOK, GateOK, Attempting, Leaving,
     Between
<1>5. <<>> \in Seq(Inputs) /\ Len(<<>>) = 0
  OBVIOUS
<1>6. /\ rt \in Runtimes /\ rt.state = "Buffering" /\ rt.queue = <<>>
      /\ rt.accepting /\ ~rt.overflow
  BY <1>5 DEF FreshRuntime, Runtimes
<1>7. RuntimeOK
  BY <1>1, <1>5, <1>6, CoordinatorAssumption DEF RuntimeOK, Sound,
     RecoveryRequired
<1>8. CutOK
  BY <1>5, <1>6 DEF CutOK, OnlyFailures, ResetsSucceed
<1> QED BY <1>3, <1>4, <1>7, <1>8 DEF IInv

\* Every step keeps the invariant.
LEMMA InvStep ==
    ASSUME ~Overlap, IInv, [Next]_vars PROVE IInv'
<1>1. Types'
  BY ControlStep, TransportTypes, GateTypes, FlagTypes DEF Types
<1> QED
  BY <1>1, ThreadStep, AttemptStep, StopStep, GateStep, RuntimeStep, CutStep
     DEF IInv

\* The invariant holds in every reachable state.
THEOREM CoordinatorInvariant ==
    ASSUME ~Overlap PROVE Spec => []IInv
BY InvInit, InvStep, PTL DEF Spec

\* When stop() has returned, whatever the coordinator, the network and the driver
\* were doing when it was called, no network thread is left, the coordinator
\* thread has ended, no attempt is reachable and the publication is shut down.
THEOREM QuietTheorem ==
    ASSUME ~Overlap PROVE Spec => []StoppedIsQuiet
<1>1. IInv => StoppedIsQuiet
  BY DEF IInv, StoppedIsQuiet, StopOK, GateOK, ThreadOK
<1> QED BY <1>1, CoordinatorInvariant, PTL

\* A network thread that may still publish never finds the gate on another
\* generation, closed for good or quiesced.
THEOREM GateTheorem ==
    ASSUME ~Overlap PROVE Spec => []GateFollowsTransport
<1>1. IInv => GateFollowsTransport
  <2> SUFFICES ASSUME IInv, net \in {"active", "fetched"}
               PROVE  PublishVerdict(gate, tr.gen) # "InvariantFailure"
    BY DEF GateFollowsTransport
  <2>1. ~tr.stopped
    BY DEF IInv, ThreadOK
  <2>2. CASE gate.state = "Shutdown"
    BY <2>2 DEF PublishVerdict
  <2>3. CASE gate.state # "Shutdown" /\ opened = 0
    <3>1. gate.state = "Closed" /\ tr.gen > gate.gen
      BY <2>1, <2>3 DEF IInv, GateOK, Types, Gates, Transports
    <3> QED BY <3>1 DEF PublishVerdict
  <2>4. CASE gate.state # "Shutdown" /\ opened # 0
    <3>1. gate.state = "Open" /\ gate.gen = tr.gen
      BY <2>1, <2>4 DEF IInv, GateOK
    <3> QED BY <3>1 DEF PublishVerdict
  <2> QED BY <2>2, <2>3, <2>4
<1> QED BY <1>1, CoordinatorInvariant, PTL

\* Without a driver that submits a failure of its own, a reset never fails: the
\* cut a rotation or a recovery is committed on stays valid up to the reset.
THEOREM ResetTheorem ==
    ASSUME ~Overlap PROVE Spec => []ResetsSucceed
<1>1. IInv => ResetsSucceed
  BY DEF IInv, CutOK
<1> QED BY <1>1, CoordinatorInvariant, PTL

\* An attempt is created, and a runtime reset for a new generation, only when
\* the network thread of the attempt before is gone and the runtime has
\* processed all it had submitted.
THEOREM ProducerTheorem ==
    ASSUME ~Overlap PROVE Spec => OneProducer
<1> DEFINE Quiet ==
        /\ tr.stopped /\ net \in {"none", "dead"}
        /\ driver # "submitted" => rt.queue = <<>>
        /\ \A i \in DOMAIN rt.queue : rt.queue[i] = "Failure"
<1>1. ASSUME IInv, [Next]_vars, tr'.gen # tr.gen \/ generation' # generation
      PROVE  Quiet
  <2>1. \/ pc = "create"
        \/ pc \in {"plannedReset", "reset"} /\ rt.queue = <<>>
    BY <1>1, NewGeneration
  <2>2. tr.stopped /\ net \in {"none", "dead"}
    BY <1>1, <2>1 DEF IInv, AttemptOK, ThreadOK, Attempting, Leaving
  <2>3. rt.queue \in Seq(Inputs)
    BY <1>1 DEF IInv, RuntimeOK, Sound, Runtimes
  <2>4. CASE pc = "create"
    BY <1>1, <2>2, <2>3, <2>4 DEF IInv, CutOK, OnlyFailures, Between
  <2>5. CASE rt.queue = <<>>
    BY <2>2, <2>5
  <2> QED BY <2>1, <2>4, <2>5
<1>2. IInv /\ [Next]_vars =>
        [tr'.gen # tr.gen \/ generation' # generation => Quiet]_vars
  BY <1>1
<1> HIDE DEF Quiet
<1>3. Spec => [][tr'.gen # tr.gen \/ generation' # generation => Quiet]_vars
  BY <1>2, CoordinatorInvariant, PTL DEF Spec
<1> QED BY <1>3 DEF OneProducer, Quiet

=============================================================================
