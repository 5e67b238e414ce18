-------------------------- MODULE GrpcServiceProofs --------------------------
(***************************************************************************)
(* OrderBookGrpcService, for any number of calls, products and tracked     *)
(* contexts: begin_shutdown() never cancels through a dangling pointer, no *)
(* handler is tracked behind its snapshot, no session outlives the source  *)
(* it reads from, and a server that is down has no handler left.           *)
(***************************************************************************)
EXTENDS GrpcService, TLAPS

\* Where a handler may be while its context is in contexts_.
TrackedSteps ==
    {"validating", "admitting", "streaming", "writing", "writing_notice",
     "finalizing", "unwinding", "untracking"}

BeforeSnapshot ==
    {"new", "prepared", "serving", "failed", "begun", "closing_admission",
     "ending_books", "ending_events", "snapshot"}

\* The part of the type invariant the argument rests on.
ContextsOK ==
    /\ contexts \in [Calls -> {"absent", "tracked", "selected"}]
    /\ cancelled \in [Calls \cup StatusCalls -> BOOLEAN]
    /\ rpc \in [Calls -> HandlerSteps]
    /\ victims \in SUBSET Calls
    /\ host \in HostSteps

\* A tracked context belongs to a handler that has not returned.
TrackedIsRunning == \A c \in Calls : Tracked(c) => rpc[c] \in TrackedSteps

\* While pointers are outstanding the handlers are held back, and the contexts
\* they point to are still tracked.
VictimsAreHeld ==
    /\ victims # {} => snapshot_active
    /\ \A c \in victims : contexts[c] = "selected"

\* Admission is closed from the start of the shutdown on.
AdmissionCut == host \notin {"new", "prepared", "serving", "failed"} => ~admission_open

\* Past the snapshot each tracked context is cancelled or about to be.
AllCaught ==
    host \notin BeforeSnapshot =>
        \A c \in Calls : Tracked(c) => c \in victims \/ cancelled[c]

NoVictimsOutsideLoop == host # "cancelling" => victims = {}

IInv ==
    /\ ContextsOK /\ TrackedIsRunning /\ VictimsAreHeld /\ AdmissionCut
    /\ AllCaught /\ NoVictimsOutsideLoop

\* What the tracker's argument depends on, beside where the handlers are.
trackerVars ==
    <<host, admission_open, snapshot_active, victims, contexts, cancelled>>

\* A move of one handler that neither enters nor leaves the tracked steps.
HandlerMoves ==
    \E c \in Calls, step \in HandlerSteps :
        /\ rpc' = [rpc EXCEPT ![c] = step]
        /\ rpc[c] \in TrackedSteps => step \in TrackedSteps


-----------------------------------------------------------------------------
\* A step that leaves the tracker alone and moves at most one handler, not out
\* of the tracked steps, keeps the invariant.
LEMMA QuietStep ==
    ASSUME IInv, UNCHANGED trackerVars, HandlerMoves \/ rpc' = rpc
    PROVE  IInv'
<1>1. CASE rpc' = rpc
  BY <1>1 DEF IInv, trackerVars, ContextsOK, TrackedIsRunning, Tracked,
     VictimsAreHeld, AdmissionCut, AllCaught, NoVictimsOutsideLoop
<1>2. CASE HandlerMoves
  <2>1. PICK c \in Calls, step \in HandlerSteps :
            /\ rpc' = [rpc EXCEPT ![c] = step]
            /\ rpc[c] \in TrackedSteps => step \in TrackedSteps
    BY <1>2 DEF HandlerMoves
  <2>2. ContextsOK'
    BY <2>1 DEF IInv, trackerVars, ContextsOK
  <2>3. TrackedIsRunning'
    BY <2>1 DEF IInv, trackerVars, ContextsOK, TrackedIsRunning, Tracked
  <2>4. VictimsAreHeld' /\ AdmissionCut' /\ AllCaught' /\ NoVictimsOutsideLoop'
    BY DEF IInv, trackerVars, VictimsAreHeld, AdmissionCut, AllCaught, Tracked,
       NoVictimsOutsideLoop
  <2> QED BY <2>2, <2>3, <2>4 DEF IInv
<1> QED BY <1>1, <1>2

\* The host thread outside the cancelling loop: it only moves on, and may close
\* admission on its way.
LEMMA HostStep ==
    ASSUME IInv,
           \/ StartPrepares \/ StartBuilds \/ ShutdownBegins \/ StopsStatus
           \/ ClosesAdmission \/ EndsBooks \/ EndsEvents \/ ServerStops
           \/ WaitReturns
    PROVE  IInv'
<1>1. UNCHANGED <<snapshot_active, victims, contexts, cancelled, rpc>>
  BY DEF StartPrepares, StartBuilds, ShutdownBegins, StopsStatus,
     ClosesAdmission, EndsBooks, EndsEvents, ServerStops, WaitReturns,
     flagVars, handlerVars
<1>2. /\ host' \in HostSteps
      /\ host' # "cancelling" /\ host # "cancelling"
      /\ host' \notin BeforeSnapshot => host \notin BeforeSnapshot
  BY DEF StartPrepares, StartBuilds, ShutdownBegins, StopsStatus,
     ClosesAdmission, EndsBooks, EndsEvents, ServerStops, WaitReturns,
     NextEntry, HostSteps, BeforeSnapshot
<1>3. AdmissionCut'
  BY DEF StartPrepares, StartBuilds, ShutdownBegins, StopsStatus,
     ClosesAdmission, EndsBooks, EndsEvents, ServerStops, WaitReturns,
     NextEntry, flagVars, AdmissionCut, IInv
<1> QED
  BY <1>1, <1>2, <1>3 DEF IInv, ContextsOK, TrackedIsRunning, Tracked,
     VictimsAreHeld, AllCaught, NoVictimsOutsideLoop

\* The snapshot catches every tracked context.
LEMMA SnapshotStep == ASSUME IInv, TakesSnapshot PROVE IInv'
<1>1. /\ host = "snapshot" /\ host' = "cancelling"
      /\ snapshot_active' = TRUE
      /\ victims' = {c \in Calls : Tracked(c)}
      /\ contexts' = [c \in Calls |-> IF Tracked(c) THEN "selected" ELSE "absent"]
      /\ UNCHANGED <<admission_open, cancelled, rpc>>
  BY DEF TakesSnapshot, handlerVars
<1>2. ContextsOK'
  BY <1>1 DEF IInv, ContextsOK, HostSteps
<1>3. TrackedIsRunning'
  BY <1>1 DEF IInv, TrackedIsRunning, Tracked
<1>4. VictimsAreHeld' /\ AllCaught' /\ NoVictimsOutsideLoop'
  BY <1>1 DEF VictimsAreHeld, AllCaught, NoVictimsOutsideLoop, Tracked
<1>5. AdmissionCut'
  BY <1>1 DEF IInv, AdmissionCut
<1> QED BY <1>2, <1>3, <1>4, <1>5 DEF IInv

\* A victim that is cancelled stays caught.
LEMMA CancelStep == ASSUME IInv, NEW c \in Calls, TryCancels(c) PROVE IInv'
<1>1. /\ victims' = victims \ {c}
      /\ cancelled' = [cancelled EXCEPT ![c] = TRUE]
      /\ UNCHANGED <<host, admission_open, snapshot_active, contexts, rpc>>
      /\ host = "cancelling"
  BY DEF TryCancels, hostVars, handlerVars
<1>2. ContextsOK'
  BY <1>1 DEF IInv, ContextsOK
<1>3. AllCaught'
  BY <1>1 DEF IInv, ContextsOK, AllCaught, Tracked, BeforeSnapshot
<1>4. TrackedIsRunning' /\ VictimsAreHeld' /\ AdmissionCut' /\ NoVictimsOutsideLoop'
  BY <1>1 DEF IInv, ContextsOK, TrackedIsRunning, Tracked, VictimsAreHeld,
     AdmissionCut, NoVictimsOutsideLoop
<1> QED BY <1>2, <1>3, <1>4 DEF IInv

\* The loop is over: no pointer is outstanding.
LEMMA LoopEndsStep == ASSUME IInv, SnapshotEnds PROVE IInv'
<1>1. /\ host = "cancelling" /\ host' = "stopping_server"
      /\ victims = {}
      /\ UNCHANGED <<admission_open, victims, contexts, cancelled, rpc>>
  BY DEF SnapshotEnds, handlerVars
<1> QED
  BY <1>1 DEF IInv, ContextsOK, TrackedIsRunning, Tracked, VictimsAreHeld,
     AdmissionCut, AllCaught, NoVictimsOutsideLoop, BeforeSnapshot, HostSteps

\* Only a context that admission let in before the shutdown is tracked.
LEMMA TrackStep == ASSUME IInv, NEW c \in Calls, track_context(c) PROVE IInv'
<1>1. /\ rpc[c] = "arrived" /\ admission_open
      /\ contexts' = [contexts EXCEPT ![c] = "tracked"]
      /\ rpc' = [rpc EXCEPT ![c] = "validating"]
      /\ UNCHANGED <<host, admission_open, snapshot_active, victims, cancelled>>
  BY DEF track_context, Goes, hostVars, flagVars
<1>2. host \in {"new", "prepared", "serving", "failed"}
  BY <1>1 DEF IInv, AdmissionCut
<1>3. ContextsOK'
  BY <1>1 DEF IInv, ContextsOK, HandlerSteps
<1>4. TrackedIsRunning'
  BY <1>1 DEF IInv, ContextsOK, TrackedIsRunning, Tracked, TrackedSteps
<1>5. VictimsAreHeld' /\ AdmissionCut' /\ AllCaught' /\ NoVictimsOutsideLoop'
  BY <1>1, <1>2 DEF IInv, VictimsAreHeld, AdmissionCut, AllCaught,
     NoVictimsOutsideLoop, BeforeSnapshot
<1> QED BY <1>3, <1>4, <1>5 DEF IInv

\* A handler leaves contexts_ only while no pointer is outstanding.
LEMMA LeaveStep ==
    ASSUME IInv, NEW c \in Calls, finalize_context(c) \/ untrack_context(c)
    PROVE  IInv'
<1>1. /\ ~snapshot_active
      /\ contexts' = [contexts EXCEPT ![c] = "absent"]
      /\ \E step \in HandlerSteps : rpc' = [rpc EXCEPT ![c] = step]
      /\ UNCHANGED <<host, admission_open, snapshot_active, victims, cancelled>>
  BY DEF finalize_context, untrack_context, Goes, hostVars, flagVars, HandlerSteps
<1>2. victims = {}
  BY <1>1 DEF IInv, VictimsAreHeld
<1>3. ContextsOK'
  BY <1>1 DEF IInv, ContextsOK
<1>4. TrackedIsRunning'
  BY <1>1 DEF IInv, ContextsOK, TrackedIsRunning, Tracked
<1>5. VictimsAreHeld' /\ AdmissionCut' /\ AllCaught' /\ NoVictimsOutsideLoop'
  BY <1>1, <1>2 DEF IInv, ContextsOK, VictimsAreHeld, AdmissionCut, AllCaught,
     NoVictimsOutsideLoop, Tracked
<1> QED BY <1>3, <1>4, <1>5 DEF IInv

\* Every other step of a handler is quiet.
LEMMA HandlerStep ==
    ASSUME IInv, NEW c \in Calls, Arrives(c) \/ Handler(c) \/ SourceCuts(c)
    PROVE  IInv'
<1>1. CASE track_context(c)
  BY <1>1, TrackStep
<1>2. CASE finalize_context(c) \/ untrack_context(c)
  BY <1>2, LeaveStep
<1>3. CASE \/ Arrives(c) \/ RefusesContext(c) \/ Validates(c) \/ Admits(c)
           \/ Peeks(c) \/ Throws(c) \/ ClosesSubscription(c)
  <2>1. UNCHANGED trackerVars
    BY <1>3 DEF Arrives, RefusesContext, Validates, Admits, Peeks, Throws,
       ClosesSubscription, othersVars, hostVars, flagVars, trackerVars
  <2>2. HandlerMoves \/ (rpc[c] = "closing" /\ rpc' = [rpc EXCEPT ![c] = "returned"])
    BY <1>3 DEF Arrives, RefusesContext, Validates, Admits, Peeks, Throws,
       ClosesSubscription, Goes, HandlerMoves, HandlerSteps, TrackedSteps
  <2>3. CASE rpc[c] = "closing" /\ rpc' = [rpc EXCEPT ![c] = "returned"]
    BY <2>1, <2>3, QuietStep DEF HandlerMoves, HandlerSteps, TrackedSteps
  <2> QED BY <2>1, <2>2, <2>3, QuietStep
<1>4. CASE \E code \in StatusCodes : rpc[c] # "arrived" /\ Proposes(c, code)
  <2>1. UNCHANGED trackerVars
    BY <1>4 DEF Proposes, othersVars, hostVars, flagVars, trackerVars
  <2>2. HandlerMoves
    BY <1>4 DEF Proposes, Goes, HandlerMoves, HandlerSteps, TrackedSteps
  <2> QED BY <2>1, <2>2, QuietStep
<1>5. CASE WriteSucceeds(c)
  <2>1. UNCHANGED trackerVars
    BY <1>5 DEF WriteSucceeds, Proposes, othersVars, hostVars, flagVars,
       trackerVars
  <2>2. HandlerMoves
    BY <1>5 DEF WriteSucceeds, Writing, Proposes, Goes, HandlerMoves,
       HandlerSteps, TrackedSteps
  <2> QED BY <2>1, <2>2, QuietStep
<1>6. CASE SourceCuts(c)
  BY <1>6, QuietStep DEF SourceCuts, othersVars, hostVars, flagVars, trackerVars
<1>7. CASE \/ RefusesRequest(c) \/ AdmissionFails(c) \/ SeesCancellation(c)
           \/ MaterializeFails(c) \/ SeesEnd(c) \/ WriteFails(c)
  <2>1. \E code \in StatusCodes : rpc[c] # "arrived" /\ Proposes(c, code)
    BY <1>7 DEF RefusesRequest, AdmissionFails, SeesCancellation,
       MaterializeFails, SeesEnd, WriteFails, Writing, StatusCodes,
       map_admission_error
  <2> QED BY <2>1, <1>4
<1> QED
  BY <1>1, <1>2, <1>3, <1>5, <1>6, <1>7 DEF Handler, Proceeds

\* The status calls and the clients do not touch the tracker; a client can only
\* cancel one call more.
LEMMA OtherStep ==
    ASSUME IInv,
           \/ \E s \in StatusCalls :
                 StatusArrives(s) \/ StatusProceeds(s) \/ StatusThrows(s)
           \/ \E c \in Calls \cup StatusCalls : ClientCancels(c)
           \/ Down
    PROVE  IInv'
<1>1. CASE \E s \in StatusCalls :
              StatusArrives(s) \/ StatusProceeds(s) \/ StatusThrows(s)
  <2>1. UNCHANGED streamVars
    BY <1>1 DEF StatusArrives, StatusProceeds, StatusThrows, StatusRefused,
       StatusTakesSlot, StatusBegins, StatusObserves, StatusAssembles,
       StatusAnswers, release_status_slot
  <2> QED BY <2>1, QuietStep DEF streamVars, hostVars, flagVars, handlerVars, trackerVars
<1>2. CASE \E c \in Calls \cup StatusCalls : ClientCancels(c)
  <2>1. PICK c \in Calls \cup StatusCalls : ClientCancels(c)
    BY <1>2
  <2>2. /\ cancelled' = [cancelled EXCEPT ![c] = TRUE]
        /\ UNCHANGED <<host, admission_open, snapshot_active, victims, contexts,
                       rpc>>
    BY <2>1 DEF ClientCancels, hostVars, flagVars, handlerVars
  <2>3. AllCaught'
    BY <2>2 DEF IInv, ContextsOK, AllCaught, Tracked
  <2> QED
    BY <2>2, <2>3 DEF IInv, ContextsOK, TrackedIsRunning, Tracked,
       VictimsAreHeld, AdmissionCut, NoVictimsOutsideLoop
<1>3. CASE Down
  BY <1>3, QuietStep DEF Down, vars, hostVars, flagVars, handlerVars, trackerVars
<1> QED BY <1>1, <1>2, <1>3

\* The invariant is inductive.
THEOREM TrackerInvariant == Spec => []IInv
<1>1. Init => IInv
  BY DEF Init, IInv, ContextsOK, TrackedIsRunning, Tracked, VictimsAreHeld,
     AdmissionCut, AllCaught, NoVictimsOutsideLoop, BeforeSnapshot, HostSteps,
     HandlerSteps
<1>2. IInv /\ [Next]_vars => IInv'
  <2> SUFFICES ASSUME IInv, [Next]_vars PROVE IInv'
    OBVIOUS
  <2>1. CASE UNCHANGED vars
    BY <2>1, QuietStep DEF vars, hostVars, flagVars, handlerVars, trackerVars
  <2>2. CASE StartPrepares \/ StartBuilds \/ ShutdownBegins
    BY <2>2, HostStep
  <2>3. CASE Host
    BY <2>3, HostStep, SnapshotStep, CancelStep, LoopEndsStep DEF Host
  <2>4. CASE \E c \in Calls : Arrives(c) \/ Handler(c) \/ SourceCuts(c)
    BY <2>4, HandlerStep
  <2>5. CASE \/ \E s \in StatusCalls :
                   StatusArrives(s) \/ StatusProceeds(s) \/ StatusThrows(s)
             \/ \E c \in Calls \cup StatusCalls : ClientCancels(c)
             \/ Down
    BY <2>5, OtherStep
  <2> QED BY <2>1, <2>2, <2>3, <2>4, <2>5 DEF Next
<1> QED BY <1>1, <1>2, PTL DEF Spec

\* TryCancel() is only ever called on the context of a running handler: the
\* finalization handshake of finalize_context() and untrack_context() protects
\* the raw pointers of begin_shutdown().
THEOREM DanglingTheorem == Spec => []NoDanglingCancel
<1>1. IInv => NoDanglingCancel
  BY DEF IInv, ContextsOK, VictimsAreHeld, TrackedIsRunning, Tracked,
     NoDanglingCancel, InFlight, TrackedSteps
<1> QED BY <1>1, TrackerInvariant, PTL

\* When begin_shutdown() is past its loop, each handler that is still tracked
\* has been cancelled: track_context() and the snapshot leave no gap.
THEOREM SnapshotTheorem == Spec => []NothingBehindSnapshot
<1>1. IInv => NothingBehindSnapshot
  BY DEF IInv, AllCaught, NoVictimsOutsideLoop, NothingBehindSnapshot,
     BeforeSnapshot
<1> QED BY <1>1, TrackerInvariant, PTL

-----------------------------------------------------------------------------
(* The publications of a shutdown and what Wait() leaves.                    *)

AfterBooks ==
    {"ending_events", "snapshot", "cancelling", "stopping_server", "waiting",
     "down"}

AfterEvents == {"snapshot", "cancelling", "stopping_server", "waiting", "down"}

\* begin_shutdown() has closed the admission of product p's runtime, ended its
\* order-book sessions, ended its event publication.
BooksShut(p) ==
    \/ host \in AfterBooks \cup {"ending_books"}
    \/ host = "closing_admission" /\ p < entry

BooksEnded(p) == host \in AfterBooks \/ (host = "ending_books" /\ p < entry)

EventsEnded(p) == host \in AfterEvents \/ (host = "ending_events" /\ p < entry)

\* The part of the type invariant this argument rests on.
SourcesOK ==
    /\ entry \in Products
    /\ booksOpen \in SUBSET Products /\ eventsOpen \in SUBSET Products
    /\ target \in [Calls -> Targets \cup {NoTarget}]
    /\ channel \in [Calls -> ChannelStates]

SourcesShut ==
    \A p \in Products :
        /\ BooksShut(p) => p \notin booksOpen
        /\ EventsEnded(p) => p \notin eventsOpen

\* A call has a channel only once it was admitted to a publication.
ChannelsPlaced ==
    \A c \in Calls :
        /\ rpc[c] \in {"new", "arrived", "validating", "admitting"} =>
                channel[c] = "None"
        /\ rpc[c] \in {"admitting", "streaming", "writing", "writing_notice"} =>
                target[c] \in Targets
        /\ channel[c] # "None" => target[c] \in Targets

Ended(c) == channel[c] \in {"None", "Closed"}

SessionsEnded ==
    \A c \in Calls : \A p \in Products :
        /\ BooksEnded(p) /\ target[c] = <<"book", p>> => Ended(c)
        /\ EventsEnded(p) /\ target[c] = <<"events", p>> => Ended(c)

SourceInv == SourcesOK /\ SourcesShut /\ ChannelsPlaced /\ SessionsEnded

\* The status slot has a holder; a server that has stopped takes no call, and
\* once Wait() has returned no handler runs.
DrainInv ==
    /\ query \in [StatusCalls -> StatusSteps]
    /\ status_inflight => \E s \in StatusCalls : query[s] \in {"holding", "observing"}
    /\ host \in {"waiting", "down"} => ~accepting
    /\ host = "down" => /\ \A c \in Calls : ~InFlight(c)
                        /\ \A s \in StatusCalls : ~StatusInFlight(s)

\* The steps by what they do to the publications and the sessions.
HostMoves ==
    \/ StartPrepares \/ StartBuilds \/ ShutdownBegins \/ StopsStatus
    \/ TakesSnapshot \/ SnapshotEnds \/ ServerStops \/ WaitReturns

Elsewhere ==
    \/ \E c \in Calls : TryCancels(c)
    \/ \E s \in StatusCalls :
            StatusArrives(s) \/ StatusProceeds(s) \/ StatusThrows(s)
    \/ \E c \in Calls \cup StatusCalls : ClientCancels(c)
    \/ Down \/ UNCHANGED vars

\* Every step is of one of the kinds the source argument tells apart.
LEMMA StepKinds ==
    ASSUME [Next]_vars
    PROVE  \/ HostMoves \/ ClosesAdmission \/ EndsBooks \/ EndsEvents
           \/ \E c \in Calls : Arrives(c) \/ Handler(c) \/ SourceCuts(c)
           \/ Elsewhere
BY DEF Next, Host, HostMoves, Elsewhere

\* Cancellation, status calls and clients leave sessions and sources alone.
LEMMA ElsewhereQuiet ==
    ASSUME Elsewhere
    PROVE  UNCHANGED <<host, entry, accepting, booksOpen, eventsOpen, target,
                       channel, rpc>>
BY DEF Elsewhere, TryCancels, StatusArrives, StatusProceeds, StatusThrows,
   StatusRefused, StatusTakesSlot, StatusBegins, StatusObserves,
   StatusAssembles, StatusAnswers, release_status_slot, ClientCancels, Down,
   streamVars, vars, hostVars, sourceVars, handlerVars

\* The host's own steps outside the registry loops leave sessions alone.
LEMMA HostMovesQuiet ==
    ASSUME HostMoves
    PROVE  UNCHANGED <<booksOpen, eventsOpen, target, channel, rpc>>
BY DEF HostMoves, StartPrepares, StartBuilds, ShutdownBegins, StopsStatus,
   TakesSnapshot, SnapshotEnds, ServerStops, WaitReturns, sourceVars,
   handlerVars

\* A step of one handler: the others' sessions and the publications stay.
HandlerActs(c) == Arrives(c) \/ Handler(c) \/ SourceCuts(c)

\* No handler moves the host, its admission flag or a source.
LEMMA HandlerQuiet ==
    ASSUME NEW c \in Calls, HandlerActs(c)
    PROVE  UNCHANGED <<host, entry, accepting, booksOpen, eventsOpen, query,
                       status_inflight>>
BY DEF HandlerActs, Arrives, Handler, Proceeds, SourceCuts, RefusesContext,
   track_context, RefusesRequest, Validates, AdmissionFails, Admits,
   SeesCancellation, SeesEnd, finalize_context, ClosesSubscription,
   untrack_context, Peeks, MaterializeFails, WriteFails, WriteSucceeds, Throws,
   Proposes, othersVars, hostVars, sourceVars, statusVars

\* What a step of handler c does to its session: nothing new opens, except in
\* Admits, and the target is chosen before the admission.
HandlerOutcome(c) ==
    LET p == rpc[c]
        q == rpc'[c] IN
    \/ /\ target'[c] = target[c]
       /\ \/ channel'[c] = channel[c]
          \/ channel[c] = "Active" /\ channel'[c] \in ChannelStates \ {"None"}
       /\ \/ q = p
          \/ p = "new" /\ q = "arrived"
          \/ p = "arrived" /\ q \in {"returned", "validating"}
          \/ /\ p \in {"validating", "admitting", "streaming", "writing",
                       "writing_notice"}
             /\ q \in {"finalizing", "unwinding"}
          \/ p = "streaming" /\ q \in {"writing", "writing_notice"}
          \/ p = "writing" /\ q = "streaming"
          \/ p \in {"finalizing", "untracking"} /\ q \in {"returned", "closing"}
    \/ /\ p = "validating" /\ q = "admitting"
       /\ channel'[c] = channel[c] /\ target'[c] \in Targets
    \/ /\ p = "admitting" /\ q = "streaming" /\ Open(target[c])
       /\ target'[c] = target[c] /\ channel'[c] = "Active"
    \/ /\ p \in {"writing", "writing_notice"} /\ q = "finalizing"
       /\ target'[c] = target[c] /\ channel'[c] = "Closed"
    \/ /\ p \in {"closing", "unwinding"} /\ q \in {"returned", "untracking"}
       /\ channel'[c] = "None" /\ target'[c] = NoTarget

\* Every handler step has one of the outcomes above, and touches no other
\* handler's session.
LEMMA HandlerOutcomes ==
    ASSUME ContextsOK, SourcesOK, NEW c \in Calls, HandlerActs(c)
    PROVE  /\ HandlerOutcome(c)
           /\ \A d \in Calls \ {c} : channel'[d] = channel[d]
                                     /\ target'[d] = target[d]
                                     /\ rpc'[d] = rpc[d]
           /\ channel' \in [Calls -> ChannelStates]
           /\ target' \in [Calls -> Targets \cup {NoTarget}]
<1> USE DEF ContextsOK, SourcesOK, Goes
<1>1. CASE Arrives(c) \/ RefusesContext(c) \/ track_context(c) \/ Peeks(c)
           \/ Throws(c) \/ finalize_context(c) \/ untrack_context(c)
  BY <1>1 DEF Arrives, RefusesContext, track_context, Peeks, Throws,
     finalize_context, untrack_context, HandlerOutcome
<1>2. CASE \E code \in StatusCodes : Proposes(c, code)
           /\ rpc[c] \in {"validating", "admitting", "streaming", "writing",
                          "writing_notice"}
  BY <1>2 DEF Proposes, HandlerOutcome
<1>3. CASE \/ RefusesRequest(c) \/ AdmissionFails(c) \/ SeesCancellation(c)
           \/ MaterializeFails(c) \/ SeesEnd(c) \/ WriteFails(c)
  <2>1. \E code \in StatusCodes : Proposes(c, code)
           /\ rpc[c] \in {"validating", "admitting", "streaming", "writing",
                          "writing_notice"}
    BY <1>3 DEF RefusesRequest, AdmissionFails, SeesCancellation,
       MaterializeFails, SeesEnd, WriteFails, Writing, StatusCodes,
       map_admission_error
  <2> QED BY <1>2, <2>1
<1>4. CASE Validates(c)
  BY <1>4 DEF Validates, HandlerOutcome
<1>5. CASE Admits(c)
  BY <1>5 DEF Admits, HandlerOutcome, ChannelStates
<1>6. CASE WriteSucceeds(c)
  BY <1>6 DEF WriteSucceeds, Writing, Proposes, HandlerOutcome, ChannelStates
<1>7. CASE ClosesSubscription(c)
  BY <1>7 DEF ClosesSubscription, HandlerOutcome, ChannelStates
<1>8. CASE SourceCuts(c)
  BY <1>8 DEF SourceCuts, HandlerOutcome, ChannelStates
<1> QED BY <1>1, <1>3, <1>4, <1>5, <1>6, <1>7, <1>8
        DEF HandlerActs, Handler, Proceeds

\* The registry loops: entry by entry.
LEMMA EntryStep ==
    ASSUME SourcesOK, NEW loop, NEW afterwards, NextEntry(loop, afterwards)
    PROVE  /\ entry \in Nat /\ entry \in Products /\ entry' \in Products
           /\ \/ host' = afterwards /\ \A p \in Products : p < entry \/ p = entry
              \/ /\ host' = loop
                 /\ \A p \in Products : p < entry' => p < entry \/ p = entry
BY GrpcAssumption DEF SourcesOK, NextEntry, Products

\* begin_shutdown() walks the whole registry: every step keeps the record of
\* which sources are already shut.
LEMMA SourcesStep ==
    ASSUME IInv, SourceInv, [Next]_vars
    PROVE  SourcesOK' /\ SourcesShut'
<1> USE DEF SourceInv
<1>1. CASE HostMoves
  <2>1. UNCHANGED <<booksOpen, eventsOpen, target, channel, rpc>>
    BY <1>1, HostMovesQuiet
  <2>2. entry' = entry \/ entry' = 1
    BY <1>1 DEF HostMoves, StartPrepares, StartBuilds, ShutdownBegins,
       StopsStatus, TakesSnapshot, SnapshotEnds, ServerStops, WaitReturns
  <2>3. SourcesOK'
    BY <2>1, <2>2, GrpcAssumption DEF SourcesOK, Products
  <2>4. \A p \in Products : (BooksShut(p)' => BooksShut(p))
                            /\ (EventsEnded(p)' => EventsEnded(p))
    BY <1>1, GrpcAssumption DEF HostMoves, StartPrepares, StartBuilds,
       ShutdownBegins, StopsStatus, TakesSnapshot, SnapshotEnds, ServerStops,
       WaitReturns, BooksShut, EventsEnded, AfterBooks, AfterEvents, Products
  <2> QED BY <2>1, <2>3, <2>4 DEF SourcesShut
<1>2. CASE ClosesAdmission
  <2>1. /\ host = "closing_admission" /\ booksOpen' = booksOpen \ {entry}
        /\ NextEntry("closing_admission", "ending_books")
        /\ UNCHANGED <<eventsOpen, target, channel>>
    BY <1>2 DEF ClosesAdmission, handlerVars
  <2>2. \A p \in Products : BooksShut(p)' => p = entry \/ BooksShut(p)
    BY <2>1, EntryStep DEF BooksShut, AfterBooks
  <2>3. \A p \in Products : ~EventsEnded(p)'
    BY <2>1, EntryStep DEF EventsEnded, AfterEvents
  <2>4. SourcesOK'
    BY <2>1, EntryStep DEF SourcesOK
  <2> QED BY <2>1, <2>2, <2>3, <2>4 DEF SourcesShut
<1>3. CASE EndsBooks
  <2>1. /\ host = "ending_books" /\ booksOpen' = booksOpen \ {entry}
        /\ NextEntry("ending_books", "ending_events")
        /\ channel' = ClosedFor("book", entry) /\ UNCHANGED <<eventsOpen, target>>
    BY <1>3 DEF EndsBooks
  <2>2. \A p \in Products : BooksShut(p)
    BY <2>1 DEF BooksShut
  <2>3. \A p \in Products : ~EventsEnded(p)'
    BY <2>1, EntryStep, GrpcAssumption
       DEF EventsEnded, AfterEvents, NextEntry, Products
  <2>4. SourcesOK'
    BY <2>1, EntryStep DEF SourcesOK, ClosedFor, ChannelStates
  <2> QED BY <2>1, <2>2, <2>3, <2>4 DEF SourcesShut
<1>4. CASE EndsEvents
  <2>1. /\ host = "ending_events" /\ eventsOpen' = eventsOpen \ {entry}
        /\ NextEntry("ending_events", "snapshot")
        /\ channel' = ClosedFor("events", entry) /\ UNCHANGED <<booksOpen, target>>
    BY <1>4 DEF EndsEvents
  <2>2. \A p \in Products : BooksShut(p)
    BY <2>1 DEF BooksShut, AfterBooks
  <2>3. \A p \in Products : EventsEnded(p)' => p = entry \/ EventsEnded(p)
    BY <2>1, EntryStep DEF EventsEnded, AfterEvents
  <2>4. SourcesOK'
    BY <2>1, EntryStep DEF SourcesOK, ClosedFor, ChannelStates
  <2> QED BY <2>1, <2>2, <2>3, <2>4 DEF SourcesShut
<1>5. ASSUME NEW c \in Calls, HandlerActs(c) PROVE SourcesOK' /\ SourcesShut'
  <2>1. UNCHANGED <<host, entry, booksOpen, eventsOpen>>
    BY <1>5, HandlerQuiet
  <2>2. SourcesOK'
    BY <1>5, <2>1, HandlerOutcomes DEF IInv, SourcesOK
  <2> QED BY <2>1, <2>2 DEF SourcesShut, BooksShut, EventsEnded
<1>6. CASE Elsewhere
  BY <1>6, ElsewhereQuiet DEF SourcesOK, SourcesShut, BooksShut, EventsEnded
<1> QED BY <1>1, <1>2, <1>3, <1>4, <1>5, <1>6, StepKinds DEF HandlerActs

\* Every step keeps a session only where its handler still answers for it.
LEMMA PlacedStep ==
    ASSUME IInv, SourceInv, [Next]_vars
    PROVE  ChannelsPlaced'
<1> USE DEF SourceInv
<1>1. CASE HostMoves \/ ClosesAdmission \/ Elsewhere
  <2>1. UNCHANGED <<target, channel, rpc>>
    BY <1>1, HostMovesQuiet, ElsewhereQuiet DEF ClosesAdmission, handlerVars
  <2> QED BY <2>1 DEF ChannelsPlaced
<1>2. CASE EndsBooks \/ EndsEvents
  <2>1. UNCHANGED <<target, rpc>>
    BY <1>2 DEF EndsBooks, EndsEvents
  <2>2. \A c \in Calls : channel'[c] = "None" <=> channel[c] = "None"
    BY <1>2 DEF EndsBooks, EndsEvents, ClosedFor
  <2> QED BY <2>1, <2>2 DEF ChannelsPlaced
<1>3. ASSUME NEW c \in Calls, HandlerActs(c) PROVE ChannelsPlaced'
  <2>1. /\ HandlerOutcome(c)
        /\ \A d \in Calls \ {c} : channel'[d] = channel[d]
                                  /\ target'[d] = target[d] /\ rpc'[d] = rpc[d]
    BY <1>3, HandlerOutcomes DEF IInv
  <2> SUFFICES ASSUME NEW d \in Calls
               PROVE  /\ rpc'[d] \in {"new", "arrived", "validating", "admitting"}
                            => channel'[d] = "None"
                      /\ rpc'[d] \in {"admitting", "streaming", "writing",
                                      "writing_notice"} => target'[d] \in Targets
                      /\ channel'[d] # "None" => target'[d] \in Targets
    BY DEF ChannelsPlaced
  <2>2. CASE d # c
    BY <2>1, <2>2 DEF ChannelsPlaced
  <2>3. CASE d = c
    BY <2>1, <2>3 DEF ChannelsPlaced, HandlerOutcome
  <2> QED BY <2>2, <2>3
<1> QED BY <1>1, <1>2, <1>3, StepKinds DEF HandlerActs

\* No step leaves or opens a live session on a source that is already shut.
LEMMA EndedStep ==
    ASSUME IInv, SourceInv, [Next]_vars
    PROVE  SessionsEnded'
<1> USE DEF SourceInv
<1> SUFFICES ASSUME NEW c \in Calls, NEW p \in Products
             PROVE  /\ BooksEnded(p)' /\ target'[c] = <<"book", p>> => Ended(c)'
                    /\ EventsEnded(p)' /\ target'[c] = <<"events", p>> => Ended(c)'
  BY DEF SessionsEnded
<1>1. CASE HostMoves
  <2>1. UNCHANGED <<target, channel>>
    BY <1>1, HostMovesQuiet
  <2>2. (BooksEnded(p)' => BooksEnded(p)) /\ (EventsEnded(p)' => EventsEnded(p))
    BY <1>1 DEF HostMoves, StartPrepares, StartBuilds, ShutdownBegins,
       StopsStatus, TakesSnapshot, SnapshotEnds, ServerStops, WaitReturns,
       BooksEnded, EventsEnded, AfterBooks, AfterEvents
  <2> QED BY <2>1, <2>2 DEF SessionsEnded, Ended
<1>2. CASE ClosesAdmission
  <2>1. ~BooksEnded(p)' /\ ~EventsEnded(p)'
    BY <1>2, GrpcAssumption DEF ClosesAdmission, NextEntry, BooksEnded,
       EventsEnded, AfterBooks, AfterEvents, Products
  <2> QED BY <2>1
<1>3. CASE EndsBooks
  <2>1. /\ host = "ending_books" /\ NextEntry("ending_books", "ending_events")
        /\ channel' = ClosedFor("book", entry) /\ UNCHANGED target
    BY <1>3 DEF EndsBooks
  <2>2. ~EventsEnded(p)'
    BY <2>1, GrpcAssumption DEF NextEntry, EventsEnded, AfterEvents, Products
  <2>3. BooksEnded(p)' => p = entry \/ BooksEnded(p)
    BY <2>1, EntryStep DEF BooksEnded, AfterBooks
  <2>4. Ended(c) => Ended(c)'
    BY <2>1 DEF Ended, ClosedFor
  <2>5. target[c] = <<"book", entry>> => Ended(c)'
    BY <2>1 DEF Ended, ClosedFor
  <2> QED BY <2>1, <2>2, <2>3, <2>4, <2>5 DEF SessionsEnded
<1>4. CASE EndsEvents
  <2>1. /\ host = "ending_events" /\ NextEntry("ending_events", "snapshot")
        /\ channel' = ClosedFor("events", entry) /\ UNCHANGED target
    BY <1>4 DEF EndsEvents
  <2>2. BooksEnded(p)
    BY <2>1 DEF BooksEnded, AfterBooks
  <2>3. EventsEnded(p)' => p = entry \/ EventsEnded(p)
    BY <2>1, EntryStep DEF EventsEnded, AfterEvents
  <2>4. Ended(c) => Ended(c)'
    BY <2>1 DEF Ended, ClosedFor
  <2>5. target[c] = <<"events", entry>> => Ended(c)'
    BY <2>1 DEF Ended, ClosedFor
  <2> QED BY <2>1, <2>2, <2>3, <2>4, <2>5 DEF SessionsEnded
<1>5. ASSUME NEW d \in Calls, HandlerActs(d)
      PROVE  /\ BooksEnded(p)' /\ target'[c] = <<"book", p>> => Ended(c)'
             /\ EventsEnded(p)' /\ target'[c] = <<"events", p>> => Ended(c)'
  <2>1. /\ HandlerOutcome(d)
        /\ \A e \in Calls \ {d} : channel'[e] = channel[e]
                                  /\ target'[e] = target[e] /\ rpc'[e] = rpc[e]
    BY <1>5, HandlerOutcomes DEF IInv
  <2>2. (BooksEnded(p)' <=> BooksEnded(p)) /\ (EventsEnded(p)' <=> EventsEnded(p))
    BY <1>5, HandlerQuiet DEF BooksEnded, EventsEnded
  <2>3. CASE c # d
    BY <2>1, <2>2, <2>3 DEF SessionsEnded, Ended
  <2>4. CASE c = d
    <3>1. CASE target'[c] = target[c] /\ channel'[c] = channel[c]
      BY <2>2, <3>1 DEF SessionsEnded, Ended
    <3>2. CASE channel[c] = "Active" /\ target'[c] = target[c]
      BY <2>2, <3>2 DEF SessionsEnded, Ended
    <3>3. CASE rpc[c] = "validating" /\ channel'[c] = channel[c]
      BY <3>3 DEF ChannelsPlaced, Ended
    <3>4. CASE /\ rpc[c] = "admitting" /\ Open(target[c])
               /\ target'[c] = target[c]
      <4>1. target[c] = <<"book", p>> => p \in booksOpen
        BY <3>4 DEF Open
      <4>2. target[c] = <<"events", p>> => p \in eventsOpen
        BY <3>4 DEF Open
      <4>3. BooksEnded(p) => BooksShut(p)
        BY DEF BooksEnded, BooksShut
      <4> QED BY <2>2, <3>4, <4>1, <4>2, <4>3 DEF SourcesShut
    <3>5. CASE channel'[c] \in {"Closed", "None"}
      BY <3>5 DEF Ended
    <3> QED BY <2>1, <2>4, <3>1, <3>2, <3>3, <3>4, <3>5 DEF HandlerOutcome
  <2> QED BY <2>3, <2>4
<1>6. CASE Elsewhere
  BY <1>6, ElsewhereQuiet DEF SessionsEnded, BooksEnded, EventsEnded, Ended
<1> QED BY <1>1, <1>2, <1>3, <1>4, <1>5, <1>6, StepKinds DEF HandlerActs

\* The invariant about sources and sessions holds in every reachable state.
LEMMA SourceInvariant == Spec => []SourceInv
<1>1. Init => SourceInv
  <2> SUFFICES ASSUME Init PROVE SourceInv
    OBVIOUS
  <2>1. SourcesOK
    BY GrpcAssumption DEF Init, SourcesOK, Products, ChannelStates
  <2>2. SourcesShut /\ SessionsEnded
    BY DEF Init, SourcesShut, SessionsEnded, BooksShut, BooksEnded, EventsEnded,
       AfterBooks, AfterEvents
  <2>3. ChannelsPlaced
    BY DEF Init, ChannelsPlaced
  <2> QED BY <2>1, <2>2, <2>3 DEF SourceInv
<1>2. IInv /\ SourceInv /\ [Next]_vars => SourceInv'
  BY SourcesStep, PlacedStep, EndedStep DEF SourceInv
<1> QED BY <1>1, <1>2, TrackerInvariant, PTL DEF Spec

\* From the end of the publication loops on no session is open, whatever was
\* being admitted meanwhile: an admission that got in before its publication
\* was shut down is closed by it, a later one is refused.
THEOREM SessionTheorem == Spec => []NoSessionBehindShutdown
<1>1. SourceInv => NoSessionBehindShutdown
  <2> SUFFICES ASSUME SourceInv, host \in AfterEvents, NEW c \in Calls
               PROVE  Ended(c)
    BY DEF NoSessionBehindShutdown, AfterEvents, Ended
  <2>1. CASE channel[c] = "None"
    BY <2>1 DEF Ended
  <2>2. CASE channel[c] # "None"
    <3>1. target[c] \in Targets
      BY <2>2 DEF SourceInv, ChannelsPlaced
    <3>2. PICK p \in Products : target[c] = <<"book", p>> \/ target[c] = <<"events", p>>
      BY <3>1 DEF Targets
    <3>3. BooksEnded(p) /\ EventsEnded(p)
      BY DEF BooksEnded, EventsEnded, AfterBooks, AfterEvents
    <3> QED BY <3>2, <3>3 DEF SourceInv, SessionsEnded
  <2> QED BY <2>1, <2>2
<1> QED BY <1>1, SourceInvariant, PTL

-----------------------------------------------------------------------------
\* DrainInv is inductive.
LEMMA DrainStep ==
    ASSUME IInv, DrainInv, [Next]_vars
    PROVE  DrainInv'
<1> USE DEF DrainInv
<1>1. CASE HostMoves \/ ClosesAdmission \/ EndsBooks \/ EndsEvents
           \/ \E c \in Calls : TryCancels(c)
  <2>1. UNCHANGED <<status_inflight, query, rpc>>
    BY <1>1 DEF HostMoves, StartPrepares, StartBuilds, ShutdownBegins,
       StopsStatus, TakesSnapshot, SnapshotEnds, ServerStops, WaitReturns,
       ClosesAdmission, EndsBooks, EndsEvents, TryCancels, statusVars,
       handlerVars
  <2>2. host' \in {"waiting", "down"} => ~accepting'
    BY <1>1 DEF HostMoves, StartPrepares, StartBuilds, ShutdownBegins,
       StopsStatus, TakesSnapshot, SnapshotEnds, ServerStops, WaitReturns,
       ClosesAdmission, EndsBooks, EndsEvents, TryCancels, NextEntry, hostVars
  <2>3. host' = "down" => \/ host = "down"
                          \/ /\ \A c \in Calls : ~InFlight(c)
                             /\ \A s \in StatusCalls : ~StatusInFlight(s)
    BY <1>1 DEF HostMoves, StartPrepares, StartBuilds, ShutdownBegins,
       StopsStatus, TakesSnapshot, SnapshotEnds, ServerStops, WaitReturns,
       ClosesAdmission, EndsBooks, EndsEvents, TryCancels, NextEntry, hostVars
  <2> QED BY <2>1, <2>2, <2>3 DEF InFlight, StatusInFlight
<1>2. ASSUME NEW c \in Calls, HandlerActs(c) PROVE DrainInv'
  <2>1. UNCHANGED <<host, entry, accepting, booksOpen, eventsOpen, query,
                    status_inflight>>
    BY <1>2, HandlerQuiet
  <2>2. CASE host = "down"
    <3>1. rpc[c] \in {"new", "returned"} /\ ~accepting
      BY <2>2 DEF InFlight
    <3>2. rpc' = rpc
      BY <1>2, <3>1 DEF HandlerActs, Arrives, Handler, Proceeds, SourceCuts,
         RefusesContext, track_context, RefusesRequest, Validates,
         AdmissionFails, Admits, SeesCancellation, SeesEnd, finalize_context,
         ClosesSubscription, untrack_context, Peeks, MaterializeFails,
         WriteFails, WriteSucceeds, Writing, Throws
    <3> QED BY <2>1, <3>2 DEF InFlight, StatusInFlight
  <2>3. CASE host # "down"
    BY <2>1, <2>3
  <2> QED BY <2>2, <2>3
<1>3. ASSUME NEW s \in StatusCalls,
             StatusArrives(s) \/ StatusProceeds(s) \/ StatusThrows(s)
      PROVE  DrainInv'
  <2>1. UNCHANGED <<host, accepting, rpc>>
    BY <1>3 DEF StatusArrives, StatusProceeds, StatusThrows, StatusRefused,
       StatusTakesSlot, StatusBegins, StatusObserves, StatusAssembles,
       streamVars, hostVars, handlerVars
  <2>2. /\ query' = query \/ \E step \in StatusSteps \ {"new"} :
                query' = [query EXCEPT ![s] = step]
        /\ query[s] = "returned" => FALSE
        /\ query[s] = "new" => accepting
    BY <1>3 DEF StatusArrives, StatusProceeds, StatusThrows, StatusRefused,
       StatusTakesSlot, StatusBegins, StatusObserves, StatusAssembles,
       StatusAnswers, release_status_slot, StatusGoes, StatusSteps
  <2>3. query' \in [StatusCalls -> StatusSteps]
    BY <2>2
  <2>4. host # "down"
    BY <2>2 DEF StatusInFlight
  <2>5. status_inflight' => \E t \in StatusCalls : query'[t] \in {"holding", "observing"}
    <3>1. CASE StatusArrives(s) \/ StatusRefused(s)
      <4>1. /\ status_inflight' = status_inflight
            /\ query[s] \in {"new", "arrived"}
            /\ \A t \in StatusCalls \ {s} : query'[t] = query[t]
        BY <3>1 DEF StatusArrives, StatusRefused, StatusGoes
      <4> QED BY <4>1
    <3>2. CASE StatusTakesSlot(s)
      <4>1. query'[s] = "holding"
        BY <3>2 DEF StatusTakesSlot, StatusGoes
      <4> QED BY <4>1
    <3>3. CASE StatusBegins(s) \/ StatusObserves(s) \/ StatusAssembles(s)
               \/ StatusThrows(s)
      <4>1. \/ status_inflight' = FALSE
            \/ query'[s] = "observing"
        BY <3>3 DEF StatusBegins, StatusObserves, StatusAssembles, StatusThrows,
           StatusAnswers, release_status_slot, StatusGoes
      <4> QED BY <4>1
    <3> QED BY <1>3, <3>1, <3>2, <3>3 DEF StatusProceeds
  <2> QED BY <2>1, <2>3, <2>4, <2>5
<1>4. CASE (\E c \in Calls \cup StatusCalls : ClientCancels(c)) \/ Down
           \/ UNCHANGED vars
  <2>1. UNCHANGED <<host, accepting, rpc, status_inflight, query>>
    BY <1>4 DEF ClientCancels, Down, vars, hostVars, handlerVars, statusVars
  <2> QED BY <2>1 DEF InFlight, StatusInFlight
<1> QED BY <1>1, <1>2, <1>3, <1>4, StepKinds DEF HandlerActs, Elsewhere

\* What shutdown() asserts after Wait() holds: no context is tracked and the
\* status slot is free, whatever way the handlers ended.
THEOREM DrainTheorem == Spec => []DrainedWhenDown
<1>1. Init => DrainInv
  BY DEF Init, DrainInv, StatusSteps
<1>2. IInv /\ DrainInv /\ [Next]_vars => DrainInv'
  BY DrainStep
<1>3. IInv /\ DrainInv => DrainedWhenDown
  BY DEF IInv, DrainInv, DrainedWhenDown, TrackedIsRunning, InFlight,
     StatusInFlight, TrackedSteps
<1> QED BY <1>1, <1>2, <1>3, TrackerInvariant, PTL DEF Spec

=============================================================================
