-------------------------- MODULE TransportContract --------------------------
(***************************************************************************)
(* What a transport promises to the code that owns it (SpotRecovery, the   *)
(* acceptance drivers): a connection opens at most once, fails at most     *)
(* once and tells the runtime so exactly then, delivers at most one depth  *)
(* snapshot, and is silent once stop() has returned.                       *)
(***************************************************************************)
EXTENDS Naturals

CONSTANT Causes     \* what terminal_error may hold

VARIABLES
    phase,      \* the transport as start(), stop() and observe() show it
    cause,      \* terminal_error, or "none"
    failures,   \* failures submitted to the runtime
    snapshots   \* snapshots submitted to the runtime

contractVars == <<phase, cause, failures, snapshots>>

Phases == {"idle", "opening", "live", "stopping", "stopped"}

ContractInit ==
    phase = "idle" /\ cause = "none" /\ failures = 0 /\ snapshots = 0

Opens ==
    /\ phase = "idle" /\ phase' = "opening"
    /\ UNCHANGED <<cause, failures, snapshots>>

\* The failure and its submission are one step: nobody sees one without the
\* other once the network thread is joined.
RecordsFailure ==
    /\ cause = "none" /\ failures = 0
    /\ cause' \in Causes
    /\ failures' = 1

\* A connection that has failed never becomes live; the depth request that it
\* starts may fail at once.
GoesLive ==
    /\ phase = "opening" /\ cause = "none"
    /\ phase' = "live"
    /\ RecordsFailure \/ UNCHANGED <<cause, failures>>
    /\ UNCHANGED snapshots

FailsOnce ==
    /\ phase \in {"opening", "live", "stopping"}
    /\ RecordsFailure
    /\ UNCHANGED <<phase, snapshots>>

\* The snapshot may still arrive while a stop or a failure is being carried out.
DeliversSnapshot ==
    /\ phase \in {"live", "stopping"}
    /\ snapshots = 0 /\ snapshots' = 1
    /\ UNCHANGED <<phase, cause, failures>>

AsksToStop ==
    /\ phase \in {"idle", "opening", "live"} /\ phase' = "stopping"
    /\ UNCHANGED <<cause, failures, snapshots>>

IsStopped ==
    /\ phase = "stopping" /\ phase' = "stopped"
    /\ UNCHANGED <<cause, failures, snapshots>>

ContractNext ==
    Opens \/ GoesLive \/ FailsOnce \/ DeliversSnapshot \/ AsksToStop \/ IsStopped

ContractSpec == ContractInit /\ [][ContractNext]_contractVars
=============================================================================
