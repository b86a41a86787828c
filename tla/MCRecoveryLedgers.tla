--------------------------- MODULE MCRecoveryLedgers ---------------------------
(***************************************************************************)
(* The ledgers an interrupted effect is recovered from, for TLC: the       *)
(* recovery ledger of an upgrade and the execution journal of the          *)
(* container engine's readiness.  Each is about a resource of its own and  *)
(* they share no state, so every behaviour is one of them, chosen at the   *)
(* start, with the other left in its Init.                                 *)
(***************************************************************************)
EXTENDS UpgradeApply, ContainerReadiness, TLC

VARIABLE part

recoveryVars == <<part, uvars, readinessVars>>

\* The processes that ask for the engine are interchangeable.
Alike == Permutations(Caller)

\* A workspace with its config and no lock file yet.
InitiallyPresent == {Config}

RecoveryInit == part \in {"upgrade", "readiness"} /\ UInit /\ ReadinessInit

InUpgrade(A) == part = "upgrade" /\ A /\ UNCHANGED <<part, readinessVars>>
InReadiness(A) == part = "readiness" /\ A /\ UNCHANGED <<part, uvars>>

RecoveryNext == InUpgrade(UNext) \/ InReadiness(ReadinessNext)

LedgerSpec == RecoveryInit /\ [][RecoveryNext]_recoveryVars

-----------------------------------------------------------------------------
\* The types of both parts.
RecoveryTypeOK == UTypeOK /\ ReadinessTypeOK

\* An attempt to start the engine is recorded before it acts, is alone in its
\* lineage, follows only a readback that allows it and can always be closed
\* (observeLocalContainerEngineReadiness, observeDurableExecutionJournal).
AttemptsAreSound == LaunchIsRecorded /\ OneFlight /\ RetryIsJustified /\ ClosureFits
=============================================================================
