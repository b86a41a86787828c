------------------------------- MODULE MCSession -------------------------------
(***************************************************************************)
(* What runs inside a process that works under a lease, for TLC: the       *)
(* making of the protocol root, the handle of the generation acquired      *)
(* there, the compilation monitored under it, the query scope and the      *)
(* stream reader.  They share no state, so every behaviour is one of them, *)
(* chosen at the start, with the others left in their Init.                *)
(***************************************************************************)
EXTENDS LeaseHandle, LeaseProtocolRoot, MonitoredGroup, RuntimeQueryScope, StreamReader

VARIABLE part

sessionVars == <<part, rootVars, handleVars, composed, scopeVars, readerVars>>

SessionInit ==
  /\ part \in {"root", "handle", "compilation", "scope", "reader"}
  /\ PInit /\ HInit /\ CInit /\ QInit /\ SInit

InRoot(A) ==
  part = "root" /\ A /\ UNCHANGED <<part, handleVars, composed, scopeVars, readerVars>>
InHandle(A) ==
  part = "handle" /\ A /\ UNCHANGED <<part, rootVars, composed, scopeVars, readerVars>>
Compilation(A) ==
  part = "compilation" /\ A /\ UNCHANGED <<part, rootVars, handleVars, scopeVars, readerVars>>
Scope(A) ==
  part = "scope" /\ A /\ UNCHANGED <<part, rootVars, handleVars, composed, readerVars>>
Reader(A) ==
  part = "reader" /\ A /\ UNCHANGED <<part, rootVars, handleVars, composed, scopeVars>>

SessionNext ==
  InRoot(PNext) \/ InHandle(HNext) \/ Compilation(CNext) \/ Scope(QNext) \/ Reader(SNext)

\* Each part with its own fairness: a call of the handle and its heartbeat go
\* on; settled promises go on; callbacks, queries and cancelled reads settle;
\* an aborted operation ends when it can.  Only one part ever has steps, so
\* one condition of each may share a WF.
SessionFairness ==
  /\ WF_sessionVars(InHandle(BeatStep) \/ Compilation(MonitorStep) \/ Scope(Resolve)
                    \/ Reader(Closeout))
  /\ WF_sessionVars(Compilation(ObservationSettles) \/ Reader(ReadSettles))
  /\ WF_sessionVars(Compilation(aborted /\ StagesEnd) \/ Reader(CancelSettles))
  /\ WF_sessionVars(Compilation(GroupSettle) \/ Reader(stopped /\ OperationEnds))
  /\ \A c \in Calls : WF_sessionVars(InHandle(CallStep(c)))
  /\ \A w \in Workers :
       WF_sessionVars(Compilation(GroupLoop(w))) /\ WF_sessionVars(Compilation(GroupCallback(w)))
  /\ \A q \in Queries : WF_sessionVars(Scope(Capture(q))) /\ WF_sessionVars(Scope(Finish(q)))

SessionSpec == SessionInit /\ [][SessionNext]_sessionVars /\ SessionFairness

-----------------------------------------------------------------------------
\* The types of all parts.
SessionTypeOK == PTypeOK /\ HTypeOK /\ MonTypeOK /\ TGTypeOK /\ QTypeOK /\ STypeOK

\* The protocol root converges: who gets past it leaves it canonical, a
\* session that runs undisturbed gets past whatever others left, and sessions
\* that race never all fail (ensureProtocolRoot).
RootConverges == ReadyIsCanonical /\ UndisturbedSucceeds /\ ContentionHasAWinner

\* A generation ends in one call, with its heartbeat drained and its failure
\* reported (closeAdmission, retire, release).
EndingIsOrderly == OneEnding /\ EndedIsQuiet /\ FailureIsReported

\* Whoever ends, ends after everything it started: the monitor after its
\* observations and the group's callbacks, the group after its workers, the
\* scope after its queries, the reader after its reads and with its lock free.
NothingIsLeftRunning ==
  /\ NoObservationOutlives /\ NoWorkWithoutLease /\ JoinsStarted
  /\ CapacityHolds /\ CloseDrains /\ ReleasedIsQuiet /\ EndedIsReleased

\* An outcome says what happened: results only under the lease, complete and
\* of one call per item, and every failure in the error.
OutcomesAreTrue ==
  /\ ReturnsUnderLease /\ FailuresAreReported
  /\ ResultsAreComplete /\ FailuresSurvive /\ CalledOnce

\* Nothing is started after the lease was found lost, or after close.
NothingStartsLate == NoWorkAfterLoss /\ NoExecutionAfterClose
=============================================================================
