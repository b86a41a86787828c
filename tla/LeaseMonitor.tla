------------------------------ MODULE LeaseMonitor -----------------------------
(***************************************************************************)
(* withLeaseObservationMonitor: while an operation runs under a lease, an  *)
(* interval observes the lease; a lost lease aborts the operation, and no  *)
(* observation may still be running when the enclosing writer releases the *)
(* lease.  An observation is asynchronous: it starts, reads the lease, and *)
(* settles later.                                                          *)
(***************************************************************************)
EXTENDS Naturals

CONSTANT MaxTicks   \* bound on the observations the interval starts

ASSUME TicksAssumption == MaxTicks \in Nat

VARIABLES
  lease,       \* "held", then "lost" or "released" by the enclosing writer
  phase,       \* of the monitor
  failure,     \* a failed observation was recorded
  aborted,     \* controller.signal
  observation, \* the observation in flight: "none", "started", or what it read
  monitor,     \* where the monitor's own control is
  error,       \* what the operation threw: "none", "own", "cancelled", "assertion"
  thrown,      \* the failures the monitor's caller is given, in order
  ended,       \* history: the lease was held when the operation returned
  ticks

monVars == <<lease, phase, failure, aborted, observation, monitor, error, thrown,
             ended, ticks>>

MonInit ==
  /\ lease = "held" /\ phase = "starting" /\ failure = FALSE /\ aborted = FALSE
  /\ observation = "none" /\ monitor = "asserting" /\ error = "none" /\ thrown = <<>>
  /\ ended = FALSE /\ ticks = 0

-----------------------------------------------------------------------------
\* The lease is taken away by someone else, at any time it is held.
Lose ==
  /\ lease = "held"
  /\ lease' = "lost"
  /\ UNCHANGED <<phase, failure, aborted, observation, monitor, error, thrown,
                 ended, ticks>>

\* The first assertion; one that fails goes to the catch block.
FirstAssertion ==
  /\ monitor = "asserting"
  /\ IF lease = "held"
       THEN phase' = "active" /\ monitor' = "running" /\ UNCHANGED error
       ELSE phase' = "closing" /\ monitor' = "failing" /\ error' = "assertion"
  /\ UNCHANGED <<lease, failure, aborted, observation, thrown, ended, ticks>>

-----------------------------------------------------------------------------
(* The interval.                                                           *)

Tick ==
  /\ phase = "active" /\ ~failure /\ observation = "none"
  /\ ticks < MaxTicks
  /\ ticks' = ticks + 1
  /\ observation' = "started"
  /\ UNCHANGED <<lease, phase, failure, aborted, monitor, error, thrown, ended>>

\* assertLease reads the lease.
Observe ==
  /\ observation = "started"
  /\ observation' = lease
  /\ UNCHANGED <<lease, phase, failure, aborted, monitor, error, thrown, ended,
                 ticks>>

\* Mutant: an observation that failed stays pending.
SettleKeepsPending ==
  /\ observation \in {"held", "lost", "released"}
  /\ observation' = IF observation = "held" THEN "none" ELSE observation
  /\ IF observation # "held" /\ phase # "closed" /\ ~failure
       THEN failure' = TRUE /\ aborted' = TRUE
       ELSE UNCHANGED <<failure, aborted>>
  /\ UNCHANGED <<lease, phase, monitor, error, thrown, ended, ticks>>

\* observeFailure: the first failure is kept and aborts the operation.
SettleObservation ==
  /\ observation \in {"held", "lost", "released"}
  /\ observation' = "none"
  /\ IF observation # "held" /\ phase # "closed" /\ ~failure
       THEN failure' = TRUE /\ aborted' = TRUE
       ELSE UNCHANGED <<failure, aborted>>
  /\ UNCHANGED <<lease, phase, monitor, error, thrown, ended, ticks>>

-----------------------------------------------------------------------------
(* The operation ends.                                                     *)

BodyReturns ==
  /\ monitor = "running"
  /\ phase' = "closing" /\ monitor' = "draining"
  /\ ended' = (lease = "held")
  /\ UNCHANGED <<lease, failure, aborted, observation, error, thrown, ticks>>

\* With an error of its own, or with the cancellation when it was aborted.
BodyThrows ==
  /\ monitor = "running"
  /\ error' \in {"own"} \cup IF aborted THEN {"cancelled"} ELSE {}
  /\ phase' = "closing"
  /\ monitor' = IF failure THEN "failing-observed" ELSE "failing"
  /\ UNCHANGED <<lease, failure, aborted, observation, thrown, ended, ticks>>

\* Mutant: the observation in flight is not waited for.
DrainedAtOnce == TRUE

\* await pending.
Drained == observation = "none"

\* The success path: an observed failure is thrown, else the lease is
\* asserted once more and the result returned.
DrainedFailure ==
  /\ monitor = "draining" /\ Drained /\ failure
  /\ monitor' = "failing-observed" /\ error' = "observation"
  /\ UNCHANGED <<lease, phase, failure, aborted, observation, thrown, ended, ticks>>

\* Mutant: the result is returned without the last assertion.
DrainedReturns ==
  /\ monitor = "draining" /\ Drained /\ ~failure
  /\ monitor' = "returned" /\ phase' = "closed"
  /\ UNCHANGED <<lease, failure, aborted, observation, error, thrown, ended, ticks>>

DrainedAssertion ==
  /\ monitor = "draining" /\ Drained /\ ~failure
  /\ IF lease = "held"
       THEN monitor' = "returned" /\ phase' = "closed" /\ UNCHANGED error
       ELSE monitor' = "failing" /\ error' = "assertion" /\ UNCHANGED phase
  /\ UNCHANGED <<lease, failure, aborted, observation, thrown, ended, ticks>>

\* Mutant: the observed loss replaces what the operation threw.
ReportLoss == IF failure THEN <<"observation">> ELSE <<error>>

\* What the catch block throws.  main says whether a failed observation was
\* recorded before the drain; the same failure, or the monitor's own
\* cancellation, is not reported twice.
Report ==
  CASE monitor = "failing-observed" /\ error \in {"observation", "cancelled"} ->
         <<"observation">>
    [] monitor = "failing-observed" -> <<"observation", error>>
    [] failure -> <<error, "observation">>
    [] OTHER -> <<error>>

\* Mutant: the finally block leaves the phase.
ThrowsOpen ==
  /\ monitor \in {"failing", "failing-observed"} /\ Drained
  /\ monitor' = "threw"
  /\ thrown' = Report
  /\ UNCHANGED <<lease, phase, failure, aborted, observation, error, ended, ticks>>

\* The error path, and the finally block.
Throws ==
  /\ monitor \in {"failing", "failing-observed"} /\ Drained
  /\ monitor' = "threw" /\ phase' = "closed"
  /\ thrown' = Report
  /\ UNCHANGED <<lease, failure, aborted, observation, error, ended, ticks>>

\* withLease: the enclosing writer releases once the monitor has ended.
Release ==
  /\ monitor \in {"returned", "threw"} /\ lease = "held"
  /\ lease' = "released"
  /\ UNCHANGED <<phase, failure, aborted, observation, monitor, error, thrown,
                 ended, ticks>>

-----------------------------------------------------------------------------
Monitor ==
  \/ FirstAssertion \/ Observe \/ SettleObservation
  \/ DrainedFailure \/ DrainedAssertion \/ Throws
Body == BodyReturns \/ BodyThrows

MonNext == Lose \/ Tick \/ Monitor \/ Body \/ Release

MonSpec == MonInit /\ [][MonNext]_monVars

\* Settled promises go on.  The operation is only assumed to end once it is
\* aborted, which is what the signal is for.
MonFairSpec == MonSpec /\ WF_monVars(Monitor) /\ WF_monVars(aborted /\ Body)

-----------------------------------------------------------------------------
\* The types; the phase is closed exactly when the monitor has ended, which is
\* what makes a late observation ignore its failure.
MonTypeOK ==
  /\ lease \in {"held", "lost", "released"}
  /\ phase \in {"starting", "active", "closing", "closed"}
  /\ phase = "closed" <=> monitor \in {"returned", "threw"}
  /\ failure \in BOOLEAN /\ aborted \in BOOLEAN /\ ended \in BOOLEAN
  /\ observation \in {"none", "started", "held", "lost", "released"}
  /\ monitor \in {"asserting", "running", "draining", "failing", "failing-observed",
               "returned", "threw"}
  /\ error \in {"none", "own", "cancelled", "assertion", "observation"}
  /\ ticks \in 0..MaxTicks

\* No observation outlives the monitor: when the enclosing writer may
\* release, none is in flight that would read the released lease as lost
\* (both drains before the end of withLeaseObservationMonitor).
NoObservationOutlives == monitor \in {"returned", "threw"} => observation = "none"

\* A result is returned only if the lease was still held when the operation
\* returned, whatever the interval happened to see.
ReturnsUnderLease == monitor = "returned" => ended

\* Neither failure is lost: a recorded loss is always reported, and so is an
\* error of the operation itself, whichever came first.
FailuresAreReported ==
  monitor = "threw" =>
    /\ failure => \E i \in DOMAIN thrown : thrown[i] = "observation"
    /\ error \notin {"cancelled", "observation"} =>
         \E i \in DOMAIN thrown : thrown[i] = error

\* The interval noticed the loss of the lease, and the operation has not ended
\* with an error.
LossIsPending == failure /\ monitor # "threw"
=============================================================================
