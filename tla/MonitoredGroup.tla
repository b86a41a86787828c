----------------------------- MODULE MonitoredGroup ----------------------------
(***************************************************************************)
(* A compilation under the workspace lease: the lease monitor runs the     *)
(* pipeline transaction as its operation, and the compose stage of the     *)
(* transaction hands the monitor's signal to a task group as its parent's  *)
(* signal.  The operation awaits the group, so it ends before the group    *)
(* has begun (an earlier stage failed) or after it has settled.            *)
(***************************************************************************)
EXTENDS LeaseMonitor, TaskGroup

composed == <<monVars, groupVars>>

CInit == MonInit /\ TGInit

\* The group has not begun, or it has settled.
GroupAwaited == next = 0 \/ outcome # "open"

\* Mutant: the operation does not wait for the group when it is aborted.
StagesThrowAtOnce ==
  /\ aborted \/ GroupAwaited
  /\ BodyThrows
  /\ UNCHANGED groupVars

\* A stage throws: one before or after compose, or compose with the group's error.
StagesThrow ==
  /\ GroupAwaited
  /\ BodyThrows
  /\ UNCHANGED groupVars

StagesReturn ==
  /\ outcome = "results"
  /\ BodyReturns
  /\ UNCHANGED groupVars

\* Mutant: the monitor's signal is not handed to the group.
ObservationUnlinked ==
  /\ SettleObservation
  /\ UNCHANGED groupVars

\* An observation settles; a loss aborts the monitor's signal, and with it the
\* signal the group has linked to it.
ObservationSettles ==
  /\ SettleObservation
  /\ IF aborted' # aborted /\ outcome = "open" /\ cause = NoReason
       THEN ParentCancels
       ELSE UNCHANGED groupVars

MonitorStep ==
  /\ \/ FirstAssertion \/ Observe \/ DrainedFailure \/ DrainedAssertion \/ Throws
  /\ UNCHANGED groupVars

Surroundings == (Lose \/ Tick \/ Release) /\ UNCHANGED groupVars

GroupLoop(w) == monitor = "running" /\ Loop(w) /\ UNCHANGED monVars
GroupCallback(w) == monitor = "running" /\ Callback(w) /\ UNCHANGED monVars
GroupSettle == monitor = "running" /\ next > 0 /\ Settle /\ UNCHANGED monVars

StagesEnd == StagesThrow \/ StagesReturn

CNext ==
  \/ Surroundings \/ MonitorStep \/ ObservationSettles \/ StagesEnd
  \/ \E w \in Workers : GroupLoop(w) \/ GroupCallback(w)
  \/ GroupSettle

-----------------------------------------------------------------------------
\* No callback of the group is running when the monitor has ended: the
\* enclosing writer releases the lease, and nothing that was started under it
\* still writes (withLeaseObservationMonitor around executeAll).
NoWorkWithoutLease ==
  monitor \in {"returned", "threw"} => \A w \in Workers : running[w] = 0

\* Once an observation has found the lease lost, no further item is started.
NoWorkAfterLoss == [][failure => next' = next]_composed
=============================================================================
