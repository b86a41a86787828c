------------------------------- MODULE TaskGroup -------------------------------
(***************************************************************************)
(* runCapturedGroup, the one lifecycle behind runTaskGroup and             *)
(* mapTaskGroup: at most Concurrency workers take the items in order, the  *)
(* first rejection or the parent's cancellation closes admission, and the  *)
(* group settles after every started callback has settled.                 *)
(*                                                                         *)
(* A reason is the number of the item whose callback threw it, or 0 for    *)
(* the parent's cancellation.                                              *)
(***************************************************************************)
EXTENDS Naturals, FiniteSets

CONSTANTS N,           \* number of items
          Concurrency  \* the admitted concurrency

ASSUME SizeAssumption == N \in Nat /\ Concurrency \in Nat \ {0}

Items == 1..N
Workers == 1..(IF Concurrency <= N THEN Concurrency ELSE N)
Parent == 0
Reasons == 0..N
NoReason == N + 1

VARIABLES
  next,      \* items handed out so far
  running,   \* running[w]: the item whose callback worker w awaits, 0 if none
  live,      \* live[w]: the loop of worker w has not ended
  results,   \* items whose callback returned
  failures,  \* records of the callbacks that rejected
  primary,   \* the reason that closed admission, or NoReason
  cancelled, \* parentCancellation is set
  cause,     \* the reason of the linked signal, NoReason while it is not aborted
  outcome,   \* "open", "results" or "error"
  report     \* the reasons the group's error carries

groupVars == <<next, running, live, results, failures, primary, cancelled, cause,
          outcome, report>>

TGInit ==
  /\ next = 0
  /\ running = [w \in Workers |-> 0]
  /\ live = [w \in Workers |-> TRUE]
  /\ results = {} /\ failures = {}
  /\ primary = NoReason /\ cancelled = FALSE /\ cause = NoReason
  /\ outcome = "open" /\ report = {}

-----------------------------------------------------------------------------
\* Mutant: the bound of the loop is off by one.
AdmittingPast == primary = NoReason /\ cause = NoReason /\ next <= N

\* Mutant: the loop does not look at the signal.
AdmittingUnsignalled == primary = NoReason /\ next < N

Admitting == primary = NoReason /\ cause = NoReason /\ next < N

\* Mutant: the counter is read before the await and not advanced by it.
TakeItemAgain(w) ==
  /\ live[w] /\ running[w] = 0
  /\ Admitting
  /\ next' \in {next, next + 1}
  /\ running' = [running EXCEPT ![w] = next + 1]
  /\ UNCHANGED <<live, results, failures, primary, cancelled, cause, outcome, report>>

\* The loop takes the next item and calls it.
TakeItem(w) ==
  /\ live[w] /\ running[w] = 0
  /\ Admitting
  /\ next' = next + 1
  /\ running' = [running EXCEPT ![w] = next + 1]
  /\ UNCHANGED <<live, results, failures, primary, cancelled, cause, outcome, report>>

\* Mutant: a loop ends only when the items are used up.
WorkerEndsLast(w) ==
  /\ live[w] /\ running[w] = 0
  /\ next = N
  /\ live' = [live EXCEPT ![w] = FALSE]
  /\ UNCHANGED <<next, running, results, failures, primary, cancelled, cause,
                 outcome, report>>

WorkerEnds(w) ==
  /\ live[w] /\ running[w] = 0
  /\ ~Admitting
  /\ live' = [live EXCEPT ![w] = FALSE]
  /\ UNCHANGED <<next, running, results, failures, primary, cancelled, cause,
                 outcome, report>>

CallbackReturns(w) ==
  /\ running[w] # 0
  /\ results' = results \cup {running[w]}
  /\ running' = [running EXCEPT ![w] = 0]
  /\ UNCHANGED <<next, live, failures, primary, cancelled, cause, outcome, report>>

\* Mutant: a failure that comes while the parent is cancelled replaces it.
FirstFailureOwn(reason) ==
  /\ cancelled' = FALSE
  /\ primary' = reason
  /\ cause' = IF cause = NoReason THEN reason ELSE cause

\* The first rejection: a cancellation of the parent that came before it
\* stays the primary reason; the group's own signal is aborted with it.
FirstFailure(reason) ==
  /\ cancelled' = (cause # NoReason)
  /\ primary' = IF cause # NoReason THEN cause ELSE reason
  /\ cause' = IF cause # NoReason THEN cause ELSE reason

\* A callback rejects, with an error of its own or, once the signal is
\* aborted, with the reason of the signal.
CallbackRejects(w) ==
  /\ running[w] # 0
  /\ \E reason \in {running[w]} \cup ({cause} \ {NoReason}) :
       /\ failures' = failures \cup {[index |-> running[w], reason |-> reason]}
       /\ IF primary = NoReason
            THEN FirstFailure(reason)
            ELSE UNCHANGED <<primary, cancelled, cause>>
  /\ running' = [running EXCEPT ![w] = 0]
  /\ UNCHANGED <<next, live, results, outcome, report>>

\* The parent cancels: the linked signal keeps the first reason it got.
ParentCancels ==
  /\ outcome = "open" /\ cause = NoReason
  /\ cause' = Parent
  /\ UNCHANGED <<next, running, live, results, failures, primary, cancelled,
                 outcome, report>>

-----------------------------------------------------------------------------
FailureReasons == {f.reason : f \in failures}

\* Mutant: the group settles with its first failure.
JoinedOrFailed == primary # NoReason \/ \A w \in Workers : ~live[w]

\* Promise.all over the workers.
Joined == \A w \in Workers : ~live[w]

\* Mutant: a cancelled parent is noticed only by the callbacks.
SettleUnchecked ==
  /\ outcome = "open" /\ Joined
  /\ outcome' = IF failures = {} THEN "results" ELSE "error"
  /\ report' = FailureReasons
  /\ UNCHANGED <<next, running, live, results, failures, primary, cancelled, cause>>

Settle ==
  /\ outcome = "open" /\ Joined
  /\ IF failures = {} /\ cause = NoReason
       THEN outcome' = "results" /\ report' = {}
       ELSE /\ outcome' = "error"
            /\ report' = FailureReasons
                 \cup (IF cancelled THEN {Parent} ELSE {})
                 \cup (IF failures = {} THEN {cause} ELSE {})
  /\ UNCHANGED <<next, running, live, results, failures, primary, cancelled, cause>>

Callback(w) == CallbackReturns(w) \/ CallbackRejects(w)
Loop(w) == TakeItem(w) \/ WorkerEnds(w)

TGNext ==
  \/ \E w \in Workers : Loop(w) \/ Callback(w)
  \/ ParentCancels
  \/ Settle

TGSpec == TGInit /\ [][TGNext]_groupVars

\* The loops run on, and a callback is assumed to settle: the group joins,
\* it does not stop an uncooperative callback.
TGFairness ==
  /\ WF_groupVars(Settle)
  /\ \A w \in Workers : WF_groupVars(Loop(w)) /\ WF_groupVars(Callback(w))

TGFairSpec == TGSpec /\ TGFairness

-----------------------------------------------------------------------------
TGTypeOK ==
  /\ next \in 0..N
  /\ running \in [Workers -> 0..N]
  /\ live \in [Workers -> BOOLEAN]
  /\ results \subseteq Items
  /\ failures \subseteq [index : Items, reason : Reasons]
  /\ primary \in Reasons \cup {NoReason} /\ cause \in Reasons \cup {NoReason}
  /\ cancelled \in BOOLEAN
  /\ outcome \in {"open", "results", "error"} /\ report \subseteq Reasons

\* The group settles only after every started callback has: no callback is
\* running once it has an outcome, so nothing it acquires for its callbacks
\* is released under one (the join of runCapturedGroup).
JoinsStarted == outcome # "open" => \A w \in Workers : running[w] = 0

\* A group that returns results has one for every item: the parent's
\* cancellation cannot shorten the work and still pass for success.
ResultsAreComplete == outcome = "results" => results = Items /\ failures = {}

\* No failure is dropped: the error carries the reason of every callback that
\* rejected, and the parent's cancellation when that closed admission.
FailuresSurvive ==
  outcome = "error" =>
    /\ FailureReasons \subseteq report
    /\ primary # NoReason => primary \in report
    /\ cause = Parent => Parent \in report

\* Each item is called at most once: an item that is running has neither
\* result nor failure, and no two workers run the same one.
CalledOnce ==
  /\ \A v, w \in Workers : running[v] # 0 /\ running[v] = running[w] => v = w
  /\ \A w \in Workers : running[w] \notin results \cup {f.index : f \in failures}
  /\ \A f \in failures : f.index \notin results

\* The group has begun and not settled.
GroupIsPending == next > 0 /\ outcome = "open"
=============================================================================
