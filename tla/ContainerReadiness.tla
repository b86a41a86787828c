--------------------------- MODULE ContainerReadiness --------------------------
(***************************************************************************)
(* Bringing up the local container engine at most once: processes that     *)
(* call observeLocalContainerEngineReadiness in mode ensure-started.       *)
(*                                                                         *)
(* A call follows the lineage of operations to its tip (an operation's     *)
(* successor is named after its terminal), settles what an earlier call    *)
(* left unresolved there from what it sees of the engine, and otherwise    *)
(* starts the engine under the launcher's lease, with its intent and its   *)
(* attempt in the journal first.  Appending is a read, a check and a       *)
(* compare-and-swap, and every other process may come between; that the    *)
(* swap is atomic is what JournalMutation shows.                           *)
(*                                                                         *)
(* The engine goes up and down and time passes by themselves: what an      *)
(* observation finds, and whether a deadline is over, is a choice wherever *)
(* the code asks.  A call may stop half way: what it wrote stays.  If it   *)
(* throws, the launcher's lease is settled on the way out; if its process  *)
(* dies, the lease stays behind as a file that nobody may take over, and a *)
(* launcher it had started runs on.  A bound operation is its fresh nonce; *)
(* its deadline is a full budget after its binding, so a later one ends    *)
(* later unless the clock has been set back.                               *)
(***************************************************************************)
EXTENDS DurableExecution

CONSTANTS
  Caller,      \* processes
  NoCaller,
  DeadCaller,  \* the owner of a lease whose call is gone
  MaxOps,      \* bound on the lineage
  MaxNonces,   \* bound on the bound operations that leave a record
  MaxStops,    \* bound on the calls that stop half way
  ClockIsSetBack  \* whether Date.now() may go back

ASSUME ReadinessAssumption ==
  /\ NoCaller \notin Caller /\ DeadCaller \notin Caller /\ DeadCaller # NoCaller
  /\ MaxOps \in Nat \ {0} /\ MaxNonces \in Nat \ {0}
  /\ MaxStops \in Nat /\ ClockIsSetBack \in BOOLEAN
  /\ MaxRecords \in Nat /\ MaxAttempts \in Nat

VARIABLES
  durable,   \* durable[k]: the journal of the k-th operation of the lineage
  launcher,  \* who has the external-provider coordination lease
  call,      \* the progress of each process's call
  launched,  \* history: the attempts whose launcher was started
  inFlight,  \* history: those whose launcher has not reported back
  stops

readinessVars == <<durable, launcher, call, launched, inFlight, stops>>

Ops == 1..MaxOps
Nonces == 1..MaxNonces
Stations == {"idle", "read", "prepared", "settled", "recover", "verdictUp",
             "verdictDown", "successor", "ensure", "locked", "intent", "start",
             "launch", "launched", "reported", "lost", "abandon", "final", "ready", "served",
             "report", "close", "return", "commit"}
Outcomes == {"none", "ready", "unavailable", "refused", "exhausted", "noRoom", "conflict"}

DurableRecords == [kind : Kinds, by : Nonces, ref : Nonces \cup {NoNonce}, mode : Modes]

Idle(answer) ==
  [at |-> "idle", op |-> 1, nonce |-> NoNonce, before |-> NoNonce, claimed |-> FALSE,
   recs |-> <<>>, length |-> 0, next |-> "idle", answer |-> answer]

ReadinessInit ==
  /\ durable = [k \in Ops |-> <<>>]
  /\ launcher = NoCaller
  /\ call = [c \in Caller |-> Idle("none")]
  /\ launched = {}
  /\ inFlight = {}
  /\ stops = 0

-----------------------------------------------------------------------------
Recorded(k) == UNION {{durable[k][i].by, durable[k][i].ref} : i \in 1..Len(durable[k])}

Used == {call[c].nonce : c \in Caller} \cup UNION {Recorded(k) : k \in Ops}

\* A nonce nobody has: issueSemanticOperationAttemptContext draws it at random.
Free == Nonces \ Used
IsFresh(n) == n \in Free /\ \A m \in Free : n <= m

At(c, station) == call[c].at = station

Proceed(c, station) == call' = [call EXCEPT ![c].at = station]

\* The call is over, and the lease it holds comes to `owner'.
Leave(c, answer, owner) ==
  /\ call' = [call EXCEPT ![c] = Idle(answer)]
  /\ launcher' = IF launcher = c THEN owner ELSE launcher
  /\ UNCHANGED <<durable, launched, inFlight>>

\* The call returns or throws: its lease is settled.
End(c, answer) == Leave(c, answer, NoCaller) /\ UNCHANGED stops

Journal(c) == durable[call[c].op]

\* append up to the swap: read the journal, find the records acceptable and
\* their closure within the limits, or throw.  As c goes on it is `bound'.
PrepareAppend(c, bound, recs, station) ==
  LET j == Journal(c) IN
  \/ /\ AllowsAll(j, recs) /\ WithinLimits(j \o recs)
     /\ call' = [call EXCEPT ![c] = [bound EXCEPT !.at = "commit", !.recs = recs,
                                     !.length = Len(j), !.next = station]]
     /\ UNCHANGED <<durable, launcher, launched, inFlight, stops>>
  \/ /\ ~AllowsAll(j, recs)
     /\ End(c, "refused")
  \/ /\ AllowsAll(j, recs) /\ ~WithinLimits(j \o recs)
     /\ End(c, IF \E i \in 1..Len(recs) : recs[i].kind = "start"
                 THEN "exhausted" ELSE "noRoom")

Append1(c, r, station) == PrepareAppend(c, call[c], <<r>>, station)

\* Mutant: the journal is replaced without comparing it first.
CommitBlindly(c) ==
  /\ At(c, "commit")
  /\ durable' = [durable EXCEPT ![call[c].op] =
                   SubSeq(Journal(c), 1, call[c].length) \o call[c].recs]
  /\ call' = [call EXCEPT ![c].at = call[c].next, ![c].recs = <<>>, ![c].length = 0,
                          ![c].next = "idle"]
  /\ UNCHANGED <<launcher, launched, inFlight, stops>>

\* appendFsyncCas: the journal is as it was read, or the call throws.
CommitAppend(c) ==
  /\ At(c, "commit")
  /\ IF Len(Journal(c)) = call[c].length
       THEN /\ durable' = [durable EXCEPT ![call[c].op] = @ \o call[c].recs]
            /\ call' = [call EXCEPT ![c].at = call[c].next, ![c].recs = <<>>,
                                    ![c].length = 0, ![c].next = "idle"]
            /\ UNCHANGED <<launcher, launched, inFlight, stops>>
       ELSE End(c, "conflict")

-----------------------------------------------------------------------------
(* The call. *)

\* Everything up to the first read of the journal.
BeginCall(c) ==
  /\ At(c, "idle")
  /\ \E n \in Nonces :
       /\ IsFresh(n)
       /\ call' = [call EXCEPT ![c] = [Idle("none") EXCEPT !.at = "read", !.nonce = n]]
  /\ UNCHANGED <<durable, launcher, launched, inFlight, stops>>

\* The tip of the lineage: the first operation that is not settled or has no
\* successor.  A settled operation stays settled, so the reads of the loop are
\* one.
IsTip(k) ==
  /\ ~(Settled(durable[k]) /\ k < MaxOps /\ durable[k + 1] # <<>>)
  /\ \A i \in 1..(k - 1) : Settled(durable[i]) /\ durable[i + 1] # <<>>

ActiveNonce(j) == IF IsActive(j) THEN j[CHOOSE i \in Active(j) : TRUE].by ELSE NoNonce

ReadLineage(c) ==
  /\ At(c, "read")
  /\ \E k \in Ops :
       /\ IsTip(k)
       /\ call' = [call EXCEPT
            ![c].op = k,
            ![c].before = ActiveNonce(durable[k]),
            ![c].at = CASE durable[k] = <<>> -> "ensure"
                        [] IsActive(durable[k]) -> "recover"
                        [] Settled(durable[k]) -> "settled"
                        [] OTHER -> "prepared"]
  /\ UNCHANGED <<durable, launcher, launched, inFlight, stops>>

\* A journal without an active attempt: the engine is up and that is the
\* answer.
FindUp(c) ==
  /\ call[c].at \in {"prepared", "settled"}
  /\ End(c, "ready")

\* An intent without an attempt is not taken further.
FindDown(c) ==
  /\ At(c, "prepared")
  /\ End(c, "unavailable")

\* bindPostTerminalReadinessOperation.
Succeed(c) ==
  /\ call[c].at \in {"settled", "successor"}
  /\ call[c].op < MaxOps
  /\ \E n \in Nonces :
       /\ IsFresh(n)
       /\ call' = [call EXCEPT ![c].at = "ensure", ![c].op = @ + 1, ![c].nonce = n,
                               ![c].before = NoNonce]
  /\ UNCHANGED <<durable, launcher, launched, inFlight, stops>>

-----------------------------------------------------------------------------
(* Recovery of an unresolved attempt. *)

\* The engine is observed, and what was found becomes the readback of the
\* predecessor's attempt.
Recover(c) ==
  /\ At(c, "recover")
  /\ \/ Append1(c, Readback(call[c].before, call[c].nonce, "applied"), "verdictUp")
     \/ Append1(c, Readback(call[c].before, call[c].nonce, "not-applied"), "verdictDown")

\* The engine is up: the attempt is terminal and the call returns.
ResolveUp(c) ==
  /\ At(c, "verdictUp")
  /\ Append1(c, Resolution(call[c].before, call[c].nonce, "terminal"), "return")

\* The engine is down and the attempt's time is over: terminal, and on with
\* its successor.
ResolveExpired(c) ==
  /\ At(c, "verdictDown")
  /\ Append1(c, Resolution(call[c].before, call[c].nonce, "terminal"), "successor")

\* The engine is down and the attempt's time is not over: a retry, which is
\* refused because its deadline is later than the predecessor's.
RetryRefused(c) ==
  /\ At(c, "verdictDown")
  /\ End(c, "refused")

\* The clock has been set back in between: resolution and start in one append.
RetryAdmitted(c) ==
  /\ At(c, "verdictDown")
  /\ ClockIsSetBack
  /\ \E n \in Nonces :
       /\ IsFresh(n)
       /\ LET recs == <<Resolution(call[c].before, call[c].nonce, "retry"),
                        Start(n, call[c].nonce)>>
              bound == [call[c] EXCEPT !.nonce = n, !.claimed = TRUE]
          IN PrepareAppend(c, bound, recs, "ensure")

-----------------------------------------------------------------------------
(* ensureDockerDaemonStartedWithCommand. *)

\* The engine answers before the launcher's lease is asked for.
EnsureUp(c) ==
  /\ At(c, "ensure")
  /\ Proceed(c, "ready")
  /\ UNCHANGED <<durable, launcher, launched, inFlight, stops>>

\* Mutant: the lease is not asked for.
EnsureUnlocked(c) ==
  /\ At(c, "ensure")
  /\ launcher' = c
  /\ Proceed(c, "locked")
  /\ UNCHANGED <<durable, launched, inFlight, stops>>

\* The lease is free; or it is taken and the call gives up at once.
EnsureDown(c) ==
  /\ At(c, "ensure")
  /\ \/ /\ launcher = NoCaller
        /\ launcher' = c
        /\ Proceed(c, "locked")
        /\ UNCHANGED <<durable, launched, inFlight, stops>>
     \/ /\ launcher # NoCaller
        /\ End(c, "unavailable")

\* The deadline is over, or an observation of the engine fails: that ends the
\* call at its next step.
Exhausted(c) ==
  /\ call[c].at \in {"ensure", "locked", "start", "launch", "final"}
  /\ End(c, "unavailable")

\* The operation under the lease has returned in time: the lease is settled.
Unlock(c, station) ==
  /\ Proceed(c, station)
  /\ launcher' = NoCaller
  /\ UNCHANGED <<durable, launched, inFlight, stops>>

LockedUp(c) ==
  /\ At(c, "locked")
  /\ Unlock(c, "ready")

\* Still down under the lease: beforeDesktopLaunch, unless the retry has
\* already been claimed.
LockedDown(c) ==
  /\ At(c, "locked")
  /\ Proceed(c, IF call[c].claimed THEN "launch" ELSE "intent")
  /\ UNCHANGED <<durable, launcher, launched, inFlight, stops>>

\* createExclusiveFsync: the intent is the first record, or the key is taken.
CreateIntent(c) ==
  /\ At(c, "intent")
  /\ IF Journal(c) = <<>>
       THEN /\ durable' = [durable EXCEPT ![call[c].op] = <<Intent(call[c].nonce)>>]
            /\ Proceed(c, "start")
            /\ UNCHANGED <<launcher, launched, inFlight, stops>>
       ELSE End(c, "refused")

StartAttempt(c) ==
  /\ At(c, "start")
  /\ Append1(c, Start(call[c].nonce, NoNonce), "launch")

\* docker desktop start.
Launch(c) ==
  /\ At(c, "launch")
  /\ Proceed(c, "launched")
  /\ launched' = launched \cup {call[c].nonce}
  /\ inFlight' = inFlight \cup {call[c].nonce}
  /\ UNCHANGED <<durable, launcher, stops>>

\* The launcher has ended, or its transport has failed and nobody knows.
LauncherReports(c) ==
  /\ At(c, "launched")
  /\ Proceed(c, "reported")
  /\ inFlight' = inFlight \ {call[c].nonce}
  /\ UNCHANGED <<durable, launcher, launched, stops>>

\* Its settlement is recorded.
LaunchSettles(c) ==
  /\ At(c, "reported")
  /\ \E station \in {"final", "lost"} : Append1(c, Settlement(call[c].nonce), station)

RecordLoss(c) ==
  /\ At(c, "lost")
  /\ Append1(c, LostHandle(call[c].nonce), "abandon")

\* A launcher of unknown end fails the call whatever the engine says.
Abandon(c) ==
  /\ At(c, "abandon")
  /\ End(c, "unavailable")

\* The final readback finds the engine up; down, or with a failed transport,
\* the call fails (Exhausted).
FinalReadback(c) ==
  /\ At(c, "final")
  /\ Unlock(c, "served")

-----------------------------------------------------------------------------
(* The engine is up: the attempt, if there is one, is closed. *)

NothingToClose(c) ==
  /\ call[c].at \in {"ready", "served"} /\ ~IsActive(Journal(c))
  /\ End(c, "ready")

\* No launcher was needed: its settlement is recorded first.
SettleUnstarted(c) ==
  /\ At(c, "ready") /\ IsActive(Journal(c))
  /\ Append1(c, Settlement(call[c].nonce), "report")

Report(c) ==
  /\ At(c, "report") \/ (At(c, "served") /\ IsActive(Journal(c)))
  /\ Append1(c, Readback(call[c].nonce, call[c].nonce, "applied"), "close")

CloseAttempt(c) ==
  /\ At(c, "close")
  /\ Append1(c, Resolution(call[c].nonce, call[c].nonce, "terminal"), "return")

Return(c) ==
  /\ At(c, "return")
  /\ End(c, "ready")

-----------------------------------------------------------------------------
CallStep(c) ==
  \/ CommitAppend(c) \/ ReadLineage(c) \/ FindUp(c) \/ FindDown(c) \/ Succeed(c)
  \/ Recover(c) \/ ResolveUp(c) \/ ResolveExpired(c) \/ RetryRefused(c) \/ RetryAdmitted(c)
  \/ EnsureUp(c) \/ EnsureDown(c) \/ LockedUp(c) \/ LockedDown(c) \/ Exhausted(c)
  \/ CreateIntent(c) \/ StartAttempt(c) \/ Launch(c) \/ LauncherReports(c) \/ LaunchSettles(c)
  \/ RecordLoss(c) \/ Abandon(c) \/ FinalReadback(c)
  \/ NothingToClose(c) \/ SettleUnstarted(c) \/ Report(c) \/ CloseAttempt(c) \/ Return(c)

\* Mutant: the lease of a call that is gone is free, whatever its launcher does.
StopCallReclaimed(c) ==
  /\ ~At(c, "idle") /\ stops < MaxStops
  /\ stops' = stops + 1
  /\ Leave(c, "none", NoCaller)

\* Something outside the model throws and the lease is settled; or the process
\* dies, or the settlement fails, and its owner record stays behind.  A call
\* that awaits its launcher throws only after the launcher has reported.
StopCall(c) ==
  /\ ~At(c, "idle") /\ stops < MaxStops
  /\ stops' = stops + 1
  /\ \E owner \in {NoCaller, DeadCaller} :
       /\ At(c, "launched") => owner = DeadCaller
       /\ Leave(c, "none", owner)

ReadinessNext ==
  \E c \in Caller : BeginCall(c) \/ CallStep(c) \/ StopCall(c)

ReadinessSpec == ReadinessInit /\ [][ReadinessNext]_readinessVars

\* A call goes on, and the engine is asked for again and again.
ReadinessFairness == \A c \in Caller : WF_readinessVars(BeginCall(c) \/ CallStep(c))

-----------------------------------------------------------------------------
(* Properties. *)

ReadinessTypeOK ==
  /\ \A k \in Ops : \A i \in 1..Len(durable[k]) : durable[k][i] \in DurableRecords
  /\ launcher \in Caller \cup {NoCaller, DeadCaller}
  /\ \A c \in Caller :
       /\ call[c].at \in Stations /\ call[c].next \in Stations /\ call[c].answer \in Outcomes
       /\ call[c].op \in Ops /\ call[c].nonce \in Nonces \cup {NoNonce}
       /\ call[c].before \in Nonces \cup {NoNonce} /\ call[c].claimed \in BOOLEAN
       /\ call[c].length \in 0..MaxRecords
  /\ launched \subseteq Nonces /\ inFlight \subseteq launched
  /\ stops \in 0..MaxStops

\* A launcher is started only for an attempt that is durable, and once; so
\* after any stop the journal tells of every launch (beforeDesktopLaunch).  No
\* other is started before it has reported: its lease is held by the call that
\* awaits it, and if that has died by nobody who could give it up
\* (withLauncherLock, acquirePhysicalMutationLease).
LaunchIsRecorded ==
  /\ \A n \in launched : \E k \in Ops : \E i \in Places(durable[k], "start") : durable[k][i].by = n
  /\ \A c \in Caller : At(c, "launch") => call[c].nonce \notin launched
  /\ \A c \in Caller : call[c].at \in {"launch", "launched"} => launcher = c
  /\ \A m, n \in inFlight : m = n
  /\ inFlight # {} =>
       launcher = DeadCaller \/ \E c \in Caller : launcher = c /\ At(c, "launched")

\* One attempt is unresolved in the whole lineage, at its tip: an operation
\* has a journal only after its predecessor was settled.
OneFlight ==
  \A k \in Ops :
    /\ k > 1 /\ durable[k] # <<>> => Settled(durable[k - 1])
    /\ Cardinality(Active(durable[k])) <= 1
    /\ Settled(durable[k]) => ~IsActive(durable[k])

\* A second attempt of an operation follows a readback that found the first
\* without effect, by the very call that started the second; and no call had
\* recorded that the first took effect.
RetryIsJustified ==
  \A k \in Ops : \A i \in Places(durable[k], "start") :
    i > 2 => LET read == {r \in Places(durable[k], "readback") : r < i} IN
             /\ \A r \in read : durable[k][r].mode = "not-applied"
             /\ \E r \in read : durable[k][r].ref = durable[k][i].ref

\* An attempt that was let in can always be closed: its settlement, loss,
\* readback and resolution are never refused for want of room.
ClosureFits == \A c \in Caller : call[c].answer # "noRoom"

\* The journals only grow, and a settled one not even that: a call that lost
\* its race, or that wakes after its attempt was resolved by another, changes
\* nothing (appendFsyncCas, observeDurableExecutionJournal).
RecordsAreKept ==
  [][\A k \in Ops :
       /\ Len(durable[k]) <= Len(durable'[k])
       /\ SubSeq(durable'[k], 1, Len(durable[k])) = durable[k]
       /\ Settled(durable[k]) => durable'[k] = durable[k]]_readinessVars

\* As long as the engine is asked for, an unresolved attempt is resolved.
UnresolvedIsRecovered ==
  \A k \in Ops : IsActive(durable[k]) ~> ~IsActive(durable[k])

RecoverySpec == ReadinessSpec /\ ReadinessFairness

\* What launcher-lock.test.ts says of a lease whose process is gone: if calls
\* keep coming to ask for it, one of them reclaims it
\* (acquirePhysicalMutationLease).
DeadOwnerIsReclaimed ==
  []<>(\E c \in Caller : At(c, "ensure")) =>
    (launcher = DeadCaller ~> launcher # DeadCaller)

\* The engine does not come up by itself every time before the lease is asked
\* for.
ReclaimSpec == RecoverySpec /\ \A c \in Caller : SF_readinessVars(EnsureDown(c))
=============================================================================
