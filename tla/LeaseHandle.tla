------------------------------ MODULE LeaseHandle ------------------------------
(***************************************************************************)
(* The handle of one acquired generation, inside the process that holds    *)
(* it: the interval timer that refreshes the heartbeat, the calls of       *)
(* heartbeat, relocate, retireOwnedNamespace, release and                  *)
(* withControlPlaneQuiesced that may be in flight together, and the        *)
(* control-plane lock that orders them.  Every await of the code is a      *)
(* place where another call or the timer may come in, so every await ends  *)
(* an action; code between two awaits is one action.                       *)
(*                                                                         *)
(* What other processes do to the ledger is WorkspaceWriteLease and        *)
(* LeaseRetirement; nobody else ends a held generation, so here its state  *)
(* is one terminal record, the holder directory and heartbeat candidates.  *)
(***************************************************************************)
EXTENDS Naturals, Sequences, FiniteSets

CONSTANTS Calls,     \* calls of the handle (and quiesced sections), each made once
          Beat,      \* the heartbeat's place in the control-plane queue
          MaxBeats,  \* bound on the heartbeats that are started
          MaxFaults  \* bound on the file-system calls that fail

ASSUME BeatAssumption == Beat \notin Calls
ASSUME BoundAssumption == MaxBeats \in Nat /\ MaxFaults \in Nat

Kinds == {"heartbeat", "relocate", "retire", "release", "quiesce"}
Roots == {"original", "tombstone"}

VARIABLES
  published,   \* <g>.terminal.json is published
  holder,     \* the holder directory exists
  residue,    \* a candidate of a failed heartbeat lies in the holder directory
  where,      \* the path the workspace directory is at
  (* the handle *)
  closing, released, active, timer,
  beatFailed,    \* heartbeatFailure is set
  current,    \* currentWorkspaceRoot
  beat,       \* progress of heartbeatPending, "none" when it is undefined
  beatRoot,   \* the root the pending heartbeat was started with
  ticked,     \* the timer waits for the pending heartbeat
  lock,       \* controlPlaneTails: the holder of the lock and its waiters
  (* the calls *)
  kind, pc,
  saw,        \* release: the heartbeat closeout failed
  (* bounds *)
  beats, faults

disk == <<published, holder, residue, where>>
handle == <<closing, released, active, timer, beatFailed, current>>
heart == <<beat, beatRoot, ticked, beats>>
call == <<kind, pc, saw>>
handleVars == <<disk, handle, heart, lock, call, faults>>

Writing == {"owned", "candidate", "renamed"}
Steps == {"idle", "beating", "checking", "moved", "asserting", "draining",
          "drained", "queued", "proved", "fenced", "terminal", "removed",
          "quiesced", "left", "done", "failed"}

HInit ==
  /\ published = FALSE /\ holder = TRUE /\ residue = FALSE
  /\ where = "original" /\ current = "original"
  /\ closing = FALSE /\ released = FALSE /\ active = TRUE /\ timer = TRUE
  /\ beatFailed = FALSE
  /\ beat = "none" /\ beatRoot = "original" /\ ticked = FALSE
  /\ lock = <<>>
  /\ kind = [c \in Calls |-> "none"]
  /\ pc = [c \in Calls |-> "idle"]
  /\ saw = [c \in Calls |-> FALSE]
  /\ beats = 0 /\ faults = 0

-----------------------------------------------------------------------------
\* assertOwned through a path: the workspace is there and the generation is
\* active with its holder.
Owned(root) == root = where /\ ~published /\ holder

\* The holder directory can be written through the heartbeat's path.
BeatReaches == beatRoot = where /\ holder

\* A candidate of this or of a failed heartbeat is in the holder directory.
Candidate == residue \/ beat = "candidate"

\* A file-system call that fails.
Fault == faults < MaxFaults /\ faults' = faults + 1

At(c, step) == pc' = [pc EXCEPT ![c] = step]

\* The first step of a call: which operation it is, and where it goes on.
Begin(c, op, step) ==
  /\ pc[c] = "idle"
  /\ kind' = [kind EXCEPT ![c] = op]
  /\ At(c, step)

Enqueue(job) == lock' = Append(lock, job)
Holds(job) == lock # <<>> /\ Head(lock) = job
Dequeue == lock' = Tail(lock)

-----------------------------------------------------------------------------
(* requestHeartbeat: join the pending heartbeat or start one.              *)

\* Mutant: a heartbeat is started while one is pending.
StartAnother ==
  /\ beats < MaxBeats
  /\ beats' = beats + 1
  /\ beat' = "queued"
  /\ beatRoot' = current
  /\ Enqueue(Beat)

StartBeat ==
  /\ beat = "none"
  /\ beats < MaxBeats
  /\ beats' = beats + 1
  /\ beat' = "queued"
  /\ beatRoot' = current
  /\ Enqueue(Beat)

JoinBeat ==
  /\ beat # "none"
  /\ UNCHANGED <<beat, beatRoot, beats, lock>>

\* The interval fires: its heartbeat is the pending one or a new one.
BeatTick ==
  /\ timer
  /\ StartBeat \/ JoinBeat
  /\ ~ticked
  /\ ticked' = TRUE
  /\ UNCHANGED <<disk, handle, call, faults>>

\* handle.heartbeat() while the handle is open and no heartbeat failed.
HeartbeatCall(c) ==
  /\ Begin(c, "heartbeat", "beating")
  /\ ~closing /\ ~released /\ ~beatFailed
  /\ StartBeat \/ JoinBeat
  /\ UNCHANGED <<disk, handle, ticked, saw, faults>>

-----------------------------------------------------------------------------
(* heartbeatNative under the control-plane lock.                           *)

\* The heartbeat settles: the lock passes on, the timer and a draining call
\* record its failure, and everyone who waited for it goes on.
BeatSettle(ok) ==
  /\ Dequeue
  /\ beat' = "none"
  /\ ticked' = FALSE
  /\ beatFailed' = (beatFailed \/ (~ok /\ (ticked \/ \E c \in Calls : pc[c] = "draining")))
  /\ pc' = [c \in Calls |->
              CASE pc[c] = "beating" -> IF ok THEN "done" ELSE "failed"
                [] pc[c] = "draining" -> "drained"
                [] OTHER -> pc[c]]
  /\ UNCHANGED <<closing, released, active, timer, current, beatRoot, beats,
                 kind, saw>>

BeatProve ==
  /\ beat = "queued" /\ Holds(Beat)
  /\ Owned(beatRoot)
  /\ beat' = "owned"
  /\ UNCHANGED <<disk, handle, beatRoot, ticked, beats, lock, call, faults>>

\* The candidate is opened, written and synced in the holder directory.
BeatCandidate ==
  /\ beat = "owned" /\ BeatReaches
  /\ beat' = "candidate"
  /\ UNCHANGED <<disk, handle, beatRoot, ticked, beats, lock, call, faults>>

\* rename over heartbeat.json.
BeatRename ==
  /\ beat = "candidate" /\ BeatReaches
  /\ beat' = "renamed"
  /\ UNCHANGED <<disk, handle, beatRoot, ticked, beats, lock, call, faults>>

BeatFinish ==
  /\ beat = "renamed" /\ Owned(beatRoot)
  /\ BeatSettle(TRUE)
  /\ UNCHANGED <<disk, faults>>

\* The path of the heartbeat is gone, or its generation has ended.  A candidate
\* that was written moves with the directory.
BeatLost ==
  /\ \/ beat = "queued" /\ Holds(Beat) /\ ~Owned(beatRoot)
     \/ beat \in {"owned", "candidate"} /\ ~BeatReaches
     \/ beat = "renamed" /\ ~Owned(beatRoot)
  /\ BeatSettle(FALSE)
  /\ residue' = (residue \/ (beat = "candidate" /\ holder))
  /\ UNCHANGED <<published, holder, where, faults>>

\* A call fails.  The candidate of a write that failed, or whose removal
\* fails after a failed rename, stays in the holder directory.
BeatFault ==
  /\ Fault
  /\ \/ beat \in Writing
     \/ beat = "queued" /\ Holds(Beat)
  /\ BeatSettle(FALSE)
  /\ residue' \in {residue} \cup IF beat \in {"owned", "candidate"} /\ BeatReaches
                                  THEN {TRUE} ELSE {}
  /\ UNCHANGED <<published, holder, where>>

-----------------------------------------------------------------------------
(* relocate: the worktree closeout renames the directory, then tells the   *)
(* handle.                                                                 *)

MoveWorkspace(c) ==
  /\ Begin(c, "relocate", "moved")
  /\ where = "original"
  /\ where' = "tombstone"
  /\ UNCHANGED <<published, holder, residue, handle, heart, lock, saw, faults>>

RelocateOpen(c) ==
  /\ pc[c] = "moved"
  /\ At(c, IF closing \/ released \/ beatFailed THEN "failed" ELSE "checking")
  /\ UNCHANGED <<disk, handle, heart, lock, kind, saw, faults>>

RelocateCommit(c) ==
  /\ pc[c] = "checking"
  /\ IF Owned("tombstone")
       THEN current' = "tombstone" /\ At(c, "done")
       ELSE UNCHANGED current /\ At(c, "failed")
  /\ UNCHANGED <<disk, closing, released, active, timer, beatFailed, heart, lock,
                 kind, saw, faults>>

-----------------------------------------------------------------------------
(* closeHeartbeatAdmission and drainHeartbeat, shared by retire and        *)
(* release: admission closes and the pending heartbeat is captured in one  *)
(* step.                                                                   *)

\* Mutant: the pending heartbeat is not waited for.
CloseWithoutDrain(c) ==
  /\ closing' = TRUE
  /\ timer' = FALSE
  /\ ticked' = ticked
  /\ At(c, "drained")
  /\ UNCHANGED <<released, active, beatFailed, current>>

\* Mutant: the handle is marked but its timer goes on.
CloseKeepsTimer(c) ==
  /\ closing' = TRUE
  /\ timer' = timer
  /\ ticked' = ticked
  /\ At(c, IF beat = "none" THEN "drained" ELSE "draining")
  /\ UNCHANGED <<released, active, beatFailed, current>>

CloseAdmission(c) ==
  /\ closing' = TRUE
  /\ timer' = FALSE
  /\ ticked' = ticked
  /\ At(c, IF beat = "none" THEN "drained" ELSE "draining")
  /\ UNCHANGED <<released, active, beatFailed, current>>

RetireCall(c) ==
  /\ Begin(c, "retire", "asserting")
  /\ ~closing /\ ~released /\ ~beatFailed
  /\ UNCHANGED <<disk, handle, heart, lock, saw, faults>>

\* assertHandle returned: closing and released are not read again.
RetireClose(c) ==
  /\ pc[c] = "asserting"
  /\ Owned(current)
  /\ CloseAdmission(c)
  /\ UNCHANGED <<disk, beat, beatRoot, beats, lock, kind, saw, faults>>

RetireRefused(c) ==
  /\ pc[c] = "asserting"
  /\ ~Owned(current)
  /\ At(c, "failed")
  /\ UNCHANGED <<disk, handle, heart, lock, kind, saw, faults>>

ReleaseCall(c) ==
  /\ pc[c] = "idle"
  /\ ~released
  /\ kind' = [kind EXCEPT ![c] = "release"]
  /\ CloseAdmission(c)
  /\ UNCHANGED <<disk, beat, beatRoot, beats, lock, saw, faults>>

\* The drain throws when a heartbeat failed: that ends a retirement, while a
\* release remembers it and goes on.
DrainedBeat(c) ==
  /\ pc[c] = "drained"
  /\ saw' = [saw EXCEPT ![c] = beatFailed]
  /\ IF \/ kind[c] = "retire" /\ beatFailed
        \/ kind[c] = "release" /\ ~active
       THEN At(c, "failed") /\ UNCHANGED lock
       ELSE At(c, "queued") /\ Enqueue(c)
  /\ UNCHANGED <<disk, handle, heart, kind, faults>>

-----------------------------------------------------------------------------
(* Under the control-plane lock.                                           *)

QuiesceCall(c) ==
  /\ Begin(c, "quiesce", "queued")
  /\ active
  /\ Enqueue(c)
  /\ UNCHANGED <<disk, handle, heart, saw, faults>>

\* A quiesced section names its root, which is the one the lease was acquired
\* under wherever the code calls it; a handle operation follows the handle.
Root(c) == IF kind[c] = "quiesce" THEN "original" ELSE current

\* The proof a call needs before it mutates: the generation is owned, and
\* for a quiesced section the holder holds its two files and nothing else.
\* Mutant: the ownership is not proved again inside the lock.
ProvesQuiesced(c) ==
  kind[c] = "quiesce" => Owned(Root(c)) /\ ~Candidate

Proves(c) ==
  /\ Owned(Root(c))
  /\ kind[c] = "quiesce" => ~Candidate

\* Mutant: a section does not wait for the job ahead of it.
EnterUnlocked(c) ==
  /\ pc[c] = "queued"
  /\ Proves(c)
  /\ At(c, IF kind[c] = "quiesce" THEN "quiesced" ELSE "proved")
  /\ UNCHANGED <<disk, handle, heart, lock, kind, saw, faults>>

Enter(c) ==
  /\ pc[c] = "queued" /\ Holds(c)
  /\ Proves(c)
  /\ At(c, IF kind[c] = "quiesce" THEN "quiesced" ELSE "proved")
  /\ UNCHANGED <<disk, handle, heart, lock, kind, saw, faults>>

\* Mutant: a failure inside the lock keeps it.
RefusedKeepsLock(c) ==
  /\ \/ pc[c] = "queued" /\ ~Proves(c)
     \/ pc[c] = "quiesced" /\ ~Proves(c)
  /\ Holds(c)
  /\ At(c, "failed")
  /\ UNCHANGED <<disk, handle, heart, lock, kind, saw, faults>>

\* A failure inside the lock passes it on.
Refused(c) ==
  /\ \/ pc[c] = "queued" /\ ~Proves(c)
     \/ pc[c] = "quiesced" /\ ~Proves(c)
  /\ Holds(c)
  /\ Dequeue
  /\ At(c, "failed")
  /\ UNCHANGED <<disk, handle, heart, kind, saw, faults>>

LockedFault(c) ==
  /\ Fault
  /\ pc[c] \in {"queued", "quiesced", "proved", "fenced", "terminal", "removed"}
  /\ Holds(c)
  /\ Dequeue
  /\ At(c, "failed")
  /\ UNCHANGED <<disk, handle, heart, kind, saw>>

\* The quiesced callback ran and the control plane is read back.
QuiesceLeave(c) ==
  /\ pc[c] = "quiesced" /\ Holds(c)
  /\ Proves(c)
  /\ Dequeue
  /\ At(c, "done")
  /\ UNCHANGED <<disk, handle, heart, kind, saw, faults>>

\* Transition proof and fence of a retirement come before its terminal.
RetireFence(c) ==
  /\ pc[c] = "proved" /\ kind[c] = "retire"
  /\ At(c, "fenced")
  /\ UNCHANGED <<disk, handle, heart, lock, kind, saw, faults>>

\* publishTerminal: the terminal of the same token is accepted.
PublishTerminal(c) ==
  /\ \/ pc[c] = "proved" /\ kind[c] = "release"
     \/ pc[c] = "fenced"
  /\ published' = TRUE
  /\ At(c, "terminal")
  /\ UNCHANGED <<holder, residue, where, handle, heart, lock, kind, saw, faults>>

\* The holder directory is removed with what is in it; a failure is swallowed.
RemoveHolder(c) ==
  /\ pc[c] = "terminal"
  /\ \/ holder' = FALSE /\ residue' = FALSE /\ UNCHANGED faults
     \/ Fault /\ UNCHANGED <<holder, residue>>
  /\ At(c, "removed")
  /\ UNCHANGED <<published, where, handle, heart, lock, kind, saw>>

\* The terminal is read back and the lock left.  A retirement first checks
\* that no holder is left, and clears the handle inside the lock.
RetireLeave(c) ==
  /\ pc[c] = "removed" /\ kind[c] = "retire" /\ Holds(c)
  /\ Dequeue
  /\ IF holder
       THEN At(c, "failed") /\ UNCHANGED handle
       ELSE /\ At(c, "done")
            /\ active' = FALSE /\ released' = TRUE /\ timer' = FALSE
            /\ UNCHANGED <<closing, beatFailed, current>>
  /\ UNCHANGED <<disk, heart, kind, saw, faults>>

ReleaseLeave(c) ==
  /\ pc[c] = "removed" /\ kind[c] = "release" /\ Holds(c)
  /\ Dequeue
  /\ At(c, "left")
  /\ UNCHANGED <<disk, handle, heart, kind, saw, faults>>

\* The key leaves the active set, and the call reports a failed heartbeat.
ReleaseReturn(c) ==
  /\ pc[c] = "left"
  /\ active' = FALSE
  /\ released' = TRUE
  /\ At(c, IF saw[c] THEN "failed" ELSE "done")
  /\ UNCHANGED <<disk, closing, timer, beatFailed, current, heart, lock, kind, saw,
                 faults>>

-----------------------------------------------------------------------------
BeatStep ==
  BeatProve \/ BeatCandidate \/ BeatRename \/ BeatFinish \/ BeatLost

CallStep(c) ==
  \/ RelocateOpen(c) \/ RelocateCommit(c)
  \/ RetireClose(c) \/ RetireRefused(c)
  \/ DrainedBeat(c) \/ Enter(c) \/ Refused(c) \/ QuiesceLeave(c)
  \/ RetireFence(c) \/ PublishTerminal(c) \/ RemoveHolder(c)
  \/ RetireLeave(c) \/ ReleaseLeave(c) \/ ReleaseReturn(c)

CallStart(c) ==
  \/ HeartbeatCall(c) \/ MoveWorkspace(c) \/ RetireCall(c)
  \/ ReleaseCall(c) \/ QuiesceCall(c)

HNext ==
  \/ BeatTick
  \/ BeatStep
  \/ BeatFault
  \/ \E c \in Calls : CallStart(c) \/ CallStep(c) \/ LockedFault(c)

HSpec == HInit /\ [][HNext]_handleVars

\* A promise that can go on does go on: nothing waits but for a settled
\* await.  New calls, timer ticks and failures are not forced.
Fairness == WF_handleVars(BeatStep) /\ \A c \in Calls : WF_handleVars(CallStep(c))

HFairSpec == HSpec /\ Fairness

-----------------------------------------------------------------------------
\* The types, and the shape of the queue: a job waits in it once, and the
\* heartbeat is in it exactly while it is pending.
HTypeOK ==
  /\ {published, holder, residue, closing, released, active, timer, beatFailed,
      ticked} \subseteq BOOLEAN
  /\ where \in Roots /\ current \in Roots /\ beatRoot \in Roots
  /\ beat \in {"none", "queued"} \cup Writing
  /\ lock \in Seq(Calls \cup {Beat})
  /\ \A i, j \in DOMAIN lock : lock[i] = lock[j] => i = j
  /\ beat # "none" <=> \E i \in DOMAIN lock : lock[i] = Beat
  /\ kind \in [Calls -> Kinds \cup {"none"}]
  /\ pc \in [Calls -> Steps]
  /\ saw \in [Calls -> BOOLEAN]
  /\ beats \in 0..MaxBeats /\ faults \in 0..MaxFaults

\* A quiesced callback runs on an owned generation, alone in the control
\* plane: no candidate of a heartbeat, and no terminal, appears until it has
\* read the control plane back (withControlPlaneQuiesced).
QuiescedIsCanonical ==
  \A c \in Calls : pc[c] = "quiesced" => ~published /\ holder /\ ~Candidate /\ beat \notin Writing

\* The generation is ended by one call: of releases and retirements that
\* race, at most one reports success.
OneEnding ==
  \A c, d \in Calls :
    /\ pc[c] = "done" /\ kind[c] \in {"release", "retire"}
    /\ pc[d] = "done" /\ kind[d] \in {"release", "retire"}
    => c = d

\* A failed heartbeat of the timer is not lost: no release or retirement
\* reports success on a handle whose heartbeat had failed.
FailureIsReported ==
  beatFailed => \A c \in Calls : kind[c] \in {"release", "retire"} => pc[c] # "done"

\* An ended handle is quiet: after a release or retirement returned, no
\* heartbeat is pending or queued and the timer is off (requestHeartbeat
\* refuses, the drain has waited for the one that was admitted).
EndedIsQuiet == released => beat = "none" /\ ~timer

\* A call was made and has not returned.
CallIsPending == \E c \in Calls : pc[c] \notin {"idle", "done", "failed"}
=============================================================================
