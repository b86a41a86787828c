---------------------------- MODULE JournalMutation ----------------------------
(***************************************************************************)
(* The mutations of one runtime-state journal file by several processes.   *)
(* Three files belong to it: the anchor, whose inode carries the native    *)
(* exclusive guard, the control record (phase, active owner and recovery   *)
(* owner) and the payload.  A first creation makes them in that order and  *)
(* a retirement removes them in the reverse order, and every step may be   *)
(* the last of its process.                                                *)
(*                                                                         *)
(* A session is one call in one process, its owner token and the value it  *)
(* writes.  Calls are synchronous inside a process.  A generation numbers  *)
(* the anchors; conditional replacement, exclusive publication and the     *)
(* settlement of an interrupted replacement under the guard are atomic.    *)
(***************************************************************************)
EXTENDS Naturals, FiniteSets

CONSTANTS Session,   \* calls
          None,      \* no session, no value
          Initial,   \* what an existing journal holds
          MaxAborts  \* bound on processes that stop and file-system calls that fail

ASSUME JournalAssumption ==
  /\ None \notin Session /\ Initial \notin Session /\ Initial # None
  /\ IsFiniteSet(Session) /\ MaxAborts \in Nat

VARIABLES
  anchor,   \* the generation of the anchor file, 0 if there is none
  record,   \* the control record, or NoRecord
  payload,  \* the journal itself, None if there is no file
  guard,    \* the session whose process has the anchor locked, or None
  born,     \* generations made so far
  stage, job,  \* of each session
  applied,  \* history: the sessions that have changed the payload
  owed,     \* history: the owner that stopped without a release and whose
            \* effects nobody has acknowledged since, or None
  aborts

disk == <<anchor, record, payload>>
jvars == <<disk, guard, born, stage, job, applied, owed, aborts>>

Operations == {"cas", "create", "mutate", "delete", "remove", "retire", "probe"}
Creating == {"cas", "create", "mutate"}
Values == Session \cup {None, Initial}
Owners == Session \cup {None}
Generations == 0..(1 + Cardinality(Session))
Steps == {"idle", "begin", "admit", "check", "anchor", "record", "lock", "acquire",
          "held", "run", "write", "complete", "release", "unlink", "fence",
          "removePayload", "removeRecord", "removeAnchor", "ended"}

Records == [gen : Generations, phase : {"initializing", "ready", "retiring"},
            active : Owners, recovery : Owners]
NoRecord == [gen |-> 0, phase |-> "none", active |-> None, recovery |-> None]

\* What a session keeps: the call, whether the file was absent before the
\* lease, the admitted generation, whether it made it and has entered its first
\* publication, the record it replaced, and its answer.
NoJob == [op |-> "none", want |-> None, absent |-> FALSE, gen |-> 0, init |-> FALSE,
          entered |-> FALSE, seen |-> NoRecord, answer |-> "none"]

\* No journal yet, or one that is there and idle.
JInit ==
  /\ \/ anchor = 0 /\ record = NoRecord /\ payload = None /\ born = 0
     \/ /\ anchor = 1 /\ born = 1 /\ payload = Initial
        /\ record = [gen |-> 1, phase |-> "ready", active |-> None, recovery |-> None]
  /\ guard = None
  /\ stage = [s \in Session |-> "idle"]
  /\ job = [s \in Session |-> NoJob]
  /\ applied = {} /\ owed = None /\ aborts = 0

-----------------------------------------------------------------------------
Go(s, step) == stage' = [stage EXCEPT ![s] = step]
Answers(s, answer) == job' = [job EXCEPT ![s].answer = answer]
Ends(s, answer) == Go(s, "ended") /\ Answers(s, answer)
Aborts == aborts < MaxAborts /\ aborts' = aborts + 1

\* A caller that knows the journal's present content calls.
Call(s) ==
  /\ stage[s] = "idle"
  /\ \E op \in Operations :
       job' = [job EXCEPT ![s] = [NoJob EXCEPT !.op = op, !.want = payload]]
  /\ Go(s, "begin")
  /\ UNCHANGED <<disk, guard, born, applied, owed, aborts>>

\* The read before the lease, and the answers it gives at once.
Begin(s) ==
  /\ stage[s] = "begin"
  /\ LET op == job[s].op IN
     IF \/ op = "cas" /\ payload = None /\ job[s].want # None
        \/ op = "create" /\ payload # None
        \/ op \in {"delete", "remove"} /\ payload = None
       THEN Ends(s, "false")
       ELSE /\ job' = [job EXCEPT ![s].absent = (op \in Creating /\ payload = None)]
            /\ Go(s, "admit")
  /\ UNCHANGED <<disk, guard, born, applied, owed, aborts>>

\* readPhysicalJournalMutationResource, and prepareMutation when it finds none.
Admit(s) ==
  /\ stage[s] = "admit"
  /\ CASE record.phase = "ready" ->
            Go(s, "lock") /\ job' = [job EXCEPT ![s].gen = record.gen]
       [] record = NoRecord /\ anchor = 0 /\ job[s].absent /\ payload = None ->
            Go(s, "check") /\ UNCHANGED job
       [] OTHER -> Ends(s, "error")
  /\ UNCHANGED <<disk, guard, born, applied, owed, aborts>>

-----------------------------------------------------------------------------
(* initializePhysicalJournalMutationResource.                              *)

InitCheck(s) ==
  /\ stage[s] = "check"
  /\ IF anchor = 0 /\ record = NoRecord /\ payload = None
       THEN Go(s, "anchor") /\ UNCHANGED job
       ELSE Ends(s, "error")
  /\ UNCHANGED <<disk, guard, born, applied, owed, aborts>>

\* Exclusive publication: of two creators one fails.
PublishAnchor(s) ==
  /\ stage[s] = "anchor"
  /\ IF anchor = 0
       THEN /\ anchor' = born + 1 /\ born' = born + 1
            /\ job' = [job EXCEPT ![s] = [@ EXCEPT !.gen = born + 1, !.init = TRUE]]
            /\ Go(s, "record")
       ELSE Ends(s, "error") /\ UNCHANGED <<anchor, born>>
  /\ UNCHANGED <<record, payload, guard, applied, owed, aborts>>

\* The first record, under the guard for as long as it takes.
PublishRecord(s) ==
  /\ stage[s] = "record"
  /\ IF guard = None /\ anchor = job[s].gen /\ payload = None /\ record = NoRecord
       THEN /\ record' = [gen |-> job[s].gen, phase |-> "initializing",
                          active |-> None, recovery |-> None]
            /\ Go(s, "lock") /\ UNCHANGED job
       ELSE Ends(s, "error") /\ UNCHANGED record
  /\ UNCHANGED <<anchor, payload, guard, born, applied, owed, aborts>>

-----------------------------------------------------------------------------
(* acquireGuardedMutationLease.                                            *)

\* Mutant: a lock that is taken is shared.
LockShared(s) ==
  /\ stage[s] = "lock"
  /\ IF anchor # job[s].gen
       THEN Ends(s, "error") /\ UNCHANGED guard
       ELSE guard' = s /\ Go(s, "acquire") /\ UNCHANGED job
  /\ UNCHANGED <<disk, born, applied, owed, aborts>>

\* The native lock of the admitted anchor.  It never waits: a compare-and-set
\* that finds it taken answers FALSE, an unconditional call fails.
Lock(s) ==
  /\ stage[s] = "lock"
  /\ CASE anchor # job[s].gen -> Ends(s, "error") /\ UNCHANGED guard
       [] anchor = job[s].gen /\ guard # None ->
            /\ Ends(s, IF job[s].op \in {"mutate", "remove"} THEN "error" ELSE "false")
            /\ UNCHANGED guard
       [] OTHER -> guard' = s /\ Go(s, "acquire") /\ UNCHANGED job
  /\ UNCHANGED <<disk, born, applied, owed, aborts>>

\* Mutant: a record of the admitted generation is enough.
AdmissibleAnyPhase(s) == record.gen = job[s].gen

\* An initializing record belongs to its original creator, before any payload.
Admissible(s) ==
  /\ record.gen = job[s].gen
  /\ \/ record.phase = "ready"
     \/ /\ record.phase = "initializing" /\ job[s].init
        /\ record.active = None /\ payload = None

\* Mutant: the owner the record names last is the predecessor.
PredecessorActive == record.active

\* The owner whose effects are still to be acknowledged.
Predecessor == IF record.recovery # None THEN record.recovery ELSE record.active

AcquireLease(s) ==
  /\ stage[s] = "acquire"
  /\ IF Admissible(s)
       THEN /\ record' = [record EXCEPT !.active = s, !.recovery = Predecessor]
            /\ job' = [job EXCEPT ![s].seen = record]
            /\ Go(s, "held") /\ UNCHANGED guard
       ELSE Ends(s, "error") /\ guard' = None /\ UNCHANGED record
  /\ UNCHANGED <<anchor, payload, born, applied, owed, aborts>>

-----------------------------------------------------------------------------
(* The prepared mutation.                                                  *)

\* Mutant: the acknowledgement drops the owner too.
AcknowledgeTerminal(s) ==
  /\ stage[s] = "held" /\ job[s].op # "probe"
  /\ record' = [record EXCEPT !.active = None, !.recovery = None]
  /\ owed' = None
  /\ Go(s, IF job[s].op = "retire" THEN "fence" ELSE "run")
  /\ UNCHANGED <<anchor, payload, guard, born, job, applied, aborts>>

\* run and retire acknowledge the predecessor first.
Acknowledge(s) ==
  /\ stage[s] = "held" /\ job[s].op # "probe"
  /\ record' = [record EXCEPT !.recovery = None]
  /\ owed' = None
  /\ Go(s, IF job[s].op = "retire" THEN "fence" ELSE "run")
  /\ UNCHANGED <<anchor, payload, guard, born, job, applied, aborts>>

\* dispose of a mutation that was prepared and never run: the record it found
\* is put back while it names a predecessor.
DisposeUnrun(s) ==
  /\ stage[s] = "held" /\ job[s].op = "probe"
  /\ IF record.recovery # None
       THEN record' = job[s].seen
       ELSE record' = [record EXCEPT !.active = None]
  /\ guard' = None
  /\ Ends(s, "true")
  /\ UNCHANGED <<anchor, payload, born, applied, owed, aborts>>

\* Mutant: the read before the lease decides.
MetBefore(s) == job[s].op \in {"cas", "delete", "remove"}

\* The expectation of a conditional call; an absent file is never deleted.
Met(s) ==
  \/ job[s].op = "cas" /\ payload = job[s].want
  \/ job[s].op = "delete" /\ payload # None /\ payload = job[s].want
  \/ job[s].op = "remove" /\ payload # None

\* The operation reads the payload under the guard and goes on to write, or
\* has its answer: an expectation that is not met, a mutation that changes
\* nothing, or one that throws.
Run(s) ==
  LET op == job[s].op IN
  /\ stage[s] = "run"
  /\ \/ /\ \/ op = "create"
           \/ op = "mutate"
           \/ Met(s)
        /\ Go(s, "write") /\ UNCHANGED job
     \/ /\ op \in {"cas", "delete", "remove"} /\ ~Met(s)
        /\ Go(s, "release") /\ Answers(s, "false")
     \/ /\ op = "mutate"
        /\ \/ payload # None /\ Answers(s, "true")
           \/ Answers(s, "error")
        /\ Go(s, "release")
  /\ UNCHANGED <<disk, guard, born, applied, owed, aborts>>

\* A file that was absent before the lease is published exclusively.
Exclusive(s) == job[s].absent
New(s) == IF job[s].op \in Creating THEN s ELSE None
Conflict(s) == Exclusive(s) /\ payload # None

WritePayload(s) ==
  /\ stage[s] = "write" /\ ~Conflict(s)
  /\ payload' = New(s)
  /\ applied' = applied \cup {s}
  /\ job' = [job EXCEPT ![s] = [@ EXCEPT !.entered = TRUE, !.answer = "true"]]
  /\ Go(s, IF record.phase = "initializing" THEN "complete" ELSE "release")
  /\ UNCHANGED <<anchor, record, guard, born, owed, aborts>>

\* createExclusiveFsync answers FALSE when the file is there after an error,
\* also when the file is its own.
WriteConflict(s) ==
  /\ stage[s] = "write" /\ Conflict(s)
  /\ job' = [job EXCEPT ![s] =
       [@ EXCEPT !.entered = TRUE,
                 !.answer = IF job[s].op = "create" THEN "false" ELSE "error"]]
  /\ Go(s, "release")
  /\ UNCHANGED <<disk, guard, born, applied, owed, aborts>>

\* The publication or deletion fails, before or after its effect.
WriteFails(s) ==
  /\ stage[s] = "write" /\ ~Conflict(s) /\ Aborts
  /\ \/ payload' = New(s) /\ applied' = applied \cup {s}
     \/ UNCHANGED <<payload, applied>>
  /\ job' = [job EXCEPT ![s] =
       [@ EXCEPT !.entered = TRUE,
                 !.answer = IF job[s].op = "create" /\ payload' # None
                              THEN "false" ELSE "error"]]
  /\ Go(s, "release")
  /\ UNCHANGED <<anchor, record, guard, born, owed>>

\* The first publication is read back and the record becomes ready.
Complete(s) ==
  /\ stage[s] = "complete"
  /\ record' = [record EXCEPT !.phase = "ready"]
  /\ Go(s, "release")
  /\ UNCHANGED <<anchor, payload, guard, born, job, applied, owed, aborts>>

-----------------------------------------------------------------------------
(* release.                                                                *)

ReleaseReady(s) ==
  /\ stage[s] = "release" /\ record.phase = "ready"
  /\ record' = [record EXCEPT !.active = None, !.recovery = None]
  /\ guard' = None
  /\ Go(s, "ended")
  /\ UNCHANGED <<anchor, payload, born, job, applied, owed, aborts>>

\* Mutant: an initialization nobody used is left.
ReleaseUnentered(s) ==
  /\ stage[s] = "release" /\ record.phase = "initializing" /\ ~job[s].entered
  /\ guard' = None
  /\ Ends(s, "error")
  /\ UNCHANGED <<disk, born, applied, owed, aborts>>

\* A first creation whose operation never published anything takes its two
\* files back: the record here, then the anchor.
CancelRecord(s) ==
  /\ stage[s] = "release" /\ record.phase = "initializing" /\ ~job[s].entered
  /\ record' = NoRecord
  /\ Go(s, "unlink")
  /\ UNCHANGED <<anchor, payload, guard, born, job, applied, owed, aborts>>

CancelAnchor(s) ==
  /\ stage[s] = "unlink"
  /\ anchor' = 0
  /\ guard' = None
  /\ Go(s, "ended")
  /\ UNCHANGED <<record, payload, born, job, applied, owed, aborts>>

\* One whose publication is unresolved stays as it is, and the call fails.
ReleaseResidue(s) ==
  /\ stage[s] = "release" /\ record.phase = "initializing" /\ job[s].entered
  /\ guard' = None
  /\ Ends(s, "error")
  /\ owed' = s
  /\ UNCHANGED <<disk, born, applied, aborts>>

-----------------------------------------------------------------------------
(* Terminal retirement.                                                    *)

\* A payload that is not the expected one ends the retirement; its owner stays
\* in the record.
RetireFence(s) ==
  /\ stage[s] = "fence"
  /\ IF payload # None /\ payload = job[s].want
       THEN /\ record' = [record EXCEPT !.phase = "retiring"]
            /\ Go(s, "removePayload") /\ UNCHANGED <<guard, job, owed>>
       ELSE Ends(s, "error") /\ guard' = None /\ owed' = s /\ UNCHANGED record
  /\ UNCHANGED <<anchor, payload, born, applied, aborts>>

RemovePayload(s) ==
  /\ stage[s] = "removePayload"
  /\ payload' = None
  /\ applied' = applied \cup {s}
  /\ Go(s, "removeRecord")
  /\ UNCHANGED <<anchor, record, guard, born, job, owed, aborts>>

\* Mutant: the anchor goes before the record.
RemoveRecordLast(s) ==
  /\ stage[s] = "removeRecord"
  /\ anchor' = 0
  /\ Go(s, "removeAnchor")
  /\ UNCHANGED <<record, payload, guard, born, job, applied, owed, aborts>>

RemoveRecord(s) ==
  /\ stage[s] = "removeRecord"
  /\ record' = NoRecord
  /\ Go(s, "removeAnchor")
  /\ UNCHANGED <<anchor, payload, guard, born, job, applied, owed, aborts>>

RemoveAnchor(s) ==
  /\ stage[s] = "removeAnchor"
  /\ anchor' = 0
  /\ guard' = None
  /\ Ends(s, "true")
  /\ UNCHANGED <<record, payload, born, applied, owed, aborts>>

-----------------------------------------------------------------------------
\* The process stops, or an operation on the record fails: the guard is free,
\* the files stay, the owner may have left something behind.
Abort(s) ==
  /\ stage[s] \notin {"idle", "ended"} /\ Aborts
  /\ Ends(s, "error")
  /\ guard' = IF guard = s THEN None ELSE guard
  /\ owed' = IF guard = s /\ record.active = s /\ record.recovery = None
               THEN s ELSE owed
  /\ UNCHANGED <<disk, born, applied>>

JStep(s) ==
  \/ Begin(s) \/ Admit(s) \/ InitCheck(s) \/ PublishAnchor(s) \/ PublishRecord(s)
  \/ Lock(s) \/ AcquireLease(s) \/ Acknowledge(s) \/ DisposeUnrun(s)
  \/ Run(s) \/ WritePayload(s) \/ WriteConflict(s) \/ WriteFails(s) \/ Complete(s)
  \/ ReleaseReady(s) \/ CancelRecord(s) \/ CancelAnchor(s) \/ ReleaseResidue(s)
  \/ RetireFence(s) \/ RemovePayload(s) \/ RemoveRecord(s) \/ RemoveAnchor(s)

JNext == \E s \in Session : Call(s) \/ JStep(s) \/ Abort(s)

JSpec == JInit /\ [][JNext]_jvars

-----------------------------------------------------------------------------
Held == {"acquire", "held", "run", "write", "complete", "release", "unlink",
         "fence", "removePayload", "removeRecord", "removeAnchor"}

\* The types; the session that works under the guard is the one that has it.
JTypeOK ==
  /\ anchor \in Generations /\ born \in Generations
  /\ record \in Records \cup {NoRecord}
  /\ payload \in Values
  /\ guard \in Owners /\ owed \in Owners
  /\ stage \in [Session -> Steps]
  /\ job \in [Session -> [op : Operations \cup {"none"}, want : Values, absent : BOOLEAN,
                          gen : Generations, init : BOOLEAN, entered : BOOLEAN,
                          seen : Records \cup {NoRecord},
                          answer : {"none", "true", "false", "error"}]]
  /\ applied \subseteq Session /\ aborts \in 0..MaxAborts
  /\ \A s \in Session : stage[s] \in Held <=> guard = s

\* A session that works under the guard is the owner the record names, and it
\* works on the generation it was admitted to.
HolderIsRecorded ==
  \A s \in Session : stage[s] \in Held \ {"acquire", "unlink", "removeAnchor"} =>
    record.active = s /\ record.gen = job[s].gen

\* The three files nest at every step of creation, cancellation and retirement,
\* over every interruption: no payload without a record, no record without the
\* anchor of its generation.
FilesNest ==
  /\ payload # None => record # NoRecord
  /\ record # NoRecord => anchor = record.gen

\* No owner that stopped in the middle is forgotten: whoever acquires next is
\* told of it, however many successors stopped before they acknowledged it or
\* put the record back (acquireGuardedMutationLease, restoreReclaimedOwner).
LineageSurvives ==
  owed # None /\ record # NoRecord =>
    /\ owed \in {record.active, record.recovery}
    /\ \A s \in Session : stage[s] = "held" => record.recovery = owed

\* The record names who works and who is owed an acknowledgement.
OwnersAreRecorded == HolderIsRecorded /\ LineageSurvives

\* When nothing was interrupted and every call has ended, the journal is not
\* there at all or ready without an owner, except one whose retirement met
\* another payload: no order of calls leaves an initialization behind.
QuiescentIsClean ==
  aborts = 0 /\ (\A s \in Session : stage[s] \in {"idle", "ended"}) =>
    \/ anchor = 0 /\ record = NoRecord /\ payload = None
    \/ /\ record.phase = "ready" /\ record.recovery = None
       /\ record.active = None \/ job[record.active].op = "retire"

\* The control files are those of a journal that exists, is being made or
\* removed, or was interrupted in it.
FilesAreSound == FilesNest /\ QuiescentIsClean

\* What an interrupted creation or retirement left, with its session gone.
Residue ==
  /\ anchor # 0 /\ record.phase # "ready"
  /\ \A s \in Session : job[s].gen = anchor =>
       IF job[s].init THEN stage[s] = "ended" ELSE stage[s] \notin Held \ {"acquire"}

\* A partial creation or retirement is never taken for permission to begin
\* anew: nothing changes it any more.
ResidueIsFrozen == [][Residue => UNCHANGED disk]_jvars

\* The calls implement an atomic journal.
Atomic == INSTANCE AtomicJournal WITH
  value <- payload,
  op <- [s \in Session |-> job[s].op],
  want <- [s \in Session |-> job[s].want],
  reply <- [s \in Session |-> IF stage[s] = "ended" THEN job[s].answer ELSE "none"]

\* Each call takes effect in one step from the value it expects, and answers
\* as it did (appendFsyncCas and its siblings under the guard).
ImplementsAtomicJournal == Atomic!ASpec
=============================================================================
