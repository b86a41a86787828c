-------------------------- MODULE SemanticMutation --------------------------
(***************************************************************************)
(* Semantic mutation: the journalled transaction by which one request      *)
(* edits the authoring source, and the recovery of a transaction whose     *)
(* process stopped or failed half way.                                     *)
(*                                                                         *)
(* Calls are serialised by the workspace write lease, so there is one      *)
(* session at a time; an interruption ends it anywhere, and whatever calls *)
(* next finds what is on disk.  An editor that does not take part in the   *)
(* lease may write the source between any two steps.                       *)
(*                                                                         *)
(* The bytes of the source are the set of edits they contain.  A request   *)
(* adds itself; an editor's write adds a new foreign edit, keeps the       *)
(* foreign ones and may drop a request's (an old buffer).                  *)
(***************************************************************************)
EXTENDS Naturals, FiniteSets

CONSTANTS
  Request,      \* request identities
  NoRequest,    \* "no request"
  Foreign,      \* writes of an editor outside the lease
  Retention,    \* terminal transactions a prune keeps (256 in the code)
  MaxSequence,  \* MAX_TERMINAL_SEQUENCE
  InitialHead,  \* completions before the first call; 0: there is no head file
  MaxCalls,     \* apply calls explored
  MaxFaults     \* interruptions and I/O failures explored

ASSUME MutationAssumption ==
  /\ Request # {} /\ IsFiniteSet(Request)
  /\ NoRequest \notin Request \cup Foreign
  /\ Request \cap Foreign = {}
  /\ Retention \in Nat \ {0}
  /\ MaxSequence \in Nat
  /\ InitialHead \in 0..MaxSequence
  /\ MaxCalls \in Nat
  /\ MaxFaults \in Nat

VARIABLES
  source,     \* the live authoring source
  record,     \* [Request -> state of the newest generation in records/]
  rejected,   \* [Request -> whether the rejected terminal is there]
  sequence,   \* [Request -> terminal sequence in its terminal, 0 for none]
  artifacts,  \* [Request -> original.backup and staged-source]
  residue,    \* [Request -> the .publish-/.restore- file in its root]
  receipts,   \* published completion receipts
  head,       \* the sequence head, 0 if the file does not exist
  pc,         \* the next step of the running session
  job,        \* what the session works on
  added,      \* history: the foreign edits written so far
  clobbered,  \* history: the accepted requests whose edit an editor overwrote
  finished,   \* history: the requests with a terminal that was not pruned
  accepted,   \* history: the requests that had a verified generation
  calls, faults

journal == <<record, rejected, sequence, artifacts>>
order == <<receipts, head>>
bounds == <<added, clobbered, finished, accepted, calls, faults>>
mvars == <<source, record, rejected, sequence, artifacts, residue, receipts,
           head, pc, job, added, clobbered, finished, accepted, calls, faults>>

Bytes == SUBSET (Request \cup Foreign)
Artifacts == [before : Bytes, staged : Bytes]

\* No such file, a file that is being written, no such pair of files.
NoBytes == {NoRequest}
Torn == Request \cup {NoRequest}
NoArtifacts == [before |-> NoBytes, staged |-> NoBytes]

State == {"none", "prepared", "committed", "verified", "rolledBack", "required"}
MStep == {"idle", "inspect", "settle", "settleRemove", "digest", "rederive",
          "publish", "write", "lastCheck", "exchange", "cleanup",
          "finalRead", "observe", "commit", "undo", "rebuild", "confirm", "restoreRebuild",
          "revalidate", "receipt", "head", "terminal", "required",
          "prune", "retire", "retained", "derive", "verify", "prepare"}

\* asked: the request of an apply call; subject: the transaction at hand;
\* dir: the direction of a source replacement; final, ticket: the terminal
\* being written; read: the bytes the derivation captured; doomed: the
\* transactions a prune retires.
Job == [asked : Request \cup {NoRequest}, subject : Request \cup {NoRequest},
        phase : {"recover", "apply"}, dir : {"publish", "restore"},
        final : {"none", "verified", "rolledBack", "rejected"},
        ticket : 0..MaxSequence, read : Bytes, doomed : SUBSET Request]
NoJob == [asked |-> NoRequest, subject |-> NoRequest, phase |-> "recover",
          dir |-> "publish", final |-> "none", ticket |-> 0,
          read |-> {}, doomed |-> {}]

MTypeOK ==
  /\ source \in Bytes
  /\ record \in [Request -> State]
  /\ rejected \in [Request -> BOOLEAN]
  /\ sequence \in [Request -> 0..MaxSequence]
  /\ artifacts \in [Request -> Artifacts \cup {NoArtifacts}]
  /\ residue \in [Request -> Bytes \cup {NoBytes, Torn}]
  /\ receipts \subseteq 1..MaxSequence
  /\ head \in 0..MaxSequence
  /\ pc \in MStep
  /\ job \in Job
  /\ added \subseteq Foreign
  /\ clobbered \subseteq Request
  /\ finished \subseteq Request /\ accepted \subseteq Request
  /\ calls \in 0..MaxCalls
  /\ faults \in 0..MaxFaults

\* A workspace in which InitialHead older transactions were completed and
\* pruned.
MInit ==
  /\ source = {}
  /\ record = [r \in Request |-> "none"]
  /\ rejected = [r \in Request |-> FALSE]
  /\ sequence = [r \in Request |-> 0]
  /\ artifacts = [r \in Request |-> NoArtifacts]
  /\ residue = [r \in Request |-> NoBytes]
  /\ receipts = 1..InitialHead
  /\ head = InitialHead
  /\ pc = "idle"
  /\ job = NoJob
  /\ added = {} /\ clobbered = {} /\ finished = {} /\ accepted = {}
  /\ calls = 0 /\ faults = 0

---------------------------------------------------------------------------
(* What a session sees on disk. *)

\* inspectSemanticMutationRecoveryAuthority skips a rejected transaction.
Unfinished(r) == ~rejected[r] /\ record[r] \in {"prepared", "committed"}

\* Mutant: a transaction that requires recovery does not block.
BlockedNever(r) == FALSE
Blocked(r) == ~rejected[r] /\ record[r] = "required"

IsTerminal(r) ==
  /\ rejected[r] \/ record[r] \in {"verified", "rolledBack"}
  /\ record[r] # "required"

Before(r) == artifacts[r].before
Staged(r) == artifacts[r].staged

\* Expected and next bytes of the replacement at hand.
Expected == IF job.dir = "publish" THEN Before(job.subject) ELSE Staged(job.subject)
Desired == IF job.dir = "publish" THEN Staged(job.subject) ELSE Before(job.subject)

Go(step) == pc' = step /\ UNCHANGED job
GoFor(step, j) == pc' = step /\ job' = j

\* The outcome is returned or an error is thrown; the lease is released.
End == GoFor("idle", NoJob)

---------------------------------------------------------------------------
(* coordinateSemanticMutationRecovery, at the head of every call. *)

\* applySemanticMutation, admitted by the lease.
BeginApply(r) ==
  /\ pc = "idle" /\ calls < MaxCalls
  /\ calls' = calls + 1
  /\ GoFor("inspect", [NoJob EXCEPT !.asked = r])
  /\ UNCHANGED <<source, journal, residue, order, added, clobbered, finished, accepted,
                 faults>>

\* recoverSemanticMutationWorkspace.
BeginRecover ==
  /\ pc = "idle"
  /\ GoFor("inspect", NoJob)
  /\ UNCHANGED <<source, journal, residue, order, bounds>>

\* Mutant: a call does not recover what an earlier one left.
InspectAuthorityIgnoresOpen ==
  /\ pc = "inspect"
  /\ IF \E r \in Request : Blocked(r) THEN End ELSE Go("prune")
  /\ UNCHANGED <<source, journal, residue, order, bounds>>

\* Several unfinished transactions are an error, one that requires recovery
\* ends the call, an unfinished one is recovered first.
InspectAuthority ==
  /\ pc = "inspect"
  /\ LET open == {r \in Request : Unfinished(r)} IN
     IF Cardinality(open) > 1 \/ \E r \in Request : Blocked(r)
       THEN End
       ELSE IF open = {} THEN Go("prune")
       ELSE \E r \in open : GoFor("settle", [job EXCEPT !.subject = r])
  /\ UNCHANGED <<source, journal, residue, order, bounds>>

\* settleRetainedNoFollowSourceReplacementResidue: the live source and the
\* residue are the two generations of the transaction, one each.
SettleResidue ==
  LET r == job.subject IN
  /\ pc = "settle"
  /\ Go(IF residue[r] = NoBytes THEN "digest"
        ELSE IF <<source, residue[r]>> \in {<<Before(r), Staged(r)>>,
                                             <<Staged(r), Before(r)>>}
        THEN "settleRemove" ELSE "required")
  /\ UNCHANGED <<source, journal, residue, order, bounds>>

\* The residue is removed; the live source must still be the other generation.
RemoveResidue ==
  LET r == job.subject IN
  /\ pc = "settleRemove"
  /\ residue' = [residue EXCEPT ![r] = NoBytes]
  /\ Go(IF source = (IF residue[r] = Staged(r) THEN Before(r) ELSE Staged(r))
        THEN "digest" ELSE "required")
  /\ UNCHANGED <<source, journal, order, bounds>>

\* recoverSemanticMutationRecord by record state and live digest; bytes of
\* neither generation require recovery.
ObserveLiveDigest ==
  LET r == job.subject IN
  /\ pc = "digest"
  /\ Go(IF source \notin {Before(r), Staged(r)} THEN "required"
        ELSE IF record[r] = "prepared"
          THEN IF source = Before(r) THEN "rederive" ELSE "commit"
          ELSE IF source = Before(r) THEN "revalidate" ELSE "rebuild")
  /\ UNCHANGED <<source, journal, residue, order, bounds>>

\* Base, plan and isolated verification are produced again from the live
\* source; only exactly what the record binds is published.
Rederive ==
  /\ pc = "rederive"
  /\ \/ source = Before(job.subject) /\ Go("publish")
     \/ GoFor("receipt", [job EXCEPT !.final = "rejected"])
  /\ UNCHANGED <<source, journal, residue, order, bounds>>

\* authoring-committed with the original bytes: they must rebuild the base.
Revalidate ==
  /\ pc = "revalidate"
  /\ \/ /\ source = Before(job.subject)
        /\ GoFor("receipt", [job EXCEPT !.final = "rolledBack"])
     \/ Go("required")
  /\ UNCHANGED <<source, journal, residue, order, bounds>>

---------------------------------------------------------------------------
(* replaceSource and replaceRetainedNoFollowSourceFile, to publish the      *)
(* staged bytes or to restore the original ones.                           *)

\* Where a failed replacement goes: a restore requires recovery, an apply
\* looks at what is live, a recovery throws and leaves its record.
ReplaceFailed ==
  IF job.dir = "restore" THEN Go("required")
  ELSE IF job.phase = "apply" THEN Go("observe")
  ELSE End

\* No earlier residue, the compare of the live bytes, and the candidate ...
CreateCandidate ==
  LET r == job.subject IN
  /\ pc = "publish"
  /\ IF source = Expected /\ residue[r] = NoBytes
       THEN residue' = [residue EXCEPT ![r] = Torn] /\ Go("write")
       ELSE ReplaceFailed /\ UNCHANGED residue
  /\ UNCHANGED <<source, journal, order, bounds>>

\* ... whose bytes are written and flushed.
WriteCandidate ==
  /\ pc = "write"
  /\ residue' = [residue EXCEPT ![job.subject] = Desired]
  /\ Go("lastCheck")
  /\ UNCHANGED <<source, journal, order, bounds>>

\* The last look at the preimage; a change removes the candidate again.
LastCheck ==
  LET r == job.subject IN
  /\ pc = "lastCheck"
  /\ IF source = Expected
       THEN Go("exchange") /\ UNCHANGED residue
       ELSE ReplaceFailed /\ residue' = [residue EXCEPT ![r] = NoBytes]
  /\ UNCHANGED <<source, journal, order, bounds>>

\* Mutant: rename over the target instead of an exchange.
ExchangeOverwrites ==
  LET r == job.subject IN
  /\ pc = "exchange"
  /\ source' = Desired
  /\ residue' = [residue EXCEPT ![r] = NoBytes]
  /\ Go("finalRead")
  /\ UNCHANGED <<journal, order, bounds>>

\* The atomic exchange keeps what it displaced, whatever that is by now.
Exchange ==
  LET r == job.subject IN
  /\ pc = "exchange"
  /\ source' = Desired
  /\ residue' = [residue EXCEPT ![r] = source]
  /\ Go("cleanup")
  /\ UNCHANGED <<journal, order, bounds>>

\* The displaced preimage is removed only if it is the expected one and the
\* published bytes are still live.
CleanupPreimage ==
  LET r == job.subject IN
  /\ pc = "cleanup"
  /\ IF source = Desired /\ residue[r] = Expected
       THEN Go("finalRead") /\ residue' = [residue EXCEPT ![r] = NoBytes]
       ELSE ReplaceFailed /\ UNCHANGED residue
  /\ UNCHANGED <<source, journal, order, bounds>>

\* The settled readback.
FinalRead ==
  /\ pc = "finalRead"
  /\ IF source = Desired
       THEN Go(IF job.dir = "publish" THEN "commit" ELSE "restoreRebuild")
       ELSE ReplaceFailed
  /\ UNCHANGED <<source, journal, residue, order, bounds>>

\* executePreparedSemanticMutationApply after a failed publish.
ObserveAfterFailure ==
  LET r == job.subject IN
  /\ pc = "observe"
  /\ IF source = Staged(r) THEN Go("undo")
     ELSE IF source # Before(r) THEN Go("required")
     ELSE GoFor("receipt", [job EXCEPT !.final = "rejected"])
  /\ UNCHANGED <<source, journal, residue, order, bounds>>

\* The published bytes are recorded, then rolled back.
RecordThenUndo ==
  /\ pc = "undo"
  /\ record' = [record EXCEPT ![job.subject] = "committed"]
  /\ GoFor("publish", [job EXCEPT !.dir = "restore"])
  /\ UNCHANGED <<source, rejected, sequence, artifacts, residue, order, bounds>>

---------------------------------------------------------------------------
(* completeCommitted and rollbackCommitted. *)

RecordCommitted ==
  /\ pc = "commit"
  /\ record' = [record EXCEPT ![job.subject] = "committed"]
  /\ Go("rebuild")
  /\ UNCHANGED <<source, rejected, sequence, artifacts, residue, order, bounds>>

\* The live rebuild matches the staged revisions, or the commit is undone.
RebuildLive ==
  /\ pc = "rebuild"
  /\ \/ source = Staged(job.subject) /\ Go("confirm")
     \/ GoFor("publish", [job EXCEPT !.dir = "restore"])
  /\ UNCHANGED <<source, journal, residue, order, bounds>>

\* Mutant: a mismatch after the rebuild is accepted.
ConfirmCommittedAlways ==
  /\ pc = "confirm"
  /\ GoFor("receipt", [job EXCEPT !.final = "verified"])
  /\ UNCHANGED <<source, journal, residue, order, bounds>>

\* The live digest is still the committed one.
ConfirmCommitted ==
  /\ pc = "confirm"
  /\ IF source = Staged(job.subject)
       THEN GoFor("receipt", [job EXCEPT !.final = "verified"])
       ELSE GoFor("publish", [job EXCEPT !.dir = "restore"])
  /\ UNCHANGED <<source, journal, residue, order, bounds>>

\* The restored source must rebuild the base.
RebuildRestored ==
  /\ pc = "restoreRebuild"
  /\ \/ /\ source = Before(job.subject)
        /\ GoFor("receipt", [job EXCEPT !.final = "rolledBack"])
     \/ Go("required")
  /\ UNCHANGED <<source, journal, residue, order, bounds>>

\* markRecoveryRequired ends the call.
MarkRecoveryRequired ==
  /\ pc = "required"
  /\ record' = [record EXCEPT ![job.subject] = "required"]
  /\ End
  /\ UNCHANGED <<source, rejected, sequence, artifacts, residue, order, bounds>>

---------------------------------------------------------------------------
(* reserveSemanticMutationTerminalSequence and the terminal it is for. *)

\* completeCommitted and rollbackCommitted turn a failure into
\* recovery-required; any other writer of a terminal throws.
TerminalFailed ==
  IF job.final = "verified" \/ (job.final = "rolledBack" /\ job.dir = "restore")
    THEN Go("required") ELSE End

\* Mutant: the next sequence is taken from the head alone.
ReserveSequenceFromHead ==
  /\ pc = "receipt"
  /\ IF head + 1 > MaxSequence
       THEN TerminalFailed /\ UNCHANGED receipts
       ELSE /\ receipts' = receipts \cup {head + 1}
            /\ GoFor("terminal", [job EXCEPT !.ticket = head + 1])
  /\ UNCHANGED <<source, journal, residue, head, bounds>>

\* Receipts without a head are refused; a receipt the head does not know is
\* caught up with; otherwise the next receipt is published.
ReserveSequence ==
  /\ pc = "receipt"
  /\ IF (head = 0 /\ receipts # {}) \/ (head + 1 > MaxSequence)
       THEN TerminalFailed /\ UNCHANGED order
       ELSE IF head + 1 \in receipts
       THEN head' = head + 1 /\ Go("receipt") /\ UNCHANGED receipts
       ELSE /\ receipts' = receipts \cup {head + 1}
            /\ GoFor("head", [job EXCEPT !.ticket = head + 1])
            /\ UNCHANGED head
  /\ UNCHANGED <<source, journal, residue, bounds>>

WriteSequenceHead ==
  /\ pc = "head"
  /\ head' = job.ticket
  /\ Go("terminal")
  /\ UNCHANGED <<source, journal, residue, receipts, bounds>>

\* The verified or rolled-back generation, or the rejected terminal.
WriteTerminal ==
  LET r == job.subject IN
  /\ pc = "terminal"
  /\ sequence' = [sequence EXCEPT ![r] = job.ticket]
  /\ IF job.final = "rejected"
       THEN rejected' = [rejected EXCEPT ![r] = TRUE] /\ UNCHANGED record
       ELSE record' = [record EXCEPT ![r] = job.final] /\ UNCHANGED rejected
  /\ finished' = finished \cup {r}
  /\ accepted' = IF job.final = "verified" THEN accepted \cup {r} ELSE accepted
  /\ Go("prune")
  /\ UNCHANGED <<source, artifacts, residue, order, added, clobbered, calls, faults>>

---------------------------------------------------------------------------
(* pruneSemanticMutationTerminalRecords. *)

Newer(r) == {s \in Request : IsTerminal(s) /\ sequence[s] > sequence[r]}

\* Mutant: the newest terminals go.
PrunableNewest(r) ==
  /\ IsTerminal(r)
  /\ Cardinality({s \in Request : IsTerminal(s) /\ sequence[s] < sequence[r]}) >= Retention

\* A terminal beyond the newest Retention ones.
Prunable(r) == IsTerminal(r) /\ Cardinality(Newer(r)) >= Retention

\* Terminals with equal sequences are an error.
PruneCensus ==
  /\ pc = "prune"
  /\ IF \E r, s \in Request : r # s /\ IsTerminal(r) /\ IsTerminal(s) /\ sequence[r] = sequence[s]
       THEN End
       ELSE GoFor("retire", [job EXCEPT !.doomed = {r \in Request : Prunable(r)}])
  /\ UNCHANGED <<source, journal, residue, order, bounds>>

\* The generation below the newest one in records/.
Earlier(state) ==
  CASE state \in {"verified", "rolledBack"} -> "committed"
    [] state = "committed" -> "prepared"
    [] OTHER -> "none"

\* Mutant: only the newest generation goes.
RetireEntryNewestOnly ==
  /\ pc = "retire"
  /\ \E r \in job.doomed :
       /\ record' = [record EXCEPT ![r] = Earlier(@)]
       /\ sequence' = [sequence EXCEPT ![r] = 0]
       /\ GoFor("retire", [job EXCEPT !.doomed = @ \ {r}])
  /\ UNCHANGED <<source, rejected, artifacts, residue, order, bounds>>

\* retireNoFollowDirectoryTree deletes the deepest entries first, by falling
\* name: the newest generation goes before the older ones, then the root.
RetireEntry ==
  /\ pc = "retire"
  /\ \E r \in job.doomed :
       IF record[r] # "none"
         THEN /\ record' = [record EXCEPT ![r] = Earlier(@)]
              /\ sequence' = [sequence EXCEPT ![r] = IF rejected[r] THEN @ ELSE 0]
              /\ Go("retire")
              /\ UNCHANGED <<rejected, artifacts, residue, finished>>
         ELSE /\ rejected' = [rejected EXCEPT ![r] = FALSE]
              /\ sequence' = [sequence EXCEPT ![r] = 0]
              /\ artifacts' = [artifacts EXCEPT ![r] = NoArtifacts]
              /\ residue' = [residue EXCEPT ![r] = NoBytes]
              /\ GoFor("retire", [job EXCEPT !.doomed = @ \ {r}])
              /\ finished' = finished \ {r}
              /\ UNCHANGED record
  /\ UNCHANGED <<source, order, added, clobbered, accepted, calls, faults>>

\* An apply whose recovery is done goes on to its own request.
PruneDone ==
  /\ pc = "retire" /\ job.doomed = {}
  /\ IF job.phase = "recover" /\ job.asked # NoRequest
       THEN GoFor("retained", [NoJob EXCEPT !.asked = job.asked,
                                            !.subject = job.asked,
                                            !.phase = "apply"])
       ELSE End
  /\ UNCHANGED <<source, journal, residue, order, bounds>>

---------------------------------------------------------------------------
(* executePreparedSemanticMutationApply, up to the publish. *)

\* A retained terminal answers the request; its identity is not applied twice.
ReadRetained ==
  /\ pc = "retained"
  /\ IF IsTerminal(job.subject) \/ record[job.subject] # "none"
       THEN End ELSE Go("derive")
  /\ UNCHANGED <<source, journal, residue, order, bounds>>

\* The plan is derived from the live bytes, or rejected: at the request,
\* without a terminal, or later, with one (also when its revision is not the
\* one the caller authorised).  An edit that is there already is no edit.
Derive ==
  /\ pc = "derive"
  /\ \/ End
     \/ GoFor("receipt", [job EXCEPT !.final = "rejected"])
     \/ /\ job.subject \notin source
        /\ GoFor("verify", [job EXCEPT !.read = source])
  /\ UNCHANGED <<source, journal, residue, order, bounds>>

\* Mutant: the backup is written and the staged source is not.
VerifyBackupOnly ==
  /\ pc = "verify"
  /\ artifacts' = [artifacts EXCEPT ![job.subject].before = job.read]
  /\ Go("prepare")
  /\ UNCHANGED <<source, record, rejected, sequence, residue, order, bounds>>

\* The isolated verification, then the transaction's artifacts: those of an
\* earlier attempt must be the same.
Verify ==
  LET r == job.subject
      made == [before |-> job.read, staged |-> job.read \cup {r}] IN
  /\ pc = "verify"
  /\ \/ GoFor("receipt", [job EXCEPT !.final = "rejected"]) /\ UNCHANGED artifacts
     \/ /\ artifacts[r] \in {NoArtifacts, made}
        /\ artifacts' = [artifacts EXCEPT ![r] = made]
        /\ Go("prepare")
     \/ /\ artifacts[r] \notin {NoArtifacts, made}
        /\ End /\ UNCHANGED artifacts
  /\ UNCHANGED <<source, record, rejected, sequence, residue, order, bounds>>

\* Mutant: the source is published before the record is there.
RecordPreparedLate ==
  /\ pc = "prepare"
  /\ Go("publish")
  /\ UNCHANGED <<source, journal, residue, order, bounds>>

RecordPrepared ==
  /\ pc = "prepare"
  /\ record' = [record EXCEPT ![job.subject] = "prepared"]
  /\ Go("publish")
  /\ UNCHANGED <<source, rejected, sequence, artifacts, residue, order, bounds>>

---------------------------------------------------------------------------
(* The environment. *)

\* The process stops, the lease is lost, or an error nobody handles ends the
\* call.
Interrupt ==
  /\ pc # "idle" /\ faults < MaxFaults
  /\ faults' = faults + 1
  /\ End
  /\ UNCHANGED <<source, journal, residue, order, added, clobbered, finished, accepted,
                 calls>>

\* An I/O failure that the code handles: recovery-required ...
FailsToRequired ==
  /\ \/ pc \in {"settle", "settleRemove", "digest", "rederive", "observe",
                "restoreRebuild", "revalidate"}
     \/ pc = "commit" /\ job.phase = "apply"
  /\ Go("required")
  /\ UNCHANGED residue

\* ... a rebuild that throws, which undoes the commit ...
FailsToRestore ==
  /\ pc \in {"rebuild", "confirm"}
  /\ GoFor("publish", [job EXCEPT !.dir = "restore"])
  /\ UNCHANGED residue

\* ... a replacement, before its effect (the candidate is removed if it can
\* be) or after it (what was displaced stays) ...
FailsToReplace ==
  /\ pc \in {"publish", "write", "lastCheck", "exchange", "cleanup", "finalRead"}
  /\ ReplaceFailed
  /\ \/ UNCHANGED residue
     \/ /\ pc \in {"write", "lastCheck", "exchange"}
        /\ residue' = [residue EXCEPT ![job.subject] = NoBytes]

\* ... or the writing of a terminal.
FailsToTerminal ==
  /\ pc \in {"receipt", "head", "terminal"}
  /\ TerminalFailed
  /\ UNCHANGED residue

IOFailure ==
  /\ faults < MaxFaults
  /\ faults' = faults + 1
  /\ FailsToRequired \/ FailsToRestore \/ FailsToReplace \/ FailsToTerminal
  /\ UNCHANGED <<source, journal, order, added, clobbered, finished, accepted,
                 calls>>

Accepted(r) == record[r] = "verified" \/ (job.subject = r /\ job.final = "verified")

\* An editor saves a buffer: a new edit, without some of the requests' edits.
EditSource(f, kept) ==
  /\ f \notin added
  /\ source' = (source \ Request) \cup kept \cup {f}
  /\ added' = added \cup {f}
  /\ clobbered' = clobbered \cup {r \in (source \cap Request) \ kept : Accepted(r)}
  /\ UNCHANGED <<journal, residue, order, pc, job, finished, accepted, calls, faults>>

---------------------------------------------------------------------------

Recovery ==
  \/ InspectAuthority \/ SettleResidue \/ RemoveResidue \/ ObserveLiveDigest
  \/ Rederive \/ Revalidate
Replace ==
  \/ CreateCandidate \/ WriteCandidate \/ LastCheck \/ Exchange \/ CleanupPreimage \/ FinalRead
  \/ ObserveAfterFailure \/ RecordThenUndo
Completion ==
  \/ RecordCommitted \/ RebuildLive \/ ConfirmCommitted \/ RebuildRestored
  \/ MarkRecoveryRequired
  \/ ReserveSequence \/ WriteSequenceHead \/ WriteTerminal
  \/ PruneCensus \/ RetireEntry \/ PruneDone
Preparation == ReadRetained \/ Derive \/ Verify \/ RecordPrepared
Progress == Recovery \/ Replace \/ Completion \/ Preparation

MNext ==
  \/ \E r \in Request : BeginApply(r)
  \/ BeginRecover
  \/ Progress
  \/ Interrupt \/ IOFailure
  \/ \E f \in Foreign : \E kept \in SUBSET (source \cap Request) : EditSource(f, kept)

MSpec == MInit /\ [][MNext]_mvars

\* A call that is running goes on, and the workspace is used again.
MFairSpec == MSpec /\ WF_mvars(Progress) /\ WF_mvars(BeginRecover)

---------------------------------------------------------------------------
(* Properties. *)

\* No lost update: whatever an editor wrote is in the live source or in the
\* residue of a transaction, at every step of a publish, a rollback and a
\* recovery ("a foreign preimage is preserved rather than unlinked or blindly
\* exchanged back", replaceRetainedNoFollowSourceFile).
EditsSurvive ==
  \A f \in added : f \in source \/ \E r \in Request : residue[r] # NoBytes /\ f \in residue[r]

\* An edit that is accepted is in the live source, also when an editor writes
\* during the rebuild, and stays until an editor overwrites it: no later
\* transaction, rollback or recovery takes it away (completeCommitted).
AcceptedIsLive ==
  \A r \in Request : record[r] = "verified" => r \in source \/ r \in clobbered

\* Until its request is accepted, an edit is live only under a record that owns
\* it: never before prepared is durable, and never after the request was
\* answered rejected or rolled back.
LiveEditIsJournaled ==
  \A r \in (source \cap Request) \ accepted :
    ~rejected[r] /\ record[r] \in {"prepared", "committed", "required"}

\* At most one transaction is unfinished: inspectSemanticMutationRecovery-
\* Authority refuses to work, for good, with two.
OneUnfinished == Cardinality({r \in Request : Unfinished(r)}) <= 1

\* A transaction that requires recovery stops all later work: no call touches
\* the source, a residue or the journal any more.
FrozenWhileBlocked ==
  [][(\E r \in Request : record[r] = "required" /\ ~rejected[r])
       => UNCHANGED <<journal, residue, order>> /\ (source' # source => added' # added)]_mvars

\* Terminal sequences grow in the order of completion, also over a crash
\* between a receipt and the head: a new terminal is newer than all retained.
SequenceGrows ==
  [][\A r, s \in Request :
       ~IsTerminal(r) /\ IsTerminal(r)' /\ s # r /\ IsTerminal(s)
         => sequence[s] < sequence'[r]]_mvars

\* An unfinished transaction is settled by the calls that follow, whatever
\* was interrupted and wherever.
RecoverySettles == \A r \in Request : Unfinished(r) ~> ~Unfinished(r)

\* A prune takes only what is older than Retention retained terminals.
RetainsNewest ==
  [][\A r \in Request : IsTerminal(r) /\ ~IsTerminal(r)'
       => Cardinality(Newer(r)) >= Retention]_mvars

\* The terminal history is a queue, over crashes between receipt, head and
\* terminal and over interrupted prunes: it grows at its new end and is pruned
\* at its old one.
HistoryIsOrdered == SequenceGrows /\ RetainsNewest

\* A finished transaction never becomes recovery authority again: no call
\* that looks for unfinished work finds one that had its terminal.
TerminalIsNotAuthority ==
  pc = "inspect" => \A r \in finished : ~Unfinished(r)
=============================================================================
