------------------------------ MODULE UpgradeApply -----------------------------
(***************************************************************************)
(* One workspace upgrade: snapshot, forward effects with their recovery    *)
(* ledger, the applied terminal, and on failure the restoration, the       *)
(* failure terminal and the fate of the backup.  Somebody may edit the     *)
(* workspace at any time, the write lease may be lost at any time, and     *)
(* any file-system call may fail.                                          *)
(*                                                                         *)
(* A file is its content and its physical identity; `same' of the ledger   *)
(* compares both, the final readback only the content.  The physical layer *)
(* compares both before an effect, in a step of its own; the effect itself *)
(* looks only at the identity of a file it replaces, at the name of one it *)
(* removes or renames, and at the absence of one it creates.  An edit may  *)
(* come between the two.                                                   *)
(***************************************************************************)
EXTENDS Naturals, FiniteSets

CONSTANTS Files,         \* files of the workspace, the graph lock included
          Config,        \* the workspace plan, the first file that is changed
          Present,       \* files that exist before the upgrade
          MaxMutations,  \* bound on the forward effects
          MaxForeign,    \* bound on edits by somebody else
          MaxFaults,     \* bound on failing calls
          MaxLedgerRecords     \* maximumRecords of the recovery ledger

ASSUME FilesAssumption == Config \in Present /\ Present \subseteq Files
ASSUME BoundsAssumption ==
  {MaxMutations, MaxForeign, MaxFaults, MaxLedgerRecords} \subseteq Nat \ {0}

\* Physical identities: of no file, of the files found, of foreign files, and
\* of the files each mutation and the restoration create.
NoId == 0
OriginalId == 1
ForeignId(n) == 1 + n
MutationId(n) == 1 + MaxForeign + n
RestoredId == 3 + MaxForeign + MaxMutations

Absent == <<"absent", NoId>>
Contents == {"absent", "old", "new", "foreign"}
Identities == 0..RestoredId
Content(state) == [f \in Files |-> state[f][1]]
Fresh(content, id) == IF content = "absent" THEN Absent ELSE <<content, id>>

VARIABLES
  live,       \* the files
  lease,      \* the write lease is held
  backup,     \* "none", "building", "sealed" or "retired"
  preimage,   \* contents of the backup
  (* the recovery ledger *)
  original, expected, changed, unknown, rollback, records,
  open,       \* the prepared mutation: the content it will leave, by file
  (* the lifecycle *)
  phase, todo,
  checked,    \* files that have been compared for the effect that is next
  terminal,   \* the execution terminal on disk
  diag,       \* diagnostics of this attempt are published
  committed, commitUnknown, uncertain, retain, settlement,
  (* history and bounds *)
  published,  \* terminals of this attempt that became visible
  ours,       \* what the program last saw or left in each file
  late,       \* those of the checked files that were edited since
  mutations, foreign, faults

ledger == <<original, expected, changed, unknown, rollback, records, open>>
verdict == <<terminal, diag, committed, commitUnknown, uncertain, settlement, published>>
window == <<checked, late>>
bounds == <<mutations, foreign, faults>>
uvars == <<live, lease, backup, preimage, ledger, phase, todo, verdict, retain, ours, window,
           bounds>>

Initially == [f \in Files |-> IF f \in Present THEN <<"old", OriginalId>> ELSE Absent]

UInit ==
  /\ live = Initially /\ ours = Initially
  /\ original = Initially /\ expected = Initially
  /\ preimage = Content(Initially)
  /\ lease = TRUE /\ backup = "none"
  /\ changed = {} /\ unknown = FALSE /\ rollback = FALSE /\ records = 0
  /\ open = <<>> /\ todo = {} /\ checked = {} /\ late = {}
  /\ phase = "start"
  /\ terminal = "previous" /\ diag = FALSE
  /\ committed = FALSE /\ commitUnknown = FALSE /\ uncertain = FALSE
  /\ retain = FALSE /\ settlement = "none" /\ published = {}
  /\ mutations = 0 /\ foreign = 0 /\ faults = 0

-----------------------------------------------------------------------------
(* The environment.                                                        *)

\* Somebody edits, replaces, creates or deletes a file.
Edit(f) ==
  /\ phase # "ended" /\ foreign < MaxForeign
  /\ foreign' = foreign + 1
  /\ \E entry \in {Absent} \cup
       ({"old", "foreign"} \X ({ForeignId(foreign + 1), live[f][2]} \ {NoId})) :
       /\ entry # live[f]
       /\ live' = [live EXCEPT ![f] = entry]
  /\ late' = late \cup ({f} \cap checked)
  /\ UNCHANGED <<lease, backup, preimage, ledger, phase, todo, verdict, retain, ours,
                 checked, mutations, faults>>

LoseLease ==
  /\ lease
  /\ lease' = FALSE
  /\ UNCHANGED <<live, backup, preimage, ledger, phase, todo, verdict, retain, ours, window, bounds>>

FaultOccurs ==
  /\ faults < MaxFaults
  /\ faults' = faults + 1
  /\ UNCHANGED <<mutations, foreign>>

\* A commit fence or another call of a step throws.
Throws == (~lease /\ UNCHANGED bounds) \/ FaultOccurs

Goto(step) == phase' = step

-----------------------------------------------------------------------------
(* snapshotWorkspace: observe, copy, observe again.                        *)

SnapshotObserve ==
  /\ phase = "start" /\ lease
  /\ original' = live /\ ours' = live
  /\ backup' = "building"
  /\ Goto("observed")
  /\ UNCHANGED <<live, lease, preimage, expected, changed, unknown, rollback, records,
                 open, todo, verdict, retain, window, bounds>>

SnapshotCopy ==
  /\ phase = "observed" /\ lease
  /\ preimage' = Content(live)
  /\ Goto("copied")
  /\ UNCHANGED <<live, lease, backup, ledger, todo, verdict, retain, ours, window, bounds>>

\* The two observations agree: the ledger starts from the first.
SnapshotSeal ==
  /\ phase = "copied" /\ lease
  /\ live = original
  /\ backup' = "sealed"
  /\ expected' = original
  /\ records' = 1
  /\ Goto("snapshotted")
  /\ UNCHANGED <<live, lease, preimage, original, changed, unknown, rollback, open,
                 todo, verdict, retain, ours, window, bounds>>

\* A failed snapshot retires its incomplete backup, if it can.
SnapshotFails ==
  /\ \/ phase \in {"start", "observed", "copied"} /\ Throws
     \/ phase = "copied" /\ live # original /\ UNCHANGED bounds
  /\ backup' \in {"none", backup}
  /\ Goto("ended")
  /\ UNCHANGED <<live, lease, preimage, ledger, todo, verdict, retain, ours, window>>

-----------------------------------------------------------------------------
(* The forward part of executeUpgradeApplyLifecycle.                       *)

\* Mutant: a terminal that cannot be removed is ignored.
ClearTerminalIgnored ==
  /\ phase = "snapshotted"
  /\ terminal' \in {"none", terminal}
  /\ Goto("cleared")
  /\ UNCHANGED <<live, lease, backup, preimage, ledger, todo, diag, committed,
                 commitUnknown, uncertain, settlement, published, retain, ours, window, bounds>>

ClearTerminal ==
  /\ phase = "snapshotted" /\ lease
  /\ terminal' = "none"
  /\ Goto("cleared")
  /\ UNCHANGED <<live, lease, backup, preimage, ledger, todo, diag, committed,
                 commitUnknown, uncertain, settlement, published, retain, ours, window, bounds>>

\* clearDiagnostics and publishPlan.
PublishPlan ==
  /\ phase = "cleared" /\ lease
  /\ Goto("applying")
  /\ UNCHANGED <<live, lease, backup, preimage, ledger, todo, verdict, retain, ours, window, bounds>>

\* Mutant: only the records of the effect itself are admitted.
FitsForward(files) == records + 2 <= MaxLedgerRecords

\* admitFileRecordBudget: prepare, acknowledgment, direction, and one record
\* for the restoration of every file that will have changed.
Fits(files) == records + 3 + Cardinality(changed \cup files) <= MaxLedgerRecords

\* A rename needs a free target (prepareRenameMigrationTarget).
Possible(change) ==
  Cardinality(DOMAIN change) = 2 =>
    \A f \in DOMAIN change : change[f] # "absent" => live[f] = Absent

\* The mutations of a migration: write, remove, or rename a file.
Mutation(change) ==
  IF mutations = 0
    THEN change = [f \in {Config} |-> "new"]
    ELSE \/ \E f \in Files : change = [x \in {f} |-> "new"]
         \/ \E f \in Files : live[f] # Absent /\ change = [x \in {f} |-> "absent"]
         \/ \E f, g \in Files :
              /\ f # g /\ live[f] # Absent
              /\ change = [x \in {f, g} |-> IF x = f THEN "absent" ELSE live[f][1]]

\* prepareUpgradeFileMutation: the file is what the ledger expects, nothing is
\* unacknowledged, and the way back still fits.
Prepare ==
  /\ phase = "applying" /\ mutations < MaxMutations
  /\ mutations' = mutations + 1
  /\ UNCHANGED <<foreign, faults>>
  /\ \E change \in UNION {[files -> {"new", "old", "foreign", "absent"}] :
                            files \in SUBSET Files} :
       /\ Mutation(change)
       /\ IF /\ ~rollback /\ open = <<>> /\ Possible(change)
             /\ \A f \in DOMAIN change : live[f] = expected[f]
             /\ Fits(DOMAIN change)
            THEN open' = change /\ records' = records + 1 /\ Goto("prepared")
            ELSE UNCHANGED <<open, records>> /\ Goto("failed")
  /\ UNCHANGED <<live, lease, backup, preimage, original, expected, changed, unknown,
                 rollback, todo, verdict, retain, ours, window>>

\* Mutant: the observation is not compared again when the effect runs.
UnmovedUnchecked(files) == TRUE

\* The physical layer finds each file as it was observed, identity and bytes.
Unmoved(files) == \A f \in files : live[f] = expected[f]

\* The commit fence and that comparison, before an effect on these files.
Compare(files) ==
  /\ checked = {} /\ lease
  /\ Unmoved(files)
  /\ checked' = files
  /\ UNCHANGED <<live, lease, backup, preimage, ledger, phase, todo, verdict, retain, ours,
                 late, bounds>>

\* Mutant: whatever has the name of an expected file is replaced.
TakesByName(f, content) == (live[f] = Absent) = (expected[f] = Absent)

\* What the effect itself asks of a file that is to have this content: a file
\* is created only where none is, replaced only if it has the identity that
\* was compared, and removed or renamed whatever it is.
Takes(f, content) ==
  /\ (live[f] = Absent) = (expected[f] = Absent)
  /\ content # "absent" => live[f][2] = expected[f][2]

\* It may refuse another identity also where it could go by name.
Refuses(f) == live[f][2] # expected[f][2]

Unchecked == checked' = {} /\ late' = {}

\* What the effect leaves: a renamed file keeps its identity.
Left(f) == IF Cardinality(DOMAIN open) = 2 /\ open[f] # "absent"
             THEN live[CHOOSE g \in DOMAIN open : g # f]
             ELSE Fresh(open[f], MutationId(mutations))

Written == [f \in Files |-> IF f \in DOMAIN open THEN Left(f) ELSE live[f]]
Record(state, files) == [f \in Files |-> IF f \in files THEN state[f] ELSE ours[f]]

CompareEffect == phase = "prepared" /\ Compare(DOMAIN open)

\* A rename is read back, and throws if it moved another file.
MovedAnother == Cardinality(DOMAIN open) = 2 /\ ~Unmoved(DOMAIN open)

\* The effect, which may also throw after it happened.
Effect ==
  /\ phase = "prepared" /\ checked # {}
  /\ \A f \in DOMAIN open : Takes(f, open[f])
  /\ live' = Written /\ ours' = Record(Written, DOMAIN open)
  /\ Unchecked
  /\ \/ Goto("effected") /\ ~MovedAnother /\ UNCHANGED bounds
     \/ Goto("failed") /\ MovedAnother /\ UNCHANGED bounds
     \/ Goto("failed") /\ FaultOccurs
  /\ UNCHANGED <<lease, backup, preimage, ledger, todo, verdict, retain>>

EffectRefused ==
  /\ phase = "prepared"
  /\ \/ checked = {} /\ (~lease \/ ~Unmoved(DOMAIN open))
     \/ \E f \in checked : Refuses(f)
  /\ Goto("failed") /\ Unchecked
  /\ UNCHANGED <<live, lease, backup, preimage, ledger, todo, verdict, retain, ours, bounds>>

\* Mutant: the file is not noted as changed.
AcknowledgeUnnoted ==
  /\ phase = "effected"
  /\ expected' = [f \in Files |-> IF f \in DOMAIN open THEN ours[f] ELSE expected[f]]
  /\ changed' = changed
  /\ records' = records + 1
  /\ open' = <<>>
  /\ Goto("applying")
  /\ UNCHANGED <<live, lease, backup, preimage, original, unknown, rollback, todo,
                 verdict, retain, ours, window, bounds>>

\* Mutant: the mutation stays unacknowledged.
AcknowledgeOpen ==
  /\ phase = "effected"
  /\ expected' = [f \in Files |-> IF f \in DOMAIN open THEN ours[f] ELSE expected[f]]
  /\ changed' = changed \cup DOMAIN open
  /\ records' = records + 1
  /\ open' = open
  /\ Goto("applying")
  /\ UNCHANGED <<live, lease, backup, preimage, original, unknown, rollback, todo,
                 verdict, retain, ours, window, bounds>>

\* acknowledgeUpgradeFileMutation: the ledger expects what was written.
AcknowledgeMutation ==
  /\ phase = "effected"
  /\ expected' = [f \in Files |-> IF f \in DOMAIN open THEN ours[f] ELSE expected[f]]
  /\ changed' = changed \cup DOMAIN open
  /\ records' = records + 1
  /\ open' = <<>>
  /\ Goto("applying")
  /\ UNCHANGED <<live, lease, backup, preimage, original, unknown, rollback, todo,
                 verdict, retain, ours, window, bounds>>

\* markUpgradeRecoveryUnknown, before a directory effect or the compilation.
MarkUnknown ==
  /\ phase = "applying" /\ lease /\ mutations > 0
  /\ unknown' = TRUE
  /\ \E next \in {"untracked", "compiling"} :
       /\ IF next = "untracked"
            THEN mutations < MaxMutations /\ mutations' = mutations + 1
            ELSE UNCHANGED mutations
       /\ IF records < MaxLedgerRecords
            THEN records' = records + 1 /\ Goto(next)
            ELSE UNCHANGED records /\ Goto("failed")
  /\ UNCHANGED <<live, lease, backup, preimage, original, expected, changed, rollback,
                 open, todo, verdict, retain, ours, window, foreign, faults>>

UntrackedId == MutationId(IF phase = "untracked" THEN mutations ELSE mutations + 1)

\* A directory effect or a compilation writes without constituent receipts;
\* the migrations or the readback follow, or it throws halfway.
Untracked ==
  /\ phase \in {"untracked", "compiling"}
  /\ \E f \in Files, content \in {"new", "absent"} :
       /\ live' \in {live, [live EXCEPT ![f] = Fresh(content, UntrackedId)]}
       /\ ours' = IF live' = live THEN ours ELSE Record(live', {f})
  /\ \/ Goto(IF phase = "untracked" THEN "applying" ELSE "compiled") /\ UNCHANGED bounds
     \/ Goto("failed") /\ Throws
  /\ UNCHANGED <<lease, backup, preimage, ledger, todo, verdict, retain, window>>

\* A forward step throws before its effect.
Fails ==
  /\ phase \in {"snapshotted", "cleared", "applying", "prepared", "effected", "compiled"}
  /\ IF checked = {} THEN Throws ELSE FaultOccurs
  /\ Goto("failed") /\ Unchecked
  /\ UNCHANGED <<live, lease, backup, preimage, ledger, todo, verdict, retain, ours>>

-----------------------------------------------------------------------------
(* publishAppliedUpgradeTerminal and what follows it.                      *)

PublishApplied ==
  /\ phase = "compiled" /\ lease
  /\ terminal' = "applied" /\ published' = published \cup {"applied"}
  /\ committed' = TRUE
  /\ Goto("recording")
  /\ UNCHANGED <<live, lease, backup, preimage, ledger, todo, diag, commitUnknown,
                 uncertain, settlement, retain, ours, window, bounds>>

\* Mutant: an uncertain publication does not keep the backup.
PublishUncertainUnretained ==
  /\ phase = "compiled" /\ lease /\ FaultOccurs
  /\ terminal' = "applied" /\ published' = published \cup {"applied"}
  /\ committed' = TRUE /\ uncertain' = TRUE /\ UNCHANGED retain
  /\ Goto("closing")
  /\ UNCHANGED <<live, lease, backup, preimage, ledger, todo, diag, commitUnknown,
                 settlement, ours, window>>

\* The replacement threw, and the readback finds the terminal.
PublishUncertain ==
  /\ phase = "compiled" /\ lease /\ FaultOccurs
  /\ terminal' = "applied" /\ published' = published \cup {"applied"}
  /\ committed' = TRUE /\ uncertain' = TRUE /\ retain' = TRUE
  /\ Goto("closing")
  /\ UNCHANGED <<live, lease, backup, preimage, ledger, todo, diag, commitUnknown,
                 settlement, ours, window>>

\* Mutant: a publication that could not be resolved counts as absent.
UnresolvedIsAbsent ==
  /\ phase = "compiled" /\ lease /\ FaultOccurs
  /\ terminal' \in {terminal, "applied"}
  /\ published' = published \cup ({terminal'} \cap {"applied"})
  /\ commitUnknown' = FALSE
  /\ Goto("failed")
  /\ UNCHANGED <<live, lease, backup, preimage, ledger, todo, diag, committed,
                 uncertain, settlement, retain, ours, window>>

\* It threw after an effect was possible, and the readback finds nothing or
\* cannot read what is there.
PublishUnknown ==
  /\ phase = "compiled" /\ lease /\ FaultOccurs
  /\ terminal' \in {terminal, "applied"}
  /\ published' = published \cup ({terminal'} \cap {"applied"})
  /\ commitUnknown' = TRUE
  /\ Goto("failed")
  /\ UNCHANGED <<live, lease, backup, preimage, ledger, todo, diag, committed,
                 uncertain, settlement, retain, ours, window>>

\* recordGeneratedArtifacts returns or throws; either way the terminal stands.
RecordArtifacts ==
  /\ phase = "recording"
  /\ (lease /\ UNCHANGED bounds) \/ Throws
  /\ Goto("closing")
  /\ UNCHANGED <<live, lease, backup, preimage, ledger, todo, verdict, retain, ours, window>>

-----------------------------------------------------------------------------
(* The catch block: resolveUpgradeRollback and restoreWorkspace.           *)

Settle(outcome) ==
  /\ settlement' = outcome
  /\ retain' = (outcome = "recovery-required")
  /\ Goto("reporting")

\* Mutant: without an acknowledged change there is nothing to restore.
ResolveNothing ==
  /\ phase = "failed"
  /\ IF commitUnknown
       THEN Settle("recovery-required")
       ELSE /\ retain' = (changed # {})
            /\ Goto(IF changed = {} THEN "closing" ELSE "admitting")
            /\ UNCHANGED settlement
  /\ UNCHANGED <<live, lease, backup, preimage, ledger, todo, terminal, diag, committed,
                 commitUnknown, uncertain, published, ours, window, bounds>>

Resolve ==
  /\ phase = "failed"
  /\ IF commitUnknown
       THEN Settle("recovery-required")
       ELSE retain' = TRUE /\ Goto("admitting") /\ UNCHANGED settlement
  /\ UNCHANGED <<live, lease, backup, preimage, ledger, todo, terminal, diag, committed,
                 commitUnknown, uncertain, published, ours, window, bounds>>

\* admitUpgradeRecovery: all files are as the ledger expects them.
Admits ==
  /\ lease /\ ~unknown /\ records < MaxLedgerRecords
  /\ live = expected

BackupIsOriginal == \A f \in changed : preimage[f] = original[f][1]

\* The direction is recorded; then each changed file is found in the backup as
\* it was, and the restoration it needs is planned, or the restoration fails.
AdmitRecovery ==
  /\ phase = "admitting" /\ Admits
  /\ rollback' = TRUE /\ records' = records + 1
  /\ \/ /\ BackupIsOriginal
        /\ todo' = {f \in changed : expected[f][1] # original[f][1]}
        /\ Goto("restoring")
        /\ UNCHANGED <<settlement, retain>>
     \/ /\ ~BackupIsOriginal
        /\ Settle("recovery-required")
        /\ UNCHANGED todo
  /\ UNCHANGED <<live, lease, backup, preimage, original, expected, changed, unknown, open,
                 terminal, diag, committed, commitUnknown, uncertain, published, ours, window,
                 bounds>>

CompareRestore(f) == phase = "restoring" /\ f \in todo /\ Compare({f})

\* One file is rewritten, removed or created again, and acknowledged.
RestoreFile(f) ==
  /\ phase = "restoring" /\ f \in todo /\ f \in checked
  /\ Takes(f, original[f][1])
  /\ live' = [live EXCEPT ![f] = Fresh(original[f][1], RestoredId)]
  /\ ours' = Record(live', {f})
  /\ Unchecked
  /\ \/ /\ expected' = [expected EXCEPT ![f] = live'[f]]
        /\ records' = records + 1
        /\ todo' = todo \ {f}
        /\ UNCHANGED <<phase, settlement, retain, bounds>>
     \/ /\ FaultOccurs /\ Settle("recovery-required")
        /\ UNCHANGED <<expected, records, todo>>
  /\ UNCHANGED <<lease, backup, preimage, original, changed, unknown, rollback, open,
                 terminal, diag, committed, commitUnknown, uncertain, published>>

\* The final readback: what the ledger expects, with the original contents.
ReadsBack == lease /\ live = expected /\ Content(live) = Content(original)

RestoreDone ==
  /\ phase = "restoring" /\ todo = {} /\ ReadsBack
  /\ Settle("rolled-back")
  /\ UNCHANGED <<live, lease, backup, preimage, ledger, todo, terminal, diag, committed,
                 commitUnknown, uncertain, published, ours, window, bounds>>

RestoreRefused ==
  \/ phase = "admitting" /\ ~Admits
  \/ phase = "restoring" /\ checked = {} /\ \E f \in todo : ~lease \/ ~Unmoved({f})
  \/ phase = "restoring" /\ \E f \in checked : Refuses(f)
  \/ phase = "restoring" /\ todo = {} /\ ~ReadsBack

\* Mutant: the failure of the restoration is caught and the attempt goes on
\* as rolled back.
RestoreFailsQuietly ==
  /\ \/ RestoreRefused /\ UNCHANGED bounds
     \/ phase \in {"admitting", "restoring"} /\ FaultOccurs
  /\ Settle("rolled-back") /\ Unchecked
  /\ UNCHANGED <<live, lease, backup, preimage, ledger, todo, terminal, diag, committed,
                 commitUnknown, uncertain, published, ours>>

RestoreFails ==
  /\ \/ RestoreRefused /\ UNCHANGED bounds
     \/ phase \in {"admitting", "restoring"} /\ FaultOccurs
  /\ Settle("recovery-required") /\ Unchecked
  /\ UNCHANGED <<live, lease, backup, preimage, ledger, todo, terminal, diag, committed,
                 commitUnknown, uncertain, published, ours>>

-----------------------------------------------------------------------------
(* publishUpgradeApplyFailureArtifacts and the finally block.              *)

\* Diagnostics follow only a terminal whose publication returned.
PublishVerdict ==
  /\ phase = "reporting" /\ ~commitUnknown /\ lease
  /\ terminal' = settlement /\ published' = published \cup {settlement}
  /\ \/ Goto("diagnosing") /\ UNCHANGED bounds
     \/ Goto("closing") /\ FaultOccurs
  /\ UNCHANGED <<live, lease, backup, preimage, ledger, todo, diag, committed,
                 commitUnknown, uncertain, settlement, retain, ours, window>>

\* An unknown commit suppresses the competing terminal; another failure of
\* the publication is only a secondary failure.
NoVerdict ==
  /\ phase = "reporting"
  /\ (commitUnknown /\ UNCHANGED bounds) \/ Throws
  /\ Goto("closing")
  /\ UNCHANGED <<live, lease, backup, preimage, ledger, todo, verdict, retain, ours, window>>

Diagnose ==
  /\ phase = "diagnosing"
  /\ \/ lease /\ diag' = TRUE /\ UNCHANGED bounds
     \/ Throws /\ UNCHANGED diag
  /\ Goto("closing")
  /\ UNCHANGED <<live, lease, backup, preimage, ledger, todo, terminal, committed,
                 commitUnknown, uncertain, settlement, published, retain, ours, window>>

Close ==
  /\ phase = "closing"
  /\ \/ retain /\ UNCHANGED <<backup, bounds>>
     \/ ~retain /\ backup' = "retired" /\ UNCHANGED bounds
     \/ ~retain /\ FaultOccurs /\ UNCHANGED backup
  /\ Goto("ended")
  /\ UNCHANGED <<live, lease, preimage, ledger, todo, verdict, retain, ours, window>>

-----------------------------------------------------------------------------
Program ==
  \/ SnapshotObserve \/ SnapshotCopy \/ SnapshotSeal \/ SnapshotFails
  \/ ClearTerminal \/ PublishPlan \/ Prepare \/ CompareEffect \/ Effect \/ EffectRefused
  \/ AcknowledgeMutation \/ MarkUnknown \/ Untracked \/ Fails
  \/ PublishApplied \/ PublishUncertain \/ PublishUnknown \/ RecordArtifacts
  \/ Resolve \/ AdmitRecovery \/ RestoreDone \/ RestoreFails
  \/ (\E f \in Files : CompareRestore(f) \/ RestoreFile(f))
  \/ PublishVerdict \/ NoVerdict \/ Diagnose \/ Close

UNext == Program \/ LoseLease \/ \E f \in Files : Edit(f)

USpec == UInit /\ [][UNext]_uvars

-----------------------------------------------------------------------------
\* The files whose last writer is this upgrade hold the contents they had
\* before it.
Restored == \A f \in Files : live[f] = ours[f] => ours[f][1] = original[f][1]

\* The types; and the ledger runs backwards only after an admitted rollback,
\* and holds at most one unacknowledged mutation.
UTypeOK ==
  /\ {live, ours, original, expected} \subseteq [Files -> Contents \X Identities]
  /\ preimage \in [Files -> Contents]
  /\ {lease, unknown, rollback, diag, committed, commitUnknown, uncertain, retain}
       \subseteq BOOLEAN
  /\ backup \in {"none", "building", "sealed", "retired"}
  /\ changed \subseteq Files /\ todo \subseteq changed
  /\ DOMAIN open \subseteq Files /\ Cardinality(DOMAIN open) <= 2
  /\ checked \subseteq Files /\ late \subseteq checked
  /\ terminal \in {"previous", "none", "applied", "rolled-back", "recovery-required"}
  /\ settlement \in {"none", "rolled-back", "recovery-required"}
  /\ phase = "applying" => open = <<>>
  /\ faults \in 0..MaxFaults /\ foreign \in 0..MaxForeign /\ mutations \in 0..MaxMutations

\* An acknowledged effect is in the ledger: outside an effect in flight, a
\* file the ledger does not call changed, and no untracked effect touched,
\* is as the upgrade found it, so restoring the changed files is enough.
LedgerIsComplete ==
  phase \in {"applying", "admitting", "restoring"} /\ ~unknown /\ open = <<>> =>
    \A f \in Files \ changed : ours[f] = original[f]

\* A rollback never runs out of ledger: the records for the way back were
\* reserved before each forward effect (admitFileRecordBudget), so the
\* direction and a restoration of every changed file always fit.
ReverseFits ==
  /\ records <= MaxLedgerRecords
  /\ phase = "admitting" /\ ~unknown /\ changed # {} =>
       records + 1 + Cardinality(changed) <= MaxLedgerRecords
  /\ phase = "restoring" => records + Cardinality(todo) <= MaxLedgerRecords

\* A terminal that says rolled-back is true: no file still holds what the
\* upgrade wrote, whatever failed, was edited or was left unrecorded before.
RolledBackIsRestored == "rolled-back" \in published => Restored

\* The backup is the only copy of what the upgrade overwrote: it is retired
\* only after the upgrade was applied or undone.
BackupCoversLoss == backup = "retired" => committed \/ Restored

\* An attempt has one verdict: the applied terminal never stands beside, or
\* is replaced by, a failure terminal, even if its publication threw.
OneVerdict == Cardinality(published) <= 1

\* A recovery somebody was told is required can still be done: its backup
\* exists when the attempt has ended.
RecoveryHasBackup ==
  phase = "ended" /\ (settlement = "recovery-required" \/ uncertain) => backup = "sealed"

\* The terminal of an earlier upgrade is gone before this one changes a file.
NoStaleTerminal == terminal = "previous" => Restored

\* The terminal a reader finds is true of the workspace, and an attempt never
\* tells two stories, whatever failed or was edited on the way.
TerminalIsTrue == RolledBackIsRestored /\ OneVerdict /\ NoStaleTerminal

\* As long as the upgrade is neither applied nor undone, what a recovery needs
\* is there: a complete ledger, room in it, and the backup.
RecoveryIsPossible ==
  LedgerIsComplete /\ ReverseFits /\ BackupCoversLoss /\ RecoveryHasBackup

\* Neither a recorded effect nor a restoration overwrites an edit somebody
\* else made before the physical layer compared the file.  Of an edit made
\* after that, a file put in the place of the one compared is not overwritten
\* either; what is lost is a change of the compared file itself, or a file that
\* has only its name when it is removed or renamed (rewriteExact, removeExact).
\* A file somebody deleted may be created again where the ledger expects none.
EditsArePreserved ==
  [][foreign' = foreign /\ phase \in {"prepared", "restoring"} =>
       \A f \in Files : live'[f] # live[f] =>
         \/ live[f] = ours[f]
         \/ live[f] = Absent /\ expected[f] = Absent
         \/ f \in late /\ (live'[f] = Absent \/ live[f][2] = expected[f][2])]_uvars

\* What the comment on restoreWorkspace says: a restoration changes only the
\* files that are exactly as recorded, and foreign changes are preserved.
RestoresOnlyRecorded ==
  [][foreign' = foreign /\ phase = "restoring" =>
       \A f \in Files : live'[f] # live[f] => live[f] = expected[f]]_uvars
=============================================================================
