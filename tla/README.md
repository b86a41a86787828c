# TLA+ verification of the engineering workspace compiler

The repository is a compiler for engineering workspaces: it reads contracts an
author writes, resolves and projects them, and edits, verifies, upgrades and
retires workspaces.  Most of its code is sequential transformation.  What can
go wrong in ways a test hardly reaches is the part that keeps durable state on
a shared disk: independent processes agree on one writer, a writer edits an
author's file that other programs edit too, and every one of these protocols
has to survive a process that stops between two steps.  That part is modelled
first.  All paths below are relative to the repository root (`src/…`).

## 1. Inventory

| Component | State it keeps | Operations | Interacts with |
|---|---|---|---|
| Workspace write lease (`adapters/filesystem/write-lease*.ts`) | ledger `.sec/workspace-write-lease`: `<g>.owner.json`, `<g>.terminal.json`, `holders/<g>-<id>/`, `protocol.json`; in the process a handle, its timer and its control-plane lock | acquire, assertOwned, commit fence, heartbeat, quiesced sections, relocation, history retirement, release | every writer; other processes through the disk |
| Lease retirement (same, and `physical-relocation.ts`) | fence beside the workspace, transition and relocated ledger in the proof parent | retire, resume, recover, complete | worktree closeout deletes the tree after it |
| Semantic mutation (`application/semantic-mutation-*`, `adapters/mutation`) | journal `.sec/semantic-mutation/v1/transactions/<digest>`: generations, rejected terminal, artifacts, replacement residue; `terminal-order/`: receipts and head; the author's source | plan, apply, recover, query, prune | runs under the write lease; the source is shared with editors that do not take the lease |
| Lease monitor, query scope (`execution/lease-observation-monitor.ts`, `runtime-query-scope.ts`, `fenced-effect.ts`) | timers, abort signals, slots | start, observe, drain, run, close | a lease handle and the operation running under it |
| Task group, resource settlement (`execution/task-group.ts`, `stream-reader.ts`, `resource-settlement*.ts`) | running children, acquired resources | spawn, cancel, settle | every operation with concurrent parts |
| Pipeline (`application/pipeline-*`, `bootstrap/engineering`) | stage and journal state | run, resume, prove completion | compiler, lease monitor, task group |
| Workspace state stores (`adapters/runtime-state`) | journal files with anchor and control record, durable execution journals, provider coordination lease, content-addressed cache | append, create, mutate, delete, retire, recover; publish, read back, claim, evict | verification, providers |
| Upgrade (`application/upgrade-*`, `adapters/upgrade`) | snapshot, recovery ledger, execution terminal | plan, apply, restore | lease, artifacts |
| Container engine (`adapters/providers/docker`) | lineage of execution journals, launcher lease, the engine itself | observe, ensure started, recover, retry | execution journal, coordination lease |
| Semantic operations, effect grants (`execution/operation`) | grant chain, receipts issued in this process | admit, bind, settle | all effects |
| Generated state (`execution/generated-state`, `adapters/runtime-state/generated-state`) | registrations, cleanup budget, journal | register, retire, sweep | pipelines, worktree closeout |
| Verification sessions (`application/verification-session-*`, `execution/verification`) | session, action and attempt records | claim, run, resume, publish | GitHub, Docker, child processes |
| Self-hosting control and development (`adapters/self-hosting`) | Git refs, receipts, runtime store, transaction of import rewrites | merge gate, closeout, commit, check | Git, GitHub, lease retirement |
| Compiler, semantics, contracts, assurance, repository analysis, release, other providers, CLI | none of their own, or output files | pure or sequential | called by the above |

Hard behaviours, by component:

- *Lease*: nothing locks the ledger.  Each acquisition is a sequence of scans,
  links, renames and deletions, and any other session, or a crash, may come
  between two of them.  Correct means: one holder; an ownership proof that
  does not go stale; history is deleted without making the ledger unreadable
  and without letting an old generation be claimed again; contenders settle.
- *Lease handle and protocol root*: a timer, releases, retirements, relocations
  and quiesced sections of one handle meet at every await; sessions that make
  the protocol root repair each other's half-made marker.  Correct means: a
  generation ends once, with its heartbeat drained and its failure reported; a
  quiesced section sees a canonical control plane; the root converges.
- *Retirement*: a fence is published, then the generation ended, then the
  directory moved, while sessions that read no fence are still on their way.
  Correct means: no newcomer behind the fence, no active ledger moved, a
  stopped retirement can be finished.
- *Mutation*: a journal, a file exchange, a rebuild and two counters are
  written one after another, next to an editor.  Correct means: no editor's
  bytes are lost, an edit is live only under its journal, an accepted edit was
  and stays live, at most one transaction is unfinished and it is settled by
  later calls, a workspace that needs a human stays untouched.
- *Execution kernel*: cancellation, rejection and completion race.  Correct
  means: whoever ends, ends after everything it started; outcomes are true;
  nothing starts late; every wait ends.
- *Upgrade*: effects, acknowledgments and terminals fail one by one, next to
  an editor.  Correct means: the terminal says what happened, what is not
  finished can be recovered, an edit is found before it is overwritten.
- *Journal files*: three files are made and removed one by one, by processes
  that may stop between any two.  Correct means: callers see one atomic value,
  an interrupted owner is never forgotten, residue is not taken for absence.
- *Container engine*: two processes start or recover the same attempt.
  Correct means: every launch is recorded first, one attempt at a time, a
  retry only after a readback that allows it, an unresolved attempt is
  eventually resolved.

PROJECT.json lists every component, and every hazard at the line where it
bites.

## 2. Modules

| Module | Role |
|---|---|
| `ExclusiveWriter` | abstract specification: authority is granted to one writer at a time, effects happen inside it |
| `WorkspaceWriteLease` | the ledger and the sessions, one action per filesystem step |
| `WorkspaceWriteLeaseProofs` | type invariant, inductive invariant, safety theorems |
| `WorkspaceWriteLeaseRefinement` | action properties and the refinement of `ExclusiveWriter` |
| `LeaseRetirement` | extends the lease with fence, transition proof, relocation, resume |
| `LeaseHandle` | one acquired generation inside its process: heartbeat, calls, control-plane lock |
| `LeaseProtocolRoot` | concurrent creation and repair of the protocol root and its marker |
| `SemanticMutation` | apply, recovery, terminal order and prune of mutation transactions |
| `LeaseMonitor`, `TaskGroup`, `MonitoredGroup` | the lease monitor, the task group, and the compilation that runs a group under a monitor |
| `RuntimeQueryScope`, `StreamReader` | the bounded query scope; the owned stream reader with its settlement |
| `AtomicJournal`, `JournalMutation` | what a journal file promises; the three files and the owners that implement it |
| `UpgradeApply` | the application of an upgrade with its recovery ledger |
| `DurableExecution`, `ContainerReadiness` | the contract of an execution journal; the calls that bring up the container engine with it |
| `LeaseRetirementProofs`, `SemanticMutationProofs`, `JournalMutationProofs`, `UpgradeApplyProofs` | inductive invariants and theorems of the module they are named after |
| `SessionProofs` | inductive invariants and theorems of the parts of `MCSession`: protocol root, handle, monitored group, query scope, stream reader |
| `RecoveryLedgersProofs` | lemmas about journals, inductive invariant and theorems of `ContainerReadiness`; what joins them with `UpgradeApplyProofs` |
| `MC…` | several components put together for TLC; the other runs instantiate a component's module as it is |

`MCSession`, `MCRecoveryLedgers`, `MCDiskLedgers` (lease and journal) and
`MCLeaseSessions` (contenders for the lease, beside `MCSession`) put several
components into one instance: `part`, or `contends`, is chosen in the initial
state and never changes, and only the chosen component takes steps.  Components that are put together share no variable, so
the behaviours of the instance are exactly those of each component with the
others at rest, and a property of one component holds of the instance exactly
when it holds of the component.

### WorkspaceWriteLease

`owner`, `terminal` and `holders` are the files; `pc`, `view`, `attempts`,
`goal` and `todo` are one session's progress, where a session is one call of
`acquire` and what is done with its handle (its lease id is fresh, so the
session stands for the token).  `ReadInventory … StaleState` are
`acquireNative` and what it calls; `PrepareLease`/`LinkOwner` make the holder
directory and hard-link it as `<g>.owner.json`; `AssertOwnedFirst/Final` are
the two inventories of `assertOwnedNative`, used for acquiring, for the commit
fence (`Write`), for history retirement and for release; `ListHistory`,
`RetireTerminal`, `RetireOwner` are `retireTerminalHistory`;
`LinkTerminal`, `RemoveHolder`, `ReadbackTerminal` end a generation.  A failing
filesystem call (`…Fault`) and a stopped process (`Crash`) may happen at every
step.  A directory scan is one step, a link, rename or deletion is one step.

### LeaseRetirement

Extends the lease by the inode at the ledger path (`root`), so that a session
that goes on by path after a relocation meets an empty or another ledger, as
the code does.  `CheckFence` is the first read of `acquireNative`;
`CheckHistoryFence` is the one of `retireTerminalHistory`, whose inventory
(`listHistory`) is a step of its own, since a fence may come in between;
`RetireBegin … Relocate` are the holder's retirement; `RecoverCheck`,
`RecoverMove`, `Preterminal`, `ResumeAcquire`, `Complete` are
`resumeWorkspaceWriteLeaseRetirement` and `complete…`.  A resume that carries
the receipt past the fence (`Carries`) takes the steps of an ordinary
acquisition and leaves them at `ResumeReady`; if the terminal of a retirement
that is still running appears between its inventory and its read of the
generation it claims the next generation, which the code reports as unexpected
and releases.  `early` is a history variable: who was running when the fence
was published.  `NoSuccessorBehindFence` and `MovesNoActiveLedger` except
exactly these two kinds of session.  A generation claimed by one of them also
makes the ledger unrecoverable (nothing may have been added to it), so
`RecoversAfterTerminal` asks that the retired generation is still the highest.

### SemanticMutation

Calls are serialised by the lease (that is what `WorkspaceWriteLease` proves),
so one session runs at a time and an interruption returns to `idle` with what
is on disk.  Bytes are abstracted to the set of edits they contain: a request
adds itself, an editor's save adds a new foreign edit, keeps the foreign edits
and may drop a request's.  `record`, `rejected`, `sequence`, `artifacts`,
`residue` are what a transaction directory holds, `receipts` and `head` the
terminal order.  What the derivation, the isolated verification and a rebuild
conclude is a nondeterministic choice, constrained by the bytes they read:
a success needs exactly the bound bytes, a failure is always possible.
An editor saves by path; one that writes through an old descriptor into a
displaced inode is not modelled.  Of a retired transaction directory the
generations go one by one, as the deletion order of
`retireNoFollowDirectoryTree` has it, and everything at depth one in one step.
A candidate that is being written is `Torn`, so that a crash in the middle of
it is a state of its own.  The Linux backend (`renameat2` exchange) is the one
modelled.  A second prune after recovery-required is left out: the call has
already pruned and no terminal has been added since.

### LeaseHandle and LeaseProtocolRoot

`LeaseHandle` is what the process that holds a generation does with its handle.
Every `await` ends an action.  `BeatTick` and `HeartbeatCall` start or join the
one pending heartbeat (`BeatProve … BeatFinish`, `BeatLost`, `BeatFault`);
`RetireCall`, `ReleaseCall`, `QuiesceCall`, `RelocateOpen/Commit` are the calls,
of which several may be in flight; `lock` is the queue of
`withControlPlaneLock`.  What other processes do to the ledger is left to
`WorkspaceWriteLease`: nobody else ends a held generation, which is proved
there (`NoTakeover`).

`LeaseProtocolRoot` is `ensureProtocolRoot`, one action per filesystem call,
with a session's candidate standing for its inode.  `alone` is a history
variable: no other session was under way at the same time.

### The execution kernel

`LeaseMonitor` is `withLeaseObservationMonitor`: `Tick` starts an observation
unless one is pending, the operation ends by itself, and the drain, the final
assertion and the aggregation of errors follow in the code's order.
`TaskGroup` is `runCapturedGroup` with workers that take items in order, a
linked cancellation signal and the aggregation of failures.  `MonitoredGroup`
composes them as the pipeline does: the monitor's abort is the parent signal of
the group the compose stage runs, and the operation ends before the group has
begun or after it has settled.  `RuntimeQueryScope` models `prepare` as it
runs, synchronously, with `run` and `close` called from inside it.
`StreamReader` is `withOwnedByteStreamReader` with `settleResourcesAsync`; the
stream itself is external, and a stalled source settles a read only when it is
cancelled.

### UpgradeApply

A file is its content and its physical identity, because the ledger compares
both and the final readback only the content.  `SnapshotObserve/Copy/Seal` make
the backup; `Prepare`, `CompareEffect`, `Effect`, `AcknowledgeMutation`,
`MarkUnknown` are one forward effect with its records in the recovery ledger;
`PublishApplied`, `PublishUncertain`, `PublishUnknown` the three outcomes of the
terminal's publication; `Resolve`, `AdmitRecovery` (the direction record, then
the check of the backup), `CompareRestore`, `RestoreFile`, `RestoreDone/Fails`
the restoration; `Close` the fate of the backup.  `Edit` is somebody else's
change, in place or with a new identity, and `LoseLease` the loss of the lease,
both possible at any time.

The comparison of a file with the ledger and the effect on it are two steps, as
in the physical layer (`physical-durable-file.ts`): `rewriteExact` and
`removeExact` compare the bytes once, and the effect that follows looks only at
the identity of a file it replaces, at the name of one it removes or renames,
and at the absence of one it creates (`Takes`).  `checked` are the files that
have been compared, `late` those of them that were edited since.  That the
replacement exchanges two names, looks at what it displaced and exchanges back
if that is another inode is one step, `Takes` or `Refuses`; Windows acts through
a handle and may also refuse where POSIX goes by name, which is why `Refuses`
is a choice.  `published`, `ours` and `late` are history variables.

### AtomicJournal and JournalMutation

`AtomicJournal` is the promise to a caller: one value, changed at most once by
each call, in one step, from the value the call expects.  `JournalMutation` is
how the runtime-state journal keeps it with an anchor whose inode carries the
native guard, a control record with an active and a recovery owner, and the
payload.  Taking the guard is one step although the code locks the anchor and
then reads it back by path: a session whose anchor was replaced in between
fails the readback and ends as if the lock had been refused, which is the
outcome of the single step taken a moment later.  `owed` is a history variable,
the owner that stopped without a release and was not acknowledged since;
`applied` is the refinement's witness of who changed the payload.

### DurableExecution and ContainerReadiness

`DurableExecution` states which record may be appended after which
(`observeDurableExecutionJournal`) and the room that is kept for closing an
attempt (`reservedClosureRecords`).  `ContainerReadiness` is
`observeLocalContainerEngineReadiness` in mode `ensure-started` on Windows (on
other platforms nothing is written), with `ensureDockerDaemonStartedWithCommand`
and the launcher's coordination lease.  That lease is a durable owner record
without a native guard: a call that throws settles it on its way out, but a
process that dies, or a settlement that fails, leaves the record, and nobody
may take it over (`acquirePhysicalMutationLease`).  `StopCall` has both
outcomes, and `DeadCaller` is the owner of a record left behind.  A launcher
may outlive the process that started it: `inFlight` are the launchers that
have not reported.  A launcher whose transport failed counts as reported, since
its call goes on and settles its lease.  An append is two steps, the read with
its checks and the compare-and-swap, so that another process may come between;
that the swap itself is atomic is `ImplementsAtomicJournal`.  Whether the
engine answers, and whether a deadline is over, is a choice wherever the code
asks.  A retry is bound with a deadline a whole budget from now, so it is later
than its predecessor's unless the system clock was set back
(`ClockIsSetBack`, TRUE in the safety run so that the retry path is explored,
FALSE in the violation run).

Three further things the model shows without a property of its own: a call that
stops between the intent and the attempt leaves an operation that later calls
report as unavailable and never take further; a call that stops between a
recovered readback and its resolution leaves the attempt unresolved for good,
like the finding below; and an attempt that another process resolved as not
applied may still be launched by the process that started it, since only its
next append notices.

## 3. Runs

Every bound is a constant of the model.  TLC explores all states of the
instance.

| Run | Instance | Shows |
|---|---|---|
| `DiskLedgers` | lease: 3 sessions, 3 generations, 2 attempts, faults; journal: 3 calls in 3 processes, 2 aborts, with and without an existing journal | lease: mutual exclusion, a proof that does not go stale, a readable ledger with a holder for the active generation, monotone high-water mark, no takeover, refinement of `ExclusiveWriter`; journal: files nest and are clean at rest, interrupted owners stay recorded, residue is frozen, refinement of `AtomicJournal` |
| `RetirementRecovers` | 2 sessions, 2 generations, faults | nobody new behind the fence, only a terminated ledger is moved, a resume finishes what stopped after the terminal, every session settles |
| `RetirementRecreated` | 2 sessions | *violation*: a retired namespace is recreated |
| `RetirementResume` | 2 sessions, faults | *violation*: a retirement stopped between fence and terminal is never finished |
| `Mutation` | 2 requests, 1 foreign edit, 3 calls, 2 faults, retention 1 | no lost update, journalled edits, acceptance, one unfinished transaction, a frozen workspace, ordered terminals and prunes, recovery |
| `MutationFirstReceipt` | no head yet, 1 fault | *violation*: an interruption between the first receipt and the first head is never recovered |
| `MutationPruneInterrupted` | retention 1, 1 fault | *violation*: an interrupted prune turns an accepted transaction into unfinished work |
| `LeaseSessions` | contenders: 3 sessions, 3 generations, 2 attempts, no faults; root: 3 sessions, 1 crash; handle: 3 calls, 2 heartbeats, 1 fault; compilation: 4 items, 2 workers, 2 observations; scope: 3 queries, 2 slots; reader: 3 reads | the root converges, a generation ends orderly, a quiesced section is canonical, nothing is left running, outcomes are true, nothing starts late, every wait ends, that of contenders too: they do not defeat each other |
| `RecoveryLedgers` | upgrade: 2 files, 3 effects, 2 foreign edits, 2 faults, 9 records; engine: 2 processes, 2 operations, 1 stop, 10 records | terminals are true and recoverable, an edit made before the comparison is preserved and a later one unless it is of the compared file; attempts are sound and launchers do not overlap, records are kept |
| `UpgradeEditRace` | 2 files, 2 effects, 1 foreign edit, 1 fault | *violation*: an edit in place between comparison and exchange is overwritten |
| `LauncherReclaimed` | 1 process, 1 stop, forward clock, fairness | *violation*: the launcher lease of a dead process is never free again |
| `ReadinessRecovers` | 1 process, forward clock, fairness | *violation*: an unresolved attempt is never resolved |

Some properties are conjunctions of named parts, each with its own comment in
the component's module: `LedgerIsSound`; `FenceHolds`; `HistoryIsOrdered`;
`RootConverges`, `EndingIsOrderly`, `NothingIsLeftRunning`, `OutcomesAreTrue`,
`NothingStartsLate` (in `MCSession`); `EveryWaitEnds` (in `MCLeaseSessions`);
`FilesAreSound`, `OwnersAreRecorded`; `AttemptsAreSound` (in `MCRecoveryLedgers`).
`EveryWaitEnds` says that always eventually nobody waits; what has ended stays
ended and there are finitely many waits, so it is the same as one leads-to for
every call, group, close and abort, and for the contenders together: once one
has started, some session gets the lease and releases it.

Why these bounds are enough to meet the interesting cases: three sessions are
a holder, a contender and a late linker; three generations give a retired, a
terminated and an active one.  Two requests and a foreign edit give a
transaction on top of another with an editor in between; two faults give a
crash in the recovery of a crash, and a retention of one makes every second
completion prune.  `MaxSequence` is above the number of completions an
instance can reserve, except that its exhaustion is an error as in the code;
retention is 256 in the code.  Three calls of a handle are a quiesced section,
a release and a retirement at once.  Three journal calls with two aborts are
an owner that stops, a successor that stops before it has acknowledged it, and
a third that finds both.  Nine ledger records are one too few for the longest
upgrade, so that the reservation decides; ten journal records are one too few
for two full attempts (16 in the code).  Symmetry is used only in
`DiskLedgers` and `RecoveryLedgers`, which check no liveness; `DiskLedgers` also
identifies states that differ only in locals nobody reads again (`LiveState`).  Deadlock is not checked
where every session, call or operation ends; it is checked in the mutation
runs.

Each property has a mutant of a modelled definition that breaks it, listed in
PROJECT.json and kept beside the definition it mutates.

### Fairness

`WorkspaceWriteLease`: a running session goes on (`WF` on its acquisition and
on what follows), since nothing in it waits for another; a holder eventually
asks for its release (`SF`, `withLease` releases in `finally`, whatever writes
and history requests come between).  `LeaseRetirement`: retirement steps go on,
and so do resume steps together with the acquisition they contain
(`Resume \/ Running`): a resume alternates between the two.
`SemanticMutation`: a running call goes on, and the workspace is used again
(`WF(BeginRecover)`); nothing is assumed of editors or of faults, which are
bounded.  `MCLeaseSessions`: contenders as in `WorkspaceWriteLease`; a call of the handle and its heartbeat go on (filesystem
calls return); in the kernel, settled promises are continued, callbacks,
queries and cancelled reads settle, and an operation whose signal is aborted
ends when what it awaits has ended.  That a lease is lost, a parent cancels, a
tick comes or a stalled source answers is never assumed.
`ContainerReadiness`: a call goes on and the engine is asked for again; in
`LauncherReclaimed` also `SF` on `EnsureDown`, that is, the engine does not come
up by itself each time before a call asks for the lease.

### Findings

1. `RetirementRecreated`: the fence is read once, before the namespace is
   created; the comment at `src/adapters/filesystem/write-lease-retirement-proof.ts:185`
   rules out what the run shows.
2. `RetirementResume`: `src/adapters/filesystem/write-lease.ts:515` says resume
   covers both crash windows; between fence and terminal the generation is
   active and the resuming acquisition is refused.
3. `MutationFirstReceipt`: `src/adapters/mutation/mutation-terminal-record.ts:319`
   calls the gap harmless; the first completion of a workspace has no head to
   catch up from, and the receipt alone is refused.
4. `MutationPruneInterrupted`: retirement deletes the terminal generation
   first; what remains is an unfinished record, which
   `tests/integration/semantic-mutation-recovery-lifecycle.test.ts:320` says
   retained history never becomes.
5. `ReadinessRecovers`: an attempt that is read back as not applied before its
   deadline is to be retried, but the retry's deadline
   (`src/adapters/providers/docker/runtime/readiness.ts:187`) is later than the
   predecessor's and `src/execution/operation/semantic.ts:974` refuses it, with
   the readback already in the journal; from then on every call fails at its
   own readback, also when the engine is up.  The comments at `readiness.ts:194`
   and `:362` say that recovery and retry replace only the attempt and that an
   unresolved operation keeps its recovery.
6. `LauncherReclaimed`: the test "Docker launcher lock reclaims a lease whose
   process lost its handle"
   (`src/adapters/providers/docker/runtime/launcher-lock.test.ts:115`) expects
   what `src/adapters/runtime-state/physical/runtime/mutation-lease.ts:269-284`
   refuses: the record of another owner is never taken over, so after a process
   that died with the lease every call that finds the engine down is told that
   the launcher is busy.
7. `UpgradeEditRace`: `src/adapters/upgrade/workspace-snapshot.ts:555` says that
   only exact recorded files are restored and foreign changes keep the backup.
   `rewriteExact` compares the bytes and then gives the replacement the identity
   alone (`src/adapters/runtime-state/physical/runtime/physical-durable-file.ts:551-563`),
   so a file edited in place in between is exchanged (1570) and unlinked (1610).
   That input's own comment calls the identity no content precondition.

A note on crashes: the lease of a process that died is never taken over
(`NoTakeover`), so after a real crash a mutation is recovered only once the
ledger has been cleared by hand; an exception or a lost lease ends the call
and releases it.  `SemanticMutation` covers both, as `Interrupt`.

## 4. Proofs

What is proved holds for every value of the constants the named assumptions
admit: any number of sessions, generations, requests and outside edits, any
bound on interruptions and failures.  What a theorem states on a specification
without fairness holds under the fair one of the run, which implies it.

### Workspace write lease (`WorkspaceWriteLeaseProofs`, `WorkspaceWriteLeaseRefinement`)

Assumption: `LeaseAssumption` (`NoWriter` is no session, the bounds are
natural numbers, at least one attempt), with and without faults and history
retirement.

- `TypeInvariant`: `TypeOK` is inductive with `AttemptsLeft`.
- `MutualExclusionHolds`, `HolderOwnsLedgerHolds` and `LedgerIsSoundHolds`
  (from `LedgerConsistentHolds` and `ActiveHasHolderHolds`) follow from one
  inductive invariant `LeaseInv`.
  `MutualExclusion` alone is not inductive: that a session holding a handle is
  alone needs that it owns the highest generation (`HolderOwnsLedger`), that a
  session about to link saw a terminated high-water mark or will find its name
  taken (`Claiming`, `Prepared`), that linked files stay linked until their own
  session ends them (`Linked`, `Removing`), and that history retirement only
  touches generations below the mark (`Retiring`).  Steps are grouped by what
  they do to the ledger (quiet, holder, owner link, terminal link, two
  deletions), one lemma each; every action is then one of these.
- `NoTakeoverHolds`, `HighWaterMonotoneHolds`: action properties, from
  `LeaseInv` and the classification of steps (`StepKinds`).
- `RefinesExclusiveWriter`: `Spec => EW!Spec` with authority as the owner of
  the active generation.

### Semantic mutation (`SemanticMutationProofs`)

Assumption: `MutationAssumption`.  The requests are a finite set (the
retention of terminals counts them), outside edits need not be; at least one
terminal is retained.

All seven theorems follow from one inductive invariant `MInv`:
`MutationTypes`, `NoLostUpdate` (`EditsSurvive`), `AcceptedStays`
(`AcceptedIsLive`), `LiveEditsAreOwned` (`LiveEditIsJournaled`),
`OneAuthority` (`OneUnfinished`) and the action properties
`RecoveryRequiredFreezes` (`FrozenWhileBlocked`) and `HistoryIsAQueue`
(`HistoryIsOrdered`).  Its parts besides the properties:

- `Pairs`: the two generations of a transaction differ by its own edit, and a
  record has both; `Subject`: the state of the transaction a session works on,
  at each of its steps; `Alone`: no other one is unfinished or blocked.
- `Kept` and `Displaced` carry `EditsSurvive`.  The source has every outside
  edit a transaction started from, so a residue that has no other may go; one
  that has another (`~Clean`) stops its transaction, along the path the code
  takes from the cleanup of an exchange to recovery-required, before anything
  removes it.
- `Replacement` carries `LiveEditIsJournaled` over the gap between the last
  look at the preimage and the exchange: an editor may write in between, and
  what the exchange then publishes is still owned by records.
- `Counted` and `Ordered` carry the history.  A prune that is interrupted
  between two deletions leaves the older generation of a terminal as an
  unfinished record; that this is never a second one needs that a prune retires
  at most one transaction.  `OnePrunable` and `PruneMakesRoom` prove that by
  counting: there are at most Retention and one transactions on disk, so the
  oldest of them is the only one with Retention newer ones.

The proof first says what kind of step each action is (`Kinds`: still, touches
a residue, notes a record, exchanges, writes a terminal, retires an entry,
writes artifacts, edits) and what that kind changes, then how a session comes
to the steps the invariant speaks of (`FlowWork`, `FlowOrder`, `FlowPrepare`,
`FlowReplace`, `FlowDisplaced`), and then one lemma for each part.

### Journal mutation (`JournalMutationProofs`)

Assumption: `JournalAssumption` (`None` is neither a session nor a value, the
sessions are a finite set, which bounds the generations they can make).

`JournalTypes`, `JournalOwners` (`OwnersAreRecorded`), `JournalFiles`
(`FilesAreSound`), the action property `JournalResidue` (`ResidueIsFrozen`) and
the refinement `JournalIsAtomic` (`ImplementsAtomicJournal`) follow from the
inductive invariant `JInv`: what a call knows of itself and of its effect at
each step (`CallInv`, `EffectInv`), what the owner of the guard has made sure of
(`GuardInv`), what a session relies on that makes the journal before it has the
guard (`MakerInv`, `Private`, `FirstPublication`), that the owner nobody
acknowledged is the one a successor is told of (`Lineage`), and who finishes
what is half made as long as nothing is interrupted (`Undisturbed`).  For the
refinement, `AnswerStep` and `EffectStep` say where a call answers and where it
takes effect; every step is then one of `AtomicJournal`'s or a stutter.

### Upgrade (`UpgradeApplyProofs`)

Assumptions: `FilesAssumption` (the configuration is one of the files that
exist at first) and `BoundsAssumption` (the bounds are positive numbers).

`UpgradeTypes`, `TerminalsAreTrue` (`TerminalIsTrue`), `RecoveryStaysPossible`
(`RecoveryIsPossible`) and the action property `EditsStay`
(`EditsArePreserved`) follow from the inductive invariant `UInv`.  `EditsStay`
is about a physical layer that compares once and then goes by identity or name:
an edit made before the comparison is never overwritten, one made after it only
where finding 7 says.  The heart of `UInv` is
`Track`: at every point of the way forward and back, a file is as the program
last left it, or the ledger expects no file there, or the identity the ledger
expects is gone (`Gone`), and gone for good, since an identity is never issued
twice (`Fresher`, `Issued`).  So a file is, when it passes the ledger's
comparison, one that nobody else has touched; `Window` carries that to the
effect: a file that has been compared and not edited since is as the ledger
expects it.  `Undone` says what a rollback left, however
it is edited afterwards, `Verdicts` how phase, settlement, terminal and backup
go together.  `Reserve` is what the admission of a mutation keeps free: at
every step forward there is room in the ledger for the records that undo what
was done so far, the mutation under way included.  It is not inductive without
the check that `append` in `recovery-intent.ts` makes of the budget itself: at
a limit of a single record the reservation alone would admit one record too
many.

### Lease retirement (`LeaseRetirementProofs`)

Assumptions: `LeaseAssumption` and `NoProofAssumption` (`NoProof` is not a
ledger).

`RetirementTypeCorrect` (`RTypeOK`), `FenceEndsLedger` (`FenceHolds`) and the
action property `NoActiveLedgerMoves` (`MovesNoActiveLedger`) follow from the
inductive invariant `RInv`.  `LeaseInv` of the write lease is no part of it,
because it is false here: a session that lost its directory to a relocation
goes on by path, and may link an owner or a terminal of its old generation in
the directory that came after.  What survives that:

- `OwnerInv`: an owner file is that of the one generation its session claimed,
  and a history pass has only predecessors of its own to visit.  `HolderInv`:
  the active generation has its holder directory, and so has a session that may
  delete predecessors; hence empty holders mean that nobody has the lease and
  nobody deletes (`NoHolders`).
- `RetireInv`: which ledger a retiring session has bound, and where the session
  can be whose receipt the fence holds; a fence whose ledger is still at the
  path belongs to the one who retires it.  `AdmissionInv`: behind a fence only
  sessions that passed it before, or carry its receipt, are under way.
- `PairInv`: the owner and the terminal of a retiring generation come and go in
  order.  Three cases: the terminal is not there yet and the owner and its
  holder are; both are there; or another session has begun to delete them,
  above them, and the terminal does not come back.
- `MoveInv`: whoever is about to move the ledger finds it as the last scan left
  it: the fence stands, the pair is complete, no history pass can delete from
  it, and nobody has the lease who was not let in.  `SafetyStays` proves that no
  step of another session undoes this before the move.  `MovedInv`: a ledger
  that was moved is not at the path again, so its fence is not removed early.

The proof says what each step does to the files (`Kinds`) and how a session
comes to the steps of the invariant (`LeaseFlow`, `RetireFlow`), and has one
lemma for each part.  It needs that a history pass looks at the fence and scans
the ledger in two steps, and that a pass that found the fence has nothing to
delete.

### Inside a process under a lease (`SessionProofs`)

Assumptions: those of the parts (`NoneAssumption`, `CrashAssumption`,
`BeatAssumption`, `BoundAssumption`, `TicksAssumption`, `SizeAssumption`,
`MaximumAssumption`, `QueriesAssumption`, `ReadsAssumption`): the values that
stand for nobody are nobody's, bounds are natural numbers, there is at least
one worker and one slot, and the queries of a scope are a finite set.  Sessions
and calls need not be finite.

`SessionTypes`, `ProtocolRootConverges` (`RootConverges`),
`QuiescedStaysCanonical` (`QuiescedIsCanonical`), `GenerationEndsOnce`
(`EndingIsOrderly`), `NothingOutlives` (`NothingIsLeftRunning`),
`OutcomesStayTrue` (`OutcomesAreTrue`) and the action property
`NothingBeginsLate` (`NothingStartsLate`) follow from `SessionInv`, one
inductive invariant for each part:

- `PInv`, the protocol root.  `Published`: the session whose candidate the
  marker names makes no other, and from its link on there is a marker, so the
  alias a session removes is the marker's.  `Undisturbed`: a session that runs
  alone meets at every stage what it left there.  `OnTheWay` is why racing
  sessions do not all fail while none is interrupted: before the link
  everybody, then the session of the marker, then whoever removed its candidate
  has won or is still on the way.
- `HInv`, the handle.  `QueueShape`: the queue of the control-plane lock has
  exactly the calls that wait or have entered, and who has entered is first in
  it.  `Closed`: admission is closed before an ending drains the heartbeat, so
  behind the drain there is no heartbeat, and what the ending saw of its
  failure is still so.  `EndedOnce`: of all endings one has published the
  terminal, and one that has proved ownership under the lock has not been
  preceded.
- `CInv`, the monitor (`MonitorPhase`), the group (`HandedOut`: every item
  handed out is with one worker or has settled; `Closing`: the reason that
  closed admission is the one reported; `Joining`) and their link (`Linked`: a
  recorded loss has closed admission, and the operation ends with the group at
  rest).
- `QInv`, the query scope (`StackShape`, `CloseShape`), and `SInv`, the stream
  reader (`ReaderShape`).

A lemma for each part says that its steps preserve its invariant, and the steps
of the other parts leave its variables.

### Container engine (`RecoveryLedgersProofs`)

Assumption: `ReadinessAssumption` (`NoCaller` and `DeadCaller` are two values
and no processes, the bounds are natural numbers, at least one operation and one nonce), for every limit on
records and attempts, with and without a clock that is set back.

`ReadinessTypes`, `AttemptsStaySound` (`AttemptsAreSound`) and the action
property `RecordsStay` (`RecordsAreKept`) follow from the inductive invariant
`ReadInv`.  `LedgersAreBoth` shows that the specification of the run implements
those of the upgrade and of the readiness protocol, so that the theorems of
both hold of it; `RecoveryTypes` is one of them.

- `Lawful` describes a journal by its records, not by its history: an intent
  first, at most one active attempt and none in a settled journal, each kind of
  note at most once.  `LawfulExtend` shows that what `Allows` accepts keeps a
  journal lawful; `WithinExtend` that the records an attempt still has to write
  were reserved when it began, which is why no closing record is ever refused
  for want of room.
- `Justified` is the history of retries.  A retry appends a resolution and a
  start at once, so `Appended` goes through the journal between the two.  That
  no earlier readback found an effect (`ReadbacksBefore`) follows from the
  place of the active attempt: readbacks before it were followed by it, and the
  one after it is unique and was issued by this very call.
- `CallInv` is what a call knows.  Between the check and the swap of its append
  (`Pending`) it is stated under a condition: the records are acceptable if the
  journal is still as long as it was when it was read.  Every other process may
  only make it longer (`KeptJournal`), so either the check still stands or the
  swap fails.
- `Nonced`: nonces tell calls apart.  A readback is recognised by the nonce of
  its issuer (`NotRead` before it is written), and nothing was launched for a
  fresh one.
- `Flight`: at most one launcher is in flight, and while it is, the lease is
  held by the call that awaits it or by a dead owner.  So no other launcher is
  started, also when the process is gone; with a lease that were free after its
  owner's death this would be false (the mutant `StopCallReclaimed`).

`OthersKeep` is the frame: a step of one call leaves what every other call
relies on.  `Keeps` then reduces a step to what it does to its own call, and
there is one lemma for each group of actions that do the same to it.

### Only model-checked

Liveness: `RecoversAfterTerminal`, `SessionSettles`, `RecoverySettles`,
`EveryWaitEnds`.  Fairness and ENABLED are out of the
prover's reach.  Every invariant and every action property of the passing runs
is a theorem.

## 5. Not modelled

The components with status `not_modelled` in PROJECT.json, with the reason.
Most of the repository's lines are there: the compiler and its projections, the
repository analysis, the toolchain, the self-hosting control plane and the
release are sequential transformations or drivers of Git, GitHub, Docker and
child processes, whose behaviour is that of the external program.

Within the modelled ones: a directory scan that is torn by concurrent
deletions, file modes and Windows attributes, the content of records beyond
what identifies them; the worktree deletion after a lease retirement; a process
that stops in the middle of an upgrade (the code keeps the backup and does not
resume); the coordination-namespace domain of the physical mutation lease, the
content-addressed cache and process diagnostics; the stage journal and the
completion proof of the pipeline; the fenced effect, the synchronous
settlement and the progress lifecycle of the kernel, which have no
interleaving of their own; endpoints and the provider identity of the
container engine, a change of which ends a call.  A quiesced section is asked
for under the root the lease was acquired under, as all its callers do, never
under the root of a relocation.

## 6. Plan

What the passing runs check of safety is proved; what is left extends the
model, in this order:

1. `GeneratedState`: registration, retirement, cleanup budget; cache
   publication of the workspace state stores.
2. Hosted verification actions: claim, retry, resume.
3. Merge gate and worktree closeout, composed with `LeaseRetirement`.
4. `SemanticImpact`: propagation as a closure, against a reference definition.
