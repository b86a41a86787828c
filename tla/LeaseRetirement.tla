--------------------------- MODULE LeaseRetirement ---------------------------
(***************************************************************************)
(* Terminal retirement of a workspace's write lease: the holder takes the  *)
(* whole ledger directory out of the workspace and leaves a fence beside   *)
(* the workspace, so that the tree can be deleted (worktree closeout).     *)
(*                                                                         *)
(* The ledger of WorkspaceWriteLease is what the path                      *)
(* .sec/workspace-write-lease shows.  root is the inode behind that path;  *)
(* a relocation empties the path and a later ensureRoot puts a new, empty  *)
(* directory there.  A session addresses the ledger by path and so may     *)
(* find another ledger than the one it started with.                       *)
(***************************************************************************)
EXTENDS WorkspaceWriteLease

CONSTANT NoProof   \* "no transition proof", "no retained namespace"

VARIABLES
  root,      \* inode of the directory at the ledger path, 0 if there is none
  roots,     \* directories created there so far
  fence,     \* the writer whose receipt the fence beside the workspace holds
  bound,     \* [Writer -> the ledger its transition and receipt bind, or the
             \*            one bound by the receipt it read from the fence]
  proofs,    \* the writers whose transition is in the proof parent
  retained,  \* the ledger moved to the proof parent
  early      \* history: the sessions that were running when the fence came

retirement == <<root, roots, fence, bound, proofs, retained, early>>
rvars == <<vars, root, roots, fence, bound, proofs, retained, early>>

RetireSteps == {"retireAssert", "publishFence", "retireTerminal",
                "retireHolder", "retireScan", "relocate", "closing"}
ResumeSteps == {"recover", "recoverMove", "preterminal", "reacquire",
                "resumeAcquire", "recoverAgain"}
DoneSteps == {"retired", "recovered", "completed"}
\* retireTerminalHistory after its look at the fence, before its inventory.
ScanSteps == {"listHistory"}

\* A ledger directory as a no-follow scan captures it.
Snapshot == [id : Nat, by : Writer, gen : Generation,
             owner : [Generation -> Writer \cup {NoWriter}],
             terminal : [Generation -> Writer \cup {NoWriter}],
             holders : SUBSET (Generation \X Writer)]

ASSUME NoProofAssumption == NoProof \notin Snapshot

RTypeOK ==
  /\ owner \in [Generation -> Writer \cup {NoWriter}]
  /\ terminal \in [Generation -> Writer \cup {NoWriter}]
  /\ holders \subseteq Generation \X Writer
  /\ pc \in [Writer -> Step \cup ScanSteps \cup RetireSteps \cup ResumeSteps
                         \cup DoneSteps]
  /\ view \in [Writer -> 0..MaxGeneration]
  /\ attempts \in [Writer -> 0..MaxAttempts]
  /\ goal \in [Writer -> Goal]
  /\ todo \in [Writer -> SUBSET Generation]
  /\ root \in 0..roots
  /\ roots \in Nat
  /\ fence \in Writer \cup {NoWriter}
  /\ bound \in [Writer -> Snapshot \cup {NoProof}]
  /\ proofs \subseteq Writer
  /\ retained \in Snapshot \cup {NoProof}
  /\ early \subseteq Writer

RInit ==
  /\ Init
  /\ root = 0
  /\ roots = 0
  /\ fence = NoWriter
  /\ bound = [w \in Writer |-> NoProof]
  /\ proofs = {}
  /\ retained = NoProof
  /\ early = {}

Fenced == fence # NoWriter

\* readInventory: the directory is there and no terminal lacks its owner.
Readable ==
  root # 0 /\ \A g \in Generation : Terminated(g) => owner[g] # NoWriter

Scan(w) == [id |-> root, by |-> w, gen |-> OwnGeneration(w), owner |-> owner,
            terminal |-> terminal, holders |-> holders]

---------------------------------------------------------------------------
(* Sessions that acquire, write and release, next to a retirement. *)

\* Mutant: acquireNative does not look for the fence.
CheckFenceNever(w) ==
  /\ pc[w] \in {"idle", "reacquire"}
  /\ pc' = [pc EXCEPT ![w] = "ensureRoot"]
  /\ UNCHANGED <<ledger, view, attempts, goal, todo, retirement>>

\* acquireNative reads the fence once, before it touches the workspace; a
\* fence ends the acquisition (003).
CheckFence(w) ==
  /\ pc[w] \in {"idle", "reacquire"}
  /\ pc' = [pc EXCEPT ![w] = IF Fenced THEN "failed" ELSE "ensureRoot"]
  /\ UNCHANGED <<ledger, view, attempts, goal, todo, retirement>>

\* mkdir: a new directory at an empty path.
MakeRoot ==
  /\ root' = IF root = 0 THEN roots + 1 ELSE root
  /\ roots' = IF root = 0 THEN roots + 1 ELSE roots

EnsureNamespace(w) ==
  /\ EnsureRoot(w)
  /\ MakeRoot
  /\ UNCHANGED <<fence, bound, proofs, retained, early>>

\* The directory at the path is the one in which w linked its owner file.
SameNamespace(w) == \E g \in Generation : g = OwnGeneration(w) /\ owner[g] = w

\* The candidate that w links is its holder's owner.json.
HasCandidate(w) == <<OwnGeneration(w), w>> \in holders

\* w acquires with the receipt of another session's retirement in its hand
\* (RETIREMENT_RECOVERY_ACQUIRE).
Carries(w) == bound[w] # NoProof /\ bound[w].by # w

\* The steps that begin with an inventory of the directory; with a receipt
\* the highest generation must be the one it binds.
InventorySteps(w) ==
  \/ (Carries(w) => IsHighest(bound[w].gen)) /\ ReadInventory(w)
  \/ ResidueInventory(w)
  \/ StaleInventory(w) /\ (Carries(w) => IsActive(view[w]))
  \/ AssertOwnedFirst(w) \/ AssertOwnedFinal(w)
  \/ ListHistoryFrom(w, "listHistory")

\* The steps that name their files by path in the directory.
PathSteps(w) ==
  \/ ReadHighestState(w)
  \/ ~Carries(w) /\ (ResidueHolder(w) \/ StaleState(w))
  \/ PrepareLease(w) \/ LinkTerminal(w) \/ ReadbackTerminal(w)
  \/ HasCandidate(w) /\ (LinkOwner(w) \/ OwnerExists(w))
  \/ SameNamespace(w) /\ (RetireTerminal(w) \/ RetireOwner(w))

\* A resume that unexpectedly acquired a successor only releases it.
Session(w) ==
  /\ \/ Readable /\ InventorySteps(w)
     \/ root # 0 /\ PathSteps(w)
     \/ Write(w) \/ FinishHistory(w) \/ RemoveHolder(w)
     \/ \E g \in {"write", "history", "release"} :
          (Carries(w) => g = "release") /\ Request(w, g)
  /\ UNCHANGED retirement

\* A failed read ends a resume, as Crash does.
SessionFault(w) ==
  /\ \/ /\ Fault(w)
        /\ root # 0
        /\ pc[w] = "link" => HasCandidate(w)
        /\ Carries(w) => pc[w] \notin ReadingSteps \cup {"readback"}
     \/ /\ Faults /\ root # 0
        /\ Goto(w, "listHistory", Thrown(w))
        /\ UNCHANGED <<ledger, view, attempts, goal, todo>>
     \/ Faults /\ Crash(w)
  /\ UNCHANGED retirement

\* retireTerminalHistory does nothing behind a fence; a fence that comes after
\* its look does not keep it from its inventory.
CheckHistoryFence(w) ==
  /\ pc[w] = "history"
  /\ IF Fenced
       THEN Goto(w, "history", "retire") /\ todo' = [todo EXCEPT ![w] = {}]
       ELSE Goto(w, "history", "listHistory") /\ UNCHANGED todo
  /\ UNCHANGED <<ledger, view, attempts, goal, retirement>>

\* The directory, or the file a step needs, went with a relocation: the
\* acquisition and the release throw, an ownership proof is lost.
NamespaceGone(w) ==
  /\ \/ /\ ~Readable
        /\ pc[w] \in {"inventory", "residue", "stale"}
        /\ pc' = [pc EXCEPT ![w] = "failed"] /\ UNCHANGED goal
     \/ /\ ~Readable
        /\ pc[w] \in {"assertFirst", "assertFinal"}
        /\ OwnershipLost(w)
     \/ /\ \/ pc[w] = "listHistory" /\ ~Readable
           \/ /\ pc[w] \in {"retire", "retireOwner"}
              /\ todo[w] # {} /\ ~SameNamespace(w)
        /\ pc' = [pc EXCEPT ![w] = Thrown(w)] /\ UNCHANGED goal
     \/ /\ root = 0
        /\ pc[w] \in {"residueHolder", "state", "staleState", "prepare",
                      "terminal", "readback"}
        /\ pc' = [pc EXCEPT ![w] = "failed"] /\ UNCHANGED goal
     \/ /\ pc[w] = "link" /\ ~HasCandidate(w)
        /\ pc' = [pc EXCEPT ![w] = "failed"] /\ UNCHANGED goal
  /\ UNCHANGED <<ledger, view, attempts, todo, retirement>>

---------------------------------------------------------------------------
(* retireOwnedNamespace, by the holder. *)

RetireBegin(w) ==
  /\ Goto(w, "held", "retireAssert")
  /\ ~Carries(w)
  /\ UNCHANGED <<ledger, view, attempts, goal, todo, retirement>>

\* Heartbeats are drained, ownership is proven again, and the transition that
\* binds the scanned ledger goes to the proof parent.
RetireTransition(w) ==
  /\ pc[w] = "retireAssert"
  /\ IF Readable /\ OwnershipProven(w)
       THEN /\ Goto(w, "retireAssert", "publishFence")
            /\ bound' = [bound EXCEPT ![w] = Scan(w)]
            /\ proofs' = proofs \cup {w}
       ELSE /\ Goto(w, "retireAssert", "closing")
            /\ UNCHANGED <<bound, proofs>>
  /\ UNCHANGED <<ledger, view, attempts, goal, todo, root, roots, fence, retained, early>>

\* The sessions that passed the check of the fence and have not ended.
Admitted(v) ==
  pc[v] \in (Step \cup ScanSteps \cup RetireSteps) \ ({"idle"} \cup EndSteps)

\* Mutant: the relocation follows the fence, without a terminal.
PublishFenceThenRelocate(w) ==
  /\ Goto(w, "publishFence", "relocate")
  /\ fence' = w
  /\ early' = {v \in Writer \ {w} : Admitted(v)}
  /\ UNCHANGED <<ledger, view, attempts, goal, todo, root, roots, bound, proofs, retained>>

\* The fence is published exclusively.
PublishFence(w) ==
  /\ pc[w] = "publishFence"
  /\ IF Fenced
       THEN Goto(w, "publishFence", "closing") /\ UNCHANGED fence
       ELSE Goto(w, "publishFence", "retireTerminal") /\ fence' = w
  /\ early' = IF Fenced THEN early ELSE {v \in Writer \ {w} : Admitted(v)}
  /\ UNCHANGED <<ledger, view, attempts, goal, todo, root, roots, bound, proofs, retained>>

\* publishTerminal of the retiring generation ...
RetireLinkTerminal(w) ==
  LET g == OwnGeneration(w) IN
  /\ pc[w] = "retireTerminal"
  /\ IF root # 0 /\ terminal[g] \in {NoWriter, w}
       THEN /\ Goto(w, "retireTerminal", "retireHolder")
            /\ terminal' = [terminal EXCEPT ![g] = w]
       ELSE Goto(w, "retireTerminal", "closing") /\ UNCHANGED terminal
  /\ UNCHANGED <<owner, holders, view, attempts, goal, todo, retirement>>

\* ... and its best-effort removal of the holder.
RetireRemoveHolder(w) ==
  /\ Goto(w, "retireHolder", "retireScan")
  /\ \/ holders' = holders \ {<<OwnGeneration(w), w>>}
     \/ Faults /\ UNCHANGED holders
  /\ UNCHANGED <<owner, terminal, view, attempts, goal, todo, retirement>>

\* The terminal is read back and the directory scanned again: a holder of any
\* session stops the retirement behind its own fence.
RetireScan(w) ==
  /\ Goto(w, "retireScan",
          IF /\ root # 0
             /\ terminal[OwnGeneration(w)] = w
             /\ holders = {}
          THEN "relocate" ELSE "closing")
  /\ UNCHANGED <<ledger, view, attempts, goal, todo, retirement>>

\* relocateRetainedNoFollowDirectoryAcrossParents: the inode of b moves to
\* the proof parent and the path is empty.
MoveNamespace(b) ==
  /\ retained' = [b EXCEPT !.owner = owner, !.terminal = terminal,
                           !.holders = holders]
  /\ root' = 0
  /\ owner' = [g \in Generation |-> NoWriter]
  /\ terminal' = [g \in Generation |-> NoWriter]
  /\ holders' = {}

\* The retirement ends the handle; a changed inode stops it.
Relocate(w) ==
  /\ pc[w] = "relocate"
  /\ IF root = bound[w].id
       THEN Goto(w, "relocate", "retired") /\ MoveNamespace(bound[w])
       ELSE Goto(w, "relocate", "closing") /\ UNCHANGED <<ledger, root, retained>>
  /\ UNCHANGED <<view, attempts, goal, todo, roots, fence, bound, proofs, early>>

\* The caller's release of a handle whose retirement failed.
ReleaseAfterFailure(w) ==
  /\ Goto(w, "closing", "assertFirst")
  /\ goal' = [goal EXCEPT ![w] = "release"]
  /\ UNCHANGED <<ledger, view, attempts, todo, retirement>>

---------------------------------------------------------------------------
(* resumeWorkspaceWriteLeaseRetirement, by another process. *)

ResumeBegin(w) ==
  /\ Goto(w, "idle", "recover")
  /\ UNCHANGED <<ledger, view, attempts, goal, todo, retirement>>

\* Mutant: a recovery does not ask for the terminal, nor for the holders.
TerminalSubsetUnproven(b, own, term, held) == own[b.gen] = b.by

\* assertRetirementLedgerNamespace: the bound owner and terminal are there,
\* nothing was added or changed, and no holder is left.
TerminalSubset(b, own, term, held) ==
  /\ own[b.gen] = b.by /\ term[b.gen] = b.by
  /\ held = {}
  /\ \A g \in Generation :
       /\ own[g] \in {NoWriter, b.owner[g]}
       /\ g # b.gen => term[g] \in {NoWriter, b.terminal[g]}

\* Mutant: only a ledger that was already moved is recovered.
CanRecoverMoved ==
  Fenced /\ fence \in proofs /\ root = 0 /\ retained # NoProof

\* The tombstone in the proof parent is named after the transition.
IsMoved(b) == retained # NoProof /\ retained.id = b.id

\* recoverWorkspaceWriteLeaseRetirement, with the fence's transition.
CanRecover ==
  /\ Fenced
  /\ fence \in proofs
  /\ \/ /\ root # 0 /\ ~IsMoved(bound[fence])
        /\ root = bound[fence].id
        /\ TerminalSubset(bound[fence], owner, terminal, holders)
     \/ /\ root = 0 /\ IsMoved(bound[fence])
        /\ TerminalSubset(bound[fence], retained.owner, retained.terminal,
                          retained.holders)

\* The checks of a recovery: a ledger still at the path is moved next.
RecoverCheck(w, from, otherwise) ==
  /\ pc[w] = from
  /\ IF CanRecover
       THEN /\ Goto(w, from, IF root # 0 THEN "recoverMove" ELSE "recovered")
            /\ bound' = [bound EXCEPT ![w] = bound[fence]]
       ELSE Goto(w, from, otherwise) /\ UNCHANGED bound
  /\ UNCHANGED <<ledger, view, attempts, goal, todo,
                 root, roots, fence, proofs, retained, early>>

RecoverMove(w) ==
  /\ pc[w] = "recoverMove"
  /\ IF root = bound[w].id
       THEN Goto(w, "recoverMove", "recovered") /\ MoveNamespace(bound[w])
       ELSE /\ Goto(w, "recoverMove", "failed")
            /\ UNCHANGED <<ledger, root, retained>>
  /\ UNCHANGED <<view, attempts, goal, todo, roots, fence, bound, proofs, early>>

\* discardExactPreFenceTransition: the one transition in the proof parent
\* binds the directory at the path, to which nothing was added.
Discardable ==
  \/ proofs = {} /\ retained = NoProof
  \/ \E p \in proofs :
       LET b == bound[p] IN
       /\ proofs = {p} /\ retained = NoProof
       /\ root = b.id
       /\ holders \subseteq b.holders
       /\ \A g \in Generation :
            /\ owner[g] \in {NoWriter, b.owner[g]}
            /\ g # b.gen => terminal[g] \in {NoWriter, b.terminal[g]}

\* readPreterminalRetirementReceipt: behind a fence the bound directory must
\* still be at the path; without a fence the transition is discarded and an
\* ordinary acquisition follows.
Preterminal(w) ==
  /\ pc[w] = "preterminal"
  /\ IF Fenced
       THEN /\ Goto(w, "preterminal",
                    IF fence \in proofs /\ root = bound[fence].id
                    THEN "resumeAcquire" ELSE "failed")
            /\ bound' = [bound EXCEPT ![w] = bound[fence]]
            /\ UNCHANGED proofs
       ELSE /\ Goto(w, "preterminal",
                    IF Discardable THEN "reacquire" ELSE "failed")
            /\ proofs' = IF Discardable THEN {} ELSE proofs
            /\ UNCHANGED bound
  /\ UNCHANGED <<ledger, view, attempts, goal, todo,
                 root, roots, fence, retained, early>>

\* The acquisition that carries the receipt passes the fence that holds it.
ResumeAcquire(w) ==
  /\ Goto(w, "resumeAcquire",
          IF Fenced /\ bound[fence] # bound[w] THEN "failed" ELSE "ensureRoot")
  /\ UNCHANGED <<ledger, view, attempts, goal, todo, retirement>>

\* Where an acquisition with a receipt leaves the ordinary course.  It is
\* ready when the bound generation is terminated and has no holder, or when
\* terminalizeStaleGeneration finds it ended; another highest generation is
\* an error; an owner without a terminal is refused, live (001) or stale
\* (003).  Only a terminal that comes between its inventory and its read of
\* the generation (ReadHighestState) lets it claim the next one.
ResumeReady(w) ==
  LET b == bound[w] IN
  /\ Carries(w)
  /\ \/ Goto(w, "inventory", "failed") /\ Readable /\ ~IsHighest(b.gen)
     \/ Goto(w, "stale", "recoverAgain") /\ Readable /\ ~IsActive(view[w])
     \/ /\ root # 0
        /\ pc[w] = "staleState"
        /\ Goto(w, "staleState",
                IF Terminated(view[w]) THEN "recoverAgain" ELSE "failed")
     \/ /\ root # 0
        /\ Goto(w, "residueHolder",
                IF /\ owner[b.gen] = b.by /\ Terminated(b.gen)
                   /\ <<b.gen, b.by>> \notin holders
                THEN "recoverAgain" ELSE "failed")
  /\ UNCHANGED <<ledger, view, attempts, goal, todo, retirement>>

\* completeWorkspaceWriteLeaseRetirement: whoever has the receipt removes the
\* fence that carries it.
Complete(w) ==
  /\ pc[w] \in {"retired", "recovered"}
  /\ IF Fenced /\ bound[fence] = bound[w]
       THEN pc' = [pc EXCEPT ![w] = "completed"] /\ fence' = NoWriter
       ELSE pc' = [pc EXCEPT ![w] = "failed"] /\ UNCHANGED fence
  /\ UNCHANGED <<ledger, view, attempts, goal, todo, root, roots, bound, proofs, retained, early>>

\* A step of the retirement throws, before its effect or, in a relocation
\* whose durability is unknown, after it.  A resume that throws just ends, as
\* in Crash.
RetireFault(w) ==
  /\ Faults
  /\ pc[w] \in {"publishFence", "retireTerminal", "retireScan", "relocate"}
  /\ pc' = [pc EXCEPT ![w] = "closing"]
  /\ \/ UNCHANGED <<ledger, root, retained>>
     \/ /\ pc[w] = "relocate" /\ root = bound[w].id
        /\ MoveNamespace(bound[w])
  /\ UNCHANGED <<view, attempts, goal, todo, roots, fence, bound, proofs, early>>

---------------------------------------------------------------------------

Retire(w) ==
  \/ RetireTransition(w) \/ PublishFence(w) \/ RetireLinkTerminal(w)
  \/ RetireRemoveHolder(w) \/ RetireScan(w) \/ Relocate(w)
  \/ ReleaseAfterFailure(w)
Resume(w) ==
  \/ RecoverCheck(w, "recover", "preterminal") \/ RecoverMove(w)
  \/ Preterminal(w) \/ ResumeAcquire(w) \/ ResumeReady(w)
  \/ RecoverCheck(w, "recoverAgain", "failed")

\* A session that is running, for itself or between ResumeAcquire and
\* ResumeReady of a resume; what the holder of a handle asks for is its own
\* affair.
Running(w) ==
  /\ pc[w] # "idle" /\ (Carries(w) \/ pc[w] # "held")
  /\ \/ CheckFence(w) \/ EnsureNamespace(w)
     \/ Session(w) \/ CheckHistoryFence(w) \/ NamespaceGone(w)

RNext ==
  \E w \in Writer :
    \/ CheckFence(w) \/ EnsureNamespace(w)
    \/ Session(w) \/ SessionFault(w) \/ CheckHistoryFence(w) \/ NamespaceGone(w)
    \/ RetireBegin(w) \/ Retire(w) \/ RetireFault(w)
    \/ ResumeBegin(w) \/ Resume(w) \/ Complete(w)

RSpec == RInit /\ [][RNext]_rvars

\* An acquisition, a retirement or a resume that has begun goes on.
RFairSpec ==
  /\ RSpec
  /\ \A w \in Writer : /\ WF_rvars(Retire(w))
                       /\ WF_rvars(Resume(w) \/ Running(w))

---------------------------------------------------------------------------
(* Properties. *)

\* The sessions that have the handle and whose generation has not ended.
HoldsOrRetires(w) ==
  \/ Holds(w)
  \/ pc[w] \in {"listHistory", "retireAssert", "publishFence", "retireTerminal"}

\* Behind a fence nobody holds the lease but the session that retires it,
\* sessions that were already running when the fence was published, and a
\* resume that raced with the terminal: the terminal that opens the next
\* generation opens it to no newcomer.
NoSuccessorBehindFence ==
  \A w \in Writer :
    Fenced /\ HoldsOrRetires(w) => w = fence \/ w \in early \/ Carries(w)

\* The ledger a retirement leaves in the proof parent carries the owner and
\* the terminal of the generation that was retired, by whichever path
\* (retirement, recovery after a crash) it got there.
RetainedIsTerminal ==
  retained # NoProof =>
    /\ retained.owner[retained.gen] = retained.by
    /\ retained.terminal[retained.gen] = retained.by

\* The fence ends the ledger: it opens to no newcomer, and what is kept of it
\* is terminated.
FenceHolds == NoSuccessorBehindFence /\ RetainedIsTerminal

\* A relocation never takes the ledger from under a holder, except from under
\* a session that was already past the check of the fence or had the receipt
\* to pass it: neither the retirement nor a recovery moves a ledger whose
\* generation is active.
MovesNoActiveLedger ==
  [][\A g \in Generation :
       root # 0 /\ root' = 0 /\ IsActive(g)
         => owner[g] \in early \/ Carries(owner[g])]_rvars

\* A retired tree gets no new local namespace while its fence stands
\* (assertWorkspaceWriteLeaseRetirement: "a new writer cannot race a retired
\* tree by recreating its local namespace").
RetiredTreeNotRecreated == Fenced /\ retained # NoProof => root = 0

\* A resume continues a retirement whose process stopped between the fence
\* and the terminal, unless it stops itself
\* (resumeWorkspaceWriteLeaseRetirement: "across its two publication crash
\* windows").
ResumeConverges ==
  \A v, w \in Writer :
    (/\ pc[v] = "recover" /\ pc[w] = "crashed"
     /\ fence = w /\ w \in proofs /\ root = bound[w].id
     /\ ~Terminated(bound[w].gen))
      ~> (retained # NoProof \/ pc[v] = "crashed")

\* A resume by v of w's retirement, which w's process did not survive
\* although nothing but the relocation was left; nobody claimed the next
\* generation meanwhile and nobody else is running.
Orphaned(v, w) ==
  /\ pc[v] = "recover" /\ pc[w] = "crashed"
  /\ fence = w /\ w \in proofs
  /\ terminal[bound[w].gen] = w /\ root = bound[w].id /\ holders = {}
  /\ IsHighest(bound[w].gen)
  /\ \A u \in Writer \ {v, w} : pc[u] \in EndSteps

\* Once the terminal is published and the holder is gone, a crash of the
\* retiring process is recoverable: a resume that nothing else disturbs moves
\* the ledger, unless it stops itself.
RecoversAfterTerminal ==
  \A v, w \in Writer :
    Orphaned(v, w) ~> pc[v] \in {"recovered", "completed", "crashed"}

\* With fences, vanishing namespaces and failing calls, too, every acquisition
\* and every retirement or resume it belongs to settles: the session gets the
\* handle, is done, or has reported an error.
SessionSettles ==
  \A w \in Writer :
    pc[w] \in {"ensureRoot"} \cup RetireSteps \cup ResumeSteps
      ~> pc[w] \in {"held"} \cup EndSteps \cup DoneSteps
=============================================================================
