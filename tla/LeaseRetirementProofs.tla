------------------------ MODULE LeaseRetirementProofs ------------------------
(***************************************************************************)
(* Proofs that the retirement of a ledger neither opens it to a newcomer,  *)
(* nor moves it from under a holder, nor keeps it unterminated, for any    *)
(* number of sessions, generations, attempts and ledger directories.       *)
(*                                                                         *)
(* What WorkspaceWriteLease guarantees of its ledger is not available      *)
(* here: a session that lost its directory to a relocation goes on by path *)
(* and may link an owner or a terminal of its old generation in the next   *)
(* directory.  The invariant says what survives that.                      *)
(***************************************************************************)
EXTENDS LeaseRetirement, TLAPS

USE DEF Generation, ledger

(* Sessions that have not linked an owner file yet. *)
FreshSteps == {"idle", "prepare", "link"} \cup ReadingSteps \cup ResumeSteps

(* Sessions that still have every attempt ahead of them. *)
StartSteps == {"idle", "ensureRoot", "inventory", "recover", "preterminal",
               "reacquire", "resumeAcquire"}

RetryLeft ==
  \A w \in Writer : pc[w] \in StartSteps => attempts[w] < MaxAttempts

(* A bound transition or receipt names a directory that was there. *)
BoundInv ==
  \A w \in Writer : bound[w] # NoProof => bound[w].id \in 1..roots

(* An owner file is that of the one generation its session claimed, and a  *)
(* history pass only has predecessors of its own generation to visit.      *)
OwnerInv ==
  \A u \in Writer :
    /\ \A g \in Generation : owner[g] = u =>
         g = OwnGeneration(u) /\ pc[u] \notin FreshSteps
    /\ \A h \in todo[u] : h <= view[u]
    /\ pc[u] \in FreshSteps => todo[u] = {}

(* A higher generation is linked, so g is not active and never will be. *)
Over(g) == \E h \in Generation : h > g /\ owner[h] # NoWriter

(* A session that removes its holder directory has ended its generation,   *)
(* and one that may delete predecessors still has its holder.              *)
HolderInv ==
  /\ ActiveHasHolder
  /\ \A u \in Writer : SameNamespace(u) =>
       /\ pc[u] \in {"removeHolder", "retireHolder"} =>
            Terminated(OwnGeneration(u)) \/ Over(OwnGeneration(u))
       /\ pc[u] \in {"assertFinal", "history", "listHistory", "retire",
                     "retireOwner"} =>
            <<OwnGeneration(u), u>> \in holders

(* The steps after a failed retirement: its handle is only released. *)
ReleaseSteps == {"assertFirst", "assertFinal", "history", "listHistory",
                 "retire", "retireOwner", "terminal", "removeHolder",
                 "readback"}

(* What a retiring session knows of itself, and where the session is whose *)
(* receipt the fence holds.                                                *)
RetireInv ==
  \A w \in Writer :
    /\ pc[w] \in RetireSteps => ~Carries(w)
    /\ pc[w] \in {"publishFence", "retireTerminal", "retireHolder",
                  "retireScan", "relocate"} =>
         /\ bound[w] # NoProof
         /\ bound[w].by = w /\ bound[w].gen = OwnGeneration(w)
         /\ pc[w] # "publishFence" /\ root = bound[w].id => fence = w
    /\ fence = w =>
         /\ bound[w] # NoProof
         /\ bound[w].by = w /\ bound[w].gen = OwnGeneration(w)
         /\ \/ pc[w] \in RetireSteps \ {"retireAssert", "publishFence"}
            \/ pc[w] \in {"retired", "completed"} \cup EndSteps
            \/ pc[w] \in ReleaseSteps /\ goal[w] = "release"

(* Behind a fence only the sessions that passed it before are under way,   *)
(* and those that carry its receipt.                                       *)
AdmissionInv ==
  Fenced => \A w \in Writer :
    Admitted(w) => w = fence \/ w \in early \/ Carries(w)

(* The steps at which a session goes on to link its terminal. *)
LinkingSteps == {"publishFence", "retireTerminal", "assertFinal", "history",
                 "listHistory", "retire", "retireOwner", "terminal"}

(* Another session, of the same directory, has deleted the terminal of g   *)
(* and deletes its owner next.                                             *)
Deleting(x, g) == SameNamespace(x) /\ pc[x] = "retireOwner" /\ IsNext(x, g)

(* The owner of a generation that retires, as long as its directory is at  *)
(* the path: it is there until the terminal is published, and goes after   *)
(* the terminal, when it can be published no more.                         *)
PairInv ==
  \A w \in Writer : LET g == OwnGeneration(w) IN
    (pc[w] = "publishFence" \/ fence = w) /\ root = bound[w].id =>
      /\ g \in Generation
      /\ \/ /\ owner[g] = w /\ terminal[g] # w
            /\ <<g, w>> \in holders
            /\ pc[w] \notin {"retireHolder", "removeHolder"}
            /\ \A x \in Writer : ~Deleting(x, g)
         \/ /\ owner[g] = w /\ terminal[g] = w
            /\ pc[w] \notin LinkingSteps
            /\ \A x \in Writer : ~Deleting(x, g)
         \/ terminal[g] # w /\ Over(g) /\ pc[w] \notin LinkingSteps

(* A session that is about to move the ledger, which is still at the path: *)
(* the fence stands, the pair is complete and stays so because no history  *)
(* pass is under way, and who has the lease was let in.                    *)
MoveInv ==
  \A v \in Writer : LET b == bound[v] IN
    pc[v] \in {"relocate", "recoverMove"} =>
      /\ b # NoProof
      /\ root = b.id =>
           /\ Fenced /\ bound[fence] = b
           /\ pc[v] = "relocate" => fence = v
           /\ b.gen \in Generation
           /\ owner[b.gen] = b.by /\ terminal[b.gen] = b.by
           /\ \A x \in Writer :
                SameNamespace(x) /\ pc[x] \in {"listHistory", "retire", "retireOwner"}
                  => pc[x] = "retire" /\ todo[x] = {}
           /\ \A g \in Generation :
                IsActive(g) => owner[g] \in early \/ Carries(owner[g])

(* Whoever has moved a ledger, or found it moved, can see it at the path   *)
(* no more.                                                                *)
MovedInv ==
  \A u \in Writer : pc[u] \in {"retired", "recovered"} =>
    bound[u] # NoProof /\ root # bound[u].id

RInv ==
  /\ RTypeOK /\ RetryLeft /\ BoundInv /\ OwnerInv /\ HolderInv /\ RetireInv
  /\ AdmissionInv /\ PairInv /\ MoveInv /\ MovedInv /\ RetainedIsTerminal
---------------------------------------------------------------------------
(* Types. *)

RStep(w) ==
  \/ CheckFence(w) \/ EnsureNamespace(w)
  \/ Session(w) \/ SessionFault(w) \/ CheckHistoryFence(w) \/ NamespaceGone(w)
  \/ RetireBegin(w) \/ Retire(w) \/ RetireFault(w)
  \/ ResumeBegin(w) \/ Resume(w) \/ Complete(w)

AllSteps == Step \cup ScanSteps \cup RetireSteps \cup ResumeSteps \cup DoneSteps

FileTypes ==
  /\ owner \in [Generation -> Writer \cup {NoWriter}]
  /\ terminal \in [Generation -> Writer \cup {NoWriter}]
  /\ holders \subseteq Generation \X Writer

SessionTypes ==
  /\ pc \in [Writer -> AllSteps]
  /\ view \in [Writer -> 0..MaxGeneration]
  /\ attempts \in [Writer -> 0..MaxAttempts]
  /\ goal \in [Writer -> Goal]
  /\ todo \in [Writer -> SUBSET Generation]
  /\ RetryLeft

RetirementTypes ==
  /\ root \in 0..roots /\ roots \in Nat
  /\ fence \in Writer \cup {NoWriter}
  /\ bound \in [Writer -> Snapshot \cup {NoProof}]
  /\ proofs \subseteq Writer
  /\ retained \in Snapshot \cup {NoProof}
  /\ early \subseteq Writer

(* What a move leaves to the types: the session that relocates or recovers *)
(* has a binding.                                                          *)
Bindings ==
  /\ \A w \in Writer : pc[w] \in {"relocate", "recoverMove"} => bound[w] # NoProof
  /\ Fenced => bound[fence] # NoProof

(* The type invariant, with RetryLeft, in three parts. *)
LEMMA TypeParts ==
  RTypeOK /\ RetryLeft <=> FileTypes /\ SessionTypes /\ RetirementTypes
BY DEF RTypeOK, FileTypes, SessionTypes, RetirementTypes, AllSteps

---------------------------------------------------------------------------
(* The steps, in groups. *)

\* An attempt up to the holder directory.
Attempt(w) ==
  /\ \/ ReadInventory(w) \/ ResidueInventory(w) \/ StaleInventory(w)
     \/ ReadHighestState(w) \/ ResidueHolder(w) \/ StaleState(w) \/ ReadFault(w)
  /\ UNCHANGED retirement

\* Proofs of ownership and what they are for.
Proving(w) ==
  /\ \/ AssertOwnedFirst(w) \/ AssertOwnedFinal(w) \/ Write(w)
     \/ \E g \in {"write", "history", "release"} : Request(w, g)
     \/ AssertFault(w) \/ ReadbackTerminal(w) \/ Crash(w)
  /\ UNCHANGED retirement

\* A history pass up to its deletions.
History(w) ==
  /\ \/ ListHistoryFrom(w, "listHistory") \/ FinishHistory(w) \/ HistoryFault(w)
     \/ /\ Goto(w, "listHistory", Thrown(w))
        /\ UNCHANGED <<ledger, view, attempts, goal, todo>>
  /\ UNCHANGED retirement

\* The holder directory and the owner file of the next generation.
Claim(w) ==
  /\ \/ PrepareLease(w) \/ PrepareFault(w)
     \/ HasCandidate(w) /\ (LinkOwner(w) \/ OwnerExists(w) \/ LinkFault(w))
     \/ pc[w] = "link" /\ RemoveFault(w)
  /\ UNCHANGED retirement

\* The terminal, and the holder directory after it.
End(w) ==
  /\ \/ LinkTerminal(w) \/ TerminalFault(w) \/ RemoveHolder(w)
     \/ pc[w] = "removeHolder" /\ RemoveFault(w)
  /\ UNCHANGED retirement

\* The deletions of a history pass.
Delete(w) ==
  SameNamespace(w) /\ (RetireTerminal(w) \/ RetireOwner(w)) /\ UNCHANGED retirement

(* Every step of a session is in a group or one of retirement and resume. *)
LEMMA Groups ==
  ASSUME NEW w \in Writer, RStep(w)
  PROVE  \/ Attempt(w) \/ Proving(w) \/ History(w) \/ Claim(w) \/ End(w) \/ Delete(w)
         \/ CheckFence(w) \/ EnsureNamespace(w) \/ CheckHistoryFence(w)
         \/ NamespaceGone(w) \/ RetireBegin(w) \/ Retire(w) \/ RetireFault(w)
         \/ ResumeBegin(w) \/ Resume(w) \/ Complete(w)
<1>1. CASE Session(w)
  BY <1>1 DEF Session, InventorySteps, PathSteps, Attempt, Proving, History,
     Claim, End, Delete
<1>2. CASE SessionFault(w)
  <2>1. RemoveFault(w) => pc[w] \in {"link", "removeHolder"}
    BY DEF RemoveFault, Continue, Goto
  <2>2. LinkFault(w) => pc[w] = "link"
    BY DEF LinkFault, Goto
  <2> QED
    BY <1>2, <2>1, <2>2 DEF SessionFault, Fault, Attempt, Proving, History, Claim, End
<1> QED
  BY <1>1, <1>2 DEF RStep

(* A session's own variables stay within their types. *)
LEMMA SessionTypesNext ==
  ASSUME SessionTypes, NEW w \in Writer, RStep(w)
  PROVE  SessionTypes'
<1> USE LeaseAssumption
    DEF Goto, Continue, Thrown, SessionTypes, RetryLeft, StartSteps, AllSteps, Step,
        ReadingSteps, LinkedSteps, EndSteps, ScanSteps, RetireSteps, ResumeSteps,
        DoneSteps, Goal
<1>1. CASE Attempt(w)
  <2>1. CASE ReadInventory(w)
    BY <2>1 DEF ReadInventory
  <2>2. CASE ~ReadInventory(w)
    BY <1>1, <2>2 DEF Attempt, ResidueInventory, StaleInventory, ReadHighestState,
       ResidueHolder, StaleState, ReadFault
  <2> QED
    BY <2>1, <2>2
<1>2. CASE Proving(w)
  <2>1. CASE AssertOwnedFirst(w)
    BY <2>1 DEF AssertOwnedFirst, OwnershipLost
  <2>2. CASE AssertOwnedFinal(w)
    BY <2>2 DEF AssertOwnedFinal, OwnershipLost
  <2>3. CASE \E g \in {"write", "history", "release"} : Request(w, g)
    BY <2>3 DEF Request
  <2>4. CASE Write(w) \/ ReadbackTerminal(w) \/ Crash(w)
    BY <2>4 DEF Write, ReadbackTerminal, Crash
  <2>5. CASE AssertFault(w)
    BY <2>5 DEF AssertFault, OwnershipLost
  <2> QED
    BY <1>2, <2>1, <2>2, <2>3, <2>4, <2>5 DEF Proving
<1>3. CASE History(w)
  <2>1. CASE ListHistoryFrom(w, "listHistory")
    <3>1. PICK H \in SUBSET Generation :
            todo' = todo \/ todo' = [todo EXCEPT ![w] = H]
      BY <2>1 DEF ListHistoryFrom
    <3>2. todo' \in [Writer -> SUBSET Generation]
      BY <3>1
    <3> QED
      BY <2>1, <3>2 DEF ListHistoryFrom
  <2>2. CASE ~ListHistoryFrom(w, "listHistory")
    BY <1>3, <2>2 DEF History, FinishHistory, HistoryFault
  <2> QED
    BY <2>1, <2>2
<1>4. CASE Claim(w)
  BY <1>4 DEF Claim, PrepareLease, PrepareFault, LinkOwner, OwnerExists, LinkFault, RemoveFault
<1>5. CASE End(w)
  BY <1>5 DEF End, LinkTerminal, TerminalFault, RemoveHolder, RemoveFault
<1>6. CASE Delete(w)
  <2>1. PICK g \in Generation :
          todo' = todo \/ todo' = [todo EXCEPT ![w] = @ \ {g}]
    BY <1>6 DEF Delete, RetireTerminal, RetireOwner
  <2>2. PICK H \in SUBSET Generation : H = todo[w] \ {g}
    OBVIOUS
  <2>3. todo' \in [Writer -> SUBSET Generation]
    BY <2>1, <2>2
  <2>4. pc' \in [Writer -> AllSteps] /\ RetryLeft'
    BY <1>6 DEF Delete, RetireTerminal, RetireOwner
  <2>5. UNCHANGED <<view, attempts, goal>>
    BY <1>6 DEF Delete, RetireTerminal, RetireOwner
  <2> QED
    BY <2>3, <2>4, <2>5
<1>7. CASE CheckFence(w) \/ EnsureNamespace(w) \/ CheckHistoryFence(w)
           \/ RetireBegin(w) \/ ResumeBegin(w) \/ Complete(w)
  BY <1>7 DEF CheckFence, EnsureNamespace, EnsureRoot, CheckHistoryFence, RetireBegin,
     ResumeBegin, Complete
<1>8. CASE NamespaceGone(w)
  BY <1>8 DEF NamespaceGone, OwnershipLost
<1>9. CASE Retire(w)
  <2>1. CASE RetireTransition(w) \/ PublishFence(w) \/ RetireLinkTerminal(w)
    BY <2>1 DEF RetireTransition, PublishFence, RetireLinkTerminal
  <2>2. CASE RetireRemoveHolder(w) \/ RetireScan(w) \/ Relocate(w) \/ ReleaseAfterFailure(w)
    BY <2>2 DEF RetireRemoveHolder, RetireScan, Relocate, ReleaseAfterFailure
  <2> QED
    BY <1>9, <2>1, <2>2 DEF Retire
<1>10. CASE RetireFault(w)
  BY <1>10 DEF RetireFault
<1>11. CASE Resume(w)
  <2>1. CASE RecoverCheck(w, "recover", "preterminal")
    BY <2>1 DEF RecoverCheck
  <2>2. CASE RecoverCheck(w, "recoverAgain", "failed")
    BY <2>2 DEF RecoverCheck
  <2>3. CASE RecoverMove(w) \/ Preterminal(w) \/ ResumeAcquire(w)
    BY <2>3 DEF RecoverMove, Preterminal, ResumeAcquire
  <2>4. CASE ResumeReady(w)
    BY <2>4 DEF ResumeReady
  <2> QED
    BY <1>11, <2>1, <2>2, <2>3, <2>4 DEF Resume
<1> QED
  BY Groups, <1>1, <1>2, <1>3, <1>4, <1>5, <1>6, <1>7, <1>8, <1>9, <1>10, <1>11

---------------------------------------------------------------------------
(* What a step does to the files. *)

Still == UNCHANGED <<owner, terminal, holders, root, roots, retained>>

\* What the steps that touch files leave alone.
Keeps(w) ==
  UNCHANGED <<view, goal, fence, bound, proofs, early>>

MakesRoot(w) ==
  /\ pc[w] = "ensureRoot" /\ pc' = [pc EXCEPT ![w] = "inventory"]
  /\ MakeRoot
  /\ UNCHANGED <<owner, terminal, holders, retained, todo>>

AddsHolder(w) ==
  /\ pc[w] = "prepare" /\ pc'[w] \in {"link", "failed"}
  /\ OwnGeneration(w) \in Generation
  /\ holders' = holders \cup {<<OwnGeneration(w), w>>}
  /\ UNCHANGED <<owner, terminal, root, roots, retained, todo>>

DropsHolder(w) ==
  /\ pc[w] \in {"link", "removeHolder", "retireHolder"}
  /\ pc'[w] \in {"inventory", "failed", "readback", "retireScan"}
  /\ holders' = holders \ {<<OwnGeneration(w), w>>}
  /\ UNCHANGED <<owner, terminal, root, roots, retained, todo>>

LinksOwner(w) ==
  /\ pc[w] = "link" /\ pc'[w] \in {"assertFirst", "failed"}
  /\ HasCandidate(w)
  /\ owner[OwnGeneration(w)] = NoWriter
  /\ owner' = [owner EXCEPT ![OwnGeneration(w)] = w]
  /\ UNCHANGED <<terminal, holders, view, root, roots, retained, todo, fence, bound, early>>

LinksTerminal(w) ==
  /\ \/ pc[w] = "terminal" /\ pc'[w] \in {"removeHolder", "failed"}
     \/ pc[w] = "retireTerminal" /\ pc'[w] = "retireHolder"
  /\ terminal[OwnGeneration(w)] \in {NoWriter, w}
  /\ terminal' = [terminal EXCEPT ![OwnGeneration(w)] = w]
  /\ UNCHANGED <<owner, holders, root, roots, retained, todo>>

DeletesTerminal(w) ==
  /\ SameNamespace(w)
  /\ pc[w] = "retire" /\ pc'[w] = "retireOwner"
  /\ \E h \in todo[w] : /\ IsNext(w, h) /\ Retirable(h)
                        /\ terminal' = [terminal EXCEPT ![h] = NoWriter]
  /\ UNCHANGED <<owner, holders, root, roots, retained, todo>>

DeletesOwner(w) ==
  /\ SameNamespace(w)
  /\ pc[w] = "retireOwner" /\ pc'[w] = "retire"
  /\ \E h \in todo[w] : /\ IsNext(w, h)
                        /\ owner' = [owner EXCEPT ![h] = NoWriter]
                        /\ todo' = [todo EXCEPT ![w] = @ \ {h}]
  /\ UNCHANGED <<terminal, holders, root, roots, retained>>

MovesLedger(w) ==
  /\ \/ pc[w] = "relocate" /\ pc'[w] \in {"retired", "closing"}
     \/ pc[w] = "recoverMove" /\ pc'[w] = "recovered"
  /\ root = bound[w].id
  /\ MoveNamespace(bound[w])
  /\ UNCHANGED <<roots, todo>>

FileKinds(w) ==
  \/ Still
  \/ LinksOwner(w)
  \/ /\ Keeps(w)
     /\ \/ MakesRoot(w) \/ AddsHolder(w) \/ DropsHolder(w) \/ LinksTerminal(w)
        \/ DeletesTerminal(w) \/ DeletesOwner(w) \/ MovesLedger(w)

(* Every step leaves the files alone or does one of these to them. *)
LEMMA Kinds ==
  ASSUME SessionTypes, FileTypes, NEW w \in Writer, RStep(w)
  PROVE  FileKinds(w)
<1> USE DEF Goto, Continue, Thrown
<1>1. CASE Attempt(w)
  BY <1>1 DEF Attempt, ReadInventory, ResidueInventory, StaleInventory, ReadHighestState,
     ResidueHolder, StaleState, ReadFault, retirement, FileKinds, Still
<1>2. CASE Proving(w)
  BY <1>2 DEF Proving, AssertOwnedFirst, AssertOwnedFinal, AssertFault, Write, Request,
     ReadbackTerminal, Crash, retirement, FileKinds, Still
<1>3. CASE History(w)
  BY <1>3 DEF History, ListHistoryFrom, FinishHistory, HistoryFault, retirement,
     FileKinds, Still
<1>4. CASE Claim(w)
  <2>1. CASE PrepareLease(w) \/ PrepareFault(w)
    BY <1>4, <2>1 DEF Claim, PrepareLease, PrepareFault, retirement, FileKinds, Still,
       Keeps, AddsHolder, SessionTypes
  <2>2. CASE HasCandidate(w) /\ LinkOwner(w)
    BY <1>4, <2>2 DEF Claim, LinkOwner, retirement, FileKinds, LinksOwner, SessionTypes
  <2>3. CASE OwnerExists(w)
    BY <1>4, <2>3 DEF Claim, OwnerExists, retirement, FileKinds, Keeps, DropsHolder,
       SessionTypes
  <2>4. CASE HasCandidate(w) /\ LinkFault(w)
    BY <1>4, <2>4 DEF Claim, LinkFault, retirement, FileKinds, Keeps, DropsHolder,
       LinksOwner, Still, SessionTypes
  <2>5. CASE RemoveFault(w)
    BY <1>4, <2>5 DEF Claim, RemoveFault, retirement, FileKinds, Still
  <2> QED
    BY <1>4, <2>1, <2>2, <2>3, <2>4, <2>5 DEF Claim
<1>5. CASE End(w)
  <2>1. CASE LinkTerminal(w)
    BY <1>5, <2>1 DEF End, LinkTerminal, retirement, FileKinds, Still, Keeps,
       LinksTerminal, SessionTypes
  <2>2. CASE TerminalFault(w)
    <3>1. terminal' = terminal \/ (/\ terminal[OwnGeneration(w)] = NoWriter
                                   /\ terminal' = [terminal EXCEPT ![OwnGeneration(w)] = w])
      <4>1. CASE terminal[OwnGeneration(w)] = NoWriter
        BY <2>2, <4>1 DEF TerminalFault
      <4>2. CASE terminal[OwnGeneration(w)] # NoWriter
        BY <2>2, <4>2 DEF TerminalFault, FileTypes
      <4> QED
        BY <4>1, <4>2
    <3> QED
      BY <1>5, <2>2, <3>1 DEF End, TerminalFault, retirement, FileKinds, Still, Keeps,
         LinksTerminal, SessionTypes
  <2>3. CASE RemoveHolder(w)
    BY <1>5, <2>3 DEF End, RemoveHolder, retirement, FileKinds, Keeps, DropsHolder,
       SessionTypes
  <2>4. CASE RemoveFault(w)
    BY <1>5, <2>4 DEF End, RemoveFault, retirement, FileKinds, Still
  <2> QED
    BY <1>5, <2>1, <2>2, <2>3, <2>4 DEF End
<1>6. CASE Delete(w)
  <2>1. CASE RetireTerminal(w)
    BY <1>6, <2>1 DEF Delete, RetireTerminal, retirement, FileKinds, Still, Keeps,
       DeletesTerminal, SessionTypes
  <2>2. CASE RetireOwner(w)
    BY <1>6, <2>2 DEF Delete, RetireOwner, retirement, FileKinds, Keeps, DeletesOwner,
       SessionTypes
  <2> QED
    BY <1>6, <2>1, <2>2 DEF Delete
<1>7. CASE CheckFence(w) \/ CheckHistoryFence(w) \/ NamespaceGone(w) \/ RetireBegin(w)
           \/ ResumeBegin(w) \/ Complete(w)
  BY <1>7 DEF CheckFence, CheckHistoryFence, NamespaceGone, RetireBegin, ResumeBegin,
     Complete, retirement, FileKinds, Still
<1>8. CASE EnsureNamespace(w)
  BY <1>8 DEF EnsureNamespace, EnsureRoot, FileKinds, Keeps, MakesRoot
<1>9. CASE Retire(w)
  <2>1. CASE RetireTransition(w) \/ PublishFence(w) \/ RetireScan(w) \/ ReleaseAfterFailure(w)
    BY <2>1 DEF RetireTransition, PublishFence, RetireScan, ReleaseAfterFailure,
       retirement, FileKinds, Still
  <2>2. CASE RetireLinkTerminal(w)
    BY <2>2 DEF RetireLinkTerminal, retirement, FileKinds, Still, Keeps, LinksTerminal,
       SessionTypes
  <2>3. CASE RetireRemoveHolder(w)
    BY <2>3 DEF RetireRemoveHolder, retirement, FileKinds, Still, Keeps, DropsHolder,
       SessionTypes
  <2>4. CASE Relocate(w)
    BY <2>4 DEF Relocate, FileKinds, Still, Keeps, MovesLedger, SessionTypes
  <2> QED
    BY <1>9, <2>1, <2>2, <2>3, <2>4 DEF Retire
<1>10. CASE RetireFault(w)
  BY <1>10 DEF RetireFault, FileKinds, Still, Keeps, MovesLedger, SessionTypes
<1>11. CASE Resume(w)
  <2>1. CASE RecoverMove(w)
    BY <2>1 DEF RecoverMove, FileKinds, Still, Keeps, MovesLedger, SessionTypes
  <2>2. CASE ~RecoverMove(w)
    BY <1>11, <2>2 DEF Resume, RecoverCheck, Preterminal, ResumeAcquire, ResumeReady,
       retirement, FileKinds, Still
  <2> QED
    BY <2>1, <2>2
<1> QED
  BY Groups, <1>1, <1>2, <1>3, <1>4, <1>5, <1>6, <1>7, <1>8, <1>9, <1>10, <1>11

---------------------------------------------------------------------------
(* What a step does to the sessions. *)

\* No session but w moves.
Local(w) ==
  \A v \in Writer : v # w =>
    /\ pc'[v] = pc[v] /\ view'[v] = view[v] /\ goal'[v] = goal[v]
    /\ todo'[v] = todo[v] /\ bound'[v] = bound[v]

(* Every step is one session's. *)
LEMMA OneMoves ==
  ASSUME SessionTypes, RetirementTypes, NEW w \in Writer, RStep(w)
  PROVE  Local(w)
<1> USE DEF Goto, Continue, Local, SessionTypes, RetirementTypes, retirement
<1>1. CASE Attempt(w)
  BY <1>1 DEF Attempt, ReadInventory, ResidueInventory, StaleInventory, ReadHighestState,
     ResidueHolder, StaleState, ReadFault
<1>2. CASE Proving(w)
  BY <1>2 DEF Proving, AssertOwnedFirst, AssertOwnedFinal, AssertFault, OwnershipLost,
     Write, Request, ReadbackTerminal, Crash
<1>3. CASE History(w)
  BY <1>3 DEF History, ListHistoryFrom, FinishHistory, HistoryFault
<1>4. CASE Claim(w)
  BY <1>4 DEF Claim, PrepareLease, PrepareFault, LinkOwner, OwnerExists, LinkFault, RemoveFault
<1>5. CASE End(w)
  BY <1>5 DEF End, LinkTerminal, TerminalFault, RemoveHolder, RemoveFault
<1>6. CASE Delete(w)
  BY <1>6 DEF Delete, RetireTerminal, RetireOwner
<1>7. CASE CheckFence(w) \/ EnsureNamespace(w) \/ CheckHistoryFence(w) \/ NamespaceGone(w)
           \/ RetireBegin(w) \/ ResumeBegin(w) \/ Complete(w)
  BY <1>7 DEF CheckFence, EnsureNamespace, EnsureRoot, CheckHistoryFence, NamespaceGone,
     OwnershipLost, RetireBegin, ResumeBegin, Complete
<1>8. CASE Retire(w) \/ RetireFault(w)
  BY <1>8 DEF Retire, RetireTransition, PublishFence, RetireLinkTerminal,
     RetireRemoveHolder, RetireScan, Relocate, ReleaseAfterFailure, RetireFault
<1>9. CASE Resume(w)
  BY <1>9 DEF Resume, RecoverCheck, RecoverMove, Preterminal, ResumeAcquire, ResumeReady
<1> QED
  BY Groups, <1>1, <1>2, <1>3, <1>4, <1>5, <1>6, <1>7, <1>8, <1>9

\* How w comes to the steps the invariant speaks of, outside retirement.
FlowLease(w) ==
  /\ view'[w] = view[w] \/ pc[w] = "inventory"
  /\ pc'[w] \in FreshSteps => pc[w] \in FreshSteps /\ todo'[w] = todo[w]
  /\ pc'[w] = "assertFinal" => pc[w] = "assertFirst" /\ OwnershipProven(w)
  /\ pc'[w] = "history" => pc[w] = "assertFinal" /\ IsActive(OwnGeneration(w))
  /\ pc'[w] = "listHistory" => pc[w] = "history" /\ ~Fenced
  /\ pc'[w] = "retire" =>
       \/ pc[w] = "history" /\ Fenced /\ todo'[w] = {}
       \/ pc[w] = "listHistory"
       \/ pc[w] \in {"retire", "retireOwner"} /\ todo'[w] \subseteq todo[w]
  /\ pc'[w] = "retireOwner" => DeletesTerminal(w)
  /\ pc'[w] = "terminal" =>
       \/ pc[w] \in {"assertFirst", "assertFinal"} /\ goal[w] = "acquire"
       \/ pc[w] = "retire"
  /\ pc'[w] = "removeHolder" => pc[w] = "terminal" /\ LinksTerminal(w)
  /\ \/ todo'[w] \subseteq todo[w]
     \/ pc[w] = "listHistory" /\ \A h \in todo'[w] : h < OwnGeneration(w)
  /\ pc[w] \in ReleaseSteps /\ goal[w] = "release" =>
       /\ pc'[w] \in ReleaseSteps => goal'[w] = "release"
       /\ pc'[w] \in ReleaseSteps \cup EndSteps

(* The flow of an acquisition and what is done with its handle. *)
LEMMA LeaseFlow ==
  ASSUME SessionTypes, NEW w \in Writer, RStep(w)
  PROVE  FlowLease(w)
<1> USE DEF Goto, Continue, Thrown, FlowLease, SessionTypes, FreshSteps, ReadingSteps,
        ResumeSteps, ReleaseSteps, EndSteps
<1>1. CASE Attempt(w)
  BY <1>1 DEF Attempt, ReadInventory, ResidueInventory, StaleInventory, ReadHighestState,
     ResidueHolder, StaleState, ReadFault
<1>2. CASE Proving(w)
  BY <1>2 DEF Proving, AssertOwnedFirst, AssertOwnedFinal, AssertFault, OwnershipLost,
     Write, Request, ReadbackTerminal, Crash
<1>3. CASE History(w)
  BY <1>3 DEF History, ListHistoryFrom, FinishHistory, HistoryFault
<1>4. CASE Claim(w)
  BY <1>4 DEF Claim, PrepareLease, PrepareFault, LinkOwner, OwnerExists, LinkFault, RemoveFault
<1>5. CASE End(w)
  BY <1>5 DEF End, LinkTerminal, TerminalFault, RemoveHolder, RemoveFault, LinksTerminal,
     retirement
<1>6. CASE Delete(w)
  <2>1. CASE RetireTerminal(w)
    BY <1>6, <2>1 DEF Delete, RetireTerminal, DeletesTerminal, retirement
  <2>2. CASE RetireOwner(w)
    BY <2>2 DEF RetireOwner
  <2> QED
    BY <1>6, <2>1, <2>2 DEF Delete
<1>7. CASE CheckFence(w) \/ EnsureNamespace(w) \/ CheckHistoryFence(w) \/ NamespaceGone(w)
           \/ RetireBegin(w) \/ ResumeBegin(w) \/ Complete(w)
  BY <1>7 DEF CheckFence, EnsureNamespace, EnsureRoot, CheckHistoryFence, NamespaceGone,
     OwnershipLost, RetireBegin, ResumeBegin, Complete
<1>8. CASE Retire(w) \/ RetireFault(w)
  BY <1>8 DEF Retire, RetireTransition, PublishFence, RetireLinkTerminal,
     RetireRemoveHolder, RetireScan, Relocate, ReleaseAfterFailure, RetireFault
<1>9. CASE Resume(w)
  BY <1>9 DEF Resume, RecoverCheck, RecoverMove, Preterminal, ResumeAcquire, ResumeReady
<1> QED
  BY Groups, <1>1, <1>2, <1>3, <1>4, <1>5, <1>6, <1>7, <1>8, <1>9

\* How w comes to the steps of retirement and recovery, and leaves them.
FlowRetire(w) ==
  /\ pc'[w] = "retireAssert" => pc[w] = "held" /\ ~Carries(w)
  /\ pc'[w] = "publishFence" =>
       /\ pc[w] = "retireAssert" /\ Readable /\ OwnershipProven(w)
       /\ bound'[w] = Scan(w)
  /\ pc'[w] = "retireTerminal" => pc[w] = "publishFence" /\ fence' = w
  /\ pc'[w] = "retireHolder" => pc[w] = "retireTerminal" /\ LinksTerminal(w)
  /\ pc'[w] = "retireScan" => pc[w] = "retireHolder"
  /\ pc'[w] = "relocate" =>
       /\ pc[w] = "retireScan" /\ root # 0 /\ terminal[OwnGeneration(w)] = w
       /\ holders = {} /\ Still
  /\ pc'[w] = "closing" => pc[w] \in RetireSteps
  /\ pc'[w] = "recoverMove" => Still /\ CanRecover /\ root # 0 /\ bound'[w] = bound[fence]
  /\ pc'[w] = "retired" => pc[w] = "relocate" /\ MovesLedger(w)
  /\ pc'[w] = "recovered" =>
       \/ pc[w] = "recoverMove" /\ MovesLedger(w)
       \/ root = 0 /\ CanRecover /\ bound'[w] = bound[fence] /\ Still
  /\ pc[w] \in RetireSteps \ {"retireAssert", "publishFence", "closing"} =>
       pc'[w] \in {"retireHolder", "retireScan", "relocate", "closing", "retired", "crashed"}
  /\ pc[w] = "closing" =>
       \/ pc'[w] = "crashed"
       \/ pc'[w] = "assertFirst" /\ goal'[w] = "release"
  /\ pc[w] \in {"retired", "completed"} \cup EndSteps =>
       pc'[w] \in {"completed", "failed", "crashed"}
  /\ Admitted(w)' /\ ~Admitted(w) =>
       /\ pc'[w] = "ensureRoot"
       /\ Fenced => pc[w] = "resumeAcquire" /\ bound[fence] = bound[w]

\* What w binds.
BoundStep(w) ==
  \/ bound'[w] = bound[w]
  \/ pc[w] = "retireAssert" /\ pc'[w] = "publishFence"
  \/ /\ pc[w] \in {"recover", "recoverAgain", "preterminal"}
     /\ Fenced /\ bound'[w] = bound[fence] /\ fence' = fence /\ Still

\* What becomes of the fence.
FenceStep(w) ==
  \/ fence' = fence /\ early' = early
  \/ /\ pc[w] = "publishFence" /\ pc'[w] = "retireTerminal"
     /\ ~Fenced /\ fence' = w /\ early' = {v \in Writer \ {w} : Admitted(v)}
     /\ Still /\ bound' = bound
  \/ /\ pc[w] \in {"retired", "recovered"} /\ pc'[w] = "completed"
     /\ Fenced /\ bound[fence] = bound[w] /\ fence' = NoWriter /\ early' = early
     /\ Still /\ bound' = bound

(* The flow of retirement and recovery. *)
LEMMA RetireFlow ==
  ASSUME SessionTypes, RetirementTypes, NEW w \in Writer, RStep(w)
  PROVE  FlowRetire(w) /\ BoundStep(w) /\ FenceStep(w)
<1> USE DEF Goto, Continue, Thrown, FlowRetire, BoundStep, FenceStep, Admitted,
        SessionTypes, RetirementTypes, AllSteps, Step, ReadingSteps, LinkedSteps, EndSteps,
        ScanSteps, RetireSteps, ResumeSteps, DoneSteps, retirement
<1>1. CASE Attempt(w)
  BY <1>1 DEF Attempt, ReadInventory, ResidueInventory, StaleInventory, ReadHighestState,
     ResidueHolder, StaleState, ReadFault
<1>2. CASE Proving(w)
  <2>1. CASE AssertOwnedFirst(w) \/ AssertOwnedFinal(w) \/ AssertFault(w)
    BY <1>2, <2>1 DEF Proving, AssertOwnedFirst, AssertOwnedFinal, AssertFault, OwnershipLost
  <2>2. CASE Write(w) \/ ReadbackTerminal(w)
    BY <1>2, <2>2 DEF Proving, Write, ReadbackTerminal
  <2>3. CASE \E g \in {"write", "history", "release"} : Request(w, g)
    BY <1>2, <2>3 DEF Proving, Request
  <2>4. CASE Crash(w)
    BY <1>2, <2>4 DEF Proving, Crash
  <2> QED
    BY <1>2, <2>1, <2>2, <2>3, <2>4 DEF Proving
<1>3. CASE History(w)
  BY <1>3 DEF History, ListHistoryFrom, FinishHistory, HistoryFault
<1>4. CASE Claim(w)
  BY <1>4 DEF Claim, PrepareLease, PrepareFault, LinkOwner, OwnerExists, LinkFault, RemoveFault
<1>5. CASE End(w)
  BY <1>5 DEF End, LinkTerminal, TerminalFault, RemoveHolder, RemoveFault
<1>6. CASE Delete(w)
  BY <1>6 DEF Delete, RetireTerminal, RetireOwner
<1>7. CASE CheckFence(w) \/ EnsureNamespace(w) \/ CheckHistoryFence(w) \/ RetireBegin(w)
           \/ ResumeBegin(w)
  BY <1>7 DEF CheckFence, EnsureNamespace, EnsureRoot, CheckHistoryFence, RetireBegin,
     ResumeBegin
<1>8. CASE NamespaceGone(w)
  BY <1>8 DEF NamespaceGone, OwnershipLost
<1>9. CASE Complete(w)
  BY <1>9 DEF Complete, Still
<1>10. CASE RetireTransition(w) \/ PublishFence(w) \/ RetireScan(w) \/ ReleaseAfterFailure(w)
  BY <1>10 DEF RetireTransition, PublishFence, RetireScan, ReleaseAfterFailure, Still
<1>11. CASE RetireLinkTerminal(w) \/ RetireRemoveHolder(w)
  BY <1>11 DEF RetireLinkTerminal, RetireRemoveHolder, LinksTerminal
<1>12. CASE Relocate(w) \/ RetireFault(w)
  BY <1>12 DEF Relocate, RetireFault, MovesLedger
<1>13. CASE RecoverMove(w)
  BY <1>13 DEF RecoverMove, MovesLedger
<1>14. CASE RecoverCheck(w, "recover", "preterminal") \/ RecoverCheck(w, "recoverAgain", "failed")
  <2>1. CanRecover => Fenced
    BY DEF CanRecover
  <2> QED
    BY <1>14, <2>1 DEF RecoverCheck, Still
<1>15. CASE Preterminal(w)
  BY <1>15 DEF Preterminal, Still
<1>16. CASE ResumeAcquire(w) \/ ResumeReady(w)
  BY <1>16 DEF ResumeAcquire, ResumeReady
<1> QED
  BY Groups, <1>1, <1>2, <1>3, <1>4, <1>5, <1>6, <1>7, <1>8, <1>9, <1>10, <1>11, <1>12,
     <1>13, <1>14, <1>15, <1>16 DEF Retire, Resume

---------------------------------------------------------------------------
(* Types, from the kinds of steps. *)

(* A scan of the directory is a snapshot of the session that proved its    *)
(* ownership.                                                              *)
LEMMA ScanTypes ==
  ASSUME FileTypes, SessionTypes, RetirementTypes, NEW w \in Writer, OwnershipProven(w)
  PROVE  /\ OwnGeneration(w) \in Generation
         /\ Scan(w) \in Snapshot /\ Scan(w) # NoProof
         /\ Scan(w).id = root /\ Scan(w).by = w /\ Scan(w).gen = OwnGeneration(w)
<1>1. OwnGeneration(w) \in Generation
  BY LeaseAssumption DEF OwnershipProven, IsActive, IsHighest, OwnGeneration, SessionTypes
<1>2. root \in Nat
  BY DEF RetirementTypes
<1>3. Scan(w) \in Snapshot
  BY <1>1, <1>2 DEF Scan, Snapshot, FileTypes
<1> QED
  BY <1>1, <1>3, NoProofAssumption DEF Scan

(* A moved ledger is the snapshot it was bound by, with its files. *)
LEMMA MoveTypes ==
  ASSUME FileTypes, NEW b \in Snapshot
  PROVE  LET r == [b EXCEPT !.owner = owner, !.terminal = terminal, !.holders = holders] IN
         /\ r \in Snapshot
         /\ r.id = b.id /\ r.by = b.by /\ r.gen = b.gen
         /\ r.owner = owner /\ r.terminal = terminal /\ r.holders = holders
BY DEF Snapshot, FileTypes

(* The files stay within their types. *)
LEMMA FileTypesNext ==
  ASSUME FileTypes, SessionTypes, NEW w \in Writer, FileKinds(w)
  PROVE  FileTypes'
<1> USE LeaseAssumption DEF FileTypes
<1>1. CASE Still
  BY <1>1 DEF Still
<1>2. CASE LinksOwner(w)
  BY <1>2 DEF LinksOwner
<1>3. CASE MakesRoot(w)
  BY <1>3 DEF MakesRoot
<1>4. CASE AddsHolder(w)
  BY <1>4 DEF AddsHolder
<1>5. CASE DropsHolder(w)
  BY <1>5 DEF DropsHolder
<1>6. CASE LinksTerminal(w)
  BY <1>6 DEF LinksTerminal
<1>7. CASE DeletesTerminal(w)
  BY <1>7 DEF DeletesTerminal
<1>8. CASE DeletesOwner(w)
  BY <1>8 DEF DeletesOwner
<1>9. CASE MovesLedger(w)
  BY <1>9 DEF MovesLedger, MoveNamespace
<1> QED
  BY <1>1, <1>2, <1>3, <1>4, <1>5, <1>6, <1>7, <1>8, <1>9 DEF FileKinds

(* What sessions bind stays within its types. *)
LEMMA BoundTypes ==
  ASSUME FileTypes, SessionTypes, RetirementTypes, NEW w \in Writer, RStep(w)
  PROVE  bound' \in [Writer -> Snapshot \cup {NoProof}] /\ proofs' \subseteq Writer
<1> USE DEF RetirementTypes, retirement
<1>1. CASE Attempt(w) \/ Proving(w) \/ History(w) \/ Claim(w) \/ End(w) \/ Delete(w)
  BY <1>1 DEF Attempt, Proving, History, Claim, End, Delete
<1>2. CASE CheckFence(w) \/ EnsureNamespace(w) \/ CheckHistoryFence(w) \/ RetireBegin(w)
           \/ ResumeBegin(w) \/ NamespaceGone(w) \/ Complete(w) \/ RetireFault(w)
  BY <1>2 DEF CheckFence, EnsureNamespace, CheckHistoryFence, RetireBegin, ResumeBegin,
     NamespaceGone, Complete, RetireFault
<1>3. CASE Retire(w)
  <2>1. CASE RetireTransition(w)
    <3>1. CASE Readable /\ OwnershipProven(w)
      BY <2>1, <3>1, ScanTypes DEF RetireTransition
    <3>2. CASE ~(Readable /\ OwnershipProven(w))
      BY <2>1, <3>2 DEF RetireTransition
    <3> QED
      BY <3>1, <3>2
  <2>2. CASE ~RetireTransition(w)
    BY <1>3, <2>2 DEF Retire, PublishFence, RetireLinkTerminal, RetireRemoveHolder,
       RetireScan, Relocate, ReleaseAfterFailure
  <2> QED
    BY <2>1, <2>2
<1>4. CASE Resume(w)
  <2>1. CanRecover => fence \in Writer
    BY DEF CanRecover, Fenced
  <2>2. Fenced => fence \in Writer
    BY DEF Fenced
  <2> QED
    BY <1>4, <2>1, <2>2 DEF Resume, RecoverCheck, RecoverMove, Preterminal, ResumeAcquire,
       ResumeReady
<1> QED
  BY Groups, <1>1, <1>2, <1>3, <1>4

(* The retirement's variables stay within their types. *)
LEMMA RetirementTypesNext ==
  ASSUME FileTypes, SessionTypes, RetirementTypes, Bindings, NEW w \in Writer, RStep(w)
  PROVE  RetirementTypes'
<1>1. bound' \in [Writer -> Snapshot \cup {NoProof}] /\ proofs' \subseteq Writer
  BY BoundTypes
<1>2. fence' \in Writer \cup {NoWriter} /\ early' \subseteq Writer
  BY RetireFlow DEF FenceStep, RetirementTypes
<1>3. FileKinds(w)
  BY Kinds
<1>4. /\ root' \in 0..roots' /\ roots' \in Nat
      /\ retained' \in Snapshot \cup {NoProof}
  <2>1. CASE MovesLedger(w)
    <3>1. bound[w] \in Snapshot
      BY <2>1 DEF MovesLedger, Bindings, RetirementTypes
    <3>2. retained' \in Snapshot
      BY <2>1, <3>1, MoveTypes DEF MovesLedger, MoveNamespace
    <3> QED
      BY <2>1, <3>2 DEF MovesLedger, MoveNamespace, RetirementTypes
  <2>2. CASE MakesRoot(w)
    BY <2>2 DEF MakesRoot, MakeRoot, RetirementTypes
  <2>3. CASE ~MovesLedger(w) /\ ~MakesRoot(w)
    BY <1>3, <2>3 DEF FileKinds, Still, LinksOwner, AddsHolder, DropsHolder, LinksTerminal,
       DeletesTerminal, DeletesOwner, RetirementTypes
  <2> QED
    BY <2>1, <2>2, <2>3
<1> QED
  BY <1>1, <1>2, <1>4 DEF RetirementTypes

(* The invariant has the bindings that the types need. *)
LEMMA BindingsHold == RetireInv /\ MoveInv /\ RetirementTypes => Bindings
BY DEF RetireInv, MoveInv, Bindings, Fenced, RetirementTypes

---------------------------------------------------------------------------
(* What a step does to one file. *)

Facts(w) ==
  /\ Local(w) /\ FlowLease(w) /\ FlowRetire(w)
  /\ BoundStep(w) /\ FenceStep(w) /\ FileKinds(w)

Types == FileTypes /\ SessionTypes /\ RetirementTypes

(* An owner file appears by a link and goes by the end of its retirement. *)
LEMMA OwnerPoint ==
  ASSUME Types, NEW w \in Writer, FileKinds(w), ~MovesLedger(w), NEW g \in Generation
  PROVE  \/ owner'[g] = owner[g]
         \/ /\ LinksOwner(w) /\ g = OwnGeneration(w)
            /\ owner[g] = NoWriter /\ owner'[g] = w
         \/ DeletesOwner(w) /\ IsNext(w, g) /\ owner'[g] = NoWriter
<1>1. CASE LinksOwner(w)
  BY <1>1 DEF LinksOwner, Types, FileTypes
<1>2. CASE DeletesOwner(w)
  BY <1>2 DEF DeletesOwner, Types, FileTypes
<1>3. CASE ~LinksOwner(w) /\ ~DeletesOwner(w)
  BY <1>3 DEF FileKinds, Still, MakesRoot, AddsHolder, DropsHolder, LinksTerminal,
     DeletesTerminal
<1> QED
  BY <1>1, <1>2, <1>3

(* A terminal appears by a link and goes first in its retirement. *)
LEMMA TerminalPoint ==
  ASSUME Types, NEW w \in Writer, FileKinds(w), ~MovesLedger(w), NEW g \in Generation
  PROVE  \/ terminal'[g] = terminal[g]
         \/ /\ LinksTerminal(w) /\ g = OwnGeneration(w)
            /\ terminal[g] = NoWriter /\ terminal'[g] = w
         \/ /\ DeletesTerminal(w) /\ IsNext(w, g) /\ Retirable(g)
            /\ terminal'[g] = NoWriter
<1>1. CASE LinksTerminal(w)
  BY <1>1 DEF LinksTerminal, Types, FileTypes
<1>2. CASE DeletesTerminal(w)
  BY <1>2 DEF DeletesTerminal, Types, FileTypes
<1>3. CASE ~LinksTerminal(w) /\ ~DeletesTerminal(w)
  BY <1>3 DEF FileKinds, Still, MakesRoot, AddsHolder, DropsHolder, LinksOwner,
     DeletesOwner
<1> QED
  BY <1>1, <1>2, <1>3

(* Only its own session removes a holder directory. *)
LEMMA HolderPoint ==
  ASSUME NEW w \in Writer, FileKinds(w), ~MovesLedger(w), NEW p \in holders
  PROVE  \/ p \in holders'
         \/ DropsHolder(w) /\ p = <<OwnGeneration(w), w>>
BY DEF FileKinds, Still, MakesRoot, AddsHolder, DropsHolder, LinksOwner, DeletesOwner,
   LinksTerminal, DeletesTerminal

(* A directory that is at the path after a step, and is not new, was there *)
(* before it.                                                              *)
LEMMA RootPoint ==
  ASSUME Types, NEW w \in Writer, FileKinds(w), NEW i \in 1..roots, root' = i
  PROVE  root = i /\ ~MovesLedger(w)
<1>1. ~MovesLedger(w)
  <2>1. i # 0
    BY DEF Types, RetirementTypes
  <2>2. MovesLedger(w) => root' = 0
    BY DEF MovesLedger, MoveNamespace
  <2> QED
    BY <2>1, <2>2
<1>2. CASE MakesRoot(w)
  BY <1>1, <1>2 DEF MakesRoot, MakeRoot, Types, RetirementTypes
<1>3. CASE ~MakesRoot(w)
  BY <1>1, <1>3 DEF FileKinds, Still, AddsHolder, DropsHolder, LinksOwner, DeletesOwner,
     LinksTerminal, DeletesTerminal
<1> QED
  BY <1>1, <1>2, <1>3

(* A directory leaves the path only in a move, and after it is no more.    *)
LEMMA MovePoint ==
  ASSUME NEW w \in Writer, MovesLedger(w)
  PROVE  /\ root' = 0 /\ root = bound[w].id
         /\ \A g \in Generation : owner'[g] = NoWriter /\ terminal'[g] = NoWriter
         /\ UNCHANGED <<roots, todo>>
BY DEF MovesLedger, MoveNamespace

(* The number of directories never goes down. *)
LEMMA RootsGrow ==
  ASSUME Types, NEW w \in Writer, FileKinds(w)
  PROVE  roots \in Nat /\ roots' \in Nat /\ roots <= roots'
BY DEF FileKinds, Still, MakesRoot, MakeRoot, AddsHolder, DropsHolder, LinksOwner,
   DeletesOwner, LinksTerminal, DeletesTerminal, MovesLedger, Types, RetirementTypes

(* All of this is true of every step. *)
LEMMA FactsHold ==
  ASSUME Types, NEW w \in Writer, RStep(w)
  PROVE  Facts(w)
BY OneMoves, LeaseFlow, RetireFlow, Kinds DEF Types, Facts

---------------------------------------------------------------------------
(* The parts of the invariant, one by one. *)

(* Bindings name directories that were there. *)
LEMMA BoundNext ==
  ASSUME Types, BoundInv, RetireInv, NEW w \in Writer, Facts(w)
  PROVE  BoundInv'
<1>1. roots \in Nat /\ roots' \in Nat /\ roots <= roots'
  BY RootsGrow DEF Facts
<1> SUFFICES ASSUME NEW v \in Writer, bound'[v] # NoProof
             PROVE  bound'[v].id \in 1..roots'
  BY DEF BoundInv
<1>2. CASE bound'[v] = bound[v]
  BY <1>1, <1>2 DEF BoundInv
<1>3. CASE bound'[v] # bound[v]
  <2>1. v = w
    BY <1>3 DEF Facts, Local
  <2>2. CASE pc'[w] = "publishFence"
    <3>1. bound'[w] = Scan(w) /\ root # 0 /\ OwnershipProven(w)
      BY <2>2 DEF Facts, FlowRetire, Readable
    <3>2. Scan(w).id = root
      BY <3>1, ScanTypes DEF Types
    <3> QED
      BY <1>1, <2>1, <3>1, <3>2 DEF Types, RetirementTypes
  <2>3. CASE Fenced /\ bound'[w] = bound[fence]
    BY <1>1, <2>1, <2>3 DEF BoundInv, Fenced, Types, RetirementTypes
  <2> QED
    BY <1>3, <2>1, <2>2, <2>3 DEF Facts, BoundStep
<1> QED
  BY <1>2, <1>3

(* A session that has linked its owner file keeps its generation and never *)
(* goes back to the steps before.                                          *)
LEMMA LinkedStays ==
  ASSUME Types, NEW w \in Writer, Facts(w), NEW u \in Writer, pc[u] \notin FreshSteps
  PROVE  view'[u] = view[u] /\ pc'[u] \notin FreshSteps
BY DEF Facts, Local, FlowLease, FreshSteps, ReadingSteps

(* Owner files keep to their sessions. *)
LEMMA OwnerNext ==
  ASSUME Types, OwnerInv, NEW w \in Writer, Facts(w), SessionTypes'
  PROVE  OwnerInv'
<1> SUFFICES ASSUME NEW u \in Writer
             PROVE  /\ \A g \in Generation : owner'[g] = u =>
                         g = view'[u] + 1 /\ pc'[u] \notin FreshSteps
                    /\ \A h \in todo'[u] : h <= view'[u]
                    /\ pc'[u] \in FreshSteps => todo'[u] = {}
  BY DEF OwnerInv, OwnGeneration
<1>1. ASSUME NEW g \in Generation, owner'[g] = u
      PROVE  g = view'[u] + 1 /\ pc'[u] \notin FreshSteps
  <2>1. owner'[g] # NoWriter
    BY <1>1, LeaseAssumption
  <2>2. ~MovesLedger(w)
    BY <2>1, MovePoint
  <2>3. CASE owner[g] = u
    BY <2>3, LinkedStays DEF OwnerInv, OwnGeneration
  <2>4. CASE LinksOwner(w) /\ g = OwnGeneration(w) /\ owner'[g] = w
    BY <1>1, <2>4 DEF LinksOwner, OwnGeneration, FreshSteps, ReadingSteps, ResumeSteps
  <2> QED
    BY <1>1, <2>1, <2>2, <2>3, <2>4, OwnerPoint DEF Facts
<1>2. pc'[u] \in FreshSteps => todo'[u] = {}
  BY DEF OwnerInv, Facts, Local, FlowLease
<1>3. ASSUME NEW h \in todo'[u] PROVE h <= view'[u]
  <2>1. CASE u # w
    BY <2>1 DEF OwnerInv, Facts, Local
  <2>2. CASE u = w /\ todo'[w] \subseteq todo[w]
    <3>1. h \in todo[w] /\ pc[w] # "inventory"
      BY <2>2 DEF OwnerInv, FreshSteps, ReadingSteps
    <3> QED
      BY <2>2, <3>1 DEF OwnerInv, Facts, FlowLease
  <2>3. CASE /\ u = w /\ pc[w] = "listHistory"
             /\ \A k \in todo'[w] : k < OwnGeneration(w)
    <3>1. view'[w] = view[w] /\ view[w] \in Nat
      BY <2>3, LeaseAssumption DEF Facts, FlowLease, Types, SessionTypes
    <3>2. h \in Nat
      BY LeaseAssumption DEF SessionTypes
    <3> QED
      BY <2>3, <3>1, <3>2 DEF OwnGeneration
  <2> QED
    BY <2>1, <2>2, <2>3 DEF Facts, FlowLease
<1> QED
  BY <1>1, <1>2, <1>3

(* Whoever deletes from the directory owns a higher generation in it. *)
LEMMA DeleterIsAbove ==
  ASSUME Types, OwnerInv, NEW w \in Writer, SameNamespace(w),
         NEW g \in Generation, IsNext(w, g)
  PROVE  /\ OwnGeneration(w) \in Generation /\ owner[OwnGeneration(w)] = w
         /\ g < OwnGeneration(w) /\ Over(g)
<1>1. OwnGeneration(w) \in Generation /\ owner[OwnGeneration(w)] = w
  BY DEF SameNamespace
<1>2. g <= view[w] /\ view[w] \in Nat /\ g \in Nat
  BY LeaseAssumption DEF OwnerInv, IsNext, Types, SessionTypes
<1>3. g < OwnGeneration(w)
  BY <1>2 DEF OwnGeneration
<1> QED
  BY <1>1, <1>3, LeaseAssumption DEF Over

(* What is below the high-water mark of a directory stays below it. *)
LEMMA OverStays ==
  ASSUME Types, OwnerInv, NEW w \in Writer, Facts(w), ~MovesLedger(w),
         NEW g \in Generation, Over(g)
  PROVE  Over(g)'
<1>1. PICK h \in Generation : h > g /\ owner[h] # NoWriter
  BY DEF Over
<1>2. CASE owner'[h] # NoWriter
  BY <1>1, <1>2 DEF Over
<1>3. CASE owner'[h] = NoWriter
  <2>1. DeletesOwner(w) /\ IsNext(w, h)
    BY <1>1, <1>3, OwnerPoint, LeaseAssumption DEF Facts
  <2> DEFINE k == OwnGeneration(w)
  <2>2. k \in Generation /\ owner[k] = w /\ h < k
    BY <2>1, DeleterIsAbove DEF DeletesOwner
  <2>3. owner'[k] = w
    <3>1. h # k
      BY <2>2, LeaseAssumption
    <3>2. ~IsNext(w, k)
      BY <2>1, <2>2, <3>1, LeaseAssumption DEF IsNext
    <3>3. ~LinksOwner(w)
      BY <2>1 DEF LinksOwner, DeletesOwner
    <3> QED
      BY <2>2, <3>2, <3>3, OwnerPoint DEF Facts
  <2>4. k > g
    BY <1>1, <2>2, LeaseAssumption
  <2> HIDE DEF k
  <2> QED
    BY <2>2, <2>3, <2>4, LeaseAssumption DEF Over
<1> QED
  BY <1>2, <1>3

(* Only its link makes a generation active. *)
LEMMA ActiveBack ==
  ASSUME Types, OwnerInv, NEW w \in Writer, Facts(w), NEW g \in Generation, IsActive(g)'
  PROVE  /\ ~MovesLedger(w)
         /\ \/ IsActive(g) /\ owner'[g] = owner[g]
            \/ LinksOwner(w) /\ g = OwnGeneration(w) /\ owner'[g] = w
<1>1. /\ owner'[g] # NoWriter /\ terminal'[g] = NoWriter
      /\ \A h \in Generation : owner'[h] # NoWriter => h <= g
  BY LeaseAssumption DEF IsActive, IsHighest, Terminated
<1>2. ~MovesLedger(w)
  BY <1>1, MovePoint
<1>3. CASE LinksOwner(w) /\ g = OwnGeneration(w) /\ owner'[g] = w
  BY <1>2, <1>3
<1>4. CASE owner'[g] = owner[g]
  <2>1. ~Over(g)
    <3>1. ~Over(g)'
      BY <1>1, LeaseAssumption DEF Over
    <3> QED
      BY <1>2, <3>1, OverStays
  <2>2. IsHighest(g)
    BY <1>1, <1>4, <2>1, LeaseAssumption DEF Over, IsHighest
  <2>3. terminal[g] = NoWriter
    <3>1. ~DeletesTerminal(w) \/ ~IsNext(w, g)
      BY <2>1, DeleterIsAbove DEF DeletesTerminal
    <3> QED
      BY <1>1, <1>2, <3>1, TerminalPoint, LeaseAssumption DEF Facts
  <2> QED
    BY <1>2, <1>4, <2>2, <2>3 DEF IsActive, Terminated
<1> QED
  BY <1>1, <1>2, <1>3, <1>4, OwnerPoint DEF Facts

(* A session that has its directory after a step had it before, or has     *)
(* just linked its owner file in it.                                       *)
LEMMA SameBack ==
  ASSUME Types, OwnerInv, NEW w \in Writer, Facts(w), NEW u \in Writer, SameNamespace(u)'
  PROVE  /\ ~MovesLedger(w)
         /\ view'[u] = view[u]
         /\ SameNamespace(u) \/ (u = w /\ LinksOwner(w))
<1>1. PICK g \in Generation : g = view'[u] + 1 /\ owner'[g] = u
  BY DEF SameNamespace, OwnGeneration
<1>2. owner'[g] # NoWriter
  BY <1>1, LeaseAssumption
<1>3. ~MovesLedger(w)
  BY <1>2, MovePoint
<1>4. CASE owner[g] = u
  BY <1>1, <1>3, <1>4, LinkedStays DEF OwnerInv, SameNamespace, OwnGeneration
<1>5. CASE LinksOwner(w) /\ owner'[g] = w
  BY <1>1, <1>3, <1>5 DEF LinksOwner
<1> QED
  BY <1>1, <1>2, <1>3, <1>4, <1>5, OwnerPoint DEF Facts

(* The active generation has its holder, and so has whoever deletes. *)
LEMMA HolderNext ==
  ASSUME Types, OwnerInv, HolderInv, NEW w \in Writer, Facts(w)
  PROVE  HolderInv'
<1>1. ASSUME NEW g \in Generation, IsActive(g)' PROVE <<g, owner'[g]>> \in holders'
  <2>1. ~MovesLedger(w)
    BY <1>1, ActiveBack
  <2>2. CASE LinksOwner(w) /\ g = OwnGeneration(w) /\ owner'[g] = w
    BY <2>2 DEF LinksOwner, HasCandidate
  <2>3. CASE IsActive(g) /\ owner'[g] = owner[g]
    <3>1. <<g, owner[g]>> \in holders
      BY <2>3 DEF HolderInv, ActiveHasHolder
    <3>2. ASSUME DropsHolder(w), <<g, owner[g]>> = <<OwnGeneration(w), w>> PROVE FALSE
      <4>1. g = OwnGeneration(w) /\ owner[g] = w
        BY <3>2
      <4>2. SameNamespace(w)
        BY <4>1 DEF SameNamespace
      <4>3. pc[w] # "link"
        BY <4>1 DEF OwnerInv, FreshSteps
      <4>4. Terminated(g) \/ Over(g)
        BY <3>2, <4>1, <4>2, <4>3 DEF DropsHolder, HolderInv
      <4> QED
        BY <2>3, <4>4, LeaseAssumption DEF IsActive, IsHighest, Over
    <3> QED
      BY <2>1, <2>3, <3>1, <3>2, HolderPoint DEF Facts
  <2> QED
    BY <1>1, <2>2, <2>3, ActiveBack
<1>2. ASSUME NEW u \in Writer, SameNamespace(u)'
      PROVE  /\ pc'[u] \in {"removeHolder", "retireHolder"} =>
                  terminal'[view'[u] + 1] # NoWriter \/ Over(view[u] + 1)'
             /\ pc'[u] \in {"assertFinal", "history", "listHistory", "retire",
                            "retireOwner"} => <<view'[u] + 1, u>> \in holders'
  <2> DEFINE g == view[u] + 1
  <2>1. ~MovesLedger(w) /\ view'[u] = view[u]
    BY <1>2, SameBack
  <2>2. CASE u = w /\ LinksOwner(w)
    BY <2>2 DEF LinksOwner
  <2>3. CASE SameNamespace(u)
    <3>1. g \in Generation /\ owner[g] = u
      BY <2>3 DEF SameNamespace, OwnGeneration
    <3>2. ASSUME pc'[u] \in {"removeHolder", "retireHolder"}
          PROVE  terminal'[g] # NoWriter \/ Over(g)'
      <4>1. CASE u = w
        <5>1. LinksTerminal(w)
          BY <3>2, <4>1 DEF Facts, FlowLease, FlowRetire
        <5> QED
          BY <3>1, <4>1, <5>1, LeaseAssumption DEF LinksTerminal, OwnGeneration, Types, FileTypes
      <4>2. CASE u # w
        <5>1. Terminated(g) \/ Over(g)
          BY <2>3, <3>2, <4>2 DEF HolderInv, Facts, Local, OwnGeneration
        <5>2. CASE Over(g)
          BY <2>1, <3>1, <5>2, OverStays
        <5>3. CASE terminal[g] # NoWriter /\ terminal'[g] = NoWriter
          <6>1. DeletesTerminal(w) /\ IsNext(w, g)
            BY <2>1, <3>1, <5>3, TerminalPoint, LeaseAssumption DEF Facts
          <6>2. Over(g)
            BY <3>1, <6>1, DeleterIsAbove DEF DeletesTerminal
          <6> QED
            BY <2>1, <3>1, <6>2, OverStays
        <5> QED
          BY <5>1, <5>2, <5>3 DEF Terminated
      <4> QED
        BY <4>1, <4>2
    <3>3. ASSUME pc'[u] \in {"assertFinal", "history", "listHistory", "retire", "retireOwner"}
          PROVE  <<g, u>> \in holders'
      <4>1. <<g, u>> \in holders
        <5>1. CASE pc[u] \in {"assertFinal", "history", "listHistory", "retire", "retireOwner"}
          BY <2>3, <5>1 DEF HolderInv, OwnGeneration
        <5>2. CASE u = w /\ OwnershipProven(w)
          BY <5>2 DEF OwnershipProven, OwnGeneration
        <5> QED
          BY <3>3, <5>1, <5>2 DEF Facts, Local, FlowLease, DeletesTerminal
      <4>2. ~(DropsHolder(w) /\ u = w)
        BY <3>3 DEF DropsHolder
      <4> QED
        BY <2>1, <4>1, <4>2, HolderPoint DEF Facts
    <3> HIDE DEF g
    <3>4. view'[u] + 1 = g
      BY <2>1 DEF g
    <3> QED
      BY <3>2, <3>3, <3>4 DEF g
  <2> QED
    BY <1>2, <2>2, <2>3, SameBack
<1> QED
  BY <1>1, <1>2, SameBack DEF HolderInv, ActiveHasHolder, OwnGeneration, Terminated

(* Where the session is whose receipt the fence holds. *)
LEMMA FencePlace ==
  ASSUME RetireInv, NEW w \in Writer, fence = w
  PROVE  /\ pc[w] \notin FreshSteps \cup {"retireAssert", "publishFence", "held", "recovered"}
         /\ pc[w] = "assertFirst" => goal[w] = "release"
         /\ bound[w] # NoProof /\ bound[w].by = w /\ bound[w].gen = OwnGeneration(w)
BY DEF RetireInv, RetireSteps, EndSteps, ReleaseSteps, FreshSteps, ReadingSteps, ResumeSteps

(* A binding changes only where a transition begins or a receipt is read. *)
LEMMA BoundStays ==
  ASSUME Types, RetireInv, NEW w \in Writer, Facts(w), NEW v \in Writer,
         pc[v] \notin FreshSteps, pc'[v] # "publishFence"
  PROVE  bound'[v] = bound[v]
BY DEF Facts, Local, BoundStep, FreshSteps, ResumeSteps

(* The fence stands as long as the directory it binds is at the path. *)
LEMMA FenceStays ==
  ASSUME Types, MovedInv, NEW w \in Writer, Facts(w), Fenced, root = bound[fence].id
  PROVE  fence' = fence /\ early' = early
BY DEF Facts, FenceStep, MovedInv

(* What retiring sessions know of themselves stays true. *)
LEMMA RetireNext ==
  ASSUME Types, BoundInv, RetireInv, MovedInv, NEW w \in Writer, Facts(w)
  PROVE  RetireInv'
<1> SUFFICES ASSUME NEW v \in Writer
      PROVE  /\ pc'[v] \in RetireSteps => ~Carries(v)'
             /\ pc'[v] \in {"publishFence", "retireTerminal", "retireHolder",
                            "retireScan", "relocate"} =>
                  /\ bound'[v] # NoProof
                  /\ bound'[v].by = v /\ bound'[v].gen = view'[v] + 1
                  /\ pc'[v] # "publishFence" /\ root' = bound'[v].id => fence' = v
             /\ fence' = v =>
                  /\ bound'[v] # NoProof
                  /\ bound'[v].by = v /\ bound'[v].gen = view'[v] + 1
                  /\ \/ pc'[v] \in RetireSteps \ {"retireAssert", "publishFence"}
                     \/ pc'[v] \in {"retired", "completed"} \cup EndSteps
                     \/ pc'[v] \in ReleaseSteps /\ goal'[v] = "release"
  BY DEF RetireInv, OwnGeneration
<1>1. CASE v = w /\ pc'[w] = "publishFence"
  <2>1. bound'[w] = Scan(w) /\ OwnershipProven(w) /\ pc[w] = "retireAssert"
    BY <1>1 DEF Facts, FlowRetire
  <2>2. bound'[w] # NoProof /\ bound'[w].by = w /\ bound'[w].gen = view[w] + 1
    BY <2>1, ScanTypes DEF Types, OwnGeneration
  <2>3. view'[w] = view[w]
    BY <2>1 DEF Facts, FlowLease
  <2>4. fence' # w
    BY <1>1, <2>1, FencePlace DEF Facts, FenceStep
  <2> QED
    BY <1>1, <2>2, <2>3, <2>4 DEF Carries
<1>2. CASE ~(v = w /\ pc'[w] = "publishFence")
  <2>1. ASSUME pc'[v] \in RetireSteps PROVE ~Carries(v)'
    <3>1. ~Carries(v)
      BY <1>2, <2>1 DEF RetireInv, Facts, Local, FlowRetire, RetireSteps
    <3>2. bound'[v] = bound[v]
      BY <1>2, <2>1 DEF Facts, Local, FlowRetire, BoundStep, RetireSteps
    <3> QED
      BY <3>1, <3>2 DEF Carries
  <2>2. ASSUME pc'[v] \in {"publishFence", "retireTerminal", "retireHolder",
                           "retireScan", "relocate"}
        PROVE  /\ bound'[v] # NoProof
               /\ bound'[v].by = v /\ bound'[v].gen = view'[v] + 1
               /\ pc'[v] # "publishFence" /\ root' = bound'[v].id => fence' = v
    <3>1. /\ pc[v] \in {"publishFence", "retireTerminal", "retireHolder",
                        "retireScan", "relocate"}
          /\ view'[v] = view[v] /\ bound'[v] = bound[v]
      BY <1>2, <2>2 DEF Facts, Local, FlowLease, FlowRetire, BoundStep
    <3>2. /\ bound[v] # NoProof
          /\ bound[v].by = v /\ bound[v].gen = view[v] + 1
      BY <3>1 DEF RetireInv, OwnGeneration
    <3>3. ASSUME pc'[v] # "publishFence", root' = bound[v].id PROVE fence' = v
      <4>1. CASE pc[v] = "publishFence"
        <5>1. v = w
          BY <3>3, <4>1 DEF Facts, Local
        <5> QED
          BY <2>2, <3>3, <4>1, <5>1 DEF Facts, FlowRetire
      <4>2. CASE pc[v] # "publishFence"
        <5>1. root = bound[v].id
          BY <3>2, <3>3, RootPoint DEF BoundInv, Facts
        <5>2. fence = v
          BY <3>1, <4>2, <5>1 DEF RetireInv
        <5>3. Fenced
          BY <5>2, LeaseAssumption DEF Fenced
        <5> QED
          BY <5>1, <5>2, <5>3, FenceStays
      <4> QED
        BY <4>1, <4>2
    <3> QED
      BY <3>1, <3>2, <3>3
  <2>3. ASSUME fence' = v
        PROVE  /\ bound'[v] # NoProof
               /\ bound'[v].by = v /\ bound'[v].gen = view'[v] + 1
               /\ \/ pc'[v] \in RetireSteps \ {"retireAssert", "publishFence"}
                  \/ pc'[v] \in {"retired", "completed"} \cup EndSteps
                  \/ pc'[v] \in ReleaseSteps /\ goal'[v] = "release"
    <3>1. CASE fence = v
      <4>1. /\ pc[v] \notin FreshSteps
            /\ bound[v] # NoProof /\ bound[v].by = v /\ bound[v].gen = view[v] + 1
        BY <3>1, FencePlace DEF OwnGeneration
      <4>2. bound'[v] = bound[v] /\ view'[v] = view[v]
        BY <1>2, <4>1, BoundStays, LinkedStays DEF Facts, Local
      <4>3. CASE pc[v] \in RetireSteps \ {"retireAssert", "publishFence"}
        <5>1. CASE v = w
          BY <4>1, <4>2, <4>3, <5>1 DEF Facts, FlowRetire, RetireSteps, EndSteps, ReleaseSteps
        <5>2. CASE v # w
          BY <4>1, <4>2, <4>3, <5>2 DEF Facts, Local
        <5> QED
          BY <4>1, <4>2, <5>1, <5>2
      <4>4. CASE pc[v] \in {"retired", "completed"} \cup EndSteps
        <5>1. CASE v = w
          BY <4>1, <4>2, <4>4, <5>1 DEF Facts, FlowRetire, EndSteps
        <5>2. CASE v # w
          BY <4>1, <4>2, <4>4, <5>2 DEF Facts, Local
        <5> QED
          BY <4>1, <4>2, <5>1, <5>2
      <4>5. CASE pc[v] \in ReleaseSteps /\ goal[v] = "release"
        <5>1. CASE v = w
          BY <4>1, <4>2, <4>5, <5>1 DEF Facts, FlowLease
        <5>2. CASE v # w
          BY <4>1, <4>2, <4>5, <5>2 DEF Facts, Local
        <5> QED
          BY <4>1, <4>2, <5>1, <5>2
      <4> QED
        BY <3>1, <4>3, <4>4, <4>5 DEF RetireInv
    <3>2. CASE fence # v
      <4>1. /\ v = w /\ pc'[w] = "retireTerminal"
        BY <2>3, <3>2, LeaseAssumption DEF Facts, FenceStep
      <4> QED
        BY <2>2, <4>1 DEF RetireSteps
    <3> QED
      BY <3>1, <3>2
  <2> QED
    BY <2>1, <2>2, <2>3
<1> QED
  BY <1>1, <1>2

(* Nobody passes the fence who was not let in. *)
LEMMA AdmissionNext ==
  ASSUME Types, RetireInv, AdmissionInv, NEW w \in Writer, Facts(w)
  PROVE  AdmissionInv'
<1> SUFFICES ASSUME fence' # NoWriter, NEW v \in Writer, Admitted(v)'
             PROVE  v = fence' \/ v \in early' \/ Carries(v)'
  BY DEF AdmissionInv, Fenced
<1>1. CASE fence' = fence /\ early' = early
  <2>1. CASE v # w
    BY <1>1, <2>1 DEF AdmissionInv, Fenced, Facts, Local, Admitted, Carries
  <2>2. CASE v = w /\ Admitted(w)
    <3>1. w = fence \/ w \in early \/ Carries(w)
      BY <1>1, <2>2 DEF AdmissionInv, Fenced
    <3>2. Carries(w) => bound'[w] = bound[w]
      BY <2>2 DEF Facts, BoundStep, RetireInv, RetireSteps, Admitted, Step, ReadingSteps,
         LinkedSteps, EndSteps, ScanSteps
    <3> QED
      BY <1>1, <2>2, <3>1, <3>2 DEF Carries
  <2>3. CASE v = w /\ ~Admitted(w)
    <3>1. fence \in Writer /\ pc[w] = "resumeAcquire" /\ bound[fence] = bound[w]
      BY <1>1, <2>3 DEF Facts, FlowRetire, Fenced, Types, RetirementTypes
    <3>2. bound'[w] = bound[w]
      BY <3>1 DEF Facts, BoundStep
    <3>3. bound[fence] # NoProof /\ bound[fence].by = fence /\ fence # w
      BY <3>1, FencePlace DEF FreshSteps, ResumeSteps
    <3> QED
      BY <2>3, <3>1, <3>2, <3>3 DEF Carries
  <2> QED
    BY <2>1, <2>2, <2>3
<1>2. CASE fence' = w /\ early' = {u \in Writer \ {w} : Admitted(u)}
  BY <1>2 DEF Facts, Local, Admitted
<1> QED
  BY <1>1, <1>2 DEF Facts, FenceStep

(* Whoever moved a ledger sees it no more. *)
LEMMA MovedNext ==
  ASSUME Types, BoundInv, RetireInv, MoveInv, MovedInv, NEW w \in Writer, Facts(w)
  PROVE  MovedInv'
<1> SUFFICES ASSUME NEW u \in Writer, pc'[u] \in {"retired", "recovered"}
             PROVE  bound'[u] # NoProof /\ root' # bound'[u].id
  BY DEF MovedInv
<1>1. CASE u # w
  <2>1. bound'[u] = bound[u] /\ pc[u] \in {"retired", "recovered"}
    BY <1>1 DEF Facts, Local
  <2>2. bound[u] # NoProof /\ root # bound[u].id /\ bound[u].id \in 1..roots
    BY <2>1 DEF MovedInv, BoundInv
  <2> QED
    BY <2>1, <2>2, RootPoint DEF Facts
<1>2. CASE u = w
  <2>1. CASE MovesLedger(w)
    <3>1. bound'[w] = bound[w] /\ bound[w] # NoProof /\ root' = 0
      BY <2>1, MovePoint DEF MovesLedger, Facts, BoundStep, MoveInv
    <3> QED
      BY <1>2, <3>1 DEF BoundInv, Types, RetirementTypes
  <2>2. CASE root = 0 /\ CanRecover /\ bound'[w] = bound[fence] /\ Still
    <3>1. fence \in Writer
      BY <2>2 DEF CanRecover, Fenced, Types, RetirementTypes
    <3>2. bound[fence] # NoProof
      BY <3>1, FencePlace
    <3> QED
      BY <1>2, <2>2, <3>1, <3>2 DEF BoundInv, Still, Types, RetirementTypes
  <2> QED
    BY <1>2, <2>1, <2>2 DEF Facts, FlowRetire
<1> QED
  BY <1>1, <1>2

(* A ledger is kept with the pair of the generation that was retired. *)
LEMMA RetainedNext ==
  ASSUME Types, MoveInv, RetainedIsTerminal, NEW w \in Writer, Facts(w)
  PROVE  RetainedIsTerminal'
<1>1. CASE MovesLedger(w)
  <2> DEFINE b == bound[w]
  <2>1. b \in Snapshot
    BY <1>1 DEF MovesLedger, MoveInv, Types, RetirementTypes
  <2>2. owner[b.gen] = b.by /\ terminal[b.gen] = b.by
    BY <1>1 DEF MovesLedger, MoveInv
  <2>3. /\ retained'.gen = b.gen /\ retained'.by = b.by
        /\ retained'.owner = owner /\ retained'.terminal = terminal
    <3>1. retained' = [b EXCEPT !.owner = owner, !.terminal = terminal, !.holders = holders]
      BY <1>1 DEF MovesLedger, MoveNamespace
    <3> HIDE DEF b
    <3> QED
      BY <2>1, <3>1, MoveTypes DEF Types
  <2> QED
    BY <2>2, <2>3 DEF RetainedIsTerminal
<1>2. CASE retained' = retained
  BY <1>2 DEF RetainedIsTerminal
<1> QED
  BY <1>1, <1>2 DEF Facts, FileKinds, Still, LinksOwner, MakesRoot, AddsHolder, DropsHolder,
     LinksTerminal, DeletesTerminal, DeletesOwner

(* How a session comes to the steps that lead to its terminal. *)
LEMMA LinkingBack ==
  ASSUME NEW w \in Writer, Facts(w), pc'[w] \in LinkingSteps
  PROVE  \/ pc[w] \in LinkingSteps \cup {"retireAssert"}
         \/ pc[w] = "assertFirst" /\ (OwnershipProven(w) \/ goal[w] = "acquire")
BY DEF Facts, FlowLease, FlowRetire, LinkingSteps, DeletesTerminal

(* No other session begins to delete an owner but by deleting its terminal. *)
LEMMA DeletingBack ==
  ASSUME Types, OwnerInv, NEW w \in Writer, Facts(w), NEW x \in Writer,
         NEW g \in Generation, Deleting(x, g)'
  PROVE  \/ Deleting(x, g)
         \/ /\ x = w /\ DeletesTerminal(w) /\ IsNext(w, g) /\ Retirable(g)
            /\ terminal'[g] = NoWriter
<1>1. SameNamespace(x)' /\ pc'[x] = "retireOwner" /\ IsNext(x, g)'
  BY DEF Deleting
<1>2. SameNamespace(x)
  BY <1>1, SameBack DEF LinksOwner
<1>3. CASE x # w
  BY <1>1, <1>2, <1>3 DEF Deleting, IsNext, Facts, Local
<1>4. CASE x = w
  <2>1. DeletesTerminal(w)
    BY <1>1, <1>4 DEF Facts, FlowLease
  <2>2. IsNext(w, g)
    BY <1>1, <1>4, <2>1 DEF DeletesTerminal, IsNext
  <2>3. PICK h \in todo[w] : /\ IsNext(w, h) /\ Retirable(h)
                             /\ terminal' = [terminal EXCEPT ![h] = NoWriter]
    BY <2>1 DEF DeletesTerminal
  <2>4. h = g
    <3>1. h \in Nat /\ g \in Nat
      BY LeaseAssumption DEF Types, SessionTypes
    <3> QED
      BY <2>2, <2>3, <3>1 DEF IsNext
  <2> QED
    BY <1>4, <2>1, <2>2, <2>3, <2>4 DEF Types, FileTypes
<1> QED
  BY <1>3, <1>4

(* The pair of a retiring generation, one disjunct of the invariant at a   *)
(* time: before the terminal, with it, and after another session began to  *)
(* delete it.                                                              *)
Unended(v, g) ==
  /\ owner[g] = v /\ terminal[g] # v
  /\ <<g, v>> \in holders
  /\ pc[v] \notin {"retireHolder", "removeHolder"}
  /\ \A x \in Writer : ~Deleting(x, g)

Paired(v, g) ==
  /\ owner[g] = v /\ terminal[g] = v
  /\ pc[v] \notin LinkingSteps
  /\ \A x \in Writer : ~Deleting(x, g)

Superseded(v, g) == terminal[g] # v /\ Over(g) /\ pc[v] \notin LinkingSteps

(* The three disjuncts are those of the invariant. *)
LEMMA PairParts ==
  PairInv <=>
    \A v \in Writer :
      (pc[v] = "publishFence" \/ fence = v) /\ root = bound[v].id =>
        /\ OwnGeneration(v) \in Generation
        /\ \/ Unended(v, OwnGeneration(v)) \/ Paired(v, OwnGeneration(v))
           \/ Superseded(v, OwnGeneration(v))
BY DEF PairInv, Unended, Paired, Superseded

(* An owner file that nobody deletes stays. *)
LEMMA OwnerStays ==
  ASSUME Types, NEW w \in Writer, Facts(w), ~MovesLedger(w), NEW v \in Writer,
         NEW g \in Generation, owner[g] = v, \A x \in Writer : ~Deleting(x, g)
  PROVE  owner'[g] = v
BY OwnerPoint, LeaseAssumption DEF Facts, Deleting, DeletesOwner

(* Before the terminal, the owner file and the holder stay. *)
LEMMA UnendedNext ==
  ASSUME Types, OwnerInv, NEW w \in Writer, Facts(w), ~MovesLedger(w), NEW v \in Writer,
         NEW g \in Generation, g = OwnGeneration(v), Unended(v, g)
  PROVE  Unended(v, g)' \/ Paired(v, g)'
<1>1. owner'[g] = v
  BY OwnerStays DEF Unended
<1>2. <<g, v>> \in holders'
  <2>1. ASSUME DropsHolder(w), <<g, v>> = <<OwnGeneration(w), w>> PROVE FALSE
    <3>1. pc[v] = "link" /\ v = w
      BY <2>1 DEF DropsHolder, Unended
    <3> QED
      BY <3>1 DEF OwnerInv, Unended, FreshSteps
  <2> QED
    BY <2>1, HolderPoint DEF Facts, Unended
<1>3. ~Retirable(g)
  BY DEF Retirable, Unended
<1>4. \A x \in Writer : ~Deleting(x, g)'
  BY <1>3, DeletingBack DEF Unended
<1>5. CASE terminal'[g] = v
  <2>1. v = w /\ LinksTerminal(w)
    BY <1>5, TerminalPoint, LeaseAssumption DEF Facts, Unended
  <2>2. pc'[v] \notin LinkingSteps
    BY <2>1 DEF LinksTerminal, LinkingSteps
  <2> QED
    BY <1>1, <1>4, <1>5, <2>2 DEF Paired
<1>6. CASE terminal'[g] # v
  <2>1. ~(v = w /\ LinksTerminal(w))
    BY <1>6 DEF LinksTerminal, Types, FileTypes
  <2>2. pc'[v] \notin {"retireHolder", "removeHolder"}
    BY <2>1 DEF Facts, Local, FlowLease, FlowRetire, Unended
  <2> QED
    BY <1>1, <1>2, <1>4, <1>6, <2>2 DEF Unended
<1> QED
  BY <1>5, <1>6

(* With the terminal, the pair stays until another session deletes it. *)
LEMMA PairedNext ==
  ASSUME Types, OwnerInv, RetireInv, NEW w \in Writer, Facts(w), ~MovesLedger(w),
         NEW v \in Writer, NEW g \in Generation, g = OwnGeneration(v), fence = v, Paired(v, g)
  PROVE  Paired(v, g)' \/ Superseded(v, g)'
<1>1. owner'[g] = v
  BY OwnerStays DEF Paired
<1>2. pc'[v] \notin LinkingSteps
  <2>1. CASE v # w
    BY <2>1 DEF Facts, Local, Paired
  <2>2. CASE v = w
    <3>1. ~OwnershipProven(w)
      BY <2>2, LeaseAssumption DEF OwnershipProven, IsActive, Terminated, Paired
    <3> QED
      BY <2>2, <3>1, LinkingBack, FencePlace DEF Paired
  <2> QED
    BY <2>1, <2>2
<1>3. CASE terminal'[g] = v
  <2>1. \A x \in Writer : ~Deleting(x, g)'
    BY <1>3, DeletingBack, LeaseAssumption DEF Paired
  <2> QED
    BY <1>1, <1>2, <1>3, <2>1 DEF Paired
<1>4. CASE terminal'[g] # v
  <2>1. DeletesTerminal(w) /\ IsNext(w, g)
    BY <1>4, TerminalPoint, LeaseAssumption DEF Facts, Paired
  <2>2. Over(g)'
    BY <2>1, DeleterIsAbove, OverStays DEF DeletesTerminal
  <2> QED
    BY <1>2, <1>4, <2>2 DEF Superseded
<1> QED
  BY <1>3, <1>4

(* After it, the terminal does not come back. *)
LEMMA SupersededNext ==
  ASSUME Types, OwnerInv, RetireInv, NEW w \in Writer, Facts(w), ~MovesLedger(w),
         NEW v \in Writer, NEW g \in Generation, g = OwnGeneration(v), fence = v,
         Superseded(v, g)
  PROVE  Superseded(v, g)'
<1>1. Over(g)'
  BY OverStays DEF Superseded
<1>2. pc'[v] \notin LinkingSteps
  <2>1. CASE v # w
    BY <2>1 DEF Facts, Local, Superseded
  <2>2. CASE v = w
    <3>1. ~OwnershipProven(w)
      BY <2>2, LeaseAssumption DEF OwnershipProven, IsActive, IsHighest, Over, Superseded
    <3> QED
      BY <2>2, <3>1, LinkingBack, FencePlace DEF Superseded
  <2> QED
    BY <2>1, <2>2
<1>3. terminal'[g] # v
  <2>1. ~(v = w /\ LinksTerminal(w))
    BY DEF LinksTerminal, LinkingSteps, Superseded
  <2> QED
    BY <2>1, TerminalPoint, LeaseAssumption DEF Facts, Superseded
<1> QED
  BY <1>1, <1>2, <1>3 DEF Superseded

(* The pair of a retiring generation keeps its order. *)
LEMMA PairNext ==
  ASSUME Types, BoundInv, OwnerInv, RetireInv, PairInv, NEW w \in Writer, Facts(w)
  PROVE  PairInv'
<1> SUFFICES ASSUME NEW v \in Writer, pc'[v] = "publishFence" \/ fence' = v,
                    root' = bound'[v].id, NEW g, g = view'[v] + 1
             PROVE  /\ g \in Generation
                    /\ Unended(v, g)' \/ Paired(v, g)' \/ Superseded(v, g)'
  BY DEF PairInv, Unended, Paired, Superseded, OwnGeneration
<1>1. CASE v = w /\ pc'[w] = "publishFence"
  <2>1. OwnershipProven(w) /\ pc[w] = "retireAssert"
    BY <1>1 DEF Facts, FlowRetire
  <2>2. g = OwnGeneration(w)
    BY <1>1, <2>1 DEF Facts, FlowLease, OwnGeneration
  <2>3. g \in Generation
    BY <2>1, <2>2, ScanTypes DEF Types
  <2>4. Still
    BY <2>1 DEF Facts, FileKinds, LinksOwner, MakesRoot, AddsHolder, DropsHolder,
       LinksTerminal, DeletesTerminal, DeletesOwner, MovesLedger
  <2>5. owner[g] = w /\ terminal[g] = NoWriter /\ <<g, w>> \in holders /\ ~Over(g)
    BY <2>1, <2>2, <2>3, LeaseAssumption DEF OwnershipProven, IsActive, IsHighest, Terminated, Over
  <2>6. owner'[g] = w /\ terminal'[g] # w /\ <<g, w>> \in holders'
    BY <2>4, <2>5, LeaseAssumption DEF Still
  <2>7. ASSUME NEW x \in Writer, Deleting(x, g)' PROVE FALSE
    <3>1. ~DeletesTerminal(w)
      BY <2>1 DEF DeletesTerminal
    <3>2. Deleting(x, g)
      BY <2>3, <2>7, <3>1, DeletingBack
    <3> QED
      BY <2>3, <2>5, <3>2, DeleterIsAbove DEF Deleting
  <2>8. Unended(w, g)'
    BY <1>1, <2>6, <2>7 DEF Unended
  <2> QED
    BY <1>1, <2>3, <2>8
<1>2. CASE ~(v = w /\ pc'[w] = "publishFence")
  <2>1. pc[v] = "publishFence" \/ fence = v
    BY <1>2, LeaseAssumption DEF Facts, Local, FenceStep
  <2>2. pc[v] \notin FreshSteps /\ bound[v] # NoProof
    BY <2>1, FencePlace DEF RetireInv, FreshSteps, ReadingSteps, ResumeSteps
  <2>3. bound'[v] = bound[v] /\ view'[v] = view[v]
    BY <1>2, <2>2, BoundStays, LinkedStays DEF Facts, Local
  <2>4. root = bound[v].id /\ ~MovesLedger(w)
    BY <2>2, <2>3, RootPoint DEF BoundInv, Facts
  <2>5. g = OwnGeneration(v)
    BY <2>3 DEF OwnGeneration
  <2>6. /\ g \in Generation
        /\ Unended(v, g) \/ Paired(v, g) \/ Superseded(v, g)
    BY <2>1, <2>4, <2>5, PairParts
  <2>7. fence = v \/ Unended(v, g)
    BY <2>1, <2>6 DEF Paired, Superseded, LinkingSteps
  <2>8. Unended(v, g)' \/ Paired(v, g)' \/ Superseded(v, g)'
    BY <2>4, <2>5, <2>6, <2>7, UnendedNext, PairedNext, SupersededNext
  <2> QED
    BY <2>6, <2>8
<1> QED
  BY <1>1, <1>2

(* What the session that is about to move the ledger b relies on. *)
MovesSafely(b) ==
  /\ Fenced /\ bound[fence] = b
  /\ b.gen \in Generation
  /\ owner[b.gen] = b.by /\ terminal[b.gen] = b.by
  /\ \A x \in Writer :
       SameNamespace(x) /\ pc[x] \in {"listHistory", "retire", "retireOwner"}
         => pc[x] = "retire" /\ todo[x] = {}
  /\ \A g \in Generation :
       IsActive(g) => owner[g] \in early \/ Carries(owner[g])

(* It stays so until the ledger is moved. *)
LEMMA SafetyStays ==
  ASSUME Types, OwnerInv, RetireInv, AdmissionInv, MovedInv, NEW w \in Writer, Facts(w),
         ~MovesLedger(w), NEW b \in Snapshot, root = b.id, MovesSafely(b)
  PROVE  MovesSafely(b)' /\ fence' = fence
<1>1. fence \in Writer /\ fence' = fence /\ early' = early
  BY FenceStays DEF MovesSafely, Fenced, Types, RetirementTypes
<1>2. bound'[fence] = b
  <2>1. pc[fence] \notin FreshSteps /\ pc[fence] # "retireAssert"
    BY <1>1, FencePlace
  <2>2. pc'[fence] # "publishFence"
    BY <1>1, <2>1, FencePlace DEF Facts, Local, FlowRetire
  <2> QED
    BY <1>1, <2>1, <2>2, BoundStays DEF MovesSafely
<1>3. \A h \in todo[w] : ~(SameNamespace(w) /\ pc[w] \in {"retire", "retireOwner"})
  BY DEF MovesSafely
<1>4. ~DeletesTerminal(w) /\ ~DeletesOwner(w)
  BY <1>3 DEF DeletesTerminal, DeletesOwner
<1>5. owner'[b.gen] = b.by /\ terminal'[b.gen] = b.by
  <2>1. b.by # NoWriter /\ b.gen \in Generation
    BY LeaseAssumption DEF Snapshot, MovesSafely
  <2> QED
    BY <1>4, <2>1, OwnerPoint, TerminalPoint DEF MovesSafely, Facts
<1>6. ASSUME NEW x \in Writer, SameNamespace(x)',
             pc'[x] \in {"listHistory", "retire", "retireOwner"}
      PROVE  pc'[x] = "retire" /\ todo'[x] = {}
  <2>1. SameNamespace(x)
    BY <1>6, SameBack DEF LinksOwner
  <2>2. CASE x # w
    BY <1>6, <2>1, <2>2 DEF MovesSafely, Facts, Local
  <2>3. CASE x = w
    BY <1>4, <1>6, <2>1, <2>3 DEF MovesSafely, Facts, FlowLease
  <2> QED
    BY <2>2, <2>3
<1>7. ASSUME NEW g \in Generation, IsActive(g)', NEW u, u = owner'[g]
      PROVE  u \in early' \/ Carries(u)'
  <2>1. CASE IsActive(g) /\ owner'[g] = owner[g]
    <3>1. u \in Writer
      BY <1>7, <2>1, LeaseAssumption DEF IsActive, IsHighest, Types, FileTypes
    <3>2. pc[u] \notin FreshSteps
      BY <1>7, <2>1, <3>1 DEF OwnerInv
    <3>3. u \in early \/ Carries(u)
      BY <1>7, <2>1 DEF MovesSafely
    <3>4. Carries(u) => bound'[u] = bound[u]
      <4>1. CASE pc'[u] # "publishFence"
        BY <3>1, <3>2, <4>1, BoundStays
      <4>2. CASE pc'[u] = "publishFence"
        BY <3>1, <4>2 DEF Facts, Local, FlowRetire, RetireInv, RetireSteps
      <4> QED
        BY <4>1, <4>2
    <3> QED
      BY <1>1, <3>3, <3>4 DEF Carries
  <2>2. CASE LinksOwner(w) /\ owner'[g] = w
    <3>1. Admitted(w) /\ bound' = bound
      BY <2>2 DEF LinksOwner, Admitted, Step, EndSteps
    <3>2. fence # w
      BY <2>2, FencePlace DEF LinksOwner, FreshSteps
    <3>3. w \in early \/ Carries(w)
      BY <3>1, <3>2 DEF AdmissionInv, MovesSafely
    <3> QED
      BY <1>1, <1>7, <2>2, <3>1, <3>3 DEF Carries
  <2> QED
    BY <1>7, <2>1, <2>2, ActiveBack
<1>8. fence' # NoWriter /\ bound'[fence'] = b /\ b.gen \in Generation
  BY <1>1, <1>2 DEF MovesSafely, Fenced
<1>9. MovesSafely(b)'
  BY <1>5, <1>6, <1>7, <1>8 DEF MovesSafely, Fenced
<1> QED
  BY <1>1, <1>9

(* An empty holders directory shows that no session has the lease, nor     *)
(* deletes.                                                                *)
LEMMA NoHolders ==
  ASSUME HolderInv, holders = {}
  PROVE  /\ \A g \in Generation : ~IsActive(g)
         /\ \A x \in Writer : SameNamespace(x) =>
              pc[x] \notin {"listHistory", "retire", "retireOwner"}
BY DEF HolderInv, ActiveHasHolder

(* Whoever is about to move the ledger can rely on it. *)
LEMMA MoveNext ==
  ASSUME Types, BoundInv, OwnerInv, HolderInv, RetireInv, AdmissionInv, PairInv, MoveInv,
         MovedInv, NEW w \in Writer, Facts(w)
  PROVE  MoveInv'
<1> SUFFICES ASSUME NEW v \in Writer, pc'[v] \in {"relocate", "recoverMove"},
                    NEW b, b = bound'[v]
             PROVE  /\ b # NoProof
                    /\ root' = b.id => MovesSafely(b)' /\ (pc'[v] = "relocate" => fence' = v)
  BY DEF MoveInv, MovesSafely, Carries, Fenced
<1>1. CASE v # w
  <2>1. pc'[v] = pc[v] /\ bound[v] = b
    BY <1>1 DEF Facts, Local
  <2>2. b \in Snapshot /\ b # NoProof
    BY <2>1 DEF MoveInv, Types, RetirementTypes
  <2>3. ASSUME root' = b.id PROVE MovesSafely(b)' /\ (pc'[v] = "relocate" => fence' = v)
    <3>1. root = b.id /\ ~MovesLedger(w)
      BY <2>1, <2>2, <2>3, RootPoint DEF BoundInv, Facts
    <3>2. MovesSafely(b) /\ (pc[v] = "relocate" => fence = v)
      BY <2>1, <3>1 DEF MoveInv, MovesSafely
    <3> QED
      BY <2>1, <2>2, <3>1, <3>2, SafetyStays
  <2> QED
    BY <2>2, <2>3
<1>2. CASE v = w /\ pc'[w] = "relocate"
  <2>1. /\ pc[w] = "retireScan" /\ terminal[OwnGeneration(w)] = w
        /\ holders = {} /\ Still
    BY <1>2 DEF Facts, FlowRetire
  <2>2. bound[w] = b
    BY <1>2, <2>1 DEF Facts, BoundStep
  <2>3. b \in Snapshot /\ b # NoProof /\ b.by = w /\ b.gen = OwnGeneration(w)
    BY <2>1, <2>2 DEF RetireInv, Types, RetirementTypes
  <2>4. ASSUME root' = b.id PROVE MovesSafely(b)' /\ fence' = w
    <3>1. root = b.id
      BY <2>1, <2>4 DEF Still
    <3>2. fence = w
      BY <2>1, <2>2, <3>1 DEF RetireInv
    <3>3. OwnGeneration(w) \in Generation /\ Paired(w, OwnGeneration(w))
      BY <2>1, <2>2, <3>1, <3>2, PairParts DEF Unended, Superseded
    <3>4. MovesSafely(b)
      BY <2>1, <2>2, <2>3, <3>2, <3>3, NoHolders, LeaseAssumption
      DEF MovesSafely, Paired, Fenced
    <3>5. ~MovesLedger(w)
      BY <2>1 DEF MovesLedger
    <3> QED
      BY <2>3, <3>1, <3>2, <3>4, <3>5, SafetyStays
  <2> QED
    BY <1>2, <2>3, <2>4
<1>3. CASE v = w /\ pc'[w] = "recoverMove"
  <2>1. Still /\ CanRecover /\ root # 0 /\ b = bound[fence]
    BY <1>3 DEF Facts, FlowRetire
  <2>2. fence \in Writer /\ Fenced
    BY <2>1 DEF CanRecover, Fenced, Types, RetirementTypes
  <2>3. b \in Snapshot /\ b # NoProof /\ b.gen \in Generation
    BY <2>1, <2>2 DEF RetireInv, Types, RetirementTypes, Snapshot
  <2>4. /\ root = b.id /\ holders = {}
        /\ owner[b.gen] = b.by /\ terminal[b.gen] = b.by
    BY <2>1 DEF CanRecover, TerminalSubset
  <2>5. MovesSafely(b)
    BY <2>1, <2>2, <2>3, <2>4, NoHolders DEF MovesSafely
  <2>6. ~MovesLedger(w)
    BY <1>3 DEF MovesLedger
  <2> QED
    BY <1>3, <2>3, <2>4, <2>5, <2>6, SafetyStays
<1> QED
  BY <1>1, <1>2, <1>3

---------------------------------------------------------------------------
(* The invariant, and what follows from it. *)

(* Nothing is linked, bound or fenced at first. *)
LEMMA RInitInv == RInit => RInv
<1> SUFFICES ASSUME RInit PROVE RInv
  OBVIOUS
<1> USE DEF RInit, Init
<1>1. RTypeOK /\ RetryLeft
  BY LeaseAssumption DEF RTypeOK, RetryLeft, Step, Goal
<1>2. BoundInv /\ MovedInv /\ RetainedIsTerminal /\ AdmissionInv
  BY DEF BoundInv, MovedInv, RetainedIsTerminal, AdmissionInv, Fenced
<1>3. OwnerInv
  BY LeaseAssumption DEF OwnerInv, FreshSteps
<1>4. HolderInv
  BY LeaseAssumption DEF HolderInv, ActiveHasHolder, IsActive, IsHighest, SameNamespace
<1>5. RetireInv
  BY LeaseAssumption DEF RetireInv, RetireSteps
<1>6. PairInv /\ MoveInv
  BY LeaseAssumption DEF PairInv, MoveInv
<1> QED
  BY <1>1, <1>2, <1>3, <1>4, <1>5, <1>6 DEF RInv

(* Every step of a session keeps the invariant. *)
LEMMA RStepInv ==
  ASSUME RInv, NEW w \in Writer, RStep(w)
  PROVE  RInv'
<1>1. Types /\ Bindings
  BY TypeParts, BindingsHold DEF RInv, Types
<1>2. Facts(w)
  BY <1>1, FactsHold
<1>3. Types'
  BY <1>1, <1>2, SessionTypesNext, FileTypesNext, RetirementTypesNext DEF Types, Facts
<1>4. RTypeOK' /\ RetryLeft'
  BY <1>3 DEF Types, FileTypes, SessionTypes, RetirementTypes, RTypeOK, AllSteps
<1>5. BoundInv' /\ OwnerInv' /\ HolderInv' /\ RetireInv' /\ AdmissionInv'
  BY <1>1, <1>2, <1>3, BoundNext, OwnerNext, HolderNext, RetireNext, AdmissionNext
  DEF RInv, Types
<1>6. PairInv' /\ MoveInv' /\ MovedInv' /\ RetainedIsTerminal'
  BY <1>1, <1>2, PairNext, MoveNext, MovedNext, RetainedNext DEF RInv
<1> QED
  BY <1>4, <1>5, <1>6 DEF RInv

(* A step that changes nothing keeps it, too. *)
LEMMA RStutterInv ==
  ASSUME RInv, UNCHANGED rvars
  PROVE  RInv'
<1> USE DEF rvars, vars
<1>1. (RTypeOK /\ RetryLeft /\ BoundInv /\ MovedInv /\ RetainedIsTerminal)'
  BY DEF RInv, RTypeOK, RetryLeft, BoundInv, MovedInv, RetainedIsTerminal
<1>2. (OwnerInv /\ HolderInv)'
  BY DEF RInv, OwnerInv, HolderInv, ActiveHasHolder, IsActive, IsHighest, Terminated,
     OwnGeneration, SameNamespace, Over
<1>3. (RetireInv /\ AdmissionInv)'
  BY DEF RInv, RetireInv, AdmissionInv, Carries, OwnGeneration, Fenced, Admitted
<1>4. (PairInv /\ MoveInv)'
  BY DEF RInv, PairInv, MoveInv, Carries, OwnGeneration, Fenced, SameNamespace, Over,
     Deleting, IsNext, IsActive, IsHighest, Terminated
<1> QED
  BY <1>1, <1>2, <1>3, <1>4 DEF RInv

(* The invariant is inductive. *)
LEMMA RInductive == RInv /\ [RNext]_rvars => RInv'
<1> SUFFICES ASSUME RInv, [RNext]_rvars PROVE RInv'
  OBVIOUS
<1>1. CASE RNext
  <2>1. PICK w \in Writer : RStep(w)
    BY <1>1 DEF RNext, RStep
  <2> QED
    BY <2>1, RStepInv
<1>2. CASE UNCHANGED rvars
  BY <1>2, RStutterInv
<1> QED
  BY <1>1, <1>2

(* It holds of every behaviour of the retirement. *)
LEMMA RInvariant == RSpec => []RInv
BY RInitInv, RInductive, PTL DEF RSpec

(* The files of the ledger, the sessions' own state and what retirement    *)
(* adds to them stay within their types, whichever directory a session     *)
(* finds at the path.                                                      *)
THEOREM RetirementTypeCorrect == RSpec => []RTypeOK
<1>1. RInv => RTypeOK
  BY DEF RInv
<1> QED
  BY <1>1, RInvariant, PTL

(* Behind a fence nobody holds the lease but the retiring session, the     *)
(* sessions that passed the check of the fence before it came, and a       *)
(* resume with the receipt; and a ledger in the proof parent has the owner *)
(* and the terminal of the retired generation (acquireNative,              *)
(* retireOwnedNamespace, recoverWorkspaceWriteLeaseRetirement).            *)
THEOREM FenceEndsLedger == RSpec => []FenceHolds
<1>1. RInv => FenceHolds
  <2>1. \A w \in Writer : HoldsOrRetires(w) => Admitted(w)
    BY DEF HoldsOrRetires, Holds, Admitted, Step, ScanSteps, RetireSteps, ReadingSteps,
       LinkedSteps, EndSteps
  <2> QED
    BY <2>1 DEF RInv, AdmissionInv, FenceHolds, NoSuccessorBehindFence
<1> QED
  BY <1>1, RInvariant, PTL

(* Neither the retirement nor a recovery takes the ledger from under a     *)
(* holder that it did not let in: relocateRetainedNoFollowDirectory is     *)
(* reached only with the pair complete and after the holders were seen     *)
(* gone, and nothing in between gives the lease to a newcomer.             *)
THEOREM NoActiveLedgerMoves == RSpec => MovesNoActiveLedger
<1>1. ASSUME RInv, RNext
      PROVE  \A g \in Generation :
               root # 0 /\ root' = 0 /\ IsActive(g)
                 => owner[g] \in early \/ Carries(owner[g])
  <2>1. PICK w \in Writer : RStep(w)
    BY <1>1 DEF RNext, RStep
  <2>2. Types /\ Facts(w)
    BY <1>1, <2>1, TypeParts, FactsHold DEF RInv, Types
  <2>3. root # 0 /\ root' = 0 => MovesLedger(w)
    BY <2>2 DEF Facts, FileKinds, Still, MakesRoot, MakeRoot, AddsHolder, DropsHolder,
       LinksOwner, DeletesOwner, LinksTerminal, DeletesTerminal, Types, RetirementTypes
  <2>4. MovesLedger(w) =>
          \A g \in Generation : IsActive(g) => owner[g] \in early \/ Carries(owner[g])
    BY <1>1 DEF RInv, MoveInv, MovesLedger
  <2> QED
    BY <2>3, <2>4
<1>2. RInv /\ [RNext]_rvars =>
        [\A g \in Generation :
           root # 0 /\ root' = 0 /\ IsActive(g)
             => owner[g] \in early \/ Carries(owner[g])]_rvars
  BY <1>1
<1> QED
  BY <1>2, RInvariant, PTL DEF RSpec, MovesNoActiveLedger
=============================================================================
