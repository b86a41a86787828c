------------------------ MODULE WorkspaceWriteLease ------------------------
(***************************************************************************)
(* The workspace write lease: the on-disk generation ledger through which  *)
(* independent processes agree on a single writer of a workspace.          *)
(*                                                                         *)
(* The ledger is the directory .sec/workspace-write-lease.  Generation g   *)
(* is claimed by hard-linking a prepared holder's owner.json to            *)
(* <g>.owner.json without replacing, and ended by linking                  *)
(* <g>.terminal.json.  Each action is one filesystem step (or one scan) of *)
(* one session, and sessions interleave between any two of them.           *)
(*                                                                         *)
(* A Writer is one acquisition session: one call of acquire and what is    *)
(* done with the handle it returns.  Its lease id is fresh, so the writer  *)
(* itself stands for the token.  The process may stop at any step; the     *)
(* ledger survives.  The retirement fence is the subject of LeaseRetirement*)
(***************************************************************************)
EXTENDS Naturals

CONSTANTS
  Writer,          \* acquisition sessions
  NoWriter,        \* "the file does not exist"
  MaxGeneration,   \* Number.MAX_SAFE_INTEGER in the code
  MaxAttempts,     \* 8 in the code
  RetiresHistory,  \* process.platform is linux or win32
  Faults           \* processes may stop and filesystem calls may fail

ASSUME LeaseAssumption ==
  /\ NoWriter \notin Writer
  /\ MaxGeneration \in Nat
  /\ MaxAttempts \in Nat \ {0}
  /\ RetiresHistory \in BOOLEAN
  /\ Faults \in BOOLEAN

Generation == 1..MaxGeneration

VARIABLES
  owner,     \* [Generation -> who <g>.owner.json names]
  terminal,  \* [Generation -> who <g>.terminal.json names]
  holders,   \* holders/<g>-<leaseId> directories, as <<g, writer>>
  pc,        \* the step each session takes next
  view,      \* the highest generation its last inventory showed
  attempts,  \* acquisition attempts made
  goal,      \* what the current ownership proof, or terminal, is for
  todo       \* predecessors its history retirement still has to visit

ledger == <<owner, terminal, holders>>
session == <<pc, view, attempts, goal, todo>>
vars == <<owner, terminal, holders, pc, view, attempts, goal, todo>>

ReadingSteps == {"ensureRoot", "inventory", "residue", "residueHolder",
                 "state", "stale", "staleState"}
LinkedSteps == {"assertFirst", "assertFinal", "held", "write", "history",
                "retire", "retireOwner", "terminal"}
EndSteps == {"released", "failed", "crashed"}
Step == {"idle"} \cup ReadingSteps \cup {"prepare", "link"} \cup LinkedSteps
        \cup {"removeHolder", "readback"} \cup EndSteps
Goal == {"acquire", "write", "release", "history", "abandon"}

TypeOK ==
  /\ owner \in [Generation -> Writer \cup {NoWriter}]
  /\ terminal \in [Generation -> Writer \cup {NoWriter}]
  /\ holders \subseteq Generation \X Writer
  /\ pc \in [Writer -> Step]
  /\ view \in [Writer -> 0..MaxGeneration]
  /\ attempts \in [Writer -> 0..MaxAttempts]
  /\ goal \in [Writer -> Goal]
  /\ todo \in [Writer -> SUBSET Generation]

\* The ledger before any session: no owner, no terminal, no holder.
Init ==
  /\ owner = [g \in Generation |-> NoWriter]
  /\ terminal = [g \in Generation |-> NoWriter]
  /\ holders = {}
  /\ pc = [w \in Writer |-> "idle"]
  /\ view = [w \in Writer |-> 0]
  /\ attempts = [w \in Writer |-> 0]
  /\ goal = [w \in Writer |-> "acquire"]
  /\ todo = [w \in Writer |-> {}]

---------------------------------------------------------------------------
(* Observations of the ledger. *)

\* readInventory: h is the highest generation with an owner, 0 for none.
IsHighest(h) ==
  /\ h \in 0..MaxGeneration
  /\ h # 0 => owner[h] # NoWriter
  /\ \A g \in Generation : owner[g] # NoWriter => g <= h

Terminated(g) == terminal[g] # NoWriter

\* The generation a session prepares, links and, once it is linked, owns.
OwnGeneration(w) == view[w] + 1

\* Mutant: ownership does not ask for the highest generation.
IsActiveAnyGeneration(g) ==
  g \in Generation /\ owner[g] # NoWriter /\ ~Terminated(g)

\* Both inventories of assertOwnedNative ask for this.
IsActive(g) == IsHighest(g) /\ ~Terminated(g)

\* Mutant: any other holder directory counts as a conflict.
OwnershipProvenSoleHolder(w) ==
  LET g == OwnGeneration(w) IN
  IsActive(g) /\ owner[g] = w /\ holders = {<<g, w>>}

\* assertOwnedNative up to its second inventory: active, this token's owner
\* file, a link count of two and a bound heartbeat (the holder is there).
OwnershipProven(w) ==
  LET g == OwnGeneration(w) IN
  IsActive(g) /\ owner[g] = w /\ <<g, w>> \in holders

Goto(w, from, to) == pc[w] = from /\ pc' = [pc EXCEPT ![w] = to]

---------------------------------------------------------------------------
(* acquireNative: the bounded attempts to claim the next generation. *)

\* The caller's acquire: the workspace is identified and no retirement fence
\* is there.
Start(w) ==
  /\ Goto(w, "idle", "ensureRoot")
  /\ UNCHANGED <<ledger, view, attempts, goal, todo>>

\* ensureRoot: the protocol directory and its marker exist afterwards.
EnsureRoot(w) ==
  /\ Goto(w, "ensureRoot", "inventory")
  /\ UNCHANGED <<ledger, view, attempts, goal, todo>>

\* readInventory at the head of an attempt.
ReadInventory(w) ==
  /\ pc[w] = "inventory"
  /\ \E h \in 0..MaxGeneration :
       /\ IsHighest(h)
       /\ view' = [view EXCEPT ![w] = h]
       /\ pc' = [pc EXCEPT ![w] = IF h = 0 THEN "prepare"
                                  ELSE IF Terminated(h) THEN "residue"
                                  ELSE "state"]
  /\ attempts' = [attempts EXCEPT ![w] = @ + 1]
  /\ UNCHANGED <<ledger, goal, todo>>

\* Mutant: the attempt loop is not bounded.
ContinueUnbounded(w, from) == Goto(w, from, "inventory")

\* "continue" in the attempt loop: the ninth attempt is the failure 001.
Continue(w, from) ==
  Goto(w, from, IF attempts[w] < MaxAttempts THEN "inventory" ELSE "failed")

\* reclaimTerminalHolderResidue, its inventory: a changed highest generation
\* is reported as a live holder (001).
ResidueInventory(w) ==
  /\ Goto(w, "residue", IF IsHighest(view[w]) /\ Terminated(view[w])
                        THEN "residueHolder" ELSE "failed")
  /\ UNCHANGED <<ledger, view, attempts, goal, todo>>

\* reclaimTerminalHolderResidue, its state and holder: residue of the
\* terminated owner is refused, fresh (001) or stale (003), never reclaimed.
ResidueHolder(w) ==
  LET g == view[w] IN
  /\ Goto(w, "residueHolder",
          IF Terminated(g) /\ <<g, owner[g]>> \notin holders
          THEN "state" ELSE "failed")
  /\ UNCHANGED <<ledger, view, attempts, goal, todo>>

\* readGenerationState of the highest generation of the inventory: a missing
\* owner throws, a terminal opens the next generation.
ReadHighestState(w) ==
  LET g == view[w] IN
  /\ Goto(w, "state", IF owner[g] = NoWriter THEN "failed"
                      ELSE IF Terminated(g) THEN "prepare" ELSE "stale")
  /\ UNCHANGED <<ledger, view, attempts, goal, todo>>

\* terminalizeStaleGeneration, its inventory.
StaleInventory(w) ==
  /\ pc[w] = "stale"
  /\ IF IsActive(view[w]) THEN Goto(w, "stale", "staleState")
                          ELSE Continue(w, "stale")
  /\ UNCHANGED <<ledger, view, attempts, goal, todo>>

\* Mutant: a stale generation is taken over.
StaleStateTakesOver(w) ==
  /\ Goto(w, "staleState", "prepare")
  /\ UNCHANGED <<ledger, view, attempts, goal, todo>>

\* Mutant: the session waits for the owner to end.
StaleStateWaits(w) ==
  /\ pc[w] = "staleState"
  /\ Terminated(view[w])
  /\ Continue(w, "staleState")
  /\ UNCHANGED <<ledger, view, attempts, goal, todo>>

\* terminalizeStaleGeneration, state and heartbeat: a terminal that appeared
\* meanwhile is a retry; an owner is refused, fresh (001) or stale (003).
StaleState(w) ==
  /\ pc[w] = "staleState"
  /\ IF Terminated(view[w]) THEN Continue(w, "staleState")
                            ELSE Goto(w, "staleState", "failed")
  /\ UNCHANGED <<ledger, view, attempts, goal, todo>>

\* prepareLease: the holder directory of the next generation, unless the
\* generation space is exhausted.
PrepareLease(w) ==
  LET g == OwnGeneration(w) IN
  /\ IF g \in Generation
       THEN /\ Goto(w, "prepare", "link")
            /\ holders' = holders \cup {<<g, w>>}
       ELSE /\ Goto(w, "prepare", "failed")
            /\ UNCHANGED holders
  /\ UNCHANGED <<owner, terminal, view, attempts, goal, todo>>

\* Mutant: the owner link replaces an existing owner.
LinkOwnerReplaces(w) ==
  /\ Goto(w, "link", "assertFirst")
  /\ owner' = [owner EXCEPT ![OwnGeneration(w)] = w]
  /\ goal' = [goal EXCEPT ![w] = "acquire"]
  /\ UNCHANGED <<terminal, holders, view, attempts, todo>>

\* linkImmutableCandidateNoReplace of the owner: claimed and proven next.
LinkOwner(w) ==
  LET g == OwnGeneration(w) IN
  /\ Goto(w, "link", "assertFirst")
  /\ owner[g] = NoWriter
  /\ owner' = [owner EXCEPT ![g] = w]
  /\ goal' = [goal EXCEPT ![w] = "acquire"]
  /\ UNCHANGED <<terminal, holders, view, attempts, todo>>

\* target-exists: another session has the generation; drop the holder, retry.
OwnerExists(w) ==
  LET g == OwnGeneration(w) IN
  /\ Continue(w, "link")
  /\ owner[g] # NoWriter
  /\ holders' = holders \ {<<g, w>>}
  /\ UNCHANGED <<owner, terminal, view, attempts, goal, todo>>

---------------------------------------------------------------------------
(* assertOwnedNative, for the acquisition's own check, before an effect of  *)
(* the holder (the commit fence), and before a release.                    *)

\* Where an error takes a session: withLease still releases the handle after
\* an effect or a history pass threw; any other error ends the session.
Thrown(w) == IF goal[w] \in {"write", "history"} THEN "held" ELSE "failed"

\* A failed proof throws; the acquisition publishes its terminal first.
OwnershipLost(w) ==
  /\ pc' = [pc EXCEPT ![w] = IF goal[w] = "acquire" THEN "terminal"
                             ELSE Thrown(w)]
  /\ goal' = [goal EXCEPT ![w] = IF @ = "acquire" THEN "abandon" ELSE @]

AssertOwnedFirst(w) ==
  /\ pc[w] = "assertFirst"
  /\ IF OwnershipProven(w)
       THEN Goto(w, "assertFirst", "assertFinal") /\ UNCHANGED goal
       ELSE OwnershipLost(w)
  /\ UNCHANGED <<ledger, view, attempts, todo>>

\* The second inventory, and the return to whoever asked.
AssertOwnedFinal(w) ==
  /\ pc[w] = "assertFinal"
  /\ IF IsActive(OwnGeneration(w))
       THEN /\ pc' = [pc EXCEPT ![w] = CASE goal[w] = "acquire" -> "held"
                                         [] goal[w] = "write" -> "write"
                                         [] OTHER -> "history"]
            /\ UNCHANGED goal
       ELSE OwnershipLost(w)
  /\ UNCHANGED <<ledger, view, attempts, todo>>

\* The handle's user: a fenced effect, a history pass
\* (retireWorkspaceWriteLeaseHistory), or the release.
Request(w, g) ==
  /\ Goto(w, "held", "assertFirst")
  /\ goal' = [goal EXCEPT ![w] = g]
  /\ UNCHANGED <<ledger, view, attempts, todo>>

\* The effect behind the commit fence.
Write(w) ==
  /\ Goto(w, "write", "held")
  /\ UNCHANGED <<ledger, view, attempts, goal, todo>>

---------------------------------------------------------------------------
(* retireTerminalHistory and publishTerminal. *)

\* The inventory of retireTerminalHistory: only the active highest generation
\* retires, and only terminated predecessors.
ListHistoryFrom(w, from) ==
  LET g == OwnGeneration(w) IN
  /\ pc[w] = from
  /\ IF RetiresHistory /\ ~IsActive(g)
       THEN Goto(w, from, Thrown(w)) /\ UNCHANGED todo
       ELSE /\ Goto(w, from, "retire")
            /\ todo' = [todo EXCEPT ![w] =
                 {h \in Generation : /\ RetiresHistory
                                     /\ h < g
                                     /\ owner[h] # NoWriter
                                     /\ Terminated(h)}]
  /\ UNCHANGED <<ledger, view, attempts, goal>>

ListHistory(w) == ListHistoryFrom(w, "history")

\* A predecessor whose owner file has one link left and no holder directory.
Retirable(g) == Terminated(g) /\ <<g, owner[g]>> \notin holders

\* ownerGenerations is sorted: the predecessors are visited in order.
IsNext(w, g) == g \in todo[w] /\ \A h \in todo[w] : g <= h

\* Mutant: the owner goes first.
RetireTerminalOwnerFirst(w) ==
  /\ \E g \in todo[w] :
       /\ IsNext(w, g)
       /\ Goto(w, "retire", "retireOwner")
       /\ owner' = [owner EXCEPT ![g] = NoWriter]
  /\ UNCHANGED <<terminal, holders, view, attempts, goal, todo>>

\* The terminal goes first, durably ...
RetireTerminal(w) ==
  /\ \E g \in todo[w] :
       /\ IsNext(w, g)
       /\ IF Retirable(g)
            THEN /\ Goto(w, "retire", "retireOwner")
                 /\ terminal' = [terminal EXCEPT ![g] = NoWriter]
                 /\ UNCHANGED todo
            ELSE /\ pc[w] = "retire"
                 /\ todo' = [todo EXCEPT ![w] = @ \ {g}]
                 /\ UNCHANGED <<pc, terminal>>
  /\ UNCHANGED <<owner, holders, view, attempts, goal>>

\* ... then the owner.
RetireOwner(w) ==
  /\ Goto(w, "retireOwner", "retire")
  /\ \E g \in todo[w] :
       /\ IsNext(w, g)
       /\ owner' = [owner EXCEPT ![g] = NoWriter]
       /\ todo' = [todo EXCEPT ![w] = @ \ {g}]
  /\ UNCHANGED <<terminal, holders, view, attempts, goal>>

\* Mutant: the holder directory goes before the terminal is published.
FinishHistoryDropsHolder(w) ==
  /\ todo[w] = {}
  /\ Goto(w, "retire", IF goal[w] = "release" THEN "terminal" ELSE "held")
  /\ holders' = holders \ {<<OwnGeneration(w), w>>}
  /\ UNCHANGED <<owner, terminal, view, attempts, goal, todo>>

\* The end of the history pass: a release goes on to its terminal.
FinishHistory(w) ==
  /\ todo[w] = {}
  /\ Goto(w, "retire", IF goal[w] = "release" THEN "terminal" ELSE "held")
  /\ UNCHANGED <<ledger, view, attempts, goal, todo>>

\* publishTerminal: link <g>.terminal.json without replacing; one that is
\* there must carry this token.
LinkTerminal(w) ==
  LET g == OwnGeneration(w) IN
  /\ pc[w] = "terminal"
  /\ IF terminal[g] \in {NoWriter, w}
       THEN /\ Goto(w, "terminal", "removeHolder")
            /\ terminal' = [terminal EXCEPT ![g] = w]
       ELSE Goto(w, "terminal", "failed") /\ UNCHANGED terminal
  /\ UNCHANGED <<owner, holders, view, attempts, goal, todo>>

\* Mutant: the release deletes its own generation's files with the holder.
RemoveHolderAndRecords(w) ==
  /\ Goto(w, "removeHolder",
          IF goal[w] = "abandon" THEN "failed" ELSE "readback")
  /\ holders' = holders \ {<<OwnGeneration(w), w>>}
  /\ owner' = [owner EXCEPT ![OwnGeneration(w)] = NoWriter]
  /\ terminal' = [terminal EXCEPT ![OwnGeneration(w)] = NoWriter]
  /\ UNCHANGED <<view, attempts, goal, todo>>

\* publishTerminal, its best-effort removal of the holder directory; an
\* abandoned acquisition ends with its original error.
RemoveHolder(w) ==
  /\ Goto(w, "removeHolder",
          IF goal[w] = "abandon" THEN "failed" ELSE "readback")
  /\ holders' = holders \ {<<OwnGeneration(w), w>>}
  /\ UNCHANGED <<owner, terminal, view, attempts, goal, todo>>

\* releaseNative reads its terminal back.
ReadbackTerminal(w) ==
  /\ Goto(w, "readback", IF terminal[OwnGeneration(w)] = w
                         THEN "released" ELSE "failed")
  /\ UNCHANGED <<ledger, view, attempts, goal, todo>>

---------------------------------------------------------------------------
(* What the filesystem and the operating system may do to a session. *)

\* A read or the creation of the root fails: the acquisition, or the release
\* that reads its terminal back, throws.
ReadFault(w) ==
  /\ pc[w] \in ReadingSteps \cup {"readback"}
  /\ pc' = [pc EXCEPT ![w] = "failed"]
  /\ UNCHANGED <<ledger, view, attempts, goal, todo>>

\* A read of assertOwnedNative fails: nothing is proved.
AssertFault(w) ==
  /\ pc[w] \in {"assertFirst", "assertFinal"}
  /\ OwnershipLost(w)
  /\ UNCHANGED <<ledger, view, attempts, todo>>

\* A read or a deletion of the history pass fails.
HistoryFault(w) ==
  /\ pc[w] \in {"history", "retire", "retireOwner"}
  /\ pc' = [pc EXCEPT ![w] = Thrown(w)]
  /\ UNCHANGED <<ledger, view, attempts, goal, todo>>

\* prepareLease fails and its cleanup may leave the directory behind.
PrepareFault(w) ==
  /\ Goto(w, "prepare", "failed")
  /\ OwnGeneration(w) \in Generation
  /\ holders' \in {holders, holders \cup {<<OwnGeneration(w), w>>}}
  /\ UNCHANGED <<owner, terminal, view, attempts, goal, todo>>

\* link-failed (nothing there, the holder is dropped if it can be), or
\* durability-unknown (linked, nothing cleaned up): both end with 004.
LinkFault(w) ==
  LET g == OwnGeneration(w) IN
  /\ Goto(w, "link", "failed")
  /\ \/ UNCHANGED owner /\ holders' \in {holders, holders \ {<<g, w>>}}
     \/ /\ owner[g] = NoWriter
        /\ owner' = [owner EXCEPT ![g] = w]
        /\ UNCHANGED holders
  /\ UNCHANGED <<terminal, view, attempts, goal, todo>>

\* publishTerminal throws, before its link or after it.
TerminalFault(w) ==
  LET g == OwnGeneration(w) IN
  /\ Goto(w, "terminal", "failed")
  /\ terminal' \in {terminal, [terminal EXCEPT ![g] = IF @ = NoWriter THEN w ELSE @]}
  /\ UNCHANGED <<owner, holders, view, attempts, goal, todo>>

\* The removal of a holder directory fails and is ignored.
RemoveFault(w) ==
  /\ \/ /\ Continue(w, "link")
        /\ owner[OwnGeneration(w)] # NoWriter
     \/ Goto(w, "removeHolder",
             IF goal[w] = "abandon" THEN "failed" ELSE "readback")
  /\ UNCHANGED <<ledger, view, attempts, goal, todo>>

\* The process stops.
Crash(w) ==
  /\ pc[w] \notin {"idle"} \cup EndSteps
  /\ pc' = [pc EXCEPT ![w] = "crashed"]
  /\ UNCHANGED <<ledger, view, attempts, goal, todo>>

---------------------------------------------------------------------------

Acquire(w) ==
  \/ EnsureRoot(w) \/ ReadInventory(w)
  \/ ResidueInventory(w) \/ ResidueHolder(w) \/ ReadHighestState(w)
  \/ StaleInventory(w) \/ StaleState(w)
  \/ PrepareLease(w) \/ LinkOwner(w) \/ OwnerExists(w)
Proceed(w) ==
  \/ AssertOwnedFirst(w) \/ AssertOwnedFinal(w) \/ Write(w)
  \/ ListHistory(w) \/ RetireTerminal(w) \/ RetireOwner(w) \/ FinishHistory(w)
  \/ LinkTerminal(w) \/ RemoveHolder(w) \/ ReadbackTerminal(w)
Fault(w) ==
  /\ Faults
  /\ \/ ReadFault(w) \/ AssertFault(w) \/ HistoryFault(w) \/ PrepareFault(w)
     \/ LinkFault(w) \/ TerminalFault(w) \/ RemoveFault(w) \/ Crash(w)

Next ==
  \E w \in Writer :
    \/ Start(w)
    \/ Acquire(w)
    \/ \E g \in {"write", "history", "release"} : Request(w, g)
    \/ Proceed(w)
    \/ Fault(w)

Spec == Init /\ [][Next]_vars

\* A session that is running goes on until it settles, and a holder
\* eventually asks for its release (withLease releases in every outcome).
Fairness ==
  \A w \in Writer : /\ WF_vars(Acquire(w))
                    /\ WF_vars(Proceed(w))
                    /\ SF_vars(Request(w, "release"))

FairSpec == Spec /\ Fairness

---------------------------------------------------------------------------
(* Properties. *)

\* The sessions that have the handle and have not begun to end their
\* generation.
Holds(w) ==
  \/ pc[w] \in {"held", "write", "history", "retire", "retireOwner"}
  \/ pc[w] \in {"assertFirst", "assertFinal"} /\ goal[w] # "acquire"
  \/ pc[w] = "terminal" /\ goal[w] = "release"

\* At most one session holds the lease, whatever the interleaving, the crashes
\* and the I/O failures: acquireNative hands out a handle only while no other
\* session has one.
MutualExclusion ==
  \A v, w \in Writer : Holds(v) /\ Holds(w) => v = w

\* The commit fence does not go stale: what assertOwned proved before an
\* effect still holds when the effect happens, and as long as the session
\* holds the handle, so no session can take the generation from under it.
HolderOwnsLedger == \A w \in Writer : Holds(w) => OwnershipProven(w)

\* readInventory refuses a ledger with an ownerless terminal, for every
\* session and for good; the order of deletion in retireTerminalHistory keeps
\* such a ledger from ever being on disk, even between its two deletions.
LedgerConsistent ==
  \A g \in Generation : Terminated(g) => owner[g] = terminal[g]

\* The generation that blocks every other session always has its holder
\* directory, without which terminalizeStaleGeneration could not classify it.
ActiveHasHolder ==
  \A g \in Generation : IsActive(g) => <<g, owner[g]>> \in holders

\* No crash or interleaving leaves a ledger that no session can read or
\* classify any more.
LedgerIsSound == LedgerConsistent /\ ActiveHasHolder

\* The high-water generation never goes down, although history is deleted:
\* a late session can never mistake an old generation for the next one.
HighWaterMonotone ==
  [][\A g \in Generation : owner[g] # NoWriter =>
       \E h \in Generation : h >= g /\ owner'[h] # NoWriter]_vars

\* Only its own session ends an active generation, by publishing its
\* terminal; a stopped or slow owner is never taken over
\* (terminalizeStaleGeneration refuses even a stale heartbeat).
NoTakeover ==
  [][\A g \in Generation : IsActive(g) /\ ~IsActive(g)' =>
       /\ terminal'[g] = owner[g]
       /\ pc[owner[g]] = "terminal"]_vars

\* Sessions have started, and none of them has got the lease and released it.
AcquisitionIsPending ==
  (\E w \in Writer : pc[w] # "idle") /\ \A w \in Writer : pc[w] # "released"

\* The writer the ledger names as the one with authority to write.
Authority ==
  IF \E g \in Generation : IsActive(g)
    THEN owner[CHOOSE g \in Generation : IsActive(g)]
    ELSE NoWriter

Effecting == {w \in Writer : pc[w] = "write"}

EW == INSTANCE ExclusiveWriter
        WITH authority <- Authority, effecting <- Effecting

\* The ledger implements an exclusive writer.  The claim takes effect at the
\* hard link of <g>.owner.json and ends at the link of <g>.terminal.json.
ImplementsExclusiveWriter == EW!Spec
=============================================================================
