--------------------- MODULE WorkspaceWriteLeaseProofs ---------------------
(***************************************************************************)
(* Proofs that the generation ledger of WorkspaceWriteLease is an          *)
(* exclusive lease for any number of sessions, generations and attempts.   *)
(***************************************************************************)
EXTENDS WorkspaceWriteLease, TLAPS

USE DEF Generation, ledger

(* A session about to read the inventory has an attempt left; without it   *)
(* the bound on attempts would not be inductive.                           *)
AttemptsLeft ==
  \A w \in Writer : pc[w] \in {"idle", "ensureRoot", "inventory"}
                    => attempts[w] < MaxAttempts

Typed == TypeOK /\ AttemptsLeft

(* Every session and every file starts in its type. *)
LEMMA TypeInit == Init => Typed
BY LeaseAssumption DEF Init, Typed, AttemptsLeft, TypeOK, Step, Goal

(* A session that moves on to a step other than the head of an attempt     *)
(* stays within its types, whatever the step.                              *)
LEMMA MoveTyped ==
  ASSUME Typed, NEW w \in Writer, NEW s \in Step,
         s \notin {"idle", "ensureRoot", "inventory"},
         pc' = [pc EXCEPT ![w] = s], attempts' = attempts
  PROVE  pc' \in [Writer -> Step] /\ AttemptsLeft'
BY DEF Typed, TypeOK, AttemptsLeft

(* No step of a session leaves the types. *)
LEMMA TypeNext == Typed /\ [Next]_vars => Typed'
<1> SUFFICES ASSUME Typed, [Next]_vars PROVE Typed'
  OBVIOUS
<1> USE LeaseAssumption DEF Typed, AttemptsLeft, TypeOK, Step, Goal, ReadingSteps, LinkedSteps,
        EndSteps, Goto, OwnGeneration
<1>1. CASE UNCHANGED vars
  BY <1>1 DEF vars
<1>2. ASSUME NEW w \in Writer, Start(w) PROVE Typed'
  BY <1>2 DEF Start
<1>3. ASSUME NEW w \in Writer, Acquire(w) PROVE Typed'
  <2>1. CASE EnsureRoot(w)
    BY <2>1 DEF EnsureRoot
  <2>2. CASE ReadInventory(w)
    BY <2>2 DEF ReadInventory
  <2>3. CASE ResidueInventory(w)
    BY <2>3 DEF ResidueInventory
  <2>4. CASE ResidueHolder(w)
    BY <2>4 DEF ResidueHolder
  <2>5. CASE ReadHighestState(w)
    BY <2>5 DEF ReadHighestState
  <2>6. CASE StaleInventory(w)
    BY <2>6 DEF StaleInventory, Continue
  <2>7. CASE StaleState(w)
    BY <2>7 DEF StaleState, Continue
  <2>8. CASE PrepareLease(w)
    <3>1. holders' \subseteq Generation \X Writer
      BY <2>8 DEF PrepareLease
    <3>2. pc' \in [Writer -> Step] /\ AttemptsLeft'
      BY <2>8 DEF PrepareLease
    <3> QED
      BY <2>8, <3>1, <3>2 DEF PrepareLease
  <2>9. CASE LinkOwner(w)
    BY <2>9 DEF LinkOwner
  <2>10. CASE OwnerExists(w)
    BY <2>10 DEF OwnerExists, Continue
  <2> QED
    BY <1>3, <2>1, <2>2, <2>3, <2>4, <2>5, <2>6, <2>7, <2>8, <2>9, <2>10
       DEF Acquire
<1>4. ASSUME NEW w \in Writer, NEW g \in {"write", "history", "release"},
             Request(w, g)
      PROVE  Typed'
  BY <1>4 DEF Request
<1>5. ASSUME NEW w \in Writer, Proceed(w) PROVE Typed'
  <2>1. CASE AssertOwnedFirst(w)
    <3>1. PICK s \in {"assertFinal", "terminal", "held", "failed"} :
            pc' = [pc EXCEPT ![w] = s]
      BY <2>1 DEF AssertOwnedFirst, OwnershipLost, Thrown
    <3>2. PICK d \in Goal : goal' = goal \/ goal' = [goal EXCEPT ![w] = d]
      BY <2>1 DEF AssertOwnedFirst, OwnershipLost
    <3>3. UNCHANGED <<owner, terminal, holders, view, attempts, todo>>
      BY <2>1 DEF AssertOwnedFirst
    <3>4. pc' \in [Writer -> Step] /\ AttemptsLeft'
      BY <3>1, <3>3, MoveTyped
    <3>5. goal' \in [Writer -> Goal]
      BY <3>2
    <3> QED
      BY <3>3, <3>4, <3>5
  <2>2. CASE AssertOwnedFinal(w)
    <3>1. PICK s \in {"write", "history", "terminal", "held", "failed"} :
            pc' = [pc EXCEPT ![w] = s]
      BY <2>2 DEF AssertOwnedFinal, OwnershipLost, Thrown
    <3>2. PICK d \in Goal : goal' = goal \/ goal' = [goal EXCEPT ![w] = d]
      BY <2>2 DEF AssertOwnedFinal, OwnershipLost
    <3>3. UNCHANGED <<owner, terminal, holders, view, attempts, todo>>
      BY <2>2 DEF AssertOwnedFinal
    <3>4. pc' \in [Writer -> Step] /\ AttemptsLeft'
      BY <3>1, <3>3, MoveTyped
    <3>5. goal' \in [Writer -> Goal]
      BY <3>2
    <3> QED
      BY <3>3, <3>4, <3>5
  <2>3. CASE Write(w)
    BY <2>3 DEF Write
  <2>4. CASE ListHistory(w)
    <3>1. todo' \in [Writer -> SUBSET Generation]
      <4>1. PICK H \in SUBSET Generation :
              todo' = todo \/ todo' = [todo EXCEPT ![w] = H]
        BY <2>4 DEF ListHistory, ListHistoryFrom
      <4> QED
        BY <4>1
    <3>2. pc' \in [Writer -> Step] /\ AttemptsLeft'
      <4>1. PICK s \in {"retire", "held", "failed"} :
              pc' = [pc EXCEPT ![w] = s]
        BY <2>4 DEF ListHistory, ListHistoryFrom, Thrown
      <4> QED
        BY <2>4, <4>1, MoveTyped DEF ListHistory, ListHistoryFrom
    <3> QED
      BY <2>4, <3>1, <3>2 DEF ListHistory, ListHistoryFrom
  <2>5. CASE RetireTerminal(w)
    <3>1. /\ terminal' \in [Generation -> Writer \cup {NoWriter}]
          /\ todo' \in [Writer -> SUBSET Generation]
      <4>1. PICK g \in Generation :
              /\ \/ terminal' = terminal
                 \/ terminal' = [terminal EXCEPT ![g] = NoWriter]
              /\ \/ todo' = todo
                 \/ todo' = [todo EXCEPT ![w] = @ \ {g}]
        BY <2>5 DEF RetireTerminal
      <4>2. terminal' \in [Generation -> Writer \cup {NoWriter}]
        BY <4>1
      <4>3. todo' \in [Writer -> SUBSET Generation]
        <5>1. PICK H \in SUBSET Generation : H = todo[w] \ {g}
          OBVIOUS
        <5> QED
          BY <4>1, <5>1
      <4> QED
        BY <4>2, <4>3
    <3>2. pc' \in [Writer -> Step] /\ AttemptsLeft'
      BY <2>5 DEF RetireTerminal
    <3> QED
      BY <2>5, <3>1, <3>2 DEF RetireTerminal
  <2>6. CASE RetireOwner(w)
    BY <2>6 DEF RetireOwner
  <2>7. CASE FinishHistory(w)
    BY <2>7 DEF FinishHistory
  <2>8. CASE LinkTerminal(w)
    <3>1. terminal' \in [Generation -> Writer \cup {NoWriter}]
      <4>1. \/ terminal' = terminal
            \/ terminal' = [terminal EXCEPT ![view[w] + 1] = w]
        BY <2>8 DEF LinkTerminal
      <4> QED
        BY <4>1
    <3>2. pc' \in [Writer -> Step] /\ AttemptsLeft'
      <4>1. PICK s \in {"removeHolder", "failed"} :
              pc' = [pc EXCEPT ![w] = s]
        BY <2>8 DEF LinkTerminal
      <4> QED
        BY <2>8, <4>1, MoveTyped DEF LinkTerminal
    <3> QED
      BY <2>8, <3>1, <3>2 DEF LinkTerminal
  <2>9. CASE RemoveHolder(w)
    BY <2>9 DEF RemoveHolder
  <2>10. CASE ReadbackTerminal(w)
    BY <2>10 DEF ReadbackTerminal
  <2> QED
    BY <1>5, <2>1, <2>2, <2>3, <2>4, <2>5, <2>6, <2>7, <2>8, <2>9, <2>10
       DEF Proceed
<1>6. ASSUME NEW w \in Writer, Fault(w) PROVE Typed'
  <2>1. CASE ReadFault(w)
    BY <2>1 DEF ReadFault
  <2>7. CASE HistoryFault(w)
    BY <2>7 DEF HistoryFault, Thrown
  <2>8. CASE AssertFault(w)
    <3>1. PICK s \in {"terminal", "held", "failed"} : pc' = [pc EXCEPT ![w] = s]
      BY <2>8 DEF AssertFault, OwnershipLost, Thrown
    <3>2. PICK d \in Goal : goal' = goal \/ goal' = [goal EXCEPT ![w] = d]
      BY <2>8 DEF AssertFault, OwnershipLost
    <3>3. UNCHANGED <<owner, terminal, holders, view, attempts, todo>>
      BY <2>8 DEF AssertFault
    <3>4. pc' \in [Writer -> Step] /\ AttemptsLeft'
      BY <3>1, <3>3, MoveTyped
    <3>5. goal' \in [Writer -> Goal]
      BY <3>2
    <3> QED
      BY <3>3, <3>4, <3>5
  <2>2. CASE PrepareFault(w)
    BY <2>2 DEF PrepareFault
  <2>3. CASE LinkFault(w)
    <3>1. /\ owner' = owner \/ owner' = [owner EXCEPT ![view[w] + 1] = w]
          /\ holders' \subseteq holders
      BY <2>3 DEF LinkFault
    <3>2. pc' \in [Writer -> Step] /\ AttemptsLeft'
      BY <2>3, MoveTyped DEF LinkFault
    <3>3. owner' \in [Generation -> Writer \cup {NoWriter}]
      BY <3>1
    <3> QED
      BY <2>3, <3>1, <3>2, <3>3 DEF LinkFault
  <2>4. CASE TerminalFault(w)
    <3>1. PICK n \in Writer \cup {NoWriter} :
            \/ terminal' = terminal
            \/ terminal' = [terminal EXCEPT ![view[w] + 1] = n]
      BY <2>4 DEF TerminalFault
    <3>2. pc' \in [Writer -> Step] /\ AttemptsLeft'
      BY <2>4, MoveTyped DEF TerminalFault
    <3>3. terminal' \in [Generation -> Writer \cup {NoWriter}]
      BY <3>1
    <3> QED
      BY <2>4, <3>2, <3>3 DEF TerminalFault
  <2>5. CASE RemoveFault(w)
    BY <2>5 DEF RemoveFault, Continue
  <2>6. CASE Crash(w)
    BY <2>6 DEF Crash
  <2> QED
    BY <1>6, <2>1, <2>2, <2>3, <2>4, <2>5, <2>6, <2>7, <2>8 DEF Fault
<1> QED
  BY <1>1, <1>2, <1>3, <1>4, <1>5, <1>6 DEF Next

(* The type invariant: of the ledger files and of each session's step.     *)
THEOREM TypeInvariant == Spec => []TypeOK
BY TypeInit, TypeNext, PTL DEF Spec, Typed

---------------------------------------------------------------------------
(* The inductive invariant.  It says, beyond the properties it proves, why *)
(* a late session cannot disturb the active generation: whatever a session *)
(* saw is at most the high-water mark, and a session that is about to      *)
(* claim saw a generation that was already over.                           *)

\* There is a highest generation, and no session has seen a later one.
HighWater ==
  /\ \E h \in 0..MaxGeneration : IsHighest(h)
  /\ \A w \in Writer, h \in 0..MaxGeneration : IsHighest(h) => view[w] <= h

\* A session that is about to claim has no owner file anywhere, and will not
\* claim beyond an active generation.
Unlinked(w) ==
  pc[w] \in {"idle", "prepare", "link"} \cup ReadingSteps
    => \A g \in Generation : owner[g] # w

Claiming(w) ==
  pc[w] \in {"prepare", "link"}
    => \A h \in Generation : IsActive(h) => view[w] < h

\* The holder directory a session is about to link from.
Prepared(w) ==
  pc[w] = "link" => OwnGeneration(w) \in Generation
                    /\ <<OwnGeneration(w), w>> \in holders

\* From the owner link to the terminal link the generation is the session's.
Linked(w) ==
  pc[w] \in LinkedSteps =>
    LET g == OwnGeneration(w) IN
    /\ g \in Generation
    /\ owner[g] = w
    /\ ~Terminated(g)
    /\ <<g, w>> \in holders

\* The terminal is there before the holder goes.
Removing(w) ==
  pc[w] = "removeHolder" =>
    LET g == OwnGeneration(w) IN
    g \in Generation /\ owner[g] = w /\ terminal[g] = w /\ <<g, w>> \in holders

\* The readback looks at a generation that exists.
Reading(w) == pc[w] = "readback" => OwnGeneration(w) \in Generation

\* History retirement stays below its own generation; between its two
\* deletions the predecessor's owner file is alone.
Retiring(w) ==
  /\ pc[w] \in {"retire", "retireOwner"} =>
       \A h \in todo[w] : h < OwnGeneration(w)
  /\ pc[w] = "retireOwner" =>
       \A g \in todo[w] : IsNext(w, g) =>
         /\ owner[g] # NoWriter
         /\ ~Terminated(g)
         /\ <<g, owner[g]>> \notin holders

SessionInv(w) ==
  /\ Unlinked(w) /\ Claiming(w) /\ Prepared(w) /\ Linked(w)
  /\ Removing(w) /\ Reading(w) /\ Retiring(w)

LedgerInv == HighWater /\ LedgerConsistent /\ ActiveHasHolder

LeaseInv ==
  /\ Typed
  /\ LedgerInv
  /\ \A w \in Writer : SessionInv(w)
  /\ HolderOwnsLedger

---------------------------------------------------------------------------
(* How the ledger may change under the other sessions.  Each lemma is one  *)
(* kind of change made by w and shows what it leaves intact: the ledger's  *)
(* own invariant and everything known about the other sessions.            *)

\* What the invariant says of one session, and of all sessions but w.
OwnInv(w) == SessionInv(w) /\ (Holds(w) => OwnershipProven(w))
OthersInv(w) == \A u \in Writer \ {w} : OwnInv(u)

\* A step of w changes no other session.
Frame(w) ==
  \A u \in Writer \ {w} : /\ pc'[u] = pc[u] /\ view'[u] = view[u]
                          /\ goal'[u] = goal[u] /\ todo'[u] = todo[u]

(* The highest generation is unique. *)
LEMMA HighestUnique ==
  ASSUME TypeOK, NEW a, NEW b, IsHighest(a), IsHighest(b) PROVE a = b
BY LeaseAssumption DEF IsHighest, TypeOK

(* Two sessions that own the highest generation are the same session. *)
LEMMA OneHolder ==
  ASSUME Typed, NEW v \in Writer, NEW w \in Writer,
         OwnershipProven(v), OwnershipProven(w)
  PROVE  v = w
BY HighestUnique DEF OwnershipProven, IsActive, Typed

(* The parts assemble. *)
LEMMA Assemble ==
  ASSUME NEW w \in Writer, Typed', LedgerInv', OthersInv(w)', OwnInv(w)'
  PROVE  LeaseInv'
BY DEF LeaseInv, OthersInv, OwnInv, HolderOwnsLedger

(* And the invariant comes apart into what a step lemma assumes. *)
LEMMA Disassemble ==
  ASSUME LeaseInv
  PROVE  /\ Typed /\ LedgerInv
         /\ \A w \in Writer : OwnInv(w)
BY DEF LeaseInv, OwnInv, HolderOwnsLedger

(* A step that leaves the ledger alone disturbs nobody. *)
LEMMA QuietStep ==
  ASSUME NEW w \in Writer, LeaseInv, Typed', Frame(w), UNCHANGED ledger,
         \A h \in 0..MaxGeneration : IsHighest(h) => view'[w] <= h
  PROVE  LedgerInv' /\ OthersInv(w)'
<1> USE Disassemble, LeaseAssumption DEF Typed, TypeOK
<1>1. \A h : IsHighest(h)' <=> IsHighest(h)
  BY DEF IsHighest
<1>2. \A g : /\ IsActive(g)' <=> IsActive(g)
             /\ Terminated(g)' <=> Terminated(g)
  BY <1>1 DEF IsActive, Terminated
<1>3. LedgerInv'
  <2>1. HighWater'
    BY <1>1 DEF LedgerInv, HighWater, Frame
  <2>2. LedgerConsistent' /\ ActiveHasHolder'
    BY <1>2 DEF LedgerInv, LedgerConsistent, ActiveHasHolder
  <2> QED
    BY <2>1, <2>2 DEF LedgerInv
<1>4. ASSUME NEW u \in Writer \ {w} PROVE OwnInv(u)'
  <2>1. OwnInv(u)
    OBVIOUS
  <2>2. /\ pc'[u] = pc[u] /\ view'[u] = view[u]
        /\ goal'[u] = goal[u] /\ todo'[u] = todo[u]
    BY DEF Frame
  <2>3. OwnGeneration(u)' = OwnGeneration(u)
    BY <2>2 DEF OwnGeneration
  <2>4. Unlinked(u)' /\ Claiming(u)' /\ Prepared(u)' /\ Linked(u)'
        /\ Removing(u)' /\ Reading(u)' /\ Retiring(u)'
    <3>1. Unlinked(u)' /\ Claiming(u)' /\ Prepared(u)' /\ Linked(u)'
      BY <1>2, <2>1, <2>2, <2>3
         DEF OwnInv, SessionInv, Unlinked, Claiming, Prepared, Linked
    <3>2. Removing(u)' /\ Reading(u)' /\ Retiring(u)'
      BY <1>2, <2>1, <2>2, <2>3
         DEF OwnInv, SessionInv, Removing, Reading, Retiring, IsNext
    <3> QED
      BY <3>1, <3>2
  <2>5. Holds(u)' => OwnershipProven(u)'
    BY <1>2, <2>1, <2>2, <2>3 DEF OwnInv, Holds, OwnershipProven
  <2> QED
    BY <2>4, <2>5 DEF OwnInv, SessionInv
<1> QED
  BY <1>3, <1>4 DEF OthersInv

(* Only the holder directories change, and only by one of w's own: its     *)
(* preparation adds one, a lost race or its closed generation removes one. *)
LEMMA HolderStep ==
  ASSUME NEW w \in Writer, LeaseInv, Typed', Frame(w),
         UNCHANGED <<owner, terminal, view>>,
         NEW g \in Generation,
         \/ /\ pc[w] = "prepare"
            /\ holders' = holders \cup {<<g, w>>}
         \/ /\ pc[w] \in {"link", "removeHolder"}
            /\ g = OwnGeneration(w)
            /\ holders' = holders \ {<<g, w>>}
  PROVE  LedgerInv' /\ OthersInv(w)'
<1> USE Disassemble, LeaseAssumption DEF Typed, TypeOK
<1>1. \A h : IsHighest(h)' <=> IsHighest(h)
  BY DEF IsHighest
<1>2. \A h : /\ IsActive(h)' <=> IsActive(h)
             /\ Terminated(h)' <=> Terminated(h)
  BY <1>1 DEF IsActive, Terminated
<1>3. \A h, u : u # w => (<<h, u>> \in holders' <=> <<h, u>> \in holders)
  OBVIOUS
<1>4. \A h \in Generation : <<h, owner[h]>> \notin holders =>
                              <<h, owner[h]>> \notin holders'
  BY DEF OwnInv, SessionInv, Unlinked
<1>5. LedgerInv'
  <2>1. HighWater' /\ LedgerConsistent'
    BY <1>1, <1>2 DEF LedgerInv, HighWater, LedgerConsistent
  <2>2. ASSUME NEW h \in Generation, IsActive(h)
        PROVE  <<h, owner[h]>> \in holders'
    <3>1. <<h, owner[h]>> \in holders
      BY <2>2 DEF LedgerInv, ActiveHasHolder
    <3>2. CASE owner[h] # w \/ h # g
      BY <3>1, <3>2
    <3>3. CASE owner[h] = w /\ h = g
      BY <2>2, <3>1, <3>3
         DEF OwnInv, SessionInv, Unlinked, Removing, IsActive, Terminated
    <3> QED
      BY <3>2, <3>3
  <2> QED
    BY <1>2, <2>1, <2>2 DEF LedgerInv, ActiveHasHolder
<1>6. ASSUME NEW u \in Writer \ {w} PROVE OwnInv(u)'
  <2>1. OwnInv(u)
    OBVIOUS
  <2>2. /\ pc'[u] = pc[u] /\ view'[u] = view[u]
        /\ goal'[u] = goal[u] /\ todo'[u] = todo[u]
    BY DEF Frame
  <2>3. OwnGeneration(u)' = OwnGeneration(u)
    BY <2>2 DEF OwnGeneration
  <2>4. Unlinked(u)' /\ Claiming(u)' /\ Prepared(u)' /\ Linked(u)'
        /\ Removing(u)' /\ Reading(u)'
    BY <1>2, <1>3, <2>1, <2>2, <2>3
       DEF OwnInv, SessionInv, Unlinked, Claiming, Prepared, Linked, Removing,
           Reading
  <2>5. Retiring(u)'
    BY <1>2, <1>4, <2>1, <2>2, <2>3 DEF OwnInv, SessionInv, Retiring, IsNext
  <2>6. Holds(u)' => OwnershipProven(u)'
    BY <1>2, <1>3, <2>1, <2>2, <2>3 DEF OwnInv, Holds, OwnershipProven
  <2> QED
    BY <2>4, <2>5, <2>6 DEF OwnInv, SessionInv
<1> QED
  BY <1>5, <1>6 DEF OthersInv

(* The owner link.  It either opens the generation above a finished        *)
(* high-water mark, or fills a gap that history retirement left below it.  *)
LEMMA OwnerStep ==
  ASSUME NEW w \in Writer, LeaseInv, Typed', Frame(w),
         UNCHANGED <<terminal, holders, view>>,
         pc[w] = "link", owner[OwnGeneration(w)] = NoWriter,
         owner' = [owner EXCEPT ![OwnGeneration(w)] = w]
  PROVE  LedgerInv' /\ OthersInv(w)'
<1> USE Disassemble, LeaseAssumption DEF Typed, TypeOK
<1>0. PICK g \in Generation : g = OwnGeneration(w)
  BY DEF OwnInv, SessionInv, Prepared
<1>1. /\ g = OwnGeneration(w) /\ g = view[w] + 1
      /\ <<g, w>> \in holders
      /\ \A h \in Generation : IsActive(h) => view[w] < h
  BY <1>0 DEF OwnInv, SessionInv, Prepared, Claiming, OwnGeneration
<1>2. PICK top \in 0..MaxGeneration : IsHighest(top)
  BY DEF LedgerInv, HighWater
<1>3. view[w] <= top
  BY <1>2 DEF LedgerInv, HighWater
<1>4. /\ owner'[g] = w
      /\ \A h \in Generation : h # g => owner'[h] = owner[h]
  BY <1>1
<1>5. IsHighest(IF g > top THEN g ELSE top)'
  BY <1>1, <1>2, <1>3, <1>4 DEF IsHighest
<1>6. \A h : IsHighest(h)' => h = IF g > top THEN g ELSE top
  <2>1. TypeOK'
    OBVIOUS
  <2> QED
    BY <1>1, <1>2, <1>3, <1>4, <1>5 DEF IsHighest
<1>7. ~Terminated(g)
  BY <1>1 DEF LedgerInv, LedgerConsistent, Terminated
<1>8. \A h \in Generation : IsActive(h)' /\ h # g => IsActive(h)
  BY <1>1, <1>2, <1>6 DEF IsActive, Terminated, IsHighest
<1>9. \A h \in Generation : IsActive(h) => IsActive(h)'
  <2>1. SUFFICES ASSUME NEW h \in Generation, IsActive(h)
                 PROVE  IsHighest(h)'
    BY DEF IsActive, Terminated
  <2>2. h = top /\ view[w] < top
    BY <1>1, <1>2, <2>1, HighestUnique DEF IsActive
  <2> QED
    BY <1>1, <1>5, <2>2
<1>10. LedgerInv'
  <2>1. HighWater'
    BY <1>1, <1>2, <1>3, <1>5, <1>6 DEF LedgerInv, HighWater
  <2>2. LedgerConsistent'
    BY <1>1, <1>4, <1>7 DEF LedgerInv, LedgerConsistent, Terminated
  <2>3. ActiveHasHolder'
    BY <1>1, <1>4, <1>8 DEF LedgerInv, ActiveHasHolder
  <2> QED
    BY <2>1, <2>2, <2>3 DEF LedgerInv
<1>11. ASSUME NEW u \in Writer \ {w} PROVE OwnInv(u)'
  <2>1. OwnInv(u)
    OBVIOUS
  <2>2. /\ pc'[u] = pc[u] /\ view'[u] = view[u]
        /\ goal'[u] = goal[u] /\ todo'[u] = todo[u]
    BY DEF Frame
  <2>3. OwnGeneration(u)' = OwnGeneration(u)
    BY <2>2 DEF OwnGeneration
  <2>4. \A h \in Generation : owner[h] # NoWriter => owner'[h] = owner[h]
    BY <1>1, <1>4
  <2>5. Claiming(u)'
    <3>1. view[u] <= top
      BY <1>2 DEF LedgerInv, HighWater
    <3>2. g # top
      BY <1>1, <1>2 DEF IsHighest
    <3>3. IsActive(g)' => view[u] < g
      BY <1>6, <3>1, <3>2 DEF IsActive
    <3> QED
      BY <1>8, <2>1, <2>2, <3>3 DEF OwnInv, SessionInv, Claiming
  <2>6. Unlinked(u)' /\ Prepared(u)' /\ Linked(u)' /\ Removing(u)' /\ Reading(u)'
    BY <1>4, <2>1, <2>2, <2>3, <2>4
       DEF OwnInv, SessionInv, Unlinked, Prepared, Linked, Removing, Reading,
           Terminated
  <2>7. Retiring(u)'
    <3>1. \A h : IsNext(u, h)' <=> IsNext(u, h)
      BY <2>2 DEF IsNext
    <3>2. \A h \in todo[u] : h \in Generation
      OBVIOUS
    <3>3. ASSUME pc[u] = "retireOwner", NEW h \in todo[u], IsNext(u, h)
          PROVE  /\ owner'[h] # NoWriter /\ ~Terminated(h)'
                 /\ <<h, owner'[h]>> \notin holders'
      <4>1. /\ owner[h] # NoWriter /\ ~Terminated(h)
            /\ <<h, owner[h]>> \notin holders
        BY <2>1, <3>3 DEF OwnInv, SessionInv, Retiring
      <4> QED
        BY <2>4, <3>2, <4>1 DEF Terminated
    <3> QED
      BY <2>1, <2>2, <2>3, <3>1, <3>3 DEF OwnInv, SessionInv, Retiring
  <2>8. Holds(u)' => OwnershipProven(u)'
    BY <1>9, <2>1, <2>2, <2>3, <2>4
       DEF OwnInv, Holds, OwnershipProven, SessionInv, Linked, LinkedSteps
  <2> QED
    BY <2>5, <2>6, <2>7, <2>8 DEF OwnInv, SessionInv
<1> QED
  BY <1>10, <1>11 DEF OthersInv

(* The terminal link ends w's own generation and nothing else. *)
LEMMA TerminalStep ==
  ASSUME NEW w \in Writer, LeaseInv, Typed', Frame(w),
         UNCHANGED <<owner, holders, view>>, pc[w] = "terminal",
         terminal' = [terminal EXCEPT ![OwnGeneration(w)] = w]
  PROVE  LedgerInv' /\ OthersInv(w)'
<1> USE Disassemble, LeaseAssumption DEF Typed, TypeOK
<1>0. PICK g \in Generation : g = OwnGeneration(w)
  BY DEF OwnInv, SessionInv, Linked, LinkedSteps
<1>1. owner[g] = w /\ <<g, w>> \in holders
  BY <1>0 DEF OwnInv, SessionInv, Linked, LinkedSteps
<1>2. \A h : IsHighest(h)' <=> IsHighest(h)
  BY DEF IsHighest
<1>3. /\ terminal'[g] = w
      /\ \A h \in Generation : h # g => terminal'[h] = terminal[h]
  BY <1>0
<1>4. /\ \A h \in Generation : IsActive(h)' => IsActive(h)
      /\ \A h \in Generation : h # g /\ IsActive(h) => IsActive(h)'
  BY <1>2, <1>3 DEF IsActive, Terminated
<1>5. LedgerInv'
  BY <1>1, <1>2, <1>3, <1>4
     DEF LedgerInv, HighWater, LedgerConsistent, ActiveHasHolder, Terminated
<1>6. ASSUME NEW u \in Writer \ {w} PROVE OwnInv(u)'
  <2>1. OwnInv(u)
    OBVIOUS
  <2>2. /\ pc'[u] = pc[u] /\ view'[u] = view[u]
        /\ goal'[u] = goal[u] /\ todo'[u] = todo[u]
    BY DEF Frame
  <2>3. OwnGeneration(u)' = OwnGeneration(u)
    BY <2>2 DEF OwnGeneration
  <2>4. Unlinked(u)' /\ Claiming(u)' /\ Prepared(u)' /\ Linked(u)'
        /\ Removing(u)' /\ Reading(u)'
    BY <1>1, <1>3, <1>4, <2>1, <2>2, <2>3
       DEF OwnInv, SessionInv, Unlinked, Claiming, Prepared, Linked, Removing,
           Reading, Terminated
  <2>5. Retiring(u)'
    <3>1. \A h : IsNext(u, h)' <=> IsNext(u, h)
      BY <2>2 DEF IsNext
    <3>2. ASSUME pc[u] = "retireOwner", NEW h \in todo[u], IsNext(u, h)
          PROVE  /\ owner[h] # NoWriter /\ ~Terminated(h)'
                 /\ <<h, owner[h]>> \notin holders
      <4>1. /\ owner[h] # NoWriter /\ ~Terminated(h)
            /\ <<h, owner[h]>> \notin holders
        BY <2>1, <3>2 DEF OwnInv, SessionInv, Retiring
      <4>2. h \in Generation /\ h # g
        BY <1>1, <4>1
      <4> QED
        BY <1>3, <4>1, <4>2 DEF Terminated
    <3> QED
      BY <2>1, <2>2, <2>3, <3>1, <3>2 DEF OwnInv, SessionInv, Retiring
  <2>6. Holds(u)' => OwnershipProven(u)'
    <3>1. Holds(u)' => OwnershipProven(u)
      BY <2>1, <2>2 DEF OwnInv, Holds
    <3> QED
      BY <1>1, <1>4, <2>3, <3>1 DEF OwnershipProven, IsActive, IsHighest
  <2> QED
    BY <2>4, <2>5, <2>6 DEF OwnInv, SessionInv
<1> QED
  BY <1>5, <1>6 DEF OthersInv

(* The first deletion of history retirement: a terminal below the          *)
(* high-water mark whose owner's holder is gone.                           *)
LEMMA RetireTerminalStep ==
  ASSUME NEW w \in Writer, LeaseInv, Typed', Frame(w),
         UNCHANGED <<owner, holders, view>>, pc[w] = "retire",
         NEW g \in todo[w], Retirable(g),
         terminal' = [terminal EXCEPT ![g] = NoWriter]
  PROVE  LedgerInv' /\ OthersInv(w)'
<1> USE Disassemble, LeaseAssumption DEF Typed, TypeOK
<1>1. g \in Generation /\ g < OwnGeneration(w)
  BY DEF OwnInv, SessionInv, Retiring
<1>2. IsHighest(OwnGeneration(w))
  BY DEF OwnInv, Holds, OwnershipProven, IsActive
<1>3. \A h : IsHighest(h)' <=> IsHighest(h)
  BY DEF IsHighest
<1>4. ~IsHighest(g)
  BY <1>1, <1>2, HighestUnique
<1>5. /\ terminal'[g] = NoWriter
      /\ \A h \in Generation : h # g => terminal'[h] = terminal[h]
  BY <1>1
<1>6. \A h \in Generation : IsActive(h)' <=> IsActive(h)
  BY <1>3, <1>4, <1>5 DEF IsActive, Terminated
<1>7. LedgerInv'
  BY <1>3, <1>5, <1>6
     DEF LedgerInv, HighWater, LedgerConsistent, ActiveHasHolder, Terminated
<1>8. ASSUME NEW u \in Writer \ {w} PROVE OwnInv(u)'
  <2>1. OwnInv(u)
    OBVIOUS
  <2>2. /\ pc'[u] = pc[u] /\ view'[u] = view[u]
        /\ goal'[u] = goal[u] /\ todo'[u] = todo[u]
    BY DEF Frame
  <2>3. OwnGeneration(u)' = OwnGeneration(u)
    BY <2>2 DEF OwnGeneration
  <2>4. Unlinked(u)' /\ Claiming(u)' /\ Prepared(u)' /\ Linked(u)' /\ Reading(u)'
    BY <1>5, <1>6, <2>1, <2>2, <2>3
       DEF OwnInv, SessionInv, Unlinked, Claiming, Prepared, Linked, Reading,
           Terminated
  <2>5. Removing(u)'
    <3>1. SUFFICES ASSUME pc[u] = "removeHolder"
                   PROVE  OwnGeneration(u) \in Generation /\ OwnGeneration(u) # g
      BY <1>5, <2>1, <2>2, <2>3 DEF OwnInv, SessionInv, Removing
    <3> QED
      BY <2>1, <3>1 DEF OwnInv, SessionInv, Removing, Retirable
  <2>6. Retiring(u)'
    <3>1. \A h : IsNext(u, h)' <=> IsNext(u, h)
      BY <2>2 DEF IsNext
    <3>2. \A h \in Generation : ~Terminated(h) => ~Terminated(h)'
      BY <1>5 DEF Terminated
    <3> QED
      BY <2>1, <2>2, <2>3, <3>1, <3>2 DEF OwnInv, SessionInv, Retiring
  <2>7. Holds(u)' => OwnershipProven(u)'
    <3>1. Holds(u)' => OwnershipProven(u)
      BY <2>1, <2>2 DEF OwnInv, Holds
    <3> QED
      BY <1>6, <2>3, <3>1 DEF OwnershipProven
  <2> QED
    BY <2>4, <2>5, <2>6, <2>7 DEF OwnInv, SessionInv
<1> QED
  BY <1>7, <1>8 DEF OthersInv

(* The second deletion: the owner file that is now alone. *)
LEMMA RetireOwnerStep ==
  ASSUME NEW w \in Writer, LeaseInv, Typed', Frame(w),
         UNCHANGED <<terminal, holders, view>>, pc[w] = "retireOwner",
         NEW g \in todo[w], IsNext(w, g),
         owner' = [owner EXCEPT ![g] = NoWriter]
  PROVE  LedgerInv' /\ OthersInv(w)'
<1> USE Disassemble, LeaseAssumption DEF Typed, TypeOK
<1>1. /\ g \in Generation /\ g < OwnGeneration(w)
      /\ ~Terminated(g) /\ <<g, owner[g]>> \notin holders
  BY DEF OwnInv, SessionInv, Retiring
<1>2. OwnershipProven(w)
  BY DEF OwnInv, Holds
<1>3. PICK top \in Generation : top = OwnGeneration(w) /\ IsHighest(top)
  BY <1>2 DEF OwnershipProven, IsActive, OwnInv, SessionInv, Linked, LinkedSteps
<1>4. /\ owner'[g] = NoWriter
      /\ \A h \in Generation : h # g => owner'[h] = owner[h]
  BY <1>1
<1>5. \A h : IsHighest(h)' <=> IsHighest(h)
  BY <1>1, <1>3, <1>4 DEF IsHighest
<1>6. \A h : /\ IsActive(h)' <=> IsActive(h)
             /\ Terminated(h)' <=> Terminated(h)
  BY <1>5 DEF IsActive, Terminated
<1>7. \A h \in Generation : IsActive(h) => h # g
  BY <1>1, <1>3, HighestUnique DEF IsActive
<1>8. LedgerInv'
  <2>1. HighWater'
    BY <1>5 DEF LedgerInv, HighWater
  <2>2. LedgerConsistent' /\ ActiveHasHolder'
    BY <1>1, <1>4, <1>6, <1>7 DEF LedgerInv, LedgerConsistent, ActiveHasHolder
  <2> QED
    BY <2>1, <2>2 DEF LedgerInv
<1>9. ASSUME NEW u \in Writer \ {w} PROVE OwnInv(u)'
  <2>1. OwnInv(u)
    OBVIOUS
  <2>2. /\ pc'[u] = pc[u] /\ view'[u] = view[u]
        /\ goal'[u] = goal[u] /\ todo'[u] = todo[u]
    BY DEF Frame
  <2>3. OwnGeneration(u)' = OwnGeneration(u)
    BY <2>2 DEF OwnGeneration
  <2>4. Unlinked(u)' /\ Claiming(u)' /\ Prepared(u)' /\ Reading(u)'
    BY <1>4, <1>6, <2>1, <2>2, <2>3
       DEF OwnInv, SessionInv, Unlinked, Claiming, Prepared, Reading
  <2>5. pc[u] \in LinkedSteps \cup {"removeHolder"} =>
          OwnGeneration(u) \in Generation /\ OwnGeneration(u) # g
    BY <1>1, <2>1 DEF OwnInv, SessionInv, Linked, Removing
  <2>6. Linked(u)' /\ Removing(u)'
    BY <1>4, <1>6, <2>1, <2>2, <2>3, <2>5
       DEF OwnInv, SessionInv, Linked, Removing
  <2>7. ~Holds(u)
    BY <1>2, <2>1, OneHolder DEF OwnInv
  <2>8. Retiring(u)'
    BY <2>2, <2>7 DEF Retiring, Holds
  <2>9. ~Holds(u)'
    BY <2>2, <2>7 DEF Holds
  <2> QED
    BY <2>4, <2>6, <2>8, <2>9 DEF OwnInv, SessionInv
<1> QED
  BY <1>8, <1>9 DEF OthersInv

---------------------------------------------------------------------------
(* The invariant holds initially and every step keeps it. *)

(* An empty ledger and idle sessions satisfy the invariant. *)
LEMMA LeaseInit == Init => LeaseInv
<1> SUFFICES ASSUME Init PROVE LeaseInv
  OBVIOUS
<1> USE LeaseAssumption DEF Init
<1>1. Typed
  BY TypeInit
<1>2. IsHighest(0) /\ \A h : IsHighest(h) => h = 0
  BY DEF IsHighest
<1>3. LedgerInv
  BY <1>2 DEF LedgerInv, HighWater, LedgerConsistent, ActiveHasHolder,
              IsActive, Terminated
<1>4. ASSUME NEW w \in Writer PROVE OwnInv(w)
  BY DEF OwnInv, SessionInv, Unlinked, Claiming, Prepared, Linked, Removing,
         Reading, Retiring, Holds, LinkedSteps
<1> QED
  BY <1>1, <1>3, <1>4 DEF LeaseInv, OwnInv, HolderOwnsLedger

(* The steps of an acquisition up to its owner link. *)
LEMMA AcquireStep ==
  ASSUME NEW w \in Writer, LeaseInv, Typed', Start(w) \/ Acquire(w)
  PROVE  LeaseInv'
<1> USE Disassemble, LeaseAssumption
    DEF Typed, TypeOK, Goto, Continue, OwnInv, SessionInv, Unlinked, Claiming,
        Prepared, Linked, Removing, Reading, Retiring, Holds, ReadingSteps,
        LinkedSteps
<1>1. CASE Start(w)
  <2>1. /\ Frame(w) /\ UNCHANGED <<ledger, view>>
        /\ pc[w] = "idle" /\ pc'[w] \in {"ensureRoot"}
    BY <1>1 DEF Start, Frame
  <2>2. OwnInv(w)'
    BY <2>1
  <2> QED
    BY <2>1, <2>2, QuietStep, Assemble DEF LedgerInv, HighWater
<1>2. CASE EnsureRoot(w)
  <2>1. /\ Frame(w) /\ UNCHANGED <<ledger, view>>
        /\ pc[w] = "ensureRoot" /\ pc'[w] \in {"inventory"}
    BY <1>2 DEF EnsureRoot, Frame
  <2>2. OwnInv(w)'
    BY <2>1
  <2> QED
    BY <2>1, <2>2, QuietStep, Assemble DEF LedgerInv, HighWater
<1>3. CASE ResidueInventory(w)
  <2>1. /\ Frame(w) /\ UNCHANGED <<ledger, view>>
        /\ pc[w] = "residue" /\ pc'[w] \in {"residueHolder", "failed"}
    BY <1>3 DEF ResidueInventory, Frame
  <2>2. OwnInv(w)'
    BY <2>1
  <2> QED
    BY <2>1, <2>2, QuietStep, Assemble DEF LedgerInv, HighWater
<1>4. CASE ResidueHolder(w)
  <2>1. /\ Frame(w) /\ UNCHANGED <<ledger, view>>
        /\ pc[w] = "residueHolder" /\ pc'[w] \in {"state", "failed"}
    BY <1>4 DEF ResidueHolder, Frame
  <2>2. OwnInv(w)'
    BY <2>1
  <2> QED
    BY <2>1, <2>2, QuietStep, Assemble DEF LedgerInv, HighWater
<1>5. CASE ReadHighestState(w)
  <2>1. /\ Frame(w) /\ UNCHANGED <<ledger, view>> /\ pc[w] = "state"
        /\ \/ pc'[w] \in {"stale", "failed"}
           \/ pc'[w] = "prepare" /\ Terminated(view[w])
    BY <1>5 DEF ReadHighestState, Frame
  <2>2. Claiming(w)'
    BY <2>1 DEF LedgerInv, HighWater, IsActive, IsHighest, Terminated
  <2>3. OwnInv(w)'
    BY <2>1, <2>2
  <2> QED
    BY <2>1, <2>3, QuietStep, Assemble DEF LedgerInv, HighWater
<1>6. CASE StaleInventory(w)
  <2>1. /\ Frame(w) /\ UNCHANGED <<ledger, view>>
        /\ pc[w] = "stale" /\ pc'[w] \in {"staleState", "inventory", "failed"}
    BY <1>6 DEF StaleInventory, Frame
  <2>2. OwnInv(w)'
    BY <2>1
  <2> QED
    BY <2>1, <2>2, QuietStep, Assemble DEF LedgerInv, HighWater
<1>7. CASE StaleState(w)
  <2>1. /\ Frame(w) /\ UNCHANGED <<ledger, view>>
        /\ pc[w] = "staleState" /\ pc'[w] \in {"inventory", "failed"}
    BY <1>7 DEF StaleState, Frame
  <2>2. OwnInv(w)'
    BY <2>1
  <2> QED
    BY <2>1, <2>2, QuietStep, Assemble DEF LedgerInv, HighWater
<1>8. CASE ReadInventory(w)
  <2>1. PICK h \in 0..MaxGeneration :
          /\ IsHighest(h) /\ view'[w] = h
          /\ pc'[w] = IF h = 0 THEN "prepare"
                      ELSE IF Terminated(h) THEN "residue" ELSE "state"
    BY <1>8 DEF ReadInventory
  <2>2. Frame(w) /\ UNCHANGED ledger /\ pc[w] = "inventory"
    BY <1>8 DEF ReadInventory, Frame
  <2>3. \A k \in 0..MaxGeneration : IsHighest(k) => view'[w] <= k
    BY <2>1, HighestUnique
  <2>4. LedgerInv' /\ OthersInv(w)'
    BY <2>2, <2>3, QuietStep
  <2>5. Claiming(w)'
    BY <2>1, <2>2 DEF IsActive, IsHighest
  <2>6. OwnInv(w)'
    BY <2>1, <2>2, <2>5
  <2> QED
    BY <2>4, <2>6, Assemble
<1>9. CASE PrepareLease(w)
  <2>1. CASE OwnGeneration(w) \in Generation
    <3>1. /\ Frame(w) /\ UNCHANGED <<owner, terminal, view>>
          /\ pc[w] = "prepare" /\ pc'[w] = "link"
          /\ holders' = holders \cup {<<OwnGeneration(w), w>>}
      BY <1>9, <2>1 DEF PrepareLease, Frame
    <3>2. LedgerInv' /\ OthersInv(w)'
      BY <2>1, <3>1, HolderStep
    <3>3. OwnInv(w)'
      BY <2>1, <3>1 DEF IsActive, IsHighest, Terminated, OwnGeneration
    <3> QED
      BY <3>2, <3>3, Assemble
  <2>2. CASE OwnGeneration(w) \notin Generation
    <3>1. /\ Frame(w) /\ UNCHANGED <<ledger, view>> /\ pc'[w] = "failed"
      BY <1>9, <2>2 DEF PrepareLease, Frame
    <3>2. OwnInv(w)'
      BY <3>1
    <3> QED
      BY <3>1, <3>2, QuietStep, Assemble DEF LedgerInv, HighWater
  <2> QED
    BY <2>1, <2>2
<1>10. CASE LinkOwner(w)
  <2>1. /\ Frame(w) /\ UNCHANGED <<terminal, holders, view>>
        /\ pc[w] = "link" /\ owner[OwnGeneration(w)] = NoWriter
        /\ owner' = [owner EXCEPT ![OwnGeneration(w)] = w]
        /\ pc'[w] = "assertFirst" /\ goal'[w] = "acquire"
    BY <1>10 DEF LinkOwner, Frame
  <2>2. LedgerInv' /\ OthersInv(w)'
    BY <2>1, OwnerStep
  <2>3. Linked(w)'
    BY <2>1 DEF LedgerInv, LedgerConsistent, Terminated, OwnGeneration
  <2>4. OwnInv(w)'
    BY <2>1, <2>3
  <2> QED
    BY <2>2, <2>4, Assemble
<1>11. CASE OwnerExists(w)
  <2>1. /\ Frame(w) /\ UNCHANGED <<owner, terminal, view>>
        /\ pc[w] = "link" /\ pc'[w] \in {"inventory", "failed"}
        /\ holders' = holders \ {<<OwnGeneration(w), w>>}
    BY <1>11 DEF OwnerExists, Frame
  <2>2. LedgerInv' /\ OthersInv(w)'
    BY <2>1, HolderStep
  <2>3. OwnInv(w)'
    BY <2>1
  <2> QED
    BY <2>2, <2>3, Assemble
<1> QED
  BY <1>1, <1>2, <1>3, <1>4, <1>5, <1>6, <1>7, <1>8, <1>9, <1>10, <1>11
     DEF Acquire

(* The steps of a session that has linked its owner file. *)
LEMMA ProceedStep ==
  ASSUME NEW w \in Writer, LeaseInv, Typed',
         Proceed(w) \/ \E r \in {"write", "history", "release"} : Request(w, r)
  PROVE  LeaseInv'
<1> USE Disassemble, LeaseAssumption
    DEF Typed, TypeOK, Goto, OwnInv, SessionInv, Unlinked, Claiming, Prepared,
        Linked, Removing, Reading, Retiring, Holds, ReadingSteps, LinkedSteps
<1>1. CASE \E r \in {"write", "history", "release"} : Request(w, r)
  <2>1. /\ Frame(w) /\ UNCHANGED <<ledger, view>>
        /\ pc[w] = "held" /\ pc'[w] = "assertFirst"
    BY <1>1 DEF Request, Frame
  <2>2. OwnershipProven(w)'
    BY <2>1 DEF OwnershipProven, IsActive, IsHighest, Terminated, OwnGeneration
  <2>3. OwnInv(w)'
    BY <2>1, <2>2 DEF OwnGeneration, Terminated
  <2> QED
    BY <2>1, <2>3, QuietStep, Assemble DEF LedgerInv, HighWater
<1>2. CASE AssertOwnedFirst(w) \/ AssertOwnedFinal(w)
  <2>1. /\ Frame(w) /\ UNCHANGED <<ledger, view, todo>>
        /\ pc[w] \in {"assertFirst", "assertFinal"}
        /\ pc'[w] \in {"assertFinal", "held", "write", "history", "terminal",
                       "failed"}
    BY <1>2 DEF AssertOwnedFirst, AssertOwnedFinal, OwnershipLost, Thrown, Frame
  <2>2. OwnershipProven(w)' <=> OwnershipProven(w)
    BY <2>1 DEF OwnershipProven, IsActive, IsHighest, Terminated, OwnGeneration
  <2>3. Holds(w)' => OwnershipProven(w)
    <3>1. CASE goal[w] # "acquire"
      BY <2>1, <3>1
    <3>2. CASE goal[w] = "acquire" /\ AssertOwnedFirst(w)
      BY <3>2 DEF AssertOwnedFirst, OwnershipLost, Goal
    <3>3. CASE goal[w] = "acquire" /\ AssertOwnedFinal(w)
      BY <3>3 DEF AssertOwnedFinal, OwnershipLost, OwnershipProven, Goal
    <3> QED
      BY <1>2, <3>1, <3>2, <3>3
  <2>4. OwnInv(w)'
    BY <2>1, <2>2, <2>3 DEF OwnGeneration, Terminated
  <2> QED
    BY <2>1, <2>4, QuietStep, Assemble DEF LedgerInv, HighWater
<1>3. CASE Write(w) \/ FinishHistory(w)
  <2>1. /\ Frame(w) /\ UNCHANGED <<ledger, view, goal>>
        /\ pc[w] \in {"write", "retire"} /\ pc'[w] \in {"held", "terminal"}
    BY <1>3 DEF Write, FinishHistory, Frame
  <2>2. OwnershipProven(w)'
    BY <2>1 DEF OwnershipProven, IsActive, IsHighest, Terminated, OwnGeneration
  <2>3. OwnInv(w)'
    BY <2>1, <2>2 DEF OwnGeneration, Terminated
  <2> QED
    BY <2>1, <2>3, QuietStep, Assemble DEF LedgerInv, HighWater
<1>4. CASE ListHistory(w)
  <2>1. /\ Frame(w) /\ UNCHANGED <<ledger, view, goal>>
        /\ pc[w] = "history" /\ pc'[w] \in {"held", "failed", "retire"}
        /\ pc'[w] = "retire" => \A h \in todo'[w] : h < OwnGeneration(w)
    BY <1>4 DEF ListHistory, ListHistoryFrom, Thrown, Frame
  <2>2. OwnershipProven(w)'
    BY <2>1 DEF OwnershipProven, IsActive, IsHighest, Terminated, OwnGeneration
  <2>3. OwnInv(w)'
    BY <2>1, <2>2 DEF OwnGeneration, Terminated
  <2> QED
    BY <2>1, <2>3, QuietStep, Assemble DEF LedgerInv, HighWater
<1>5. CASE RetireTerminal(w)
  <2>0. /\ Frame(w) /\ UNCHANGED <<owner, holders, view, goal>>
        /\ pc[w] = "retire"
    BY <1>5 DEF RetireTerminal, Frame
  <2>1. PICK g \in todo[w] :
          /\ IsNext(w, g)
          /\ \/ /\ Retirable(g) /\ pc'[w] = "retireOwner"
                /\ terminal' = [terminal EXCEPT ![g] = NoWriter]
                /\ todo'[w] = todo[w]
             \/ /\ UNCHANGED <<pc, terminal>>
                /\ todo'[w] = todo[w] \ {g}
    BY <1>5 DEF RetireTerminal
  <2>2. g \in Generation /\ g < OwnGeneration(w) /\ OwnershipProven(w)
    BY <2>0
  <2>3. CASE Retirable(g) /\ terminal' = [terminal EXCEPT ![g] = NoWriter]
             /\ pc'[w] = "retireOwner" /\ todo'[w] = todo[w]
    <3>1. LedgerInv' /\ OthersInv(w)'
      BY <2>0, <2>3, RetireTerminalStep
    <3>2. /\ terminal'[g] = NoWriter
          /\ \A h \in Generation : h # g => terminal'[h] = terminal[h]
      BY <2>2, <2>3
    <3>3. Linked(w)' /\ OwnershipProven(w)'
      BY <2>0, <2>2, <2>3, <3>2
         DEF OwnershipProven, IsActive, IsHighest, Terminated, OwnGeneration
    <3>4. Retiring(w)'
      <4>1. \A h \in todo[w] : IsNext(w, h)' => h = g
        BY <2>1, <2>3 DEF IsNext
      <4>2. owner[g] # NoWriter /\ <<g, owner[g]>> \notin holders
        BY <2>2, <2>3 DEF Retirable, LedgerInv, LedgerConsistent, Terminated
      <4> QED
        BY <2>0, <2>2, <2>3, <3>2, <4>1, <4>2 DEF Terminated, OwnGeneration
    <3>5. OwnInv(w)'
      BY <2>3, <3>3, <3>4
    <3> QED
      BY <3>1, <3>5, Assemble
  <2>4. CASE UNCHANGED <<pc, terminal>> /\ todo'[w] = todo[w] \ {g}
    <3>1. OwnershipProven(w)'
      BY <2>0, <2>2, <2>4
         DEF OwnershipProven, IsActive, IsHighest, Terminated, OwnGeneration
    <3>2. OwnInv(w)'
      BY <2>0, <2>4, <3>1 DEF OwnGeneration, Terminated
    <3> QED
      BY <2>0, <2>4, <3>2, QuietStep, Assemble DEF LedgerInv, HighWater
  <2> QED
    BY <2>1, <2>3, <2>4
<1>6. CASE RetireOwner(w)
  <2>1. PICK g \in todo[w] :
          /\ IsNext(w, g)
          /\ owner' = [owner EXCEPT ![g] = NoWriter]
          /\ todo' = [todo EXCEPT ![w] = @ \ {g}]
    BY <1>6 DEF RetireOwner
  <2>2. /\ Frame(w) /\ UNCHANGED <<terminal, holders, view>>
        /\ pc[w] = "retireOwner" /\ pc'[w] = "retire"
    BY <1>6 DEF RetireOwner, Frame
  <2>3. LedgerInv' /\ OthersInv(w)'
    BY <2>1, <2>2, RetireOwnerStep
  <2>4. g \in Generation /\ g < OwnGeneration(w) /\ OwnershipProven(w)
    <3>1. g \in Generation
      BY <2>1
    <3>2. g < OwnGeneration(w)
      BY <2>1, <2>2
    <3>3. OwnershipProven(w)
      BY <2>2
    <3> QED
      BY <3>1, <3>2, <3>3
  <2>5. \A h \in Generation : h # g => owner'[h] = owner[h]
    BY <2>1, <2>4
  <2>6. Linked(w)' /\ OwnershipProven(w)'
    BY <2>1, <2>2, <2>4, <2>5
       DEF OwnershipProven, IsActive, IsHighest, Terminated, OwnGeneration
  <2>7. OwnInv(w)'
    BY <2>1, <2>2, <2>6 DEF OwnGeneration
  <2> QED
    BY <2>3, <2>7, Assemble
<1>7. CASE LinkTerminal(w)
  <2>1. terminal[OwnGeneration(w)] = NoWriter
    BY <1>7 DEF LinkTerminal, Terminated
  <2>2. /\ Frame(w) /\ UNCHANGED <<owner, holders, view>>
        /\ pc[w] = "terminal" /\ pc'[w] = "removeHolder"
        /\ terminal' = [terminal EXCEPT ![OwnGeneration(w)] = w]
    BY <1>7, <2>1 DEF LinkTerminal, Frame
  <2>3. LedgerInv' /\ OthersInv(w)'
    BY <2>2, TerminalStep
  <2>4. Removing(w)'
    BY <2>2 DEF OwnGeneration
  <2>5. OwnInv(w)'
    BY <2>2, <2>4
  <2> QED
    BY <2>3, <2>5, Assemble
<1>8. CASE RemoveHolder(w)
  <2>1. /\ Frame(w) /\ UNCHANGED <<owner, terminal, view>>
        /\ pc[w] = "removeHolder" /\ pc'[w] \in {"failed", "readback"}
        /\ holders' = holders \ {<<OwnGeneration(w), w>>}
    BY <1>8 DEF RemoveHolder, Frame
  <2>2. LedgerInv' /\ OthersInv(w)'
    BY <2>1, HolderStep
  <2>3. OwnInv(w)'
    BY <2>1 DEF OwnGeneration
  <2> QED
    BY <2>2, <2>3, Assemble
<1>9. CASE ReadbackTerminal(w)
  <2>1. /\ Frame(w) /\ UNCHANGED <<ledger, view>>
        /\ pc[w] = "readback" /\ pc'[w] \in {"released", "failed"}
    BY <1>9 DEF ReadbackTerminal, Frame
  <2>2. OwnInv(w)'
    BY <2>1
  <2> QED
    BY <2>1, <2>2, QuietStep, Assemble DEF LedgerInv, HighWater
<1> QED
  BY <1>1, <1>2, <1>3, <1>4, <1>5, <1>6, <1>7, <1>8, <1>9 DEF Proceed

(* What a failing call or a stopped process leaves behind. *)
LEMMA FaultStep ==
  ASSUME NEW w \in Writer, LeaseInv, Typed', Fault(w)
  PROVE  LeaseInv'
<1> USE Disassemble, LeaseAssumption
    DEF Typed, TypeOK, Goto, OwnInv, SessionInv, Unlinked, Claiming, Prepared,
        Linked, Removing, Reading, Retiring, Holds, ReadingSteps, LinkedSteps
<1>1. CASE ReadFault(w)
  <2>1. Frame(w) /\ UNCHANGED <<ledger, view>> /\ pc'[w] = "failed"
    BY <1>1 DEF ReadFault, Frame
  <2>2. OwnInv(w)'
    BY <2>1
  <2> QED
    BY <2>1, <2>2, QuietStep, Assemble DEF LedgerInv, HighWater
<1>7. CASE HistoryFault(w)
  <2>1. /\ Frame(w) /\ UNCHANGED <<ledger, view>>
        /\ pc[w] \in {"history", "retire", "retireOwner"}
        /\ pc'[w] \in {"held", "failed"}
    BY <1>7 DEF HistoryFault, Thrown, Frame
  <2>2. OwnershipProven(w)'
    BY <2>1 DEF OwnershipProven, IsActive, IsHighest, Terminated, OwnGeneration
  <2>3. OwnInv(w)'
    BY <2>1, <2>2 DEF OwnGeneration, Terminated
  <2> QED
    BY <2>1, <2>3, QuietStep, Assemble DEF LedgerInv, HighWater
<1>8. CASE AssertFault(w)
  <2>1. /\ Frame(w) /\ UNCHANGED <<ledger, view, todo>>
        /\ pc[w] \in {"assertFirst", "assertFinal"}
        /\ pc'[w] \in {"held", "terminal", "failed"}
    BY <1>8 DEF AssertFault, OwnershipLost, Thrown, Frame
  <2>2. OwnershipProven(w)' <=> OwnershipProven(w)
    BY <2>1 DEF OwnershipProven, IsActive, IsHighest, Terminated, OwnGeneration
  <2>3. Holds(w)' => OwnershipProven(w)
    <3>1. CASE goal[w] # "acquire"
      BY <2>1, <3>1
    <3>2. CASE goal[w] = "acquire"
      BY <1>8, <3>2 DEF AssertFault, OwnershipLost, Goal
    <3> QED
      BY <3>1, <3>2
  <2>4. OwnInv(w)'
    BY <2>1, <2>2, <2>3 DEF OwnGeneration, Terminated
  <2> QED
    BY <2>1, <2>4, QuietStep, Assemble DEF LedgerInv, HighWater
<1>2. CASE PrepareFault(w)
  <2>1. /\ Frame(w) /\ UNCHANGED <<owner, terminal, view>>
        /\ pc[w] = "prepare" /\ pc'[w] = "failed"
        /\ OwnGeneration(w) \in Generation
        /\ \/ holders' = holders
           \/ holders' = holders \cup {<<OwnGeneration(w), w>>}
    BY <1>2 DEF PrepareFault, Frame
  <2>2. OwnInv(w)'
    BY <2>1
  <2>3. LedgerInv' /\ OthersInv(w)'
    <3>1. CASE holders' = holders
      BY <2>1, <3>1, QuietStep DEF LedgerInv, HighWater
    <3>2. CASE holders' = holders \cup {<<OwnGeneration(w), w>>}
      BY <2>1, <3>2, HolderStep
    <3> QED
      BY <2>1, <3>1, <3>2
  <2> QED
    BY <2>2, <2>3, Assemble
<1>3. CASE LinkFault(w)
  <2>1. /\ Frame(w) /\ UNCHANGED <<terminal, view>>
        /\ pc[w] = "link" /\ pc'[w] = "failed"
        /\ \/ owner' = owner /\ holders' = holders
           \/ owner' = owner /\ holders' = holders \ {<<OwnGeneration(w), w>>}
           \/ /\ owner[OwnGeneration(w)] = NoWriter
              /\ owner' = [owner EXCEPT ![OwnGeneration(w)] = w]
              /\ holders' = holders
    BY <1>3 DEF LinkFault, Frame
  <2>2. OwnInv(w)'
    BY <2>1
  <2>3. LedgerInv' /\ OthersInv(w)'
    <3>1. CASE owner' = owner /\ holders' = holders
      BY <2>1, <3>1, QuietStep DEF LedgerInv, HighWater
    <3>2. CASE owner' = owner /\ holders' = holders \ {<<OwnGeneration(w), w>>}
      BY <2>1, <3>2, HolderStep
    <3>3. CASE /\ owner[OwnGeneration(w)] = NoWriter
               /\ owner' = [owner EXCEPT ![OwnGeneration(w)] = w]
               /\ holders' = holders
      BY <2>1, <3>3, OwnerStep
    <3> QED
      BY <2>1, <3>1, <3>2, <3>3
  <2> QED
    BY <2>2, <2>3, Assemble
<1>4. CASE TerminalFault(w)
  <2>1. terminal[OwnGeneration(w)] = NoWriter
    BY <1>4 DEF TerminalFault, Terminated
  <2>2. /\ Frame(w) /\ UNCHANGED <<owner, holders, view>>
        /\ pc[w] = "terminal" /\ pc'[w] = "failed"
        /\ \/ terminal' = terminal
           \/ terminal' = [terminal EXCEPT ![OwnGeneration(w)] = w]
    BY <1>4, <2>1 DEF TerminalFault, Frame
  <2>3. OwnInv(w)'
    BY <2>2
  <2>4. LedgerInv' /\ OthersInv(w)'
    <3>1. CASE terminal' = terminal
      BY <2>2, <3>1, QuietStep DEF LedgerInv, HighWater
    <3>2. CASE terminal' = [terminal EXCEPT ![OwnGeneration(w)] = w]
      BY <2>2, <3>2, TerminalStep
    <3> QED
      BY <2>2, <3>1, <3>2
  <2> QED
    BY <2>3, <2>4, Assemble
<1>5. CASE RemoveFault(w)
  <2>1. /\ Frame(w) /\ UNCHANGED <<ledger, view>>
        /\ \/ pc[w] = "link" /\ pc'[w] \in {"inventory", "failed"}
           \/ pc[w] = "removeHolder" /\ pc'[w] \in {"failed", "readback"}
    BY <1>5 DEF RemoveFault, Continue, Frame
  <2>2. OwnInv(w)'
    BY <2>1 DEF OwnGeneration
  <2> QED
    BY <2>1, <2>2, QuietStep, Assemble DEF LedgerInv, HighWater
<1>6. CASE Crash(w)
  <2>1. Frame(w) /\ UNCHANGED <<ledger, view>> /\ pc'[w] = "crashed"
    BY <1>6 DEF Crash, Frame
  <2>2. OwnInv(w)'
    BY <2>1
  <2> QED
    BY <2>1, <2>2, QuietStep, Assemble DEF LedgerInv, HighWater
<1> QED
  BY <1>1, <1>2, <1>3, <1>4, <1>5, <1>6, <1>7, <1>8 DEF Fault

(* The invariant is inductive. *)
LEMMA LeaseNext == LeaseInv /\ [Next]_vars => LeaseInv'
<1> SUFFICES ASSUME LeaseInv, [Next]_vars PROVE LeaseInv'
  OBVIOUS
<1>1. Typed'
  BY TypeNext DEF LeaseInv
<1>2. CASE UNCHANGED vars
  BY <1>2 DEF vars, LeaseInv, Typed, TypeOK, AttemptsLeft, LedgerInv, HighWater,
       LedgerConsistent, ActiveHasHolder, HolderOwnsLedger, Holds,
       OwnershipProven, IsActive, IsHighest, Terminated, OwnGeneration,
       SessionInv, Unlinked, Claiming, Prepared, Linked, Removing, Reading,
       Retiring, IsNext
<1>3. ASSUME NEW w \in Writer,
             \/ Start(w)
             \/ Acquire(w)
             \/ \E g \in {"write", "history", "release"} : Request(w, g)
             \/ Proceed(w)
             \/ Fault(w)
      PROVE  LeaseInv'
  BY <1>1, <1>3, AcquireStep, ProceedStep, FaultStep
<1> QED
  BY <1>2, <1>3 DEF Next

(* It holds in every reachable state. *)
LEMMA LeaseInvariant == Spec => []LeaseInv
BY LeaseInit, LeaseNext, PTL DEF Spec

---------------------------------------------------------------------------
(* The properties, for every set of sessions and every bound. *)

(* At most one session holds the lease: acquireNative never hands out a    *)
(* second handle, under any interleaving, crash or I/O failure.            *)
THEOREM MutualExclusionHolds == Spec => []MutualExclusion
<1>1. LeaseInv => MutualExclusion
  BY OneHolder DEF LeaseInv, HolderOwnsLedger, MutualExclusion
<1> QED
  BY <1>1, LeaseInvariant, PTL

(* What assertOwned proves stays true while the session holds the handle,  *)
(* so an effect behind the commit fence is never overtaken.                *)
THEOREM HolderOwnsLedgerHolds == Spec => []HolderOwnsLedger
<1>1. LeaseInv => HolderOwnsLedger
  BY DEF LeaseInv
<1> QED
  BY <1>1, LeaseInvariant, PTL

(* No ownerless terminal is ever on disk, whatever retireTerminalHistory   *)
(* deletes and wherever it is interrupted.                                 *)
THEOREM LedgerConsistentHolds == Spec => []LedgerConsistent
<1>1. LeaseInv => LedgerConsistent
  BY DEF LeaseInv, LedgerInv
<1> QED
  BY <1>1, LeaseInvariant, PTL

(* The generation that blocks the others can always be classified: its     *)
(* holder directory exists.                                                *)
THEOREM ActiveHasHolderHolds == Spec => []ActiveHasHolder
<1>1. LeaseInv => ActiveHasHolder
  BY DEF LeaseInv, LedgerInv
<1> QED
  BY <1>1, LeaseInvariant, PTL

(* No reachable ledger is unreadable (an ownerless terminal) or beyond      *)
(* classification (an active generation without its holder directory).      *)
THEOREM LedgerIsSoundHolds == Spec => []LedgerIsSound
<1>1. LedgerConsistent /\ ActiveHasHolder => LedgerIsSound
  BY DEF LedgerIsSound
<1> QED
  BY <1>1, LedgerConsistentHolds, ActiveHasHolderHolds, PTL
=============================================================================
