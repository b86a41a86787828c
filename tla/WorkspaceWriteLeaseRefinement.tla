------------------- MODULE WorkspaceWriteLeaseRefinement -------------------
(***************************************************************************)
(* What a step of the ledger may do (NoTakeover, HighWaterMonotone), and   *)
(* the proof that the ledger implements ExclusiveWriter.                   *)
(***************************************************************************)
EXTENDS WorkspaceWriteLeaseProofs

USE DEF Generation, ledger

\* The three ways a step can change the owner and terminal files.
Claim(w) ==
  /\ pc[w] = "link"
  /\ owner[OwnGeneration(w)] = NoWriter
  /\ owner' = [owner EXCEPT ![OwnGeneration(w)] = w]
  /\ UNCHANGED terminal

Finish(w) ==
  /\ pc[w] = "terminal"
  /\ terminal' = [terminal EXCEPT ![OwnGeneration(w)] = w]
  /\ UNCHANGED owner

Retire(w) ==
  \E g \in todo[w] :
    /\ pc[w] \in {"retire", "retireOwner"}
    /\ \/ owner' = owner /\ terminal' = [terminal EXCEPT ![g] = NoWriter]
       \/ terminal' = terminal /\ owner' = [owner EXCEPT ![g] = NoWriter]

(* Every step is one of them, or leaves owner and terminal files alone;    *)
(* and it enters an effect only by a completed ownership proof.            *)
LEMMA StepKinds ==
  ASSUME LeaseInv, [Next]_vars
  PROVE  \/ UNCHANGED <<owner, terminal, pc>>
         \/ \E w \in Writer :
              /\ \A u \in Writer \ {w} : pc'[u] = pc[u]
              /\ \/ /\ UNCHANGED <<owner, terminal>>
                    /\ pc'[w] = "write" => OwnershipProven(w)
                 \/ (Claim(w) \/ Finish(w) \/ Retire(w)) /\ pc'[w] # "write"
<1> USE Disassemble DEF Typed, TypeOK, Goto
<1>1. CASE UNCHANGED vars
  BY <1>1 DEF vars
<1>2. ASSUME NEW w \in Writer, Start(w) \/ Acquire(w)
      PROVE  /\ \A u \in Writer \ {w} : pc'[u] = pc[u]
             /\ UNCHANGED <<owner, terminal>> \/ Claim(w)
             /\ pc'[w] # "write"
  <2>1. CASE LinkOwner(w)
    BY <2>1 DEF LinkOwner, Claim
  <2>2. CASE ReadInventory(w)
    BY <2>2 DEF ReadInventory
  <2>3. CASE PrepareLease(w) \/ OwnerExists(w)
    BY <2>3 DEF PrepareLease, OwnerExists, Continue
  <2>4. CASE Start(w) \/ EnsureRoot(w) \/ ResidueInventory(w) \/ ResidueHolder(w)
             \/ ReadHighestState(w)
    BY <2>4 DEF Start, EnsureRoot, ResidueInventory, ResidueHolder,
                ReadHighestState
  <2>5. CASE StaleInventory(w) \/ StaleState(w)
    BY <2>5 DEF StaleInventory, StaleState, Continue
  <2> QED
    BY <1>2, <2>1, <2>2, <2>3, <2>4, <2>5 DEF Acquire
<1>3. ASSUME NEW w \in Writer, NEW r \in {"write", "history", "release"},
             Request(w, r)
      PROVE  /\ \A u \in Writer \ {w} : pc'[u] = pc[u]
             /\ UNCHANGED <<owner, terminal>> /\ pc'[w] # "write"
  BY <1>3 DEF Request
<1>4. ASSUME NEW w \in Writer, Proceed(w)
      PROVE  /\ \A u \in Writer \ {w} : pc'[u] = pc[u]
             /\ \/ /\ UNCHANGED <<owner, terminal>>
                   /\ pc'[w] = "write" => OwnershipProven(w)
                \/ (Finish(w) \/ Retire(w)) /\ pc'[w] # "write"
  <2>1. CASE AssertOwnedFirst(w)
    BY <2>1 DEF AssertOwnedFirst, OwnershipLost, Thrown
  <2>2. CASE AssertOwnedFinal(w)
    <3>1. IsActive(OwnGeneration(w)) => OwnershipProven(w)
      BY <2>2 DEF AssertOwnedFinal, OwnershipProven, OwnInv, SessionInv, Linked,
                  LinkedSteps
    <3> QED
      BY <2>2, <3>1 DEF AssertOwnedFinal, OwnershipLost, Thrown
  <2>3. CASE Write(w) \/ ListHistory(w) \/ FinishHistory(w)
    BY <2>3 DEF Write, ListHistory, ListHistoryFrom, FinishHistory, Thrown
  <2>4. CASE RetireTerminal(w)
    BY <2>4 DEF RetireTerminal, Retire
  <2>5. CASE RetireOwner(w)
    BY <2>5 DEF RetireOwner, Retire
  <2>6. CASE LinkTerminal(w)
    BY <2>6 DEF LinkTerminal, Finish
  <2>7. CASE RemoveHolder(w) \/ ReadbackTerminal(w)
    BY <2>7 DEF RemoveHolder, ReadbackTerminal
  <2> QED
    BY <1>4, <2>1, <2>2, <2>3, <2>4, <2>5, <2>6, <2>7 DEF Proceed
<1>5. ASSUME NEW w \in Writer, Fault(w)
      PROVE  /\ \A u \in Writer \ {w} : pc'[u] = pc[u]
             /\ UNCHANGED <<owner, terminal>> \/ Claim(w) \/ Finish(w)
             /\ pc'[w] # "write"
  <2>1. CASE ReadFault(w) \/ HistoryFault(w) \/ PrepareFault(w) \/ Crash(w)
    BY <2>1 DEF ReadFault, HistoryFault, PrepareFault, Crash, Thrown
  <2>6. CASE AssertFault(w)
    BY <2>6 DEF AssertFault, OwnershipLost, Thrown
  <2>2. CASE LinkFault(w)
    BY <2>2 DEF LinkFault, Claim
  <2>3. CASE TerminalFault(w)
    <3>1. terminal[OwnGeneration(w)] = NoWriter
      BY <2>3 DEF TerminalFault, OwnInv, SessionInv, Linked, LinkedSteps,
                  Terminated
    <3> QED
      BY <2>3, <3>1 DEF TerminalFault, Finish
  <2>4. CASE RemoveFault(w)
    BY <2>4 DEF RemoveFault, Continue
  <2> QED
    BY <1>5, <2>1, <2>2, <2>3, <2>4, <2>6 DEF Fault
<1> QED
  BY <1>1, <1>2, <1>3, <1>4, <1>5 DEF Next

---------------------------------------------------------------------------
(* What each kind of change does to the active generation. *)

(* A claim ends no active generation, and adds only its own, and only when *)
(* there was none.                                                         *)
LEMMA ClaimEffect ==
  ASSUME NEW w \in Writer, LeaseInv, Claim(w)
  PROVE  /\ OwnGeneration(w) \in Generation
         /\ owner'[OwnGeneration(w)] = w
         /\ \A h \in Generation : owner[h] # NoWriter => owner'[h] = owner[h]
         /\ \A h \in Generation : IsActive(h) => IsActive(h)'
         /\ \A h \in Generation : IsActive(h)' /\ ~IsActive(h) =>
              h = OwnGeneration(w) /\ \A k \in Generation : ~IsActive(k)
<1> USE Disassemble, LeaseAssumption DEF Typed, TypeOK
<1>0. PICK g \in Generation : g = OwnGeneration(w)
  BY DEF Claim, OwnInv, SessionInv, Prepared
<1>1. /\ g = view[w] + 1 /\ owner[g] = NoWriter
      /\ \A h \in Generation : IsActive(h) => view[w] < h
      /\ owner'[g] = w /\ UNCHANGED terminal
      /\ \A h \in Generation : h # g => owner'[h] = owner[h]
  BY <1>0 DEF Claim, OwnInv, SessionInv, Claiming, OwnGeneration
<1>2. ASSUME NEW h \in Generation, IsActive(h) PROVE IsActive(h)'
  <2>0. view[w] < h /\ owner[h] # NoWriter
    BY <1>1, <1>2 DEF IsActive, IsHighest, Generation
  <2>a. h \in Nat /\ view[w] \in Nat
    BY DEF Generation
  <2>b. h # g
    BY <1>1, <2>0
  <2>c. g <= h
    BY <1>1, <2>0, <2>a
  <2>1. h # g /\ g <= h
    BY <2>b, <2>c
  <2>2. IsHighest(h)'
    BY <1>1, <1>2, <2>1 DEF IsActive, IsHighest
  <2> QED
    BY <1>1, <1>2, <2>2 DEF IsActive, Terminated
<1>3. ASSUME NEW h \in Generation, IsActive(h)', ~IsActive(h) PROVE h = g
  BY <1>1, <1>3 DEF IsActive, IsHighest, Terminated
<1>4. ASSUME IsActive(g)', NEW k \in Generation, IsActive(k) PROVE FALSE
  <2>1. k # g
    BY <1>1, <1>4 DEF IsActive, IsHighest
  <2>2. IsHighest(k)' /\ IsHighest(g)'
    BY <1>2, <1>4 DEF IsActive
  <2>3. k <= g /\ g <= k
    BY <1>1, <2>2 DEF IsHighest
  <2> QED
    BY <2>1, <2>3
<1> QED
  BY <1>0, <1>1, <1>2, <1>3, <1>4

(* A terminal ends its own generation and activates none. *)
LEMMA FinishEffect ==
  ASSUME NEW w \in Writer, LeaseInv, Finish(w)
  PROVE  /\ OwnGeneration(w) \in Generation
         /\ owner[OwnGeneration(w)] = w
         /\ terminal'[OwnGeneration(w)] = w
         /\ \A h \in Generation : IsActive(h)' => IsActive(h)
         /\ \A h \in Generation : IsActive(h) /\ ~IsActive(h)'
                                    => h = OwnGeneration(w)
         /\ \A h \in Generation : h = OwnGeneration(w) => ~IsActive(h)'
<1> USE Disassemble, LeaseAssumption DEF Typed, TypeOK
<1>0. PICK g \in Generation : g = OwnGeneration(w) /\ owner[g] = w
  BY DEF Finish, OwnInv, SessionInv, Linked, LinkedSteps
<1>1. /\ terminal'[g] = w /\ UNCHANGED owner
      /\ \A h \in Generation : h # g => terminal'[h] = terminal[h]
  BY <1>0 DEF Finish
<1>2. \A h \in Generation : IsHighest(h)' <=> IsHighest(h)
  BY <1>1 DEF IsHighest
<1>3. ~IsActive(g)'
  BY <1>1 DEF IsActive, Terminated
<1> QED
  BY <1>0, <1>1, <1>2, <1>3 DEF IsActive, Terminated

(* History retirement touches no active generation and not the high-water  *)
(* mark.                                                                   *)
LEMMA RetireEffect ==
  ASSUME NEW w \in Writer, LeaseInv, Retire(w)
  PROVE  /\ \A h \in Generation : IsActive(h)' <=> IsActive(h)
         /\ \A h \in Generation : IsActive(h) => owner'[h] = owner[h]
         /\ \E h \in Generation : IsHighest(h) /\ owner'[h] # NoWriter
<1> USE Disassemble, LeaseAssumption DEF Typed, TypeOK
<1>1. PICK g \in todo[w] :
        \/ owner' = owner /\ terminal' = [terminal EXCEPT ![g] = NoWriter]
        \/ terminal' = terminal /\ owner' = [owner EXCEPT ![g] = NoWriter]
  BY DEF Retire
<1>2. /\ g \in Generation /\ g < OwnGeneration(w)
      /\ OwnGeneration(w) \in Generation
      /\ IsHighest(OwnGeneration(w))
  BY DEF Retire, OwnInv, SessionInv, Retiring, Holds, OwnershipProven, IsActive,
         Linked, LinkedSteps
<1>3. PICK top \in Generation : top = OwnGeneration(w)
  BY <1>2
<1>4. \A h \in Generation : h # g => /\ owner'[h] = owner[h]
                                     /\ terminal'[h] = terminal[h]
  BY <1>1, <1>2
<1>5. \A h \in Generation : IsHighest(h)' <=> h = top
  <2>1. /\ owner'[top] # NoWriter
        /\ \A h \in Generation : owner'[h] # NoWriter => h <= top
    BY <1>1, <1>2, <1>3, <1>4 DEF IsHighest
  <2> QED
    BY <1>3, <2>1 DEF IsHighest
<1>6. \A h \in Generation : IsHighest(h) <=> h = top
  BY <1>2, <1>3, HighestUnique
<1>7. owner[top] # NoWriter /\ top # g
  BY <1>2, <1>3 DEF IsHighest
<1> QED
  BY <1>4, <1>5, <1>6, <1>7 DEF IsActive, Terminated

---------------------------------------------------------------------------
(* What a step may never do. *)

(* An active generation is ended by its own session's terminal and by      *)
(* nothing else: a crashed, stopped or slow owner is never taken over.     *)
THEOREM NoTakeoverHolds == Spec => NoTakeover
<1>1. ASSUME LeaseInv, [Next]_vars, NEW g \in Generation,
             IsActive(g), ~IsActive(g)'
      PROVE  terminal'[g] = owner[g] /\ pc[owner[g]] = "terminal"
  <2>1. CASE UNCHANGED <<owner, terminal>>
    BY <1>1, <2>1 DEF IsActive, IsHighest, Terminated
  <2>2. ASSUME NEW w \in Writer, Claim(w) PROVE FALSE
    BY <1>1, <2>2, ClaimEffect
  <2>3. ASSUME NEW w \in Writer, Retire(w) PROVE FALSE
    BY <1>1, <2>3, RetireEffect
  <2>4. ASSUME NEW w \in Writer, Finish(w)
        PROVE  terminal'[g] = owner[g] /\ pc[owner[g]] = "terminal"
    <3>1. g = OwnGeneration(w)
      BY <1>1, <2>4, FinishEffect
    <3> QED
      BY <1>1, <2>4, <3>1, FinishEffect DEF Finish
  <2> QED
    BY <1>1, <2>1, <2>2, <2>3, <2>4, StepKinds
<1>2. LeaseInv /\ [Next]_vars =>
        [\A g \in Generation : IsActive(g) /\ ~IsActive(g)' =>
           /\ terminal'[g] = owner[g]
           /\ pc[owner[g]] = "terminal"]_vars
  BY <1>1
<1> QED
  BY <1>2, LeaseInvariant, PTL DEF Spec, NoTakeover

(* The highest generation on disk never goes down, although history is     *)
(* deleted.                                                                *)
THEOREM HighWaterMonotoneHolds == Spec => HighWaterMonotone
<1>1. ASSUME LeaseInv, [Next]_vars, NEW g \in Generation, owner[g] # NoWriter
      PROVE  \E h \in Generation : h >= g /\ owner'[h] # NoWriter
  <2>0. g >= g
    BY LeaseAssumption
  <2>1. CASE UNCHANGED owner
    BY <1>1, <2>0, <2>1
  <2>2. ASSUME NEW w \in Writer, Claim(w)
        PROVE  \E h \in Generation : h >= g /\ owner'[h] # NoWriter
    BY <1>1, <2>0, <2>2, ClaimEffect
  <2>3. ASSUME NEW w \in Writer, Retire(w)
        PROVE  \E h \in Generation : h >= g /\ owner'[h] # NoWriter
    <3>1. PICK h \in Generation : IsHighest(h) /\ owner'[h] # NoWriter
      BY <1>1, <2>3, RetireEffect
    <3> QED
      BY <1>1, <3>1, LeaseAssumption DEF IsHighest
  <2> QED
    BY <1>1, <2>1, <2>2, <2>3, StepKinds DEF Finish
<1>2. LeaseInv /\ [Next]_vars =>
        [\A g \in Generation : owner[g] # NoWriter =>
           \E h \in Generation : h >= g /\ owner'[h] # NoWriter]_vars
  BY <1>1
<1> QED
  BY <1>2, LeaseInvariant, PTL DEF Spec, HighWaterMonotone

---------------------------------------------------------------------------
(* The refinement. *)

\* Authority is the owner of the active generation, if there is one.
AuthorityNamed ==
  /\ \A g \in Generation : IsActive(g) => Authority = owner[g]
  /\ (\A g \in Generation : ~IsActive(g)) => Authority = NoWriter

(* The refinement mapping is well defined. *)
LEMMA AuthorityIs == TypeOK => AuthorityNamed
<1> SUFFICES ASSUME TypeOK PROVE AuthorityNamed
  OBVIOUS
<1>1. ASSUME NEW g \in Generation, IsActive(g) PROVE Authority = owner[g]
  <2>1. (CHOOSE h \in Generation : IsActive(h)) = g
    BY <1>1, HighestUnique DEF IsActive
  <2> QED
    BY <1>1, <2>1 DEF Authority
<1> QED
  BY <1>1 DEF Authority, AuthorityNamed

(* The ledger implements ExclusiveWriter: a claim above a finished         *)
(* high-water mark grants authority, the active generation's terminal      *)
(* gives it up, a completed ownership proof begins an effect, and every    *)
(* other step changes nothing the abstract specification sees.             *)
THEOREM RefinesExclusiveWriter == Spec => ImplementsExclusiveWriter
<1>1. Init => EW!Init
  <2> SUFFICES ASSUME Init PROVE EW!Init
    OBVIOUS
  <2>1. TypeOK
    BY TypeInit DEF Typed
  <2>2. \A g \in Generation : ~IsActive(g)
    BY LeaseAssumption DEF Init, IsActive, IsHighest
  <2>3. Effecting = {}
    BY DEF Init, Effecting
  <2> QED
    BY <2>1, <2>2, <2>3, AuthorityIs DEF EW!Init, AuthorityNamed
<1>3. TypeOK' => AuthorityNamed'
  BY AuthorityIs, PTL
<1>2. LeaseInv /\ LeaseInv' /\ [Next]_vars
        => [EW!Next]_<<Authority, Effecting>>
  <2> SUFFICES ASSUME LeaseInv, LeaseInv', [Next]_vars
               PROVE  [EW!Next]_<<Authority, Effecting>>
    OBVIOUS
  <2> USE LeaseAssumption
  <2>1. TypeOK /\ TypeOK'
    BY DEF LeaseInv, Typed
  <2>2. /\ \A g \in Generation : IsActive(g) => Authority = owner[g]
        /\ (\A g \in Generation : ~IsActive(g)) => Authority = NoWriter
    BY <2>1, AuthorityIs DEF AuthorityNamed
  <2>3. /\ \A g \in Generation : IsActive(g)' => Authority' = owner'[g]
        /\ (\A g \in Generation : ~IsActive(g)') => Authority' = NoWriter
    BY <1>3, <2>1 DEF AuthorityNamed
  <2>4. ASSUME \A g \in Generation : IsActive(g)' <=> IsActive(g),
               \A g \in Generation : IsActive(g) => owner'[g] = owner[g]
        PROVE  Authority' = Authority
    BY <2>2, <2>3, <2>4
  <2>5. CASE UNCHANGED <<owner, terminal, pc>>
    <3>1. Authority' = Authority
      BY <2>4, <2>5 DEF IsActive, IsHighest, Terminated
    <3>2. Effecting' = Effecting
      BY <2>5 DEF Effecting
    <3> QED
      BY <3>1, <3>2
  <2>6. ASSUME NEW w \in Writer, \A u \in Writer \ {w} : pc'[u] = pc[u],
               UNCHANGED <<owner, terminal>>,
               pc'[w] = "write" => OwnershipProven(w)
        PROVE  [EW!Next]_<<Authority, Effecting>>
    <3>1. Authority' = Authority
      BY <2>4, <2>6 DEF IsActive, IsHighest, Terminated
    <3>2. CASE pc'[w] = "write"
      <4>1. OwnGeneration(w) \in Generation
        BY <2>1, <2>6, <3>2 DEF OwnershipProven, IsActive, IsHighest,
             OwnGeneration, TypeOK
      <4>2. Authority = w
        BY <2>2, <2>6, <3>2, <4>1 DEF OwnershipProven
      <4>3. Effecting' = Effecting \cup {w}
        BY <2>6, <3>2 DEF Effecting
      <4>4. EW!Begin(w)
        BY <3>1, <4>2, <4>3 DEF EW!Begin
      <4> QED
        BY <4>4 DEF EW!Next
    <3>3. CASE pc'[w] # "write" /\ pc[w] = "write"
      <4>1. w \in Effecting /\ Effecting' = Effecting \ {w}
        BY <2>6, <3>3 DEF Effecting
      <4>2. EW!End(w)
        BY <3>1, <4>1 DEF EW!End
      <4> QED
        BY <4>2 DEF EW!Next
    <3>4. CASE pc'[w] # "write" /\ pc[w] # "write"
      <4>1. Effecting' = Effecting
        BY <2>6, <3>4 DEF Effecting
      <4> QED
        BY <3>1, <4>1
    <3> QED
      BY <3>2, <3>3, <3>4
  <2>7. ASSUME NEW w \in Writer, \A u \in Writer \ {w} : pc'[u] = pc[u],
               Claim(w) \/ Finish(w) \/ Retire(w), pc'[w] # "write"
        PROVE  [EW!Next]_<<Authority, Effecting>>
    <3>1. w \notin Effecting /\ Effecting' = Effecting
      BY <2>7 DEF Effecting, Claim, Finish, Retire
    <3>2. CASE Claim(w)
      <4>1. CASE \A g \in Generation : IsActive(g)' <=> IsActive(g)
        BY <2>4, <3>1, <3>2, <4>1, ClaimEffect DEF IsActive, IsHighest
      <4>2. CASE ~\A g \in Generation : IsActive(g)' <=> IsActive(g)
        <5>1. /\ IsActive(OwnGeneration(w))' => Authority' = w
              /\ \A k \in Generation : ~IsActive(k)
          BY <2>3, <3>2, <4>2, ClaimEffect
        <5>2. Authority = NoWriter /\ Authority' = w
          BY <2>2, <2>3, <3>2, <4>2, <5>1, ClaimEffect
        <5>3. EW!Grant(w)
          BY <3>1, <5>2 DEF EW!Grant
        <5> QED
          BY <5>3 DEF EW!Next
      <4> QED
        BY <4>1, <4>2
    <3>3. CASE Finish(w)
      <4>1. CASE \A g \in Generation : IsActive(g)' <=> IsActive(g)
        BY <2>4, <3>1, <3>3, <4>1 DEF Finish
      <4>2. CASE ~\A g \in Generation : IsActive(g)' <=> IsActive(g)
        <5>1. PICK g \in Generation : /\ g = OwnGeneration(w) /\ IsActive(g)
                                      /\ ~IsActive(g)' /\ owner[g] = w
          BY <3>3, <4>2, FinishEffect
        <5>2. \A h \in Generation : ~IsActive(h)'
          BY <2>1, <3>3, <5>1, FinishEffect, HighestUnique DEF IsActive
        <5>3. Authority = w /\ Authority' = NoWriter
          BY <2>2, <2>3, <5>1, <5>2
        <5>4. EW!Relinquish(w)
          BY <3>1, <5>3 DEF EW!Relinquish
        <5> QED
          BY <5>4 DEF EW!Next
      <4> QED
        BY <4>1, <4>2
    <3>4. CASE Retire(w)
      BY <2>4, <3>1, <3>4, RetireEffect
    <3> QED
      BY <2>7, <3>2, <3>3, <3>4
  <2> QED
    BY <2>5, <2>6, <2>7, StepKinds
<1> QED
  BY <1>1, <1>2, LeaseInvariant, PTL DEF Spec, ImplementsExclusiveWriter, EW!Spec
=============================================================================
