--------------------------- MODULE DurableExecution ---------------------------
(***************************************************************************)
(* The contract of a durable local execution journal: an append-only       *)
(* sequence of records about one operation, and what may be appended to    *)
(* it.  The bytes, digests and the predecessor chain of the code make a    *)
(* record unforgeable; here a record is a value and its place in the       *)
(* sequence is its chain.                                                  *)
(*                                                                         *)
(* `by' is the nonce of the attempt a record is about.  `ref' is the nonce *)
(* of the operation that issued the receipt a record refers to: a readback *)
(* receipt is unlike every other, so its issuer stands for it.  `mode' is  *)
(* the kind of a resolution, and of a readback what it found, which the    *)
(* code keeps only as a digest: no guard reads it.  One requirement per    *)
(* operation, as its only caller has it.                                   *)
(***************************************************************************)
EXTENDS Naturals, Sequences, FiniteSets

CONSTANTS MaxRecords,  \* maximumRecords: 16 in the code
          MaxAttempts  \* maximumAttempts: 2 in the code

NoNonce == 0

Intent(n) == [kind |-> "intent", by |-> n, ref |-> NoNonce, mode |-> "none"]
Start(n, admission) == [kind |-> "start", by |-> n, ref |-> admission, mode |-> "none"]
Settlement(n) == [kind |-> "settlement", by |-> n, ref |-> NoNonce, mode |-> "none"]
LostHandle(n) == [kind |-> "lost", by |-> n, ref |-> NoNonce, mode |-> "none"]
Readback(n, issuer, found) == [kind |-> "readback", by |-> n, ref |-> issuer, mode |-> found]
Resolution(n, issuer, how) == [kind |-> "resolution", by |-> n, ref |-> issuer, mode |-> how]

Modes == {"none", "applied", "not-applied", "terminal", "retry"}
Kinds == {"intent", "start", "settlement", "lost", "readback", "resolution"}

Places(j, kind) == {i \in 1..Len(j) : j[i].kind = kind}

\* The place of the attempt that is neither resolved nor followed by another.
Active(j) == {i \in Places(j, "start") : \A k \in Places(j, "resolution") : k < i}

IsActive(j) == Active(j) # {}

\* The records of the given kind of the active attempt.
Noted(j, kind) == {k \in Places(j, kind) : \E i \in Active(j) : i < k}

Targets(j, r) == \E i \in Active(j) : j[i].by = r.by

Settled(j) == \E k \in Places(j, "resolution") : j[k].mode = "terminal"

\* Mutant: an attempt that was read back may be read back again.
AllowsSecondReadback(j, r) ==
  CASE r.kind = "intent" -> j = <<>>
    [] r.kind = "start" -> j # <<>> /\ ~IsActive(j) /\ ~Settled(j)
    [] r.kind = "readback" -> Targets(j, r)
    [] r.kind = "resolution" -> Targets(j, r) /\ \E k \in Noted(j, "readback") : j[k].ref = r.ref
    [] OTHER -> Targets(j, r) /\ Noted(j, r.kind) \cup Noted(j, "readback") = {}

\* observeDurableExecutionJournal accepts record r after the records j.
Allows(j, r) ==
  CASE r.kind = "intent" -> j = <<>>
    [] r.kind = "start" ->
         /\ j # <<>> /\ ~IsActive(j) /\ ~Settled(j)
         /\ \A i \in Places(j, "start") : j[i].by # r.by
         /\ IF Places(j, "resolution") = {}
              THEN r.ref = NoNonce
              ELSE j[Len(j)].kind = "resolution" /\ r.ref = j[Len(j)].ref
    [] r.kind = "settlement" ->
         /\ Targets(j, r)
         /\ Noted(j, "settlement") \cup Noted(j, "lost") \cup Noted(j, "readback") = {}
    [] r.kind = "lost" ->
         Targets(j, r) /\ Noted(j, "lost") \cup Noted(j, "readback") = {}
    [] r.kind = "readback" -> Targets(j, r) /\ Noted(j, "readback") = {}
    [] r.kind = "resolution" ->
         Targets(j, r) /\ \E k \in Noted(j, "readback") : j[k].ref = r.ref

AllowsAll(j, recs) ==
  \A i \in 1..Len(recs) : Allows(j \o SubSeq(recs, 1, i - 1), recs[i])

\* Mutant: no record is reserved for a lost handle.
ReservedWithoutLoss(j) ==
  IF ~IsActive(j) THEN 0
  ELSE (1 - Cardinality(Noted(j, "settlement"))) + (1 - Cardinality(Noted(j, "readback"))) + 1

\* reservedClosureRecords: what the active attempt may still have to write.
Reserved(j) ==
  LET lost == Noted(j, "lost") # {} IN
  IF ~IsActive(j) THEN 0
  ELSE (IF lost THEN 0 ELSE 2 - Cardinality(Noted(j, "settlement")))
       + (1 - Cardinality(Noted(j, "readback"))) + 1

\* assertCumulativeLimits.
WithinLimits(j) ==
  /\ Len(j) + Reserved(j) <= MaxRecords
  /\ Cardinality(Places(j, "start")) <= MaxAttempts
=============================================================================
