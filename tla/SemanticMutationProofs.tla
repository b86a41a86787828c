------------------------ MODULE SemanticMutationProofs ------------------------
(***************************************************************************)
(* Proofs that the journalled transaction on the authoring source loses no *)
(* update, keeps every accepted edit, owns every live one with a record,   *)
(* stops when recovery is required and keeps its history in order, for any *)
(* number of requests, outside edits, interruptions and I/O failures.      *)
(***************************************************************************)
EXTENDS SemanticMutation, FiniteSetTheorems, WellFoundedInduction, TLAPS

\* The steps by what is known of the transaction at hand: it is unfinished, it
\* gets its terminal, or it has no record yet.
Recovering == {"settle", "settleRemove", "digest", "rederive", "revalidate"}
Replacing == {"publish", "write", "lastCheck", "exchange", "cleanup", "finalRead"}
Completing == {"observe", "undo", "commit", "rebuild", "confirm", "restoreRebuild", "required"}
Working == Recovering \cup Replacing \cup Completing
Ordering == {"receipt", "head", "terminal"}
Preparing == {"retained", "derive", "verify", "prepare"}

Occupied == {r \in Request : rejected[r] \/ record[r] # "none"}
Journaled(r) == ~rejected[r] /\ record[r] \in {"prepared", "committed", "required"}

\* The two generations of a transaction differ by its own edit, and a record
\* has both.
Pairs ==
  \A r \in Request :
    /\ artifacts[r] # NoArtifacts =>
         Before(r) \in Bytes /\ r \notin Before(r) /\ Staged(r) = Before(r) \cup {r}
    /\ record[r] # "none" => artifacts[r] # NoArtifacts
    /\ rejected[r] => record[r] # "required"
    /\ record[r] = "verified" => r \in accepted

\* The transaction a session works on is in the state its step needs.
Subject ==
  /\ pc \in Working \cup Ordering \cup Preparing => job.subject \in Request
  /\ pc \in Working => Unfinished(job.subject)
  /\ pc \in Ordering =>
       /\ job.final \in {"verified", "rolledBack", "rejected"}
       /\ \/ Unfinished(job.subject)
          \/ job.final = "rejected" /\ job.subject \notin Occupied
       /\ IF job.final = "verified"
            THEN job.subject \in source \cup clobbered
            ELSE job.subject \in source => job.subject \in accepted
  /\ pc \in Preparing \ {"retained"} => job.subject \notin Occupied
  /\ pc = "verify" => job.read \cap Foreign \subseteq source /\ job.subject \notin job.read
  /\ pc = "prepare" => artifacts[job.subject] # NoArtifacts
  /\ pc = "rederive" => (job.subject \in source => job.subject \in accepted)

\* No other transaction is unfinished or requires recovery while it works.
Alone ==
  /\ pc \in Working \cup Ordering =>
       \A r \in Request : Unfinished(r) \/ Blocked(r) => r = job.subject
  /\ pc \in Preparing \cup {"prune"} => \A r \in Request : ~Unfinished(r) /\ ~Blocked(r)
  /\ pc = "retire" =>
       /\ \A r \in Request : ~Blocked(r) /\ (Unfinished(r) => r \in job.doomed)
       /\ \A r, s \in job.doomed : r = s
  /\ \A r, s \in Request : Unfinished(r) /\ Unfinished(s) => r = s

\* A call makes room before it adds a transaction, so that a prune retires at
\* most one, older than Retention others.
Counted ==
  /\ Cardinality(Occupied) <= Retention + 1
  /\ \/ pc \in Preparing
     \/ pc \in Ordering /\ job.subject \notin Occupied
     => Cardinality(Occupied) <= Retention
  /\ pc = "retire" =>
       /\ Cardinality(Occupied \ job.doomed) <= Retention
       /\ \A d \in job.doomed :
            /\ IsTerminal(d) => Cardinality(Newer(d)) >= Retention
            /\ d \in source => d \in accepted

\* No terminal is newer than the head, and the one being written is newer than
\* all of them.
Ordered ==
  /\ \A r \in Request : sequence[r] <= head
  /\ pc = "head" => job.ticket = head + 1
  /\ pc = "terminal" => job.ticket = head /\ \A r \in Request : sequence[r] < head

\* The source has every outside edit a transaction started from.
Kept ==
  /\ source \cap Foreign \subseteq added
  /\ \A r \in Request : artifacts[r] # NoArtifacts => Before(r) \cap Foreign \subseteq source

\* What the replacement of the source knows of it and of its residue.
Replacement ==
  /\ pc = "settleRemove" => residue[job.subject] \in {Before(job.subject), Staged(job.subject)}
  /\ pc \in {"lastCheck", "exchange"} => residue[job.subject] = Desired
  /\ pc = "exchange" =>
       /\ source \cap Request \subseteq Expected
       /\ \A r \in Request : artifacts[r] # NoArtifacts =>
            Before(r) \cap Foreign \subseteq Before(job.subject)
       /\ \A r \in (Expected \cap Request) \ accepted : Journaled(r)

\* A residue with an outside edit that its transaction did not start from
\* stops it before the residue is removed.
Clean(r) == residue[r] \cap Foreign \subseteq Before(r)
Displaced ==
  \A r \in Request : ~Clean(r) =>
    /\ Journaled(r)
    /\ \/ pc \in {"idle", "inspect"}
       \/ /\ job.subject = r
          /\ \/ pc \in {"cleanup", "observe", "undo", "settle", "required"}
             \/ pc = "publish" /\ job.dir = "restore"
    /\ pc \in {"cleanup", "observe"} /\ job.dir = "publish" => source # Before(r)
    /\ pc = "observe" => job.dir = "publish"

MInv ==
  /\ MTypeOK /\ Pairs /\ Subject /\ Alone /\ Counted /\ Ordered /\ Kept /\ Replacement
  /\ Displaced /\ EditsSurvive /\ AcceptedIsLive /\ LiveEditIsJournaled

---------------------------------------------------------------------------
(* The job of a session. *)

(* A changed field leaves the others as they are. *)
LEMMA Fields ==
  ASSUME NEW j \in Job
  PROVE  /\ \A v : /\ [j EXCEPT !.final = v].final = v
                   /\ [j EXCEPT !.final = v].subject = j.subject
                   /\ [j EXCEPT !.final = v].dir = j.dir
                   /\ [j EXCEPT !.final = v].phase = j.phase
         /\ \A v : /\ [j EXCEPT !.dir = v].dir = v
                   /\ [j EXCEPT !.dir = v].subject = j.subject
                   /\ [j EXCEPT !.dir = v].phase = j.phase
         /\ \A v : [j EXCEPT !.subject = v].subject = v
         /\ \A v : /\ [j EXCEPT !.ticket = v].ticket = v
                   /\ [j EXCEPT !.ticket = v].subject = j.subject
                   /\ [j EXCEPT !.ticket = v].final = j.final
         /\ \A v : /\ [j EXCEPT !.read = v].read = v
                   /\ [j EXCEPT !.read = v].subject = j.subject
         /\ \A v : [j EXCEPT !.doomed = v].doomed = v
  BY DEF Job

(* No job, and the job of a request, are jobs. *)
LEMMA NoJobType ==
  /\ NoJob \in Job
  /\ \A r \in Request :
       /\ [NoJob EXCEPT !.asked = r] \in Job
       /\ [NoJob EXCEPT !.asked = r, !.subject = r, !.phase = "apply"] \in Job
       /\ [NoJob EXCEPT !.asked = r, !.subject = r, !.phase = "apply"].subject = r
<1>1. {} \in Bytes /\ 0 \in 0..MaxSequence
  BY MutationAssumption DEF Bytes
<1> QED
  BY <1>1 DEF Job, NoJob

(* A field takes another value of its type. *)
LEMMA FieldTypes ==
  ASSUME NEW j \in Job
  PROVE  /\ \A v \in {"verified", "rolledBack", "rejected"} : [j EXCEPT !.final = v] \in Job
         /\ [j EXCEPT !.dir = "restore"] \in Job
         /\ \A v \in Request : [j EXCEPT !.subject = v] \in Job
         /\ \A v \in 0..MaxSequence : [j EXCEPT !.ticket = v] \in Job
         /\ \A v \in Bytes : [j EXCEPT !.read = v] \in Job
         /\ \A v \in SUBSET Request : [j EXCEPT !.doomed = v] \in Job
  BY DEF Job

---------------------------------------------------------------------------
(* The steps by what they change. *)

\* Neither the source nor the journal.
Still ==
  \/ (\E r \in Request : BeginApply(r)) \/ BeginRecover
  \/ InspectAuthority \/ SettleResidue \/ ObserveLiveDigest \/ Rederive \/ Revalidate
  \/ FinalRead \/ ObserveAfterFailure \/ RebuildLive \/ ConfirmCommitted \/ RebuildRestored
  \/ ReserveSequence \/ WriteSequenceHead \/ PruneCensus \/ PruneDone \/ ReadRetained
  \/ Derive \/ Interrupt

\* At most a residue.
Touches ==
  \/ RemoveResidue \/ CreateCandidate \/ WriteCandidate \/ LastCheck \/ CleanupPreimage
  \/ IOFailure

\* A record that is not a terminal.
Notes == RecordThenUndo \/ RecordCommitted \/ MarkRecoveryRequired \/ RecordPrepared

Edits == \E f \in Foreign : \E kept \in SUBSET (source \cap Request) : EditSource(f, kept)

(* Every step is one of these or an exchange, a terminal, a deletion or the   *)
(* writing of artifacts.                                                      *)
LEMMA Kinds ==
  ASSUME MNext
  PROVE  Still \/ Touches \/ Notes \/ Edits \/ Exchange \/ WriteTerminal \/ RetireEntry \/ Verify
  BY DEF MNext, Progress, Recovery, Replace, Completion, Preparation, Still, Touches, Notes, Edits

(* What a still step leaves alone. *)
LEMMA StillData ==
  ASSUME Still
  PROVE  UNCHANGED <<source, record, rejected, sequence, artifacts, residue, added, clobbered,
                     finished, accepted>>
  BY DEF Still, BeginApply, BeginRecover, InspectAuthority, SettleResidue, ObserveLiveDigest,
         Rederive, Revalidate, FinalRead, ObserveAfterFailure, RebuildLive, ConfirmCommitted,
         RebuildRestored, ReserveSequence, WriteSequenceHead, PruneCensus, PruneDone,
         ReadRetained, Derive, Interrupt, journal, order, bounds

(* What a step that touches a residue leaves alone. *)
LEMMA TouchesData ==
  ASSUME Touches
  PROVE  UNCHANGED <<source, record, rejected, sequence, artifacts, receipts, head, added,
                     clobbered, finished, accepted>>
  BY DEF Touches, RemoveResidue, CreateCandidate, WriteCandidate, LastCheck, CleanupPreimage,
         IOFailure, journal, order, bounds

(* The job stays a job. *)
LEMMA JobStep ==
  ASSUME MInv, MNext
  PROVE  job' \in Job /\ pc' \in MStep
<1>1. job \in Job /\ pc \in MStep /\ source \in Bytes /\ head \in 0..MaxSequence
  BY DEF MInv, MTypeOK
<1>2. NoJob \in Job /\ \A j \in Job : j.asked \in Request \cup {NoRequest}
  BY NoJobType DEF Job
<1> USE <1>1, <1>2, FieldTypes DEF Go, GoFor, End, MStep
<1>3. CASE \/ InspectAuthority \/ SettleResidue \/ RemoveResidue \/ ObserveLiveDigest
           \/ Rederive \/ Revalidate \/ BeginRecover
  BY <1>3 DEF InspectAuthority, SettleResidue, RemoveResidue, ObserveLiveDigest,
     Rederive, Revalidate, BeginRecover
<1>4. CASE \/ CreateCandidate \/ WriteCandidate \/ LastCheck \/ Exchange \/ CleanupPreimage
           \/ FinalRead \/ ObserveAfterFailure \/ RecordThenUndo
  BY <1>4 DEF CreateCandidate, WriteCandidate, LastCheck, Exchange, CleanupPreimage, FinalRead,
     ObserveAfterFailure, RecordThenUndo, ReplaceFailed
<1>5. CASE \/ RecordCommitted \/ RebuildLive \/ ConfirmCommitted \/ RebuildRestored
           \/ MarkRecoveryRequired \/ WriteSequenceHead \/ WriteTerminal \/ Interrupt
  BY <1>5 DEF RecordCommitted, RebuildLive, ConfirmCommitted, RebuildRestored,
     MarkRecoveryRequired, WriteSequenceHead, WriteTerminal, Interrupt
<1>6. CASE ReserveSequence
  <2>1. head + 1 \in 0..MaxSequence \/ head + 1 > MaxSequence
    BY MutationAssumption
  <2> QED
    BY <1>6, <2>1 DEF ReserveSequence, TerminalFailed
<1>7. CASE PruneCensus \/ RetireEntry
  <2>1. job.doomed \in SUBSET Request
    BY DEF Job
  <2>2. {r \in Request : Prunable(r)} \in SUBSET Request
    OBVIOUS
  <2>3. CASE PruneCensus
    BY <2>2, <2>3 DEF PruneCensus
  <2>4. CASE RetireEntry
    <3>1. PICK d \in job.doomed : job' = job \/ job' = [job EXCEPT !.doomed = job.doomed \ {d}]
      BY <2>4 DEF RetireEntry
    <3>2. job.doomed \ {d} \in SUBSET Request
      BY <2>1
    <3>3. pc' = "retire"
      BY <2>4 DEF RetireEntry
    <3> QED
      BY <3>1, <3>2, <3>3
  <2> QED
    BY <1>7, <2>3, <2>4
<1>8. CASE PruneDone
  BY <1>8, NoJobType DEF PruneDone
<1>9. CASE ReadRetained \/ Derive \/ Verify \/ RecordPrepared
  BY <1>9 DEF ReadRetained, Derive, Verify, RecordPrepared
<1>10. CASE \E r \in Request : BeginApply(r)
  BY <1>10, NoJobType DEF BeginApply
<1>11. CASE IOFailure
  BY <1>11 DEF IOFailure, FailsToRequired, FailsToRestore, FailsToReplace, FailsToTerminal,
     ReplaceFailed, TerminalFailed
<1>12. CASE Edits
  BY <1>12 DEF Edits, EditSource
<1> QED
  BY <1>3, <1>4, <1>5, <1>6, <1>7, <1>8, <1>9, <1>10, <1>11, <1>12
     DEF MNext, Progress, Recovery, Replace, Completion, Preparation, Edits

---------------------------------------------------------------------------
(* The flow of a session. *)

(* How a session comes to work on a transaction. *)
LEMMA FlowWork ==
  ASSUME MInv, MNext, ~Edits, pc' \in Working
  PROVE  \/ /\ pc = "inspect" /\ pc' = "settle"
            /\ job'.subject \in Request /\ Unfinished(job'.subject)
            /\ \A r \in Request : ~Blocked(r)
         \/ pc \in Working \ {"required"} /\ job'.subject = job.subject
         \/ pc \in Ordering /\ pc' = "required" /\ job.final # "rejected" /\ job' = job
         \/ pc = "prepare" /\ pc' = "publish" /\ job' = job /\ RecordPrepared
<1>1. job \in Job
  BY DEF MInv, MTypeOK
<1> USE DEF Go, GoFor, End, Working, Recovering, Replacing, Completing, Ordering
<1>2. CASE InspectAuthority
  <2>1. /\ pc = "inspect" /\ pc' = "settle" /\ \A r \in Request : ~Blocked(r)
        /\ \E r \in {q \in Request : Unfinished(q)} : job' = [job EXCEPT !.subject = r]
    BY <1>2 DEF InspectAuthority
  <2>2. PICK r \in Request : Unfinished(r) /\ job' = [job EXCEPT !.subject = r]
    BY <2>1
  <2>3. job'.subject = r
    BY <1>1, <2>2 DEF Job
  <2> QED
    BY <2>1, <2>2, <2>3
<1>3. CASE \/ SettleResidue \/ RemoveResidue \/ ObserveLiveDigest \/ CreateCandidate
           \/ WriteCandidate \/ LastCheck \/ Exchange \/ CleanupPreimage \/ FinalRead
           \/ RecordCommitted
  BY <1>3 DEF SettleResidue, RemoveResidue, ObserveLiveDigest, CreateCandidate,
     WriteCandidate, LastCheck, Exchange, CleanupPreimage, FinalRead, RecordCommitted, ReplaceFailed
<1>4. CASE \/ Rederive \/ Revalidate \/ ObserveAfterFailure \/ RecordThenUndo
           \/ RebuildLive \/ ConfirmCommitted \/ RebuildRestored
  <2>1. /\ pc \in Working \ {"required"}
        /\ job' = job \/ job' = [job EXCEPT !.dir = "restore"]
    BY <1>4 DEF Rederive, Revalidate, ObserveAfterFailure, RecordThenUndo,
       RebuildLive, ConfirmCommitted, RebuildRestored
  <2> QED
    BY <1>1, <2>1 DEF Job
<1>5. CASE \/ ReserveSequence \/ WriteSequenceHead \/ WriteTerminal
  BY <1>5 DEF ReserveSequence, TerminalFailed, WriteSequenceHead, WriteTerminal
<1>6. CASE \/ (\E r \in Request : BeginApply(r)) \/ BeginRecover \/ MarkRecoveryRequired
           \/ Interrupt \/ PruneCensus \/ RetireEntry \/ PruneDone
  BY <1>6 DEF BeginApply, BeginRecover, MarkRecoveryRequired, Interrupt, PruneCensus,
     RetireEntry, PruneDone
<1>7. CASE ReadRetained \/ Derive \/ Verify \/ RecordPrepared
  BY <1>7 DEF ReadRetained, Derive, Verify, RecordPrepared
<1>8. CASE IOFailure
  <2>1. CASE FailsToRestore
    <3>1. pc \in Working \ {"required"} /\ job' = [job EXCEPT !.dir = "restore"]
      BY <2>1 DEF FailsToRestore
    <3> QED
      BY <1>1, <3>1 DEF Job
  <2> QED
    BY <1>8, <2>1 DEF IOFailure, FailsToRequired, FailsToReplace, FailsToTerminal,
       ReplaceFailed, TerminalFailed
<1> QED
  BY <1>2, <1>3, <1>4, <1>5, <1>6, <1>7, <1>8
     DEF MNext, Progress, Recovery, Replace, Completion, Preparation, Edits

(* How a session comes to write a terminal. *)
LEMMA FlowOrder ==
  ASSUME MInv, MNext, ~Edits, pc' \in Ordering
  PROVE  /\ job'.subject = job.subject
         /\ \/ pc \in Ordering /\ job'.final = job.final
            \/ pc = "confirm" /\ job'.final = "verified" /\ source = Staged(job.subject)
            \/ /\ pc \in {"revalidate", "restoreRebuild"} /\ job'.final = "rolledBack"
               /\ source = Before(job.subject)
            \/ pc = "observe" /\ job'.final = "rejected" /\ source = Before(job.subject)
            \/ pc \in {"rederive", "derive", "verify"} /\ job'.final = "rejected"
         /\ UNCHANGED <<source, record, rejected, sequence, artifacts, residue, clobbered,
                        accepted>>
         /\ pc' = "head" => job'.ticket = head + 1 /\ head' = head
         /\ pc' = "terminal" => pc = "head" /\ job'.ticket = job.ticket /\ head' = job.ticket
<1>1. job \in Job
  BY DEF MInv, MTypeOK
<1> USE DEF Go, GoFor, End, Ordering, journal, order, bounds
<1>2. CASE Rederive \/ Revalidate \/ ObserveAfterFailure \/ ConfirmCommitted \/ RebuildRestored
  <2>1. PICK v \in {"verified", "rolledBack", "rejected"} : job' = [job EXCEPT !.final = v]
    BY <1>2 DEF Rederive, Revalidate, ObserveAfterFailure, ConfirmCommitted, RebuildRestored
  <2>2. job'.subject = job.subject /\ job'.final = v
    BY <1>1, <2>1 DEF Job
  <2>3. pc \in {"rederive", "revalidate", "observe", "confirm", "restoreRebuild"} /\ pc' = "receipt"
    BY <1>2 DEF Rederive, Revalidate, ObserveAfterFailure, ConfirmCommitted, RebuildRestored
  <2>4. \A w : job' = [job EXCEPT !.final = w] => job'.final = w
    BY <1>1 DEF Job
  <2>5. /\ pc = "rederive" => job'.final = "rejected"
        /\ pc \in {"revalidate", "restoreRebuild"} =>
             job'.final = "rolledBack" /\ source = Before(job.subject)
        /\ pc = "observe" => job'.final = "rejected" /\ source = Before(job.subject)
        /\ pc = "confirm" => job'.final = "verified" /\ source = Staged(job.subject)
    BY <1>2, <2>4 DEF Rederive, Revalidate, ObserveAfterFailure, ConfirmCommitted, RebuildRestored
  <2>6. UNCHANGED <<source, record, rejected, sequence, artifacts, residue, clobbered, accepted>>
    BY <1>2 DEF Rederive, Revalidate, ObserveAfterFailure, ConfirmCommitted, RebuildRestored
  <2> QED
    BY <2>2, <2>3, <2>5, <2>6
<1>3. CASE Derive \/ Verify
  <2>1. pc \in {"derive", "verify"} /\ pc' = "receipt" /\ job' = [job EXCEPT !.final = "rejected"]
    BY <1>3 DEF Derive, Verify
  <2>2. job'.subject = job.subject /\ job'.final = "rejected"
    BY <1>1, <2>1 DEF Job
  <2>3. UNCHANGED <<source, record, rejected, sequence, artifacts, residue, clobbered, accepted>>
    BY <1>3 DEF Derive, Verify
  <2> QED
    BY <2>1, <2>2, <2>3
<1>4. CASE ReserveSequence
  <2>1. /\ pc = "receipt" /\ pc' \in {"receipt", "head"}
        /\ pc' = "receipt" => job' = job
        /\ pc' = "head" => job' = [job EXCEPT !.ticket = head + 1] /\ head' = head
    BY <1>4 DEF ReserveSequence, TerminalFailed
  <2>2. /\ job'.subject = job.subject /\ job'.final = job.final
        /\ pc' = "head" => job'.ticket = head + 1
    BY <1>1, <2>1 DEF Job
  <2>3. UNCHANGED <<source, record, rejected, sequence, artifacts, residue, clobbered, accepted>>
    BY <1>4 DEF ReserveSequence
  <2> QED
    BY <2>1, <2>2, <2>3
<1>5. CASE WriteSequenceHead
  BY <1>5 DEF WriteSequenceHead
<1>6. CASE \/ InspectAuthority \/ SettleResidue \/ RemoveResidue \/ ObserveLiveDigest
           \/ CreateCandidate \/ WriteCandidate \/ LastCheck \/ Exchange \/ CleanupPreimage
           \/ FinalRead
  BY <1>6 DEF InspectAuthority, SettleResidue, RemoveResidue, ObserveLiveDigest, CreateCandidate,
     WriteCandidate, LastCheck, Exchange, CleanupPreimage, FinalRead, ReplaceFailed
<1>7. CASE \/ RecordThenUndo \/ RecordCommitted \/ RebuildLive \/ MarkRecoveryRequired
           \/ WriteTerminal \/ PruneCensus \/ RetireEntry \/ PruneDone \/ ReadRetained
           \/ RecordPrepared
  BY <1>7 DEF RecordThenUndo, RecordCommitted, RebuildLive, MarkRecoveryRequired,
     WriteTerminal, PruneCensus, RetireEntry, PruneDone, ReadRetained, RecordPrepared
<1>8. CASE (\E r \in Request : BeginApply(r)) \/ BeginRecover \/ Interrupt \/ IOFailure
  BY <1>8 DEF BeginApply, BeginRecover, Interrupt, IOFailure, FailsToRequired, FailsToRestore,
     FailsToReplace, FailsToTerminal, ReplaceFailed, TerminalFailed
<1> QED
  BY <1>2, <1>3, <1>4, <1>5, <1>6, <1>7, <1>8
     DEF MNext, Progress, Recovery, Replace, Completion, Preparation, Edits

(* How a session comes to prune and to prepare its request. *)
LEMMA FlowPrepare ==
  ASSUME MInv, MNext, ~Edits, pc' \in Preparing \cup {"prune", "retire"}
  PROVE  \/ /\ pc = "inspect" /\ pc' = "prune"
            /\ \A r \in Request : ~Unfinished(r) /\ ~Blocked(r)
         \/ pc = "terminal" /\ pc' = "prune" /\ WriteTerminal
         \/ /\ pc = "prune" /\ pc' = "retire" /\ Still
            /\ job'.doomed = {r \in Request : Prunable(r)}
            /\ \A r, s \in Request : IsTerminal(r) /\ IsTerminal(s) /\ sequence[r] = sequence[s]
                 => r = s
         \/ pc = "retire" /\ pc' = "retire" /\ RetireEntry
         \/ /\ pc = "retire" /\ pc' = "retained" /\ Still
            /\ job.doomed = {} /\ job'.subject \in Request
         \/ /\ pc = "retained" /\ pc' = "derive" /\ job' = job /\ Still
            /\ job.subject \in Request => job.subject \notin Occupied
         \/ /\ pc = "derive" /\ pc' = "verify" /\ Still
            /\ job'.subject = job.subject /\ job'.read = source /\ job.subject \notin source
         \/ pc = "verify" /\ pc' = "prepare" /\ job' = job /\ Verify
<1>1. job \in Job
  BY DEF MInv, MTypeOK
<1> USE DEF Go, GoFor, End, Preparing
<1>2. CASE PruneCensus
  <2>1. /\ pc = "prune" /\ pc' = "retire"
        /\ job' = [job EXCEPT !.doomed = {r \in Request : Prunable(r)}]
        /\ \A r, s \in Request : IsTerminal(r) /\ IsTerminal(s) /\ sequence[r] = sequence[s] => r = s
    BY <1>2 DEF PruneCensus
  <2>2. job'.doomed = {r \in Request : Prunable(r)}
    BY <1>1, <2>1 DEF Job
  <2> QED
    BY <1>2, <2>1, <2>2 DEF Still
<1>3. CASE PruneDone
  <2>1. /\ pc = "retire" /\ pc' = "retained" /\ job.doomed = {} /\ job.asked # NoRequest
        /\ job' = [NoJob EXCEPT !.asked = job.asked, !.subject = job.asked, !.phase = "apply"]
    BY <1>3 DEF PruneDone
  <2>2. job.asked \in Request
    BY <1>1, <2>1 DEF Job
  <2> QED
    BY <1>3, <2>1, <2>2, NoJobType DEF Still
<1>4. CASE InspectAuthority
  <2>1. /\ pc = "inspect" /\ pc' = "prune" /\ {r \in Request : Unfinished(r)} = {}
        /\ \A r \in Request : ~Blocked(r)
    BY <1>4 DEF InspectAuthority
  <2> QED
    BY <2>1
<1>5. CASE WriteTerminal \/ RetireEntry
  BY <1>5 DEF WriteTerminal, RetireEntry
<1>6. CASE ReadRetained
  <2>1. /\ pc = "retained" /\ pc' = "derive" /\ job' = job
        /\ ~IsTerminal(job.subject) /\ record[job.subject] = "none"
    BY <1>6 DEF ReadRetained
  <2> QED
    BY <1>6, <2>1 DEF Still, IsTerminal, Occupied
<1>7. CASE Derive
  <2>1. /\ pc = "derive" /\ pc' = "verify" /\ job' = [job EXCEPT !.read = source]
        /\ job.subject \notin source
    BY <1>7 DEF Derive
  <2>2. job'.subject = job.subject /\ job'.read = source
    BY <1>1, <2>1 DEF Job
  <2> QED
    BY <1>7, <2>1, <2>2 DEF Still
<1>8. CASE Verify
  BY <1>8 DEF Verify
<1>9. CASE \/ SettleResidue \/ RemoveResidue \/ ObserveLiveDigest
           \/ CreateCandidate \/ WriteCandidate \/ LastCheck \/ Exchange \/ CleanupPreimage
           \/ FinalRead \/ Rederive \/ Revalidate \/ ObserveAfterFailure
  BY <1>9 DEF SettleResidue, RemoveResidue, ObserveLiveDigest, CreateCandidate,
     WriteCandidate, LastCheck, Exchange, CleanupPreimage, FinalRead, ReplaceFailed, Rederive,
     Revalidate, ObserveAfterFailure
<1>10. CASE \/ RecordThenUndo \/ RecordCommitted \/ RebuildLive \/ MarkRecoveryRequired
            \/ ConfirmCommitted \/ RebuildRestored \/ ReserveSequence \/ WriteSequenceHead
            \/ RecordPrepared
  BY <1>10 DEF RecordThenUndo, RecordCommitted, RebuildLive, MarkRecoveryRequired,
     ConfirmCommitted, RebuildRestored, ReserveSequence, TerminalFailed, WriteSequenceHead,
     RecordPrepared
<1>11. CASE (\E r \in Request : BeginApply(r)) \/ BeginRecover \/ Interrupt \/ IOFailure
  BY <1>11 DEF BeginApply, BeginRecover, Interrupt, IOFailure, FailsToRequired, FailsToRestore,
     FailsToReplace, FailsToTerminal, ReplaceFailed, TerminalFailed
<1> QED
  BY <1>2, <1>3, <1>4, <1>5, <1>6, <1>7, <1>8, <1>9, <1>10, <1>11
     DEF MNext, Progress, Recovery, Replace, Completion, Preparation, Edits

---------------------------------------------------------------------------
(* What a step changes. *)

(* The generations of the transaction at hand. *)
LEMMA AtHand ==
  ASSUME MInv, pc \in Working
  PROVE  /\ job.subject \in Request /\ Unfinished(job.subject)
         /\ artifacts[job.subject] # NoArtifacts
         /\ Before(job.subject) \in Bytes /\ Staged(job.subject) \in Bytes
         /\ Expected \in Bytes /\ Desired \in Bytes
         /\ job.subject \notin Before(job.subject)
         /\ Staged(job.subject) = Before(job.subject) \cup {job.subject}
         /\ job.dir \in {"publish", "restore"}
         /\ \A f \in Foreign : /\ f \in Staged(job.subject) <=> f \in Before(job.subject)
                               /\ f \in Expected <=> f \in Before(job.subject)
                               /\ f \in Desired <=> f \in Before(job.subject)
<1>1. job.subject \in Request /\ Unfinished(job.subject) /\ job \in Job
  BY DEF MInv, Subject, MTypeOK
<1>2. artifacts[job.subject] # NoArtifacts
  BY <1>1 DEF MInv, Pairs, Unfinished
<1>3. /\ Before(job.subject) \in Bytes /\ job.subject \notin Before(job.subject)
      /\ Staged(job.subject) = Before(job.subject) \cup {job.subject}
  BY <1>1, <1>2 DEF MInv, Pairs
<1>4. Staged(job.subject) \in Bytes
  BY <1>1, <1>3 DEF Bytes
<1>5. job.dir \in {"publish", "restore"}
  BY <1>1 DEF Job
<1>6. \A f \in Foreign : f # job.subject
  BY <1>1, MutationAssumption
<1> QED
  BY <1>1, <1>2, <1>3, <1>4, <1>5, <1>6 DEF Expected, Desired

(* How a residue changes, the exchange and the retirement apart. *)
LEMMA ResidueStep ==
  ASSUME MInv, Touches
  PROVE  \/ residue' = residue
         \/ /\ residue' = [residue EXCEPT ![job.subject] = NoBytes]
            /\ pc \in {"settleRemove", "write", "lastCheck", "exchange", "cleanup"}
            /\ pc = "cleanup" => residue[job.subject] = Expected
         \/ /\ residue' = [residue EXCEPT ![job.subject] = Torn]
            /\ pc = "publish" /\ pc' = "write" /\ residue[job.subject] = NoBytes
         \/ /\ residue' = [residue EXCEPT ![job.subject] = Desired]
            /\ pc = "write" /\ pc' = "lastCheck" /\ job' = job
<1>1. CASE RemoveResidue
  BY <1>1 DEF RemoveResidue
<1>2. CASE CreateCandidate
  BY <1>2 DEF CreateCandidate, Go
<1>3. CASE WriteCandidate
  BY <1>3 DEF WriteCandidate, Go
<1>4. CASE LastCheck
  BY <1>4 DEF LastCheck
<1>5. CASE CleanupPreimage
  BY <1>5 DEF CleanupPreimage
<1>6. CASE IOFailure
  BY <1>6 DEF IOFailure, FailsToRequired, FailsToRestore, FailsToReplace, FailsToTerminal
<1> QED
  BY <1>1, <1>2, <1>3, <1>4, <1>5, <1>6 DEF Touches

(* How a record that is not a terminal is written. *)
LEMMA NotesStep ==
  ASSUME MInv, Notes
  PROVE  /\ job.subject \in Request /\ ~rejected[job.subject]
         /\ artifacts[job.subject] # NoArtifacts
         /\ \/ Unfinished(job.subject) /\ pc \in Working
            \/ pc = "prepare" /\ job.subject \notin Occupied /\ pc' = "publish"
         /\ record'[job.subject] \in {"prepared", "committed", "required"}
         /\ record'[job.subject] = "required" => pc' = "idle"
         /\ \A r \in Request \ {job.subject} : record'[r] = record[r]
         /\ record' \in [Request -> State]
         /\ UNCHANGED <<source, rejected, sequence, artifacts, residue, receipts, head, added,
                        clobbered, finished, accepted>>
<1>1. record \in [Request -> State]
  BY DEF MInv, MTypeOK
<1>2. /\ \E x \in {"prepared", "committed", "required"} :
           /\ record' = [record EXCEPT ![job.subject] = x]
           /\ x = "required" => pc' = "idle"
      /\ pc \in Working \/ (pc = "prepare" /\ pc' = "publish")
  BY DEF Notes, RecordThenUndo, RecordCommitted, MarkRecoveryRequired, RecordPrepared, Working,
         Completing, Go, GoFor, End
<1>3. UNCHANGED <<source, rejected, sequence, artifacts, residue, receipts, head, added, clobbered,
                  finished, accepted>>
  BY DEF Notes, RecordThenUndo, RecordCommitted, MarkRecoveryRequired, RecordPrepared, order, bounds
<1>4. /\ job.subject \in Request /\ ~rejected[job.subject] /\ artifacts[job.subject] # NoArtifacts
      /\ \/ Unfinished(job.subject) /\ pc \in Working
         \/ pc = "prepare" /\ job.subject \notin Occupied /\ pc' = "publish"
  <2>1. CASE pc \in Working
    BY <2>1, AtHand DEF Unfinished
  <2>2. CASE pc = "prepare" /\ pc' = "publish"
    BY <2>2 DEF MInv, Subject, Preparing, Occupied
  <2> QED
    BY <1>2, <2>1, <2>2
<1>5. PICK x \in {"prepared", "committed", "required"} :
        record' = [record EXCEPT ![job.subject] = x] /\ (x = "required" => pc' = "idle")
  BY <1>2
<1>6. x \in State
  BY DEF State
<1> QED
  BY <1>1, <1>3, <1>4, <1>5, <1>6

(* How a terminal is written. *)
LEMMA TerminalStep ==
  ASSUME MInv, WriteTerminal
  PROVE  /\ pc = "terminal" /\ pc' = "prune"
         /\ job.subject \in Request /\ job.final \in {"verified", "rolledBack", "rejected"}
         /\ ~rejected[job.subject] /\ record[job.subject] \in {"none", "prepared", "committed"}
         /\ record[job.subject] = "none" => job.final = "rejected"
         /\ sequence'[job.subject] = job.ticket
         /\ job.final = "rejected" => rejected'[job.subject] /\ record' = record
         /\ job.final # "rejected" => record'[job.subject] = job.final /\ rejected' = rejected
         /\ \A r \in Request \ {job.subject} :
              rejected'[r] = rejected[r] /\ record'[r] = record[r] /\ sequence'[r] = sequence[r]
         /\ record' \in [Request -> State] /\ rejected' \in [Request -> BOOLEAN]
         /\ sequence' \in [Request -> 0..MaxSequence]
         /\ accepted' = IF job.final = "verified" THEN accepted \cup {job.subject} ELSE accepted
         /\ finished' = finished \cup {job.subject}
         /\ UNCHANGED <<source, artifacts, residue, receipts, head, added, clobbered>>
<1>1. /\ record \in [Request -> State] /\ rejected \in [Request -> BOOLEAN]
      /\ sequence \in [Request -> 0..MaxSequence] /\ job \in Job
  BY DEF MInv, MTypeOK
<1>2. pc = "terminal" /\ pc' = "prune"
  BY DEF WriteTerminal, Go
<1>3. /\ job.subject \in Request /\ job.final \in {"verified", "rolledBack", "rejected"}
      /\ Unfinished(job.subject) \/ (job.final = "rejected" /\ job.subject \notin Occupied)
  BY <1>2 DEF MInv, Subject, Ordering
<1>4. /\ ~rejected[job.subject] /\ record[job.subject] \in {"none", "prepared", "committed"}
      /\ record[job.subject] = "none" => job.final = "rejected"
  BY <1>3 DEF Unfinished, Occupied
<1>5. job.ticket \in 0..MaxSequence
  BY <1>1 DEF Job
<1>6. /\ sequence' = [sequence EXCEPT ![job.subject] = job.ticket]
      /\ job.final = "rejected" =>
           rejected' = [rejected EXCEPT ![job.subject] = TRUE] /\ record' = record
      /\ job.final # "rejected" =>
           record' = [record EXCEPT ![job.subject] = job.final] /\ rejected' = rejected
      /\ accepted' = IF job.final = "verified" THEN accepted \cup {job.subject} ELSE accepted
      /\ finished' = finished \cup {job.subject}
      /\ UNCHANGED <<source, artifacts, residue, receipts, head, added, clobbered>>
  BY DEF WriteTerminal, order
<1>7. /\ sequence' \in [Request -> 0..MaxSequence] /\ sequence'[job.subject] = job.ticket
      /\ \A r \in Request \ {job.subject} : sequence'[r] = sequence[r]
  BY <1>1, <1>3, <1>5, <1>6
<1>8. CASE job.final = "rejected"
  BY <1>1, <1>2, <1>3, <1>4, <1>6, <1>7, <1>8
<1>9. CASE job.final # "rejected"
  BY <1>1, <1>2, <1>3, <1>4, <1>6, <1>7, <1>9 DEF State
<1> QED
  BY <1>8, <1>9

\* The newest generation of d is deleted, or its root.
Deletes(d) ==
  /\ \A r \in Request \ {d} :
       /\ record'[r] = record[r] /\ rejected'[r] = rejected[r] /\ sequence'[r] = sequence[r]
       /\ artifacts'[r] = artifacts[r] /\ residue'[r] = residue[r]
  /\ \/ /\ record[d] # "none" /\ record'[d] = Earlier(record[d])
        /\ sequence'[d] = IF rejected[d] THEN sequence[d] ELSE 0
        /\ UNCHANGED <<rejected, artifacts, residue, job>>
     \/ /\ record[d] = "none" /\ record'[d] = "none" /\ rejected'[d] = FALSE /\ sequence'[d] = 0
        /\ artifacts'[d] = NoArtifacts /\ residue'[d] = NoBytes
        /\ job'.doomed = job.doomed \ {d}

(* How a transaction is deleted. *)
LEMMA RetireStep ==
  ASSUME MInv, RetireEntry
  PROVE  /\ pc = "retire" /\ pc' = "retire"
         /\ \E d \in job.doomed : d \in Request /\ Deletes(d)
         /\ record' \in [Request -> State] /\ rejected' \in [Request -> BOOLEAN]
         /\ sequence' \in [Request -> 0..MaxSequence]
         /\ artifacts' \in [Request -> Artifacts \cup {NoArtifacts}]
         /\ residue' \in [Request -> Bytes \cup {NoBytes, Torn}]
         /\ finished' \subseteq finished
         /\ UNCHANGED <<source, receipts, head, added, clobbered, accepted>>
<1>1. /\ record \in [Request -> State] /\ rejected \in [Request -> BOOLEAN]
      /\ sequence \in [Request -> 0..MaxSequence] /\ job \in Job
      /\ artifacts \in [Request -> Artifacts \cup {NoArtifacts}]
      /\ residue \in [Request -> Bytes \cup {NoBytes, Torn}]
  BY DEF MInv, MTypeOK
<1>2. /\ pc = "retire" /\ pc' = "retire" /\ finished' \subseteq finished
      /\ UNCHANGED <<source, receipts, head, added, clobbered, accepted>>
  BY DEF RetireEntry, Go, GoFor, order
<1>3. PICK d \in job.doomed :
        \/ /\ record[d] # "none"
           /\ record' = [record EXCEPT ![d] = Earlier(record[d])]
           /\ sequence' = [sequence EXCEPT ![d] = IF rejected[d] THEN sequence[d] ELSE 0]
           /\ UNCHANGED <<rejected, artifacts, residue, job>>
        \/ /\ record[d] = "none"
           /\ rejected' = [rejected EXCEPT ![d] = FALSE]
           /\ sequence' = [sequence EXCEPT ![d] = 0]
           /\ artifacts' = [artifacts EXCEPT ![d] = NoArtifacts]
           /\ residue' = [residue EXCEPT ![d] = NoBytes]
           /\ job' = [job EXCEPT !.doomed = job.doomed \ {d}]
           /\ record' = record
  BY DEF RetireEntry, Go, GoFor
<1>4. d \in Request /\ 0 \in 0..MaxSequence /\ sequence[d] \in 0..MaxSequence
      /\ Earlier(record[d]) \in State
  BY <1>1, MutationAssumption DEF Job, Earlier, State
<1>5. CASE record[d] # "none"
  <2>1. /\ record' = [record EXCEPT ![d] = Earlier(record[d])]
        /\ sequence' = [sequence EXCEPT ![d] = IF rejected[d] THEN sequence[d] ELSE 0]
        /\ UNCHANGED <<rejected, artifacts, residue, job>>
    BY <1>3, <1>5
  <2>2. Deletes(d)
    BY <1>1, <1>4, <1>5, <2>1 DEF Deletes
  <2> QED
    BY <1>1, <1>2, <1>4, <2>1, <2>2
<1>6. CASE record[d] = "none"
  <2>1. /\ rejected' = [rejected EXCEPT ![d] = FALSE]
        /\ sequence' = [sequence EXCEPT ![d] = 0]
        /\ artifacts' = [artifacts EXCEPT ![d] = NoArtifacts]
        /\ residue' = [residue EXCEPT ![d] = NoBytes]
        /\ job' = [job EXCEPT !.doomed = job.doomed \ {d}]
        /\ record' = record
    BY <1>3, <1>6
  <2>2. job'.doomed = job.doomed \ {d}
    BY <1>1, <2>1 DEF Job
  <2>3. Deletes(d)
    BY <1>1, <1>4, <1>6, <2>1, <2>2 DEF Deletes
  <2> QED
    BY <1>1, <1>2, <1>4, <2>1, <2>3
<1> QED
  BY <1>5, <1>6

(* How the artifacts of a request are written. *)
LEMMA VerifyStep ==
  ASSUME MInv, Verify
  PROVE  /\ pc = "verify" /\ job.subject \in Request /\ job.subject \notin Occupied
         /\ job.read \in Bytes /\ job.read \cap Foreign \subseteq source
         /\ \/ artifacts' = artifacts /\ pc' \in {"receipt", "idle"}
            \/ /\ artifacts' = [artifacts EXCEPT ![job.subject] =
                    [before |-> job.read, staged |-> job.read \cup {job.subject}]]
               /\ artifacts'[job.subject] # NoArtifacts
               /\ Before(job.subject)' = job.read
               /\ Staged(job.subject)' = job.read \cup {job.subject}
               /\ \A r \in Request \ {job.subject} : artifacts'[r] = artifacts[r]
               /\ pc' = "prepare" /\ job' = job /\ job.subject \notin job.read
         /\ UNCHANGED <<source, record, rejected, sequence, residue, receipts, head, added,
                        clobbered, finished, accepted>>
<1>1. job \in Job /\ artifacts \in [Request -> Artifacts \cup {NoArtifacts}]
  BY DEF MInv, MTypeOK
<1>2. /\ pc = "verify"
      /\ \/ artifacts' = artifacts /\ pc' \in {"receipt", "idle"}
         \/ /\ artifacts' = [artifacts EXCEPT ![job.subject] =
                 [before |-> job.read, staged |-> job.read \cup {job.subject}]]
            /\ pc' = "prepare" /\ job' = job
      /\ UNCHANGED <<source, record, rejected, sequence, residue, receipts, head, added, clobbered,
                     finished, accepted>>
  BY DEF Verify, Go, GoFor, End, order, bounds
<1>3. /\ job.subject \in Request /\ job.subject \notin Occupied
      /\ job.read \cap Foreign \subseteq source /\ job.subject \notin job.read
  BY <1>2 DEF MInv, Subject, Preparing
<1>4. job.read \in Bytes
  BY <1>1 DEF Job
<1>5. job.read # NoBytes
  BY <1>4, MutationAssumption DEF Bytes, NoBytes
<1>6. \A x : [artifacts EXCEPT ![job.subject] = x][job.subject] = x
  BY <1>1, <1>3
<1>7. [before |-> job.read, staged |-> job.read \cup {job.subject}] # NoArtifacts
  BY <1>5 DEF NoArtifacts
<1>8. CASE artifacts' = [artifacts EXCEPT ![job.subject] =
             [before |-> job.read, staged |-> job.read \cup {job.subject}]] /\ pc' = "prepare"
  <2>1. artifacts'[job.subject] = [before |-> job.read, staged |-> job.read \cup {job.subject}]
    BY <1>6, <1>8
  <2>2. Before(job.subject)' = job.read /\ Staged(job.subject)' = job.read \cup {job.subject}
    <3>1. job' = job
      BY <1>2, <1>8
    <3> QED
      BY <2>1, <3>1 DEF Before, Staged
  <2>3. \A r \in Request \ {job.subject} : artifacts'[r] = artifacts[r]
    BY <1>1, <1>8
  <2> QED
    BY <1>2, <1>3, <1>4, <1>7, <1>8, <2>1, <2>2, <2>3
<1> QED
  BY <1>2, <1>3, <1>4, <1>8

(* How the source and the candidate are exchanged. *)
LEMMA ExchangeStep ==
  ASSUME MInv, Exchange
  PROVE  /\ pc = "exchange" /\ pc' = "cleanup" /\ job' = job /\ pc \in Working
         /\ source' = Desired /\ residue' = [residue EXCEPT ![job.subject] = source]
         /\ residue'[job.subject] = source /\ residue[job.subject] = Desired
         /\ \A r \in Request \ {job.subject} : residue'[r] = residue[r]
         /\ UNCHANGED <<record, rejected, sequence, artifacts, receipts, head, added, clobbered,
                        finished, accepted>>
<1>1. /\ pc = "exchange" /\ pc' = "cleanup" /\ job' = job
      /\ source' = Desired /\ residue' = [residue EXCEPT ![job.subject] = source]
      /\ UNCHANGED <<record, rejected, sequence, artifacts, receipts, head, added, clobbered,
                     finished, accepted>>
  BY DEF Exchange, Go, journal, order, bounds
<1>2. pc \in Working
  BY <1>1 DEF Working, Replacing
<1>3. job.subject \in Request /\ residue \in [Request -> Bytes \cup {NoBytes, Torn}]
  BY <1>2, AtHand DEF MInv, MTypeOK
<1>4. residue[job.subject] = Desired
  BY <1>1 DEF MInv, Replacement
<1> QED
  BY <1>1, <1>2, <1>3, <1>4

(* How an editor writes. *)
LEMMA EditStep ==
  ASSUME MInv, Edits
  PROVE  /\ \E f \in Foreign : f \notin added /\ f \in source' /\ added' = added \cup {f}
         /\ source' \in Bytes
         /\ source' \cap Request \subseteq source
         /\ source \cap Foreign \subseteq source'
         /\ source' \cap Foreign \subseteq (source \cap Foreign) \cup (added' \ added)
         /\ clobbered \subseteq clobbered'
         /\ clobbered' \subseteq Request
         /\ \A r \in source \cap Request : r \notin source' /\ Accepted(r) => r \in clobbered'
         /\ UNCHANGED <<record, rejected, sequence, artifacts, residue, receipts, head, pc, job,
                        finished, accepted, calls, faults>>
<1>1. source \in Bytes /\ clobbered \subseteq Request
  BY DEF MInv, MTypeOK
<1>2. PICK f \in Foreign, kept \in SUBSET (source \cap Request) : EditSource(f, kept)
  BY DEF Edits
<1>3. /\ f \notin added /\ source' = (source \ Request) \cup kept \cup {f}
      /\ added' = added \cup {f}
      /\ clobbered' = clobbered \cup {r \in (source \cap Request) \ kept : Accepted(r)}
      /\ UNCHANGED <<record, rejected, sequence, artifacts, residue, receipts, head, pc, job,
                     finished, accepted, calls, faults>>
  BY <1>2 DEF EditSource, journal, order
<1>4. f \notin Request
  BY MutationAssumption
<1>5. source' \in Bytes
  BY <1>1, <1>3 DEF Bytes
<1> QED
  BY <1>1, <1>3, <1>4, <1>5, MutationAssumption

---------------------------------------------------------------------------
(* Types and generations. *)

(* No step leaves the types. *)
LEMMA MTypeStep ==
  ASSUME MInv, MNext
  PROVE  MTypeOK'
<1>1. /\ source \in Bytes /\ record \in [Request -> State] /\ rejected \in [Request -> BOOLEAN]
      /\ sequence \in [Request -> 0..MaxSequence]
      /\ artifacts \in [Request -> Artifacts \cup {NoArtifacts}]
      /\ residue \in [Request -> Bytes \cup {NoBytes, Torn}]
      /\ receipts \subseteq 1..MaxSequence /\ head \in 0..MaxSequence
      /\ added \subseteq Foreign /\ clobbered \subseteq Request
      /\ finished \subseteq Request /\ accepted \subseteq Request
      /\ calls \in 0..MaxCalls /\ faults \in 0..MaxFaults
  BY DEF MInv, MTypeOK
<1>2. job' \in Job /\ pc' \in MStep
  BY JobStep
<1>3. calls' \in 0..MaxCalls /\ faults' \in 0..MaxFaults
  <2>1. CASE \E r \in Request : BeginApply(r)
    BY <1>1, <2>1, MutationAssumption DEF BeginApply
  <2>2. CASE Interrupt \/ IOFailure
    BY <1>1, <2>2, MutationAssumption DEF Interrupt, IOFailure
  <2>3. CASE Recovery \/ Preparation \/ BeginRecover \/ Edits
    BY <1>1, <2>3 DEF Recovery, Preparation, BeginRecover, Edits, EditSource, InspectAuthority,
       SettleResidue, RemoveResidue, ObserveLiveDigest, Rederive, Revalidate, ReadRetained,
       Derive, Verify, RecordPrepared, bounds
  <2>4. CASE Replace
    BY <1>1, <2>4 DEF Replace, CreateCandidate, WriteCandidate, LastCheck, Exchange,
       CleanupPreimage, FinalRead, ObserveAfterFailure, RecordThenUndo, bounds
  <2>5. CASE Completion
    BY <1>1, <2>5 DEF Completion, RecordCommitted, RebuildLive, ConfirmCommitted, RebuildRestored,
       MarkRecoveryRequired, ReserveSequence, WriteSequenceHead, WriteTerminal, PruneCensus,
       RetireEntry, PruneDone, bounds
  <2> QED
    BY <2>1, <2>2, <2>3, <2>4, <2>5 DEF MNext, Progress, Edits
<1>4. receipts' \subseteq 1..MaxSequence /\ head' \in 0..MaxSequence
  <2>1. CASE ReserveSequence
    BY <1>1, <2>1, MutationAssumption DEF ReserveSequence, order
  <2>2. CASE WriteSequenceHead
    <3>1. job.ticket \in 0..MaxSequence
      BY DEF MInv, MTypeOK, Job
    <3> QED
      BY <1>1, <2>2, <3>1 DEF WriteSequenceHead
  <2>3. CASE Still /\ ~ReserveSequence /\ ~WriteSequenceHead
    BY <1>1, <2>3 DEF Still, BeginApply, BeginRecover, InspectAuthority, SettleResidue,
       ObserveLiveDigest, Rederive, Revalidate, FinalRead, ObserveAfterFailure, RebuildLive,
       ConfirmCommitted, RebuildRestored, PruneCensus, PruneDone, ReadRetained, Derive,
       Interrupt, order
  <2> QED
    BY <1>1, <2>1, <2>2, <2>3, Kinds, TouchesData, NotesStep, EditStep, ExchangeStep,
       TerminalStep, RetireStep, VerifyStep
<1>5. CASE Still
  BY <1>1, <1>2, <1>3, <1>4, <1>5, StillData DEF MTypeOK
<1>6. CASE Touches
  <2>1. residue' \in [Request -> Bytes \cup {NoBytes, Torn}]
    <3>1. CASE residue' = residue
      BY <1>1, <3>1
    <3>2. CASE residue' # residue
      <4>1. pc \in Working
        BY <1>6, <3>2, ResidueStep DEF Working, Recovering, Replacing
      <4>2. job.subject \in Request /\ Desired \in Bytes
        BY <4>1, AtHand
      <4> QED
        BY <1>1, <1>6, <3>2, <4>2, ResidueStep
    <3> QED
      BY <3>1, <3>2
  <2> QED
    BY <1>1, <1>2, <1>3, <1>4, <1>6, <2>1, TouchesData DEF MTypeOK
<1>7. CASE Notes
  BY <1>1, <1>2, <1>3, <1>4, <1>7, NotesStep DEF MTypeOK
<1>8. CASE Edits
  BY <1>1, <1>2, <1>3, <1>4, <1>8, EditStep DEF MTypeOK
<1>9. CASE Exchange
  <2>1. Desired \in Bytes /\ job.subject \in Request
    BY <1>9, ExchangeStep, AtHand
  <2> QED
    BY <1>1, <1>2, <1>3, <1>4, <1>9, <2>1, ExchangeStep DEF MTypeOK
<1>10. CASE WriteTerminal
  BY <1>1, <1>2, <1>3, <1>4, <1>10, TerminalStep DEF MTypeOK
<1>11. CASE RetireEntry
  BY <1>1, <1>2, <1>3, <1>4, <1>11, RetireStep DEF MTypeOK
<1>12. CASE Verify
  <2>1. artifacts' \in [Request -> Artifacts \cup {NoArtifacts}]
    <3>1. job.subject \in Request /\ job.read \in Bytes
      BY <1>12, VerifyStep
    <3>2. job.read \cup {job.subject} \in Bytes
      BY <3>1 DEF Bytes
    <3>3. [before |-> job.read, staged |-> job.read \cup {job.subject}] \in Artifacts
      BY <3>1, <3>2 DEF Artifacts
    <3> QED
      BY <1>1, <1>12, <3>1, <3>3, VerifyStep
  <2> QED
    BY <1>1, <1>2, <1>3, <1>4, <1>12, <2>1, VerifyStep DEF MTypeOK
<1> QED
  BY <1>5, <1>6, <1>7, <1>8, <1>9, <1>10, <1>11, <1>12, Kinds

(* The generations of a transaction stay a pair. *)
LEMMA PairsStep ==
  ASSUME MInv, MNext
  PROVE  Pairs'
<1>1. Pairs
  BY DEF MInv
<1>2. CASE UNCHANGED <<record, rejected, artifacts, accepted>>
  BY <1>1, <1>2 DEF Pairs, Before, Staged
<1>3. CASE Notes
  <2>1. \A r \in Request : Before(r)' = Before(r) /\ Staged(r)' = Staged(r)
    BY <1>3, NotesStep DEF Before, Staged
  <2> QED
    BY <1>1, <1>3, <2>1, NotesStep DEF Pairs
<1>4. CASE WriteTerminal
  <2>1. \A r \in Request : Before(r)' = Before(r) /\ Staged(r)' = Staged(r)
    BY <1>4, TerminalStep DEF Before, Staged
  <2> QED
    BY <1>1, <1>4, <2>1, TerminalStep DEF Pairs
<1>5. CASE RetireEntry
  <2>1. PICK d \in job.doomed : d \in Request /\ Deletes(d)
    BY <1>5, RetireStep
  <2>2. accepted' = accepted
    BY <1>5, RetireStep
  <2>3. ~Blocked(d)
    BY <1>5, <2>1, RetireStep DEF MInv, Alone
  <2>4. \A r \in Request : artifacts'[r] = artifacts[r] => Before(r)' = Before(r) /\ Staged(r)' = Staged(r)
    BY DEF Before, Staged
  <2>5. ASSUME NEW r \in Request, r # d
        PROVE  /\ record'[r] = record[r] /\ rejected'[r] = rejected[r]
               /\ artifacts'[r] = artifacts[r]
    BY <2>1, <2>5 DEF Deletes
  <2>6. /\ artifacts'[d] # NoArtifacts => artifacts'[d] = artifacts[d]
        /\ record'[d] \in {"none", "prepared", "committed"}
        /\ record'[d] # "none" => artifacts'[d] # NoArtifacts
    <3>1. Earlier(record[d]) \in {"none", "prepared", "committed"}
      BY DEF Earlier
    <3> QED
      BY <1>1, <2>1, <3>1 DEF Deletes, Pairs
  <2> QED
    BY <1>1, <2>1, <2>2, <2>4, <2>5, <2>6 DEF Pairs
<1>6. CASE Verify
  <2>1. CASE artifacts' = artifacts
    BY <1>2, <1>6, <2>1, VerifyStep
  <2>2. CASE artifacts' # artifacts
    <3>1. \A r \in Request \ {job.subject} : Before(r)' = Before(r) /\ Staged(r)' = Staged(r)
      BY <1>6, <2>2, VerifyStep DEF Before, Staged
    <3>2. /\ job.subject \in Request
          /\ Before(job.subject)' = job.read /\ Staged(job.subject)' = job.read \cup {job.subject}
          /\ artifacts'[job.subject] # NoArtifacts /\ job' = job
      BY <1>6, <2>2, VerifyStep
    <3>3. /\ job.read \in Bytes /\ job.subject \notin job.read
          /\ UNCHANGED <<record, rejected, accepted>>
          /\ \A r \in Request \ {job.subject} : artifacts'[r] = artifacts[r]
      BY <1>6, <2>2, VerifyStep
    <3>4. ASSUME NEW r \in Request
          PROVE  /\ artifacts'[r] # NoArtifacts =>
                      /\ Before(r)' \in Bytes /\ r \notin Before(r)'
                      /\ Staged(r)' = Before(r)' \cup {r}
                 /\ record[r] # "none" => artifacts'[r] # NoArtifacts
      <4>1. CASE r = job.subject
        <5>1. Before(r)' = job.read /\ Staged(r)' = job.read \cup {r}
          BY <3>2, <4>1 DEF Before, Staged
        <5> QED
          BY <3>2, <3>3, <4>1, <5>1
      <4>2. CASE r # job.subject
        BY <1>1, <3>1, <3>3, <4>2 DEF Pairs
      <4> QED
        BY <4>1, <4>2
    <3> QED
      BY <1>1, <3>3, <3>4 DEF Pairs
  <2> QED
    BY <2>1, <2>2
<1> QED
  BY <1>2, <1>3, <1>4, <1>5, <1>6, Kinds, StillData, TouchesData, EditStep, ExchangeStep

---------------------------------------------------------------------------
(* The source. *)

(* The source keeps the outside edits its transactions started from. *)
LEMMA KeptStep ==
  ASSUME MInv, MNext
  PROVE  Kept'
<1>1. Kept
  BY DEF MInv
<1>2. CASE UNCHANGED <<source, added, artifacts>>
  BY <1>1, <1>2 DEF Kept, Before
<1>3. CASE Exchange
  <2>1. \A r \in Request : artifacts[r] # NoArtifacts =>
          Before(r) \cap Foreign \subseteq Before(job.subject)
    BY <1>3, ExchangeStep DEF MInv, Replacement
  <2>2. Before(job.subject) \cap Foreign \subseteq source
    BY <1>1, <1>3, ExchangeStep, AtHand DEF Kept
  <2>3. \A f \in Foreign : f \in source' <=> f \in Before(job.subject)
    BY <1>3, ExchangeStep, AtHand
  <2>4. added' = added /\ artifacts' = artifacts /\ \A r \in Request : Before(r)' = Before(r)
    BY <1>3, ExchangeStep DEF Before
  <2> QED
    BY <1>1, <2>1, <2>2, <2>3, <2>4 DEF Kept
<1>4. CASE Edits
  <2>1. artifacts' = artifacts /\ \A r \in Request : Before(r)' = Before(r)
    BY <1>4, EditStep DEF Before
  <2> QED
    BY <1>1, <1>4, <2>1, EditStep DEF Kept
<1>5. CASE Verify
  <2>1. source' = source /\ added' = added
    BY <1>5, VerifyStep
  <2>2. ASSUME NEW r \in Request, artifacts'[r] # NoArtifacts
        PROVE  Before(r)' \cap Foreign \subseteq source
    <3>1. CASE artifacts'[r] = artifacts[r]
      BY <1>1, <2>2, <3>1 DEF Kept, Before
    <3>2. CASE artifacts'[r] # artifacts[r]
      <4>1. r = job.subject /\ job' = job /\ Before(job.subject)' = job.read
        BY <1>5, <3>2, VerifyStep
      <4>2. Before(r)' = job.read
        BY <4>1 DEF Before
      <4> QED
        BY <1>5, <4>2, VerifyStep
    <3> QED
      BY <3>1, <3>2
  <2> QED
    BY <1>1, <2>1, <2>2 DEF Kept
<1>6. CASE RetireEntry
  <2>1. \A r \in Request : artifacts'[r] # NoArtifacts => artifacts'[r] = artifacts[r]
    BY <1>6, RetireStep DEF Deletes
  <2>2. source' = source /\ added' = added
    BY <1>6, RetireStep
  <2> QED
    BY <1>1, <2>1, <2>2 DEF Kept, Before
<1> QED
  BY <1>2, <1>3, <1>4, <1>5, <1>6, Kinds, StillData, TouchesData, NotesStep, TerminalStep

(* No outside edit is lost. *)
LEMMA SurviveStep ==
  ASSUME MInv, MNext
  PROVE  EditsSurvive'
<1>1. /\ \A f \in added : f \in source \/ \E r \in Request : f \in residue[r]
      /\ added \subseteq Foreign /\ residue \in [Request -> Bytes \cup {NoBytes, Torn}]
  BY DEF MInv, EditsSurvive, MTypeOK
<1>2. NoBytes \cap Foreign = {}
  BY MutationAssumption DEF NoBytes
<1>3. \A g \in added' : \A r \in Request : g \in residue'[r] => residue'[r] # NoBytes
  BY <1>2, MTypeStep DEF MTypeOK
<1>4. SUFFICES ASSUME NEW f \in added'
               PROVE  f \in source' \/ \E r \in Request : f \in residue'[r]
  BY <1>3 DEF EditsSurvive
<1>5. ASSUME NEW r \in Request, Clean(r), f \in residue[r], f \in Foreign
      PROVE  f \in source
  <2>1. f \in Before(r)
    BY <1>5 DEF Clean
  <2>2. artifacts[r] # NoArtifacts
    BY <1>2, <1>5, <2>1 DEF Before, NoArtifacts
  <2> QED
    BY <1>5, <2>1, <2>2 DEF MInv, Kept
<1>6. CASE UNCHANGED <<source, added, residue>>
  BY <1>1, <1>4, <1>6
<1>7. CASE Edits
  BY <1>1, <1>4, <1>7, EditStep
<1>8. CASE Touches
  <2>1. f \in added /\ source' = source /\ f \in Foreign
    BY <1>1, <1>4, <1>8, TouchesData
  <2>2. CASE residue' = residue
    BY <1>1, <2>1, <2>2
  <2>3. CASE residue' # residue
    <3>1. /\ pc \in Working /\ pc \in {"settleRemove", "publish", "write", "lastCheck", "exchange",
                                       "cleanup"}
          /\ \A r \in Request \ {job.subject} : residue'[r] = residue[r]
      BY <1>1, <1>8, <2>3, ResidueStep DEF Working, Recovering, Replacing
    <3>2. job.subject \in Request
      BY <3>1, AtHand
    <3>3. f \in residue[job.subject] => f \in source
      <4>1. CASE pc = "cleanup"
        <5>1. residue[job.subject] = Expected
          BY <1>8, <2>3, <4>1, ResidueStep
        <5>2. Clean(job.subject)
          BY <3>1, <5>1, AtHand DEF Clean
        <5> QED
          BY <1>5, <2>1, <3>2, <5>2
      <4>2. CASE pc = "publish"
        <5>1. residue[job.subject] = NoBytes
          BY <1>8, <2>3, <4>2, ResidueStep
        <5> QED
          BY <1>2, <2>1, <5>1
      <4>3. CASE pc \in {"settleRemove", "write", "lastCheck", "exchange"}
        <5>1. Clean(job.subject)
          BY <3>2, <4>3 DEF MInv, Displaced
        <5> QED
          BY <1>5, <2>1, <3>2, <5>1
      <4> QED
        BY <3>1, <4>1, <4>2, <4>3
    <3> QED
      BY <1>1, <2>1, <3>1, <3>3
  <2> QED
    BY <2>2, <2>3
<1>9. CASE Exchange
  <2>1. /\ f \in added /\ job.subject \in Request /\ residue'[job.subject] = source
        /\ residue[job.subject] = source'
        /\ \A r \in Request \ {job.subject} : residue'[r] = residue[r]
    BY <1>4, <1>9, ExchangeStep, AtHand
  <2> QED
    BY <1>1, <2>1
<1>10. CASE RetireEntry
  <2>1. PICK d \in job.doomed : d \in Request /\ Deletes(d)
    BY <1>10, RetireStep
  <2>2. source' = source /\ f \in added /\ f \in Foreign
    BY <1>1, <1>4, <1>10, RetireStep
  <2>3. Clean(d)
    BY <1>10, <2>1, RetireStep DEF MInv, Displaced
  <2>4. \A r \in Request \ {d} : residue'[r] = residue[r]
    BY <2>1 DEF Deletes
  <2> QED
    BY <1>1, <1>5, <2>1, <2>2, <2>3, <2>4
<1> QED
  BY <1>6, <1>7, <1>8, <1>9, <1>10, Kinds, StillData, NotesStep, TerminalStep, VerifyStep

(* An accepted edit stays, and a live one has its record. *)
LEMMA LiveStep ==
  ASSUME MInv, MNext
  PROVE  AcceptedIsLive' /\ LiveEditIsJournaled'
<1>1. /\ \A r \in Request : record[r] = "verified" => r \in source \/ r \in clobbered
      /\ \A r \in Request : r \in source /\ r \notin accepted => Journaled(r)
  BY DEF MInv, AcceptedIsLive, LiveEditIsJournaled, Journaled
<1>2. SUFFICES ASSUME NEW r \in Request
               PROVE  /\ record'[r] = "verified" => r \in source' \/ r \in clobbered'
                      /\ r \in source' /\ r \notin accepted' => Journaled(r)'
  BY DEF AcceptedIsLive, LiveEditIsJournaled, Journaled
<1>3. CASE UNCHANGED <<source, record, rejected, clobbered, accepted>>
  BY <1>1, <1>3 DEF Journaled
<1>4. CASE Notes
  BY <1>1, <1>4, NotesStep DEF Journaled
<1>5. CASE WriteTerminal
  <2>1. /\ job.final = "verified" => job.subject \in source \cup clobbered
        /\ job.final # "verified" => (job.subject \in source => job.subject \in accepted)
    BY <1>5, TerminalStep DEF MInv, Subject, Ordering
  <2>2. CASE r = job.subject
    BY <1>5, <2>1, <2>2, TerminalStep
  <2>3. CASE r # job.subject
    BY <1>1, <1>5, <2>3, TerminalStep DEF Journaled
  <2> QED
    BY <2>2, <2>3
<1>6. CASE RetireEntry
  <2>1. PICK d \in job.doomed : d \in Request /\ Deletes(d)
    BY <1>6, RetireStep
  <2>2. UNCHANGED <<source, accepted, clobbered>>
    BY <1>6, RetireStep
  <2>3. CASE r = d
    <3>1. record'[d] # "verified"
      BY <2>1 DEF Deletes, Earlier
    <3>2. d \in source => d \in accepted
      BY <1>6, <2>1, RetireStep DEF MInv, Counted
    <3> QED
      BY <2>2, <2>3, <3>1, <3>2
  <2>4. CASE r # d
    BY <1>1, <2>1, <2>2, <2>4 DEF Deletes, Journaled
  <2> QED
    BY <2>3, <2>4
<1>7. CASE Exchange
  <2>1. /\ source' = Desired /\ UNCHANGED <<record, rejected, clobbered, accepted>>
        /\ pc = "exchange" /\ pc \in Working
    BY <1>7, ExchangeStep
  <2>2. /\ source \cap Request \subseteq Expected
        /\ \A q \in (Expected \cap Request) \ accepted : Journaled(q)
    BY <2>1 DEF MInv, Replacement
  <2>3. Unfinished(job.subject) /\ (r # job.subject => (r \in Expected <=> r \in Desired))
    BY <2>1, AtHand DEF Expected, Desired
  <2>4. record[job.subject] # "verified" /\ Journaled(job.subject)
    BY <2>3 DEF Unfinished, Journaled
  <2> QED
    BY <1>1, <2>1, <2>2, <2>3, <2>4 DEF Journaled
<1>8. CASE Edits
  <2>1. record[r] = "verified" => Accepted(r)
    BY DEF Accepted
  <2> QED
    BY <1>1, <1>8, <2>1, EditStep DEF Journaled
<1> QED
  BY <1>3, <1>4, <1>5, <1>6, <1>7, <1>8, Kinds, StillData, TouchesData, VerifyStep

---------------------------------------------------------------------------
(* The order of completion. *)

(* The head never goes back. *)
LEMMA HeadStep ==
  ASSUME MInv, MNext
  PROVE  head' \in Nat /\ head \in Nat /\ head <= head'
<1>1. head \in Nat /\ head' \in Nat
  BY MTypeStep, MutationAssumption DEF MInv, MTypeOK
<1>2. CASE ReserveSequence
  BY <1>1, <1>2 DEF ReserveSequence, order
<1>3. CASE WriteSequenceHead
  BY <1>1, <1>3 DEF WriteSequenceHead, MInv, Ordered
<1>4. CASE Still /\ ~ReserveSequence /\ ~WriteSequenceHead
  <2>1. head' = head
    BY <1>4 DEF Still, BeginApply, BeginRecover, InspectAuthority, SettleResidue,
       ObserveLiveDigest, Rederive, Revalidate, FinalRead, ObserveAfterFailure, RebuildLive,
       ConfirmCommitted, RebuildRestored, PruneCensus, PruneDone, ReadRetained, Derive,
       Interrupt, order
  <2> QED
    BY <1>1, <2>1
<1> QED
  BY <1>1, <1>2, <1>3, <1>4, Kinds, TouchesData, NotesStep, EditStep, ExchangeStep,
     TerminalStep, RetireStep, VerifyStep

(* The terminal being written stays the newest. *)
LEMMA OrderedStep ==
  ASSUME MInv, MNext
  PROVE  Ordered'
<1>1. /\ \A r \in Request : sequence[r] <= head /\ sequence[r] \in Nat
      /\ pc = "head" => job.ticket = head + 1
      /\ pc = "terminal" => job.ticket = head /\ \A r \in Request : sequence[r] < head
      /\ head \in Nat /\ head' \in Nat /\ head <= head'
  BY HeadStep, MutationAssumption DEF MInv, Ordered, MTypeOK
<1>2. \A r \in Request : sequence'[r] <= head'
  <2>1. CASE sequence' = sequence
    BY <1>1, <2>1
  <2>2. CASE WriteTerminal
    BY <1>1, <2>2, TerminalStep
  <2>3. CASE RetireEntry
    <3>1. \A r \in Request : sequence'[r] = sequence[r] \/ sequence'[r] = 0
      BY <2>3, RetireStep DEF Deletes
    <3> QED
      BY <1>1, <3>1
  <2> QED
    BY <2>1, <2>2, <2>3, Kinds, StillData, TouchesData, NotesStep, EditStep, ExchangeStep,
       VerifyStep
<1>3. CASE Edits
  BY <1>1, <1>2, <1>3, EditStep DEF Ordered
<1>4. CASE ~Edits
  <2>1. pc' = "head" => job'.ticket = head' + 1
    BY <1>4, FlowOrder DEF Ordering
  <2>2. ASSUME pc' = "terminal"
        PROVE  job'.ticket = head' /\ \A r \in Request : sequence'[r] < head'
    <3>1. /\ pc = "head" /\ job'.ticket = job.ticket /\ head' = job.ticket
          /\ sequence' = sequence
      BY <1>4, <2>2, FlowOrder DEF Ordering
    <3> QED
      BY <1>1, <3>1
  <2> QED
    BY <1>2, <2>1, <2>2 DEF Ordered
<1> QED
  BY <1>3, <1>4

---------------------------------------------------------------------------
(* The transaction at hand. *)

(* How the steps of a replacement follow each other. *)
LEMMA FlowReplace ==
  ASSUME MInv, MNext, ~Edits
  PROVE  /\ pc' = "rederive" => pc = "digest" /\ source = Before(job.subject) /\ job' = job /\ Still
         /\ pc' = "settleRemove" =>
              /\ pc = "settle" /\ job' = job /\ Still
              /\ residue[job.subject] \in {Before(job.subject), Staged(job.subject)}
         /\ pc' = "lastCheck" =>
              /\ pc = "write" /\ job' = job /\ Touches
              /\ residue' = [residue EXCEPT ![job.subject] = Desired]
         /\ pc' = "exchange" =>
              pc = "lastCheck" /\ job' = job /\ source = Expected /\ residue' = residue /\ Touches
         /\ pc' = "cleanup" => Exchange
<1> USE DEF Go, GoFor, End
<1>1. CASE \/ InspectAuthority \/ SettleResidue \/ RemoveResidue \/ ObserveLiveDigest
           \/ CreateCandidate \/ WriteCandidate \/ LastCheck \/ Exchange \/ CleanupPreimage
  BY <1>1 DEF InspectAuthority, SettleResidue, RemoveResidue, ObserveLiveDigest, CreateCandidate,
     WriteCandidate, LastCheck, Exchange, CleanupPreimage, ReplaceFailed, Still, Touches
<1>2. CASE \/ FinalRead \/ Rederive \/ Revalidate \/ ObserveAfterFailure \/ RecordThenUndo
           \/ RecordCommitted \/ RebuildLive \/ MarkRecoveryRequired \/ ConfirmCommitted
           \/ RebuildRestored
  BY <1>2 DEF FinalRead, ReplaceFailed, Rederive, Revalidate, ObserveAfterFailure, RecordThenUndo,
     RecordCommitted, RebuildLive, MarkRecoveryRequired, ConfirmCommitted, RebuildRestored
<1>3. CASE \/ ReserveSequence \/ WriteSequenceHead \/ WriteTerminal \/ PruneCensus \/ RetireEntry
           \/ PruneDone \/ ReadRetained \/ Derive \/ Verify \/ RecordPrepared
  BY <1>3 DEF ReserveSequence, TerminalFailed, WriteSequenceHead, WriteTerminal, PruneCensus,
     RetireEntry, PruneDone, ReadRetained, Derive, Verify, RecordPrepared
<1>4. CASE (\E r \in Request : BeginApply(r)) \/ BeginRecover \/ Interrupt \/ IOFailure
  BY <1>4 DEF BeginApply, BeginRecover, Interrupt, IOFailure, FailsToRequired, FailsToRestore,
     FailsToReplace, FailsToTerminal, ReplaceFailed, TerminalFailed
<1> QED
  BY <1>1, <1>2, <1>3, <1>4
     DEF MNext, Progress, Recovery, Replace, Completion, Preparation, Edits

(* The transaction at hand stays unfinished while a session works on it. *)
LEMMA WorkStep ==
  ASSUME MInv, MNext, pc' \in Working
  PROVE  job'.subject \in Request /\ Unfinished(job.subject)'
<1>1. CASE Edits
  BY <1>1, EditStep DEF MInv, Subject, Unfinished
<1>2. CASE ~Edits
  <2>1. CASE RecordPrepared
    <3>1. pc' = "publish" /\ job' = job /\ Notes
      BY <2>1 DEF RecordPrepared, Go, Notes
    <3> QED
      BY <3>1, NotesStep DEF Unfinished
  <2>2. CASE ~RecordPrepared
    <3>1. job'.subject \in Request /\ Unfinished(job'.subject)
      BY <1>2, <2>2, FlowWork DEF MInv, Subject, Ordering
    <3>2. ~WriteTerminal /\ ~RetireEntry
      BY TerminalStep, RetireStep DEF Working, Recovering, Replacing, Completing
    <3>3. pc' # "idle"
      BY DEF Working, Recovering, Replacing, Completing
    <3>4. CASE Notes
      BY <3>1, <3>3, <3>4, NotesStep DEF Unfinished
    <3>5. CASE UNCHANGED <<record, rejected>>
      BY <3>1, <3>5 DEF Unfinished
    <3> QED
      BY <1>2, <3>2, <3>4, <3>5, Kinds, StillData, TouchesData, ExchangeStep, VerifyStep
  <2> QED
    BY <2>1, <2>2
<1> QED
  BY <1>1, <1>2

(* A session works on a transaction that is in the state its step needs. *)
LEMMA SubjectStep ==
  ASSUME MInv, MNext
  PROVE  Subject'
<1>1. Subject /\ job \in Job /\ Kept
  BY DEF MInv, MTypeOK
<1>2. \A r \in Request : r \in source /\ r \notin Occupied => r \in accepted
  BY DEF MInv, LiveEditIsJournaled, Occupied
<1>3. CASE Edits
  <2>1. UNCHANGED <<pc, job, record, rejected, artifacts, accepted>>
    BY <1>3, EditStep
  <2>2. Occupied' = Occupied /\ \A r \in Request : Unfinished(r)' = Unfinished(r)
    BY <2>1 DEF Occupied, Unfinished
  <2>3. pc \in Ordering =>
          IF job.final = "verified"
            THEN job.subject \in source' \cup clobbered'
            ELSE job.subject \in source' => job.subject \in accepted
    <3>1. SUFFICES ASSUME pc \in Ordering
                   PROVE  IF job.final = "verified"
                            THEN job.subject \in source' \cup clobbered'
                            ELSE job.subject \in source' => job.subject \in accepted
      OBVIOUS
    <3>2. job.subject \in Request /\ (job.final = "verified" => Accepted(job.subject))
      BY <1>1, <3>1 DEF Subject, Accepted
    <3>3. CASE job.final = "verified"
      BY <1>1, <1>3, <3>1, <3>2, <3>3, EditStep DEF Subject
    <3>4. CASE job.final # "verified"
      BY <1>1, <1>3, <3>1, <3>2, <3>4, EditStep DEF Subject
    <3> QED
      BY <3>3, <3>4
  <2>4. /\ pc = "verify" => job.read \cap Foreign \subseteq source' /\ job.subject \notin job.read
        /\ pc = "rederive" => (job.subject \in source' => job.subject \in accepted)
    BY <1>1, <1>3, EditStep DEF Subject, Working, Recovering
  <2> QED
    BY <1>1, <2>1, <2>2, <2>3, <2>4 DEF Subject
<1>4. CASE ~Edits
  <2>1. pc' \in Working => job'.subject \in Request /\ Unfinished(job.subject)'
    BY WorkStep
  <2>2. ASSUME pc' \in Ordering
        PROVE  /\ job'.subject \in Request /\ job'.final \in {"verified", "rolledBack", "rejected"}
               /\ \/ Unfinished(job.subject)'
                  \/ job'.final = "rejected" /\ job'.subject \notin Occupied'
               /\ IF job'.final = "verified"
                    THEN job'.subject \in source' \cup clobbered'
                    ELSE job'.subject \in source' => job'.subject \in accepted'
    <3>1. /\ UNCHANGED <<source, record, rejected, clobbered, accepted>>
          /\ job'.subject = job.subject
      BY <1>4, <2>2, FlowOrder
    <3>2. Occupied' = Occupied /\ \A r \in Request : Unfinished(r)' = Unfinished(r)
      BY <3>1 DEF Occupied, Unfinished
    <3>3. CASE pc \in Ordering /\ job'.final = job.final
      <4>1. Unfinished(job.subject)' = Unfinished(job.subject)
        BY <3>1 DEF Unfinished
      <4> QED
        BY <1>1, <3>1, <3>2, <3>3, <4>1 DEF Subject
    <3>4. CASE /\ pc \in {"confirm", "revalidate", "restoreRebuild", "observe", "rederive"}
               /\ pc \notin Ordering
      <4>1. pc \in Working
        BY <3>4 DEF Working, Recovering, Completing
      <4>2. /\ job.subject \in Request /\ job.subject \notin Before(job.subject)
            /\ job.subject \in Staged(job.subject) /\ Unfinished(job.subject)
        BY <4>1, AtHand
      <4>3. Unfinished(job.subject)'
        BY <3>1, <4>2 DEF Unfinished
      <4>4. pc = "rederive" => (job.subject \in source => job.subject \in accepted)
        BY <1>1 DEF Subject
      <4> QED
        BY <1>4, <2>2, <3>1, <3>4, <4>2, <4>3, <4>4, FlowOrder
    <3>5. CASE pc \in {"derive", "verify"} /\ pc \notin Ordering
      <4>1. job.subject \in Request /\ job.subject \notin Occupied
        BY <1>1, <3>5 DEF Subject, Preparing
      <4>2. job'.final = "rejected"
        BY <1>4, <2>2, <3>5, FlowOrder
      <4> QED
        BY <1>2, <3>1, <3>2, <4>1, <4>2
    <3> QED
      BY <1>4, <2>2, <3>3, <3>4, <3>5, FlowOrder DEF Ordering
  <2>3. ASSUME pc' \in Preparing
        PROVE  /\ job'.subject \in Request
               /\ pc' # "retained" => job'.subject \notin Occupied'
               /\ pc' = "verify" =>
                    job'.read \cap Foreign \subseteq source' /\ job'.subject \notin job'.read
               /\ pc' = "prepare" => artifacts'[job'.subject] # NoArtifacts
    <3>1. CASE pc = "retire" /\ pc' = "retained"
      BY <1>4, <2>3, <3>1, FlowPrepare DEF Preparing
    <3>2. CASE pc = "retained" /\ pc' = "derive"
      <4>1. job' = job /\ Still /\ job.subject \in Request /\ job.subject \notin Occupied
        BY <1>1, <1>4, <2>3, <3>2, FlowPrepare DEF Subject, Preparing
      <4>2. Occupied' = Occupied
        BY <4>1, StillData DEF Occupied
      <4> QED
        BY <3>2, <4>1, <4>2
    <3>3. CASE pc = "derive" /\ pc' = "verify"
      <4>1. /\ Still /\ job'.subject = job.subject /\ job'.read = source
            /\ job.subject \in Request /\ job.subject \notin Occupied /\ job.subject \notin source
        BY <1>1, <1>4, <2>3, <3>3, FlowPrepare DEF Subject, Preparing
      <4>2. Occupied' = Occupied /\ source' = source
        BY <4>1, StillData DEF Occupied
      <4> QED
        BY <3>3, <4>1, <4>2
    <3>4. CASE pc = "verify" /\ pc' = "prepare"
      <4>1. Verify /\ job' = job
        BY <1>4, <2>3, <3>4, FlowPrepare DEF Preparing
      <4>2. Occupied' = Occupied
        BY <4>1, VerifyStep DEF Occupied
      <4> QED
        BY <3>4, <4>1, <4>2, VerifyStep
    <3> QED
      BY <1>4, <2>3, <3>1, <3>2, <3>3, <3>4, FlowPrepare DEF Preparing
  <2>4. ASSUME pc' = "rederive"
        PROVE  job'.subject \in source' => job'.subject \in accepted'
    <3>1. pc = "digest" /\ source = Before(job.subject) /\ job' = job /\ source' = source
      BY <1>4, <2>4, FlowReplace, StillData
    <3>2. pc \in Working
      BY <3>1 DEF Working, Recovering
    <3> QED
      BY <3>1, <3>2, AtHand
  <2> QED
    BY <2>1, <2>2, <2>3, <2>4 DEF Subject, Preparing
<1> QED
  BY <1>3, <1>4

(* What a replacement knows stays true. *)
LEMMA ReplacementStep ==
  ASSUME MInv, MNext
  PROVE  Replacement'
<1>1. Replacement /\ Kept /\ residue \in [Request -> Bytes \cup {NoBytes, Torn}]
  BY DEF MInv, MTypeOK
<1>2. \A r \in (source \cap Request) \ accepted : Journaled(r)
  BY DEF MInv, LiveEditIsJournaled, Journaled
<1>3. CASE Edits
  <2>1. /\ UNCHANGED <<pc, job, record, rejected, artifacts, residue, accepted>>
        /\ source' \cap Request \subseteq source
    BY <1>3, EditStep
  <2>2. /\ Expected' = Expected /\ Desired' = Desired
        /\ \A r \in Request : /\ Before(r)' = Before(r) /\ Journaled(r)' = Journaled(r)
        /\ Before(job.subject)' = Before(job.subject) /\ Staged(job.subject)' = Staged(job.subject)
    BY <2>1 DEF Expected, Desired, Before, Staged, Journaled
  <2> QED
    BY <1>1, <2>1, <2>2 DEF Replacement
<1>4. CASE ~Edits
  <2>1. ASSUME pc' = "settleRemove"
        PROVE  residue'[job'.subject] \in {Before(job.subject)', Staged(job.subject)'}
    <3>1. /\ job' = job /\ Still
          /\ residue[job.subject] \in {Before(job.subject), Staged(job.subject)}
      BY <1>4, <2>1, FlowReplace
    <3> QED
      BY <3>1, StillData DEF Before, Staged
  <2>2. ASSUME pc' = "lastCheck"
        PROVE  residue'[job'.subject] = Desired'
    <3>1. /\ pc \in Working /\ job' = job /\ Touches
          /\ residue' = [residue EXCEPT ![job.subject] = Desired]
      BY <1>4, <2>2, FlowReplace DEF Working, Replacing
    <3>2. Desired' = Desired
      BY <3>1, TouchesData DEF Desired, Before, Staged
    <3> QED
      BY <1>1, <3>1, <3>2, AtHand
  <2>3. ASSUME pc' = "exchange"
        PROVE  /\ residue'[job'.subject] = Desired'
               /\ source' \cap Request \subseteq Expected'
               /\ \A r \in Request : artifacts'[r] # NoArtifacts =>
                    Before(r)' \cap Foreign \subseteq Before(job.subject)'
               /\ \A r \in (Expected' \cap Request) \ accepted' : Journaled(r)'
    <3>1. /\ pc = "lastCheck" /\ pc \in Working /\ job' = job /\ source = Expected
          /\ residue' = residue /\ Touches
      BY <1>4, <2>3, FlowReplace DEF Working, Replacing
    <3>2. UNCHANGED <<source, record, rejected, artifacts, accepted>>
      BY <3>1, TouchesData
    <3>3. /\ Expected' = Expected /\ Desired' = Desired
          /\ \A r \in Request : /\ Before(r)' = Before(r) /\ Journaled(r)' = Journaled(r)
          /\ Before(job.subject)' = Before(job.subject)
      BY <3>1, <3>2 DEF Expected, Desired, Before, Staged, Journaled
    <3>4. \A r \in Request : artifacts[r] # NoArtifacts =>
            Before(r) \cap Foreign \subseteq Before(job.subject)
      BY <1>1, <3>1, AtHand DEF Kept
    <3>5. residue[job.subject] = Desired
      BY <1>1, <3>1 DEF Replacement
    <3> QED
      BY <1>2, <3>1, <3>2, <3>3, <3>4, <3>5
  <2> QED
    BY <2>1, <2>2, <2>3 DEF Replacement
<1> QED
  BY <1>3, <1>4

(* Where a session goes that finds an outside edit in a residue. *)
LEMMA FlowDisplaced ==
  ASSUME MInv, MNext, ~Edits, NEW r \in Request, ~Clean(r)
  PROVE  /\ \/ pc' \in {"idle", "inspect"}
            \/ /\ job'.subject = r
               /\ \/ pc' \in {"observe", "undo", "settle", "required"}
                  \/ pc' = "publish" /\ job'.dir = "restore"
         /\ pc' = "observe" => pc = "cleanup" /\ job' = job /\ job.dir = "publish"
         /\ Still \/ Touches \/ Notes
<1>1. /\ Journaled(r) /\ job \in Job
      /\ \/ pc \in {"idle", "inspect"}
         \/ /\ job.subject = r
            /\ \/ pc \in {"cleanup", "observe", "undo", "settle", "required"}
               \/ pc = "publish" /\ job.dir = "restore"
      /\ pc = "observe" => job.dir = "publish" /\ source # Before(r)
      /\ pc = "cleanup" => job.dir \in {"publish", "restore"}
  BY DEF MInv, Displaced, MTypeOK, Job
<1>2. pc \notin {"terminal", "retire", "exchange", "verify", "prepare"}
  BY <1>1
<1>3. Still \/ Touches \/ Notes
  BY <1>2, Kinds, TerminalStep, RetireStep, VerifyStep, ExchangeStep
<1>4. residue[r] # NoBytes
  BY MutationAssumption DEF Clean, NoBytes
<1>5. ASSUME pc \in {"cleanup", "observe", "undo", "settle", "required", "publish"}
      PROVE  /\ r = job.subject /\ Unfinished(r)
             /\ residue[r] # Before(r) /\ residue[r] # Staged(r) /\ residue[r] # Expected
  <2>1. pc \in Working /\ r = job.subject
    BY <1>1, <1>5 DEF Working, Recovering, Replacing, Completing
  <2> QED
    BY <2>1, AtHand DEF Clean
<1> USE <1>1, <1>3 DEF Go, GoFor, End
<1>6. CASE InspectAuthority
  <2>1. Unfinished(r) \/ Blocked(r)
    BY DEF Journaled, Unfinished, Blocked
  <2>2. pc' = "idle" \/ (pc' = "settle" /\ ~Blocked(r)
          /\ \E q \in {s \in Request : Unfinished(s)} : job' = [job EXCEPT !.subject = q])
    BY <1>6, <2>1 DEF InspectAuthority
  <2>3. CASE pc' # "idle"
    <3>1. PICK q \in Request : Unfinished(q) /\ job' = [job EXCEPT !.subject = q]
      BY <2>2, <2>3
    <3>2. q = r
      BY <2>1, <2>2, <2>3, <3>1 DEF MInv, Alone
    <3>3. job'.subject = r
      BY <3>1, <3>2 DEF Job
    <3> QED
      BY <2>2, <2>3, <3>3
  <2> QED
    BY <2>3
<1>7. CASE SettleResidue \/ CreateCandidate \/ CleanupPreimage \/ ObserveAfterFailure
  BY <1>4, <1>5, <1>7 DEF SettleResidue, CreateCandidate, CleanupPreimage, ObserveAfterFailure,
     ReplaceFailed
<1>8. CASE RecordThenUndo
  <2>1. pc = "undo" /\ pc' = "publish" /\ job' = [job EXCEPT !.dir = "restore"]
    BY <1>8 DEF RecordThenUndo
  <2>2. job'.subject = job.subject /\ job'.dir = "restore"
    BY <2>1 DEF Job
  <2> QED
    BY <2>1, <2>2
<1>9. CASE \/ MarkRecoveryRequired \/ (\E q \in Request : BeginApply(q)) \/ BeginRecover
           \/ Interrupt
  BY <1>9 DEF MarkRecoveryRequired, BeginApply, BeginRecover, Interrupt
<1>10. CASE IOFailure
  BY <1>10 DEF IOFailure, FailsToRequired, FailsToRestore, FailsToReplace, FailsToTerminal,
     ReplaceFailed
<1>11. CASE \/ RemoveResidue \/ ObserveLiveDigest \/ Rederive \/ Revalidate \/ WriteCandidate
            \/ LastCheck \/ FinalRead \/ RecordCommitted \/ RebuildLive \/ ConfirmCommitted
            \/ RebuildRestored \/ ReserveSequence \/ WriteSequenceHead \/ PruneCensus
            \/ PruneDone \/ ReadRetained \/ Derive \/ RecordPrepared
  BY <1>11 DEF RemoveResidue, ObserveLiveDigest, Rederive, Revalidate, WriteCandidate, LastCheck,
     FinalRead, RecordCommitted, RebuildLive, ConfirmCommitted, RebuildRestored, ReserveSequence,
     WriteSequenceHead, PruneCensus, PruneDone, ReadRetained, Derive, RecordPrepared
<1> QED
  BY <1>6, <1>7, <1>8, <1>9, <1>10, <1>11 DEF Still, Touches, Notes

(* A residue with an outside edit stops its transaction. *)
LEMMA DisplacedStep ==
  ASSUME MInv, MNext
  PROVE  Displaced'
<1>1. /\ Displaced /\ Kept /\ added \subseteq Foreign
      /\ residue \in [Request -> Bytes \cup {NoBytes, Torn}]
  BY DEF MInv, MTypeOK
<1>2. NoBytes \cap Foreign = {} /\ Torn \cap Foreign = {}
  BY MutationAssumption DEF NoBytes, Torn
<1>3. SUFFICES ASSUME NEW r \in Request, ~Clean(r)'
      PROVE  /\ Journaled(r)'
             /\ \/ pc' \in {"idle", "inspect"}
                \/ /\ job'.subject = r
                   /\ \/ pc' \in {"cleanup", "observe", "undo", "settle", "required"}
                      \/ pc' = "publish" /\ job'.dir = "restore"
             /\ pc' \in {"cleanup", "observe"} /\ job'.dir = "publish" => source' # Before(r)'
             /\ pc' = "observe" => job'.dir = "publish"
  BY DEF Displaced
<1>4. CASE Edits
  <2>1. /\ UNCHANGED <<pc, job, record, rejected, artifacts, residue>>
        /\ Before(r)' = Before(r) /\ Journaled(r)' = Journaled(r) /\ ~Clean(r)
    BY <1>3, <1>4, EditStep DEF Clean, Before, Journaled
  <2>2. source' # Before(r)
    <3>1. PICK f \in Foreign : f \notin added /\ f \in source'
      BY <1>4, EditStep
    <3>2. artifacts[r] = NoArtifacts => Before(r) = NoBytes
      BY DEF Before, NoArtifacts
    <3>3. f \notin Before(r)
      BY <1>1, <1>2, <3>1, <3>2 DEF Kept
    <3> QED
      BY <3>1, <3>3
  <2> QED
    BY <1>1, <2>1, <2>2 DEF Displaced
<1>5. CASE ~Edits /\ ~Clean(r)
  <2>1. Journaled(r)'
    <3>1. Journaled(r)
      BY <1>1, <1>5 DEF Displaced
    <3>2. CASE Notes
      BY <3>1, <3>2, NotesStep DEF Journaled
    <3>3. CASE UNCHANGED <<record, rejected>>
      BY <3>1, <3>3 DEF Journaled
    <3> QED
      BY <1>5, <3>2, <3>3, FlowDisplaced, StillData, TouchesData
  <2>2. source' = source /\ Before(r)' = Before(r)
    BY <1>5, FlowDisplaced, StillData, TouchesData, NotesStep DEF Before
  <2>3. pc' = "observe" => source # Before(r)
    BY <1>1, <1>5, FlowDisplaced DEF Displaced
  <2> QED
    BY <1>5, <2>1, <2>2, <2>3, FlowDisplaced
<1>6. CASE ~Edits /\ Clean(r)
  <2>1. residue'[r] # NoBytes /\ residue'[r] # Torn
    BY <1>2, <1>3 DEF Clean
  <2>2. CASE Touches
    <3>1. Before(r)' = Before(r) /\ residue'[r] # residue[r]
      BY <1>3, <1>6, <2>2, TouchesData DEF Clean, Before
    <3>2. /\ r = job.subject /\ residue'[r] = Desired /\ pc \in Working
      BY <1>1, <2>1, <2>2, <3>1, ResidueStep DEF Working, Replacing
    <3>3. Clean(r)'
      BY <3>1, <3>2, AtHand DEF Clean
    <3> QED
      BY <1>3, <3>3
  <2>3. CASE Exchange
    <3>1. Before(r)' = Before(r) /\ residue'[r] # residue[r]
      BY <1>3, <1>6, <2>3, ExchangeStep DEF Clean, Before
    <3>2. /\ r = job.subject /\ job' = job /\ pc' = "cleanup" /\ source' = Desired
          /\ pc \in Working
      BY <2>3, <3>1, ExchangeStep
    <3>3. Unfinished(r) /\ (job.dir = "publish" => Desired # Before(r))
      BY <3>2, AtHand DEF Desired
    <3>4. Journaled(r)'
      BY <2>3, <3>3, ExchangeStep DEF Journaled, Unfinished
    <3> QED
      BY <3>1, <3>2, <3>3, <3>4
  <2>4. CASE Verify
    <3>1. residue' = residue
      BY <2>4, VerifyStep
    <3>2. artifacts'[r] # artifacts[r]
      BY <1>3, <1>6, <3>1 DEF Clean, Before
    <3>3. artifacts[r] = NoArtifacts
      <4>1. artifacts \in [Request -> Artifacts \cup {NoArtifacts}]
        BY DEF MInv, MTypeOK
      <4>2. r = job.subject
        BY <2>4, <3>2, VerifyStep
      <4>3. \/ artifacts' = artifacts
            \/ /\ artifacts[r] \in {NoArtifacts,
                    [before |-> job.read, staged |-> job.read \cup {r}]}
               /\ artifacts' = [artifacts EXCEPT ![r] =
                    [before |-> job.read, staged |-> job.read \cup {r}]]
        BY <2>4, <4>2 DEF Verify
      <4> QED
        BY <3>2, <4>1, <4>3
    <3>4. Before(r) = NoBytes
      BY <3>3 DEF Before, NoArtifacts
    <3>5. Clean(r)'
      BY <1>2, <1>6, <3>1, <3>4 DEF Clean
    <3> QED
      BY <1>3, <3>5
  <2>5. CASE RetireEntry
    <3>1. residue'[r] = residue[r] /\ artifacts'[r] = artifacts[r]
      BY <2>1, <2>5, RetireStep DEF Deletes
    <3> QED
      BY <1>3, <1>6, <3>1 DEF Clean, Before
  <2>6. CASE UNCHANGED <<residue, artifacts>>
    BY <1>3, <1>6, <2>6 DEF Clean, Before
  <2> QED
    BY <1>6, <2>2, <2>3, <2>4, <2>5, <2>6, Kinds, StillData, NotesStep, TerminalStep
<1> QED
  BY <1>4, <1>5, <1>6

---------------------------------------------------------------------------
(* The transactions on disk. *)

(* Requests are counted. *)
LEMMA Counting ==
  ASSUME NEW S, NEW T, S \subseteq T, T \subseteq Request
  PROVE  /\ IsFiniteSet(S) /\ IsFiniteSet(T)
         /\ Cardinality(S) \in Nat /\ Cardinality(T) \in Nat
         /\ Cardinality(S) <= Cardinality(T)
<1>1. IsFiniteSet(T)
  BY MutationAssumption, FS_Subset
<1> QED
  BY <1>1, FS_Subset, FS_CardinalityType

(* Among requests with a terminal one is the oldest. *)
LEMMA Oldest ==
  ASSUME NEW S, S \subseteq Request, S # {}, sequence \in [Request -> Nat]
  PROVE  \E d \in S : \A s \in S : sequence[d] <= sequence[s]
<1> DEFINE Less == {ss \in Nat \X Nat : ss[1] < ss[2]}
           T == {sequence[s] : s \in S}
<1>1. IsWellFoundedOn(Less, Nat)
  BY NatLessThanWellFounded DEF OpToRel
<1>2. T \subseteq Nat /\ T # {}
  OBVIOUS
<1>3. \E x \in T : \A y \in T : ~(<<y, x>> \in Less)
  <2> HIDE DEF Less, T
  <2> QED
    BY <1>1, <1>2, WFMin
<1>4. PICK x \in T : \A y \in T : ~(<<y, x>> \in Less)
  BY <1>3
<1>5. PICK d \in S : x = sequence[d]
  OBVIOUS
<1>6. ASSUME NEW s \in S
      PROVE  sequence[d] <= sequence[s]
  <2>1. sequence[s] \in Nat /\ sequence[d] \in Nat /\ sequence[s] \in T
    OBVIOUS
  <2>2. ~(<<sequence[s], sequence[d]>> \in Less)
    BY <1>4, <1>5, <2>1
  <2> QED
    BY <2>1, <2>2
<1> QED
  BY <1>6

(* Without unfinished work, every transaction on disk has its terminal. *)
LEMMA AllTerminal ==
  ASSUME MInv, \A r \in Request : ~Unfinished(r) /\ ~Blocked(r)
  PROVE  \A r \in Request : r \in Occupied <=> IsTerminal(r)
<1>1. \A r \in Request : record[r] \in State /\ rejected[r] \in BOOLEAN
  BY DEF MInv, MTypeOK
<1>2. \A r \in Request : rejected[r] => record[r] # "required"
  BY DEF MInv, Pairs
<1> QED
  BY <1>1, <1>2 DEF Occupied, IsTerminal, Unfinished, Blocked, State

(* A prune retires at most one transaction. *)
LEMMA OnePrunable ==
  ASSUME MInv, \A r \in Request : ~Unfinished(r) /\ ~Blocked(r),
         \A r, s \in Request : IsTerminal(r) /\ IsTerminal(s) /\ sequence[r] = sequence[s] => r = s,
         NEW r \in Request, NEW s \in Request, Prunable(r), Prunable(s)
  PROVE  r = s
<1>1. sequence[r] \in Nat /\ sequence[s] \in Nat /\ Cardinality(Occupied) <= Retention + 1
  BY MutationAssumption DEF MInv, MTypeOK, Counted
<1>2. ASSUME NEW x \in Request, NEW y \in Request, Prunable(x), Prunable(y),
             sequence[x] < sequence[y], sequence[x] \in Nat, sequence[y] \in Nat
      PROVE  FALSE
  <2>1. IsTerminal(x) /\ IsTerminal(y) /\ Cardinality(Newer(y)) >= Retention
    BY <1>2 DEF Prunable
  <2>2. x # y /\ y \notin Newer(y) /\ x \notin Newer(y) \cup {y} /\ Newer(y) \subseteq Request
    BY <1>2 DEF Newer
  <2>3. (Newer(y) \cup {y}) \cup {x} \subseteq Occupied /\ Occupied \subseteq Request
    BY <2>1, AllTerminal DEF Newer, Occupied
  <2>4. IsFiniteSet(Newer(y)) /\ IsFiniteSet(Newer(y) \cup {y})
    BY <2>2, <2>3, Counting
  <2>5. /\ Cardinality(Newer(y) \cup {y}) = Cardinality(Newer(y)) + 1
        /\ Cardinality((Newer(y) \cup {y}) \cup {x}) = Cardinality(Newer(y) \cup {y}) + 1
    BY <2>2, <2>4, FS_AddElement
  <2>6. Cardinality((Newer(y) \cup {y}) \cup {x}) <= Cardinality(Occupied)
    BY <2>3, Counting
  <2>7. Cardinality(Newer(y)) \in Nat /\ Cardinality(Occupied) \in Nat
    BY <2>2, <2>3, Counting
  <2> QED
    BY <1>1, <2>1, <2>5, <2>6, <2>7, MutationAssumption
<1>3. IsTerminal(r) /\ IsTerminal(s)
  BY DEF Prunable
<1>4. sequence[r] < sequence[s] \/ sequence[s] < sequence[r] \/ sequence[r] = sequence[s]
  BY <1>1
<1> QED
  BY <1>1, <1>2, <1>3, <1>4

(* And it retires one when Retention is exceeded. *)
LEMMA PruneMakesRoom ==
  ASSUME MInv, \A r \in Request : ~Unfinished(r) /\ ~Blocked(r),
         \A r, s \in Request : IsTerminal(r) /\ IsTerminal(s) /\ sequence[r] = sequence[s] => r = s
  PROVE  Cardinality(Occupied \ {r \in Request : Prunable(r)}) <= Retention
<1> DEFINE Left == Occupied \ {r \in Request : Prunable(r)}
<1>1. /\ Cardinality(Occupied) <= Retention + 1 /\ Retention \in Nat \ {0}
      /\ Occupied \subseteq Request /\ Left \subseteq Occupied
      /\ sequence \in [Request -> Nat]
  BY MutationAssumption DEF MInv, MTypeOK, Counted, Occupied
<1>2. /\ IsFiniteSet(Occupied) /\ Cardinality(Occupied) \in Nat /\ Cardinality(Left) \in Nat
      /\ Cardinality(Left) <= Cardinality(Occupied)
  BY <1>1, Counting
<1>3. CASE Cardinality(Occupied) <= Retention
  BY <1>1, <1>2, <1>3
<1>4. CASE Cardinality(Occupied) = Retention + 1
  <2>1. Occupied # {}
    <3>1. Cardinality({}) = 0
      BY FS_EmptySet
    <3>2. Cardinality(Occupied) # 0
      BY <1>1, <1>4
    <3> QED
      BY <3>1, <3>2
  <2>2. PICK d \in Occupied : \A s \in Occupied : sequence[d] <= sequence[s]
    BY <1>1, <2>1, Oldest
  <2>3. Cardinality(Occupied \ {d}) = Retention
    <3>1. Cardinality(Occupied \ {d}) = Cardinality(Occupied) - 1
      BY <1>2, FS_RemoveElement
    <3> QED
      BY <1>1, <1>4, <3>1
  <2>4. Occupied \ {d} \subseteq Newer(d)
    <3>1. ASSUME NEW s \in Occupied, s # d
          PROVE  s \in Newer(d)
      <4>1. s \in Request /\ d \in Request /\ IsTerminal(s) /\ IsTerminal(d)
        BY <1>1, AllTerminal
      <4>2. sequence[d] # sequence[s] /\ sequence[d] <= sequence[s]
        BY <2>2, <3>1, <4>1
      <4>3. sequence[s] > sequence[d]
        BY <1>1, <4>1, <4>2
      <4> QED
        BY <4>1, <4>3 DEF Newer
    <3> QED
      BY <3>1
  <2>5. Newer(d) \subseteq Request
    BY DEF Newer
  <2>6. Cardinality(Newer(d)) >= Retention
    BY <1>1, <2>3, <2>4, <2>5, Counting
  <2>7. Prunable(d) /\ d \in Request
    BY <1>1, <2>6, AllTerminal DEF Prunable
  <2>8. Left \subseteq Occupied \ {d} /\ Occupied \ {d} \subseteq Request
    BY <1>1, <2>7
  <2>9. Cardinality(Left) <= Cardinality(Occupied \ {d})
    BY <2>8, Counting
  <2> QED
    BY <2>3, <2>9
<1> QED
  BY <1>1, <1>2, <1>3, <1>4

(* No other transaction is unfinished while a session works. *)
LEMMA AloneStep ==
  ASSUME MInv, MNext
  PROVE  Alone'
<1>1. Alone /\ job \in Job
  BY DEF MInv, MTypeOK
<1> DEFINE Quiet(r) == Unfinished(r)' = Unfinished(r) /\ Blocked(r)' = Blocked(r)
<1>2. UNCHANGED <<record, rejected>> => \A r \in Request : Quiet(r)
  BY DEF Unfinished, Blocked
<1>3. CASE Edits
  <2>1. UNCHANGED <<pc, job, record, rejected>>
    BY <1>3, EditStep
  <2> QED
    BY <1>1, <1>2, <2>1 DEF Alone
<1>4. CASE Notes
  <2>1. /\ pc \in Working \/ pc = "prepare"
        /\ job.subject \in Request
        /\ \A r \in Request \ {job.subject} : record'[r] = record[r] /\ rejected'[r] = rejected[r]
    BY <1>4, NotesStep
  <2>2. \A r \in Request \ {job.subject} : Quiet(r)
    BY <2>1 DEF Unfinished, Blocked
  <2>3. \A r \in Request \ {job.subject} : ~Unfinished(r) /\ ~Blocked(r)
    BY <1>1, <2>1 DEF Alone, Preparing
  <2>4. pc' \in Working \cup {"idle"} /\ (pc' # "idle" => job'.subject = job.subject)
    <3>1. \/ pc' = "publish" /\ (job' = job \/ job' = [job EXCEPT !.dir = "restore"])
          \/ pc' = "rebuild" /\ job' = job
          \/ pc' = "idle"
      BY <1>4 DEF Notes, RecordThenUndo, RecordCommitted, MarkRecoveryRequired, RecordPrepared,
                  Go, GoFor, End
    <3>2. [job EXCEPT !.dir = "restore"].subject = job.subject
      BY <1>1, Fields
    <3> QED
      BY <3>1, <3>2 DEF Working, Replacing, Completing
  <2>5. pc' \notin Ordering \cup Preparing \cup {"prune", "retire"}
    BY <2>4 DEF Working, Recovering, Replacing, Completing, Ordering, Preparing
  <2>6. pc' \in Working => job'.subject = job.subject
    BY <2>4 DEF Working, Recovering, Replacing, Completing
  <2>7. \A r \in Request : Unfinished(r)' \/ Blocked(r)' => r = job.subject
    BY <2>2, <2>3
  <2> QED
    BY <2>5, <2>6, <2>7 DEF Alone
<1>5. CASE WriteTerminal
  <2>1. /\ pc = "terminal" /\ pc' = "prune" /\ job.subject \in Request
        /\ \A r \in Request \ {job.subject} : record'[r] = record[r] /\ rejected'[r] = rejected[r]
        /\ \/ rejected'[job.subject]
           \/ record'[job.subject] \in {"verified", "rolledBack"}
    BY <1>5, TerminalStep
  <2>2. \A r \in Request \ {job.subject} : Quiet(r)
    BY <2>1 DEF Unfinished, Blocked
  <2>3. \A r \in Request \ {job.subject} : ~Unfinished(r) /\ ~Blocked(r)
    BY <1>1, <2>1 DEF Alone, Ordering
  <2>4. \A r \in Request : r = job.subject => ~Unfinished(r)' /\ ~Blocked(r)'
    BY <2>1 DEF Unfinished, Blocked
  <2>5. \A r \in Request : ~Unfinished(r)' /\ ~Blocked(r)'
    BY <2>2, <2>3, <2>4
  <2> QED
    BY <2>1, <2>5 DEF Alone, Working, Recovering, Replacing, Completing, Ordering
<1>6. CASE RetireEntry
  <2>1. /\ pc = "retire" /\ pc' = "retire"
        /\ \A r \in Request : ~Blocked(r) /\ (Unfinished(r) => r \in job.doomed)
        /\ \A r, s \in job.doomed : r = s
    BY <1>1, <1>6, RetireStep DEF Alone
  <2>2. PICK d \in job.doomed : d \in Request /\ Deletes(d)
    BY <1>6, RetireStep
  <2>3. \A r \in Request \ {d} : Quiet(r)
    BY <2>2 DEF Deletes, Unfinished, Blocked
  <2>4. \A r \in Request \ {d} : ~Unfinished(r)' /\ ~Blocked(r)'
    BY <2>1, <2>2, <2>3
  <2>5. record'[d] \in {"none", "prepared", "committed"}
    BY <2>2 DEF Deletes, Earlier
  <2>6. \A r \in Request : ~Blocked(r)'
    BY <2>4, <2>5 DEF Blocked
  <2>7. record'[d] # "none" => job' = job
    BY <2>2 DEF Deletes
  <2>8. job'.doomed \subseteq job.doomed
    BY <2>2 DEF Deletes
  <2>9. \A r \in Request : Unfinished(r)' => r = d /\ r \in job'.doomed
    <3>1. \A r \in Request : Unfinished(r)' => record'[r] # "none"
      BY DEF Unfinished
    <3> QED
      BY <2>2, <2>4, <2>7, <3>1
  <2> QED
    BY <2>1, <2>6, <2>8, <2>9
       DEF Alone, Working, Recovering, Replacing, Completing, Ordering, Preparing
<1>7. CASE ~Edits /\ ~Notes /\ ~WriteTerminal /\ ~RetireEntry
  <2>1. \A r \in Request : Quiet(r)
    BY <1>2, <1>7, Kinds, StillData, TouchesData, ExchangeStep, VerifyStep
  <2>2. ASSUME pc' \in Working
        PROVE  \A r \in Request : Unfinished(r) \/ Blocked(r) => r = job'.subject
    <3>1. CASE pc = "inspect"
      BY <1>1, <1>7, <2>2, <3>1, FlowWork
         DEF Alone, Working, Recovering, Replacing, Completing, Ordering
    <3>2. CASE pc \in Working \cup Ordering /\ pc # "inspect" /\ pc # "prepare"
      BY <1>1, <1>7, <2>2, <3>2, FlowWork DEF Alone
    <3>3. CASE pc = "prepare"
      BY <1>1, <3>3 DEF Alone, Preparing
    <3> QED
      BY <1>7, <2>2, <3>1, <3>2, <3>3, FlowWork
         DEF Working, Recovering, Replacing, Completing, Ordering
  <2>3. ASSUME pc' \in Ordering
        PROVE  \A r \in Request : Unfinished(r) \/ Blocked(r) => r = job'.subject
    <3>1. /\ job'.subject = job.subject
          /\ pc \in Ordering \cup {"confirm", "revalidate", "restoreRebuild", "observe",
                                   "rederive", "derive", "verify"}
      BY <1>7, <2>3, FlowOrder
    <3>2. pc \in Working \cup Ordering \/ pc \in Preparing
      BY <3>1 DEF Working, Recovering, Completing, Preparing
    <3> QED
      BY <1>1, <3>1, <3>2 DEF Alone
  <2>4. ASSUME pc' \in Preparing \cup {"prune", "retire"}
        PROVE  \A r \in Request : ~Unfinished(r) /\ ~Blocked(r)
    <3>1. CASE pc = "inspect"
      BY <1>7, <2>4, <3>1, FlowPrepare
    <3>2. CASE pc = "retire"
      BY <1>1, <1>7, <2>4, <3>2, FlowPrepare DEF Alone
    <3>3. CASE pc \in Preparing \cup {"prune"}
      BY <1>1, <3>3 DEF Alone
    <3> QED
      BY <1>7, <2>4, <3>1, <3>2, <3>3, FlowPrepare DEF Preparing
  <2>5. ASSUME pc' = "retire"
        PROVE  \A r, s \in job'.doomed : r = s
    <3>1. /\ job'.doomed = {r \in Request : Prunable(r)}
          /\ \A r, s \in Request : IsTerminal(r) /\ IsTerminal(s) /\ sequence[r] = sequence[s]
               => r = s
      BY <1>7, <2>5, FlowPrepare DEF Preparing
    <3>2. \A r, s \in Request : Prunable(r) /\ Prunable(s) => r = s
      BY <2>4, <2>5, <3>1, OnePrunable
    <3> QED
      BY <3>1, <3>2
  <2> QED
    BY <1>1, <2>1, <2>2, <2>3, <2>4, <2>5 DEF Alone
<1> QED
  BY <1>3, <1>4, <1>5, <1>6, <1>7

(* The number of transactions on disk stays within Retention and one. *)
LEMMA CountStep ==
  ASSUME MInv, MNext
  PROVE  Counted'
<1>1. /\ Counted /\ Alone /\ Pairs /\ Occupied \subseteq Request /\ Retention \in Nat
      /\ Cardinality(Occupied) \in Nat
  BY Counting, MutationAssumption DEF MInv, Occupied
<1>2. Occupied' \subseteq Request
  BY DEF Occupied
<1>3. UNCHANGED <<record, rejected>> => Occupied' = Occupied
  BY DEF Occupied
<1>4. CASE Edits
  <2>1. UNCHANGED <<pc, job, record, rejected, sequence, accepted>>
        /\ source' \cap Request \subseteq source
    BY <1>4, EditStep
  <2>2. \A d \in Request : IsTerminal(d)' = IsTerminal(d)
    BY <2>1 DEF IsTerminal
  <2>3. \A d \in Request : Newer(d)' = Newer(d)
    BY <2>1, <2>2 DEF Newer
  <2>4. job.doomed \subseteq Request
    BY DEF MInv, MTypeOK, Job
  <2> QED
    BY <1>1, <1>3, <2>1, <2>2, <2>3, <2>4 DEF Counted
<1>5. CASE Notes
  <2>1. /\ job.subject \in Request /\ record'[job.subject] # "none"
        /\ \A r \in Request \ {job.subject} : record'[r] = record[r] /\ rejected'[r] = rejected[r]
        /\ Unfinished(job.subject) \/ pc = "prepare"
    BY <1>5, NotesStep
  <2>2. Occupied' = Occupied \cup {job.subject}
    BY <2>1 DEF Occupied
  <2>3. Cardinality(Occupied') <= Retention + 1
    <3>1. CASE job.subject \in Occupied
      <4>1. Occupied' = Occupied
        BY <2>2, <3>1
      <4> QED
        BY <1>1, <4>1 DEF Counted
    <3>2. CASE job.subject \notin Occupied
      <4>1. Unfinished(job.subject) => job.subject \in Occupied
        BY <2>1 DEF Unfinished, Occupied
      <4>2. Cardinality(Occupied) <= Retention
        BY <1>1, <2>1, <3>2, <4>1 DEF Counted, Preparing
      <4>3. Cardinality(Occupied') = Cardinality(Occupied) + 1
        BY <1>1, <2>2, <3>2, Counting, FS_AddElement
      <4> QED
        BY <1>1, <4>2, <4>3
    <3> QED
      BY <3>1, <3>2
  <2>4. pc' \in {"publish", "rebuild", "idle"}
    BY <1>5 DEF Notes, RecordThenUndo, RecordCommitted, MarkRecoveryRequired, RecordPrepared,
                Go, GoFor, End
  <2> QED
    BY <2>3, <2>4 DEF Counted, Ordering, Preparing
<1>6. CASE WriteTerminal
  <2>1. /\ job.subject \in Request /\ pc = "terminal" /\ pc' = "prune"
        /\ record'[job.subject] # "none" \/ rejected'[job.subject]
        /\ \A r \in Request \ {job.subject} : record'[r] = record[r] /\ rejected'[r] = rejected[r]
    BY <1>6, TerminalStep
  <2>2. Occupied' = Occupied \cup {job.subject}
    BY <2>1 DEF Occupied
  <2>3. CASE job.subject \in Occupied
    BY <1>1, <2>1, <2>2, <2>3 DEF Counted, Ordering, Preparing
  <2>4. CASE job.subject \notin Occupied
    <3>1. Cardinality(Occupied) <= Retention
      BY <1>1, <2>1, <2>4 DEF Counted, Ordering
    <3>2. Cardinality(Occupied') = Cardinality(Occupied) + 1
      BY <1>1, <2>2, <2>4, Counting, FS_AddElement
    <3>3. Cardinality(Occupied') <= Retention + 1
      BY <1>1, <3>1, <3>2
    <3> QED
      BY <2>1, <3>3 DEF Counted, Ordering, Preparing
  <2> QED
    BY <2>3, <2>4
<1>7. CASE RetireEntry
  <2>1. PICK d \in job.doomed : d \in Request /\ Deletes(d)
    BY <1>7, RetireStep
  <2>2. /\ pc = "retire" /\ pc' = "retire" /\ source' = source /\ accepted' = accepted
        /\ \A r, s \in job.doomed : r = s
    BY <1>1, <1>7, RetireStep DEF Alone
  <2>3. /\ Occupied' \subseteq Occupied /\ job'.doomed \subseteq job.doomed
        /\ Occupied' \ job'.doomed \subseteq Occupied \ job.doomed
    <3>1. CASE record[d] # "none"
      <4>1. /\ job' = job /\ rejected' = rejected /\ d \in Occupied
            /\ \A r \in Request \ {d} : record'[r] = record[r]
        BY <2>1, <3>1 DEF Deletes, Occupied
      <4> QED
        BY <2>1, <4>1 DEF Occupied
    <3>2. CASE record[d] = "none"
      <4>1. /\ job'.doomed = job.doomed \ {d} /\ record'[d] = "none" /\ rejected'[d] = FALSE
            /\ \A r \in Request \ {d} : record'[r] = record[r] /\ rejected'[r] = rejected[r]
        BY <2>1, <3>2 DEF Deletes
      <4>2. d \notin Occupied' /\ \A r \in Request \ {d} : r \in Occupied' <=> r \in Occupied
        BY <4>1 DEF Occupied
      <4> QED
        BY <1>2, <2>1, <4>1, <4>2
    <3> QED
      BY <3>1, <3>2
  <2>4. Cardinality(Occupied') <= Cardinality(Occupied) /\ Cardinality(Occupied') \in Nat
    BY <1>1, <2>3, Counting
  <2>5. /\ Cardinality(Occupied' \ job'.doomed) <= Cardinality(Occupied \ job.doomed)
        /\ Cardinality(Occupied' \ job'.doomed) \in Nat
        /\ Cardinality(Occupied \ job.doomed) \in Nat
    <3>1. Occupied \ job.doomed \subseteq Request
      BY <1>1
    <3> QED
      BY <2>3, <3>1, Counting
  <2>6. ASSUME NEW e \in job'.doomed
        PROVE  /\ IsTerminal(e)' => Cardinality(Newer(e)') >= Retention
               /\ e \in source' => e \in accepted'
    <3>1. e = d /\ e \in job.doomed
      BY <2>1, <2>2, <2>3
    <3>2. e \in source' => e \in accepted'
      BY <1>1, <2>2, <3>1 DEF Counted
    <3>3. ASSUME IsTerminal(e)'
          PROVE  Cardinality(Newer(e)') >= Retention
      <4>1. record'[d] \notin {"verified", "rolledBack"}
        BY <2>1 DEF Deletes, Earlier
      <4>2. rejected'[d]
        BY <3>1, <3>3, <4>1 DEF IsTerminal
      <4>3. rejected[d] /\ sequence'[d] = sequence[d]
        BY <2>1, <4>2 DEF Deletes
      <4>4. IsTerminal(d)
        BY <1>1, <2>1, <4>3 DEF IsTerminal, Pairs
      <4>5. \A s \in Request \ {d} : IsTerminal(s)' = IsTerminal(s) /\ sequence'[s] = sequence[s]
        BY <2>1 DEF Deletes, IsTerminal
      <4>6. sequence[d] \in Nat
        BY <2>1, MutationAssumption DEF MInv, MTypeOK
      <4>7. Newer(d)' = Newer(d)
        <5>1. d \notin Newer(d) /\ d \notin Newer(d)'
          BY <4>3, <4>6 DEF Newer
        <5> QED
          BY <4>3, <4>5, <5>1 DEF Newer
      <4>8. Cardinality(Newer(d)) >= Retention
        BY <1>1, <2>2, <3>1, <4>4 DEF Counted
      <4> QED
        BY <3>1, <4>7, <4>8
    <3> QED
      BY <3>2, <3>3
  <2>7. Cardinality(Occupied') <= Retention + 1 /\ Cardinality(Occupied' \ job'.doomed) <= Retention
    BY <1>1, <2>2, <2>4, <2>5 DEF Counted
  <2> QED
    BY <2>2, <2>6, <2>7 DEF Counted, Ordering, Preparing
<1>8. CASE ~Edits /\ ~Notes /\ ~WriteTerminal /\ ~RetireEntry
  <2>1. /\ UNCHANGED <<record, rejected, sequence>>
        /\ Still \/ Verify \/ Exchange => accepted' = accepted
    BY <1>8, Kinds, StillData, TouchesData, ExchangeStep, VerifyStep
  <2>2. Occupied' = Occupied /\ Cardinality(Occupied) <= Retention + 1
    BY <1>1, <1>3, <2>1 DEF Counted
  <2>3. ASSUME pc' \in Preparing
        PROVE  Cardinality(Occupied) <= Retention
    <3>1. CASE pc = "retire"
      <4>1. job.doomed = {}
        BY <1>8, <2>3, <3>1, FlowPrepare DEF Preparing
      <4>2. Occupied \ job.doomed = Occupied
        BY <4>1
      <4> QED
        BY <1>1, <3>1, <4>2 DEF Counted
    <3>2. CASE pc \in Preparing
      BY <1>1, <3>2 DEF Counted
    <3> QED
      BY <1>8, <2>3, <3>1, <3>2, FlowPrepare DEF Preparing
  <2>4. ASSUME pc' \in Ordering, job'.subject \notin Occupied
        PROVE  Cardinality(Occupied) <= Retention
    <3>1. /\ job'.subject = job.subject
          /\ pc \in Ordering \cup {"confirm", "revalidate", "restoreRebuild", "observe",
                                   "rederive", "derive", "verify"}
      BY <1>8, <2>4, FlowOrder
    <3>2. CASE pc \in Working
      <4>1. job.subject \in Occupied
        BY <3>2, AtHand DEF Unfinished, Occupied
      <4> QED
        BY <2>4, <3>1, <4>1
    <3>3. CASE pc \in Ordering
      BY <1>1, <2>4, <3>1, <3>3 DEF Counted
    <3>4. CASE pc \in Preparing
      BY <1>1, <3>4 DEF Counted
    <3> QED
      BY <3>1, <3>2, <3>3, <3>4 DEF Working, Recovering, Completing, Preparing
  <2>5. ASSUME pc' = "retire"
        PROVE  /\ Cardinality(Occupied \ job'.doomed) <= Retention
               /\ \A d \in job'.doomed :
                    /\ IsTerminal(d)' => Cardinality(Newer(d)') >= Retention
                    /\ d \in source' => d \in accepted'
    <3>1. /\ pc = "prune" /\ Still /\ job'.doomed = {r \in Request : Prunable(r)}
          /\ \A r, s \in Request : IsTerminal(r) /\ IsTerminal(s) /\ sequence[r] = sequence[s]
               => r = s
      BY <1>8, <2>5, FlowPrepare DEF Preparing
    <3>2. \A r \in Request : ~Unfinished(r) /\ ~Blocked(r)
      BY <1>1, <3>1 DEF Alone
    <3>3. Cardinality(Occupied \ job'.doomed) <= Retention
      BY <3>1, <3>2, PruneMakesRoom
    <3>4. \A d \in Request : IsTerminal(d)' = IsTerminal(d)
      BY <2>1 DEF IsTerminal
    <3>5. \A d \in Request : Newer(d)' = Newer(d)
      BY <2>1, <3>4 DEF Newer
    <3>6. ASSUME NEW d \in Request, Prunable(d), d \in source
          PROVE  d \in accepted
      BY <3>6 DEF MInv, LiveEditIsJournaled, Prunable, IsTerminal
    <3>7. source' = source /\ accepted' = accepted
      BY <3>1, StillData
    <3> QED
      BY <3>1, <3>3, <3>4, <3>5, <3>6, <3>7 DEF Prunable
  <2> QED
    BY <2>2, <2>3, <2>4, <2>5 DEF Counted
<1> QED
  BY <1>4, <1>5, <1>6, <1>7, <1>8

---------------------------------------------------------------------------
(* The invariant. *)

(* The first state satisfies the invariant. *)
LEMMA MInvInit ==
  ASSUME MInit
  PROVE  MInv
<1>1. /\ source = {} /\ added = {} /\ clobbered = {} /\ finished = {} /\ accepted = {}
      /\ pc = "idle" /\ job = NoJob /\ head = InitialHead /\ receipts = 1..InitialHead
      /\ calls = 0 /\ faults = 0
      /\ record = [r \in Request |-> "none"] /\ rejected = [r \in Request |-> FALSE]
      /\ sequence = [r \in Request |-> 0] /\ artifacts = [r \in Request |-> NoArtifacts]
      /\ residue = [r \in Request |-> NoBytes]
  BY DEF MInit
<1>2. MTypeOK
  <2>1. 0 \in 0..MaxSequence /\ 1..InitialHead \subseteq 1..MaxSequence /\ InitialHead \in 0..MaxSequence
        /\ 0 \in 0..MaxCalls /\ 0 \in 0..MaxFaults
    BY MutationAssumption
  <2>2. {} \in Bytes /\ "none" \in State /\ "idle" \in MStep /\ NoJob \in Job
    BY NoJobType DEF Bytes, State, MStep
  <2> QED
    BY <1>1, <2>1, <2>2 DEF MTypeOK
<1>3. /\ \A r \in Request : /\ record[r] = "none" /\ rejected[r] = FALSE
                            /\ artifacts[r] = NoArtifacts /\ residue[r] = NoBytes
                            /\ sequence[r] = 0
      /\ Occupied = {} /\ \A r \in Request : ~Unfinished(r) /\ ~Blocked(r)
  BY <1>1 DEF Occupied, Unfinished, Blocked
<1>4. Pairs /\ Kept
  BY <1>1, <1>3 DEF Pairs, Kept
<1>5. pc \notin Working \cup Ordering \cup Preparing \cup {"prune", "retire"}
  BY <1>1 DEF Working, Recovering, Replacing, Completing, Ordering, Preparing
<1>6. Subject /\ Alone
  BY <1>3, <1>5 DEF Subject, Alone, Working, Recovering, Preparing
<1>7. Counted
  <2>1. Cardinality(Occupied) = 0
    BY <1>3, FS_EmptySet
  <2> QED
    BY <1>5, <2>1, MutationAssumption DEF Counted
<1>8. Ordered
  BY <1>1, <1>3, MutationAssumption DEF Ordered
<1>9. Replacement
  BY <1>1 DEF Replacement
<1>10. Displaced
  <2>1. \A r \in Request : Clean(r)
    BY <1>3, MutationAssumption DEF Clean, NoBytes
  <2> QED
    BY <2>1 DEF Displaced
<1>11. EditsSurvive /\ AcceptedIsLive /\ LiveEditIsJournaled
  BY <1>1, <1>3 DEF EditsSurvive, AcceptedIsLive, LiveEditIsJournaled
<1> QED
  BY <1>2, <1>4, <1>6, <1>7, <1>8, <1>9, <1>10, <1>11 DEF MInv

(* A stuttering step preserves it. *)
LEMMA MInvStutter ==
  ASSUME MInv, UNCHANGED mvars
  PROVE  MInv'
<1>1. UNCHANGED <<source, record, rejected, sequence, artifacts, residue, receipts, head, pc, job,
                  added, clobbered, finished, accepted, calls, faults>>
  BY DEF mvars
<1>2. /\ Occupied' = Occupied /\ Expected' = Expected /\ Desired' = Desired
      /\ \A r : /\ Unfinished(r)' = Unfinished(r) /\ Blocked(r)' = Blocked(r)
                /\ IsTerminal(r)' = IsTerminal(r) /\ Before(r)' = Before(r)
                /\ Staged(r)' = Staged(r) /\ Journaled(r)' = Journaled(r)
  BY <1>1 DEF Occupied, Expected, Desired, Unfinished, Blocked, IsTerminal, Before, Staged,
              Journaled
<1>3. \A r : Newer(r)' = Newer(r) /\ Clean(r)' = Clean(r)
  BY <1>1, <1>2 DEF Newer, Clean
<1>4. MTypeOK' /\ Pairs' /\ Ordered' /\ Kept'
  BY <1>1, <1>2 DEF MInv, MTypeOK, Pairs, Ordered, Kept
<1>5. Subject' /\ Alone'
  <2>1. /\ Unfinished(job.subject)' = Unfinished(job.subject)
    BY <1>1 DEF Unfinished
  <2> QED
    BY <1>1, <1>2, <2>1 DEF MInv, Subject, Alone
<1>6. Counted'
  BY <1>1, <1>2, <1>3 DEF MInv, Counted
<1>7. Replacement'
  <2>1. Before(job.subject)' = Before(job.subject) /\ Staged(job.subject)' = Staged(job.subject)
    BY <1>1 DEF Before, Staged
  <2> QED
    BY <1>1, <1>2, <2>1 DEF MInv, Replacement
<1>8. Displaced'
  BY <1>1, <1>2, <1>3 DEF MInv, Displaced
<1>9. EditsSurvive' /\ AcceptedIsLive' /\ LiveEditIsJournaled'
  BY <1>1 DEF MInv, EditsSurvive, AcceptedIsLive, LiveEditIsJournaled
<1> QED
  BY <1>4, <1>5, <1>6, <1>7, <1>8, <1>9 DEF MInv

(* Every step preserves it. *)
LEMMA MInvStep ==
  ASSUME MInv, [MNext]_mvars
  PROVE  MInv'
<1>1. CASE MNext
  BY <1>1, MTypeStep, PairsStep, SubjectStep, AloneStep, CountStep, OrderedStep, KeptStep,
     ReplacementStep, DisplacedStep, SurviveStep, LiveStep DEF MInv
<1>2. CASE UNCHANGED mvars
  BY <1>2, MInvStutter
<1> QED
  BY <1>1, <1>2

(* It holds in every state of a behaviour. *)
LEMMA MInvariance == MSpec => []MInv
<1>1. MInit => MInv
  BY MInvInit
<1>2. MInv /\ [MNext]_mvars => MInv'
  BY MInvStep
<1> QED
  BY <1>1, <1>2, PTL DEF MSpec

---------------------------------------------------------------------------
(* The theorems. *)

(* The journal, the residues and the session of a mutation keep their types. *)
THEOREM MutationTypes == MSpec => []MTypeOK
<1>1. MInv => MTypeOK
  BY DEF MInv
<1> QED
  BY <1>1, MInvariance, PTL

(* Whatever an editor outside the lease wrote is live or in a residue, however *)
(* publishes, rollbacks, recoveries, crashes and its own writes interleave     *)
(* (replaceRetainedNoFollowSourceFile).                                        *)
THEOREM NoLostUpdate == MSpec => []EditsSurvive
<1>1. MInv => EditsSurvive
  BY DEF MInv
<1> QED
  BY <1>1, MInvariance, PTL

(* An accepted edit is live until an editor overwrites it (completeCommitted). *)
THEOREM AcceptedStays == MSpec => []AcceptedIsLive
<1>1. MInv => AcceptedIsLive
  BY DEF MInv
<1> QED
  BY <1>1, MInvariance, PTL

(* An edit that is not accepted is live only under its prepared, committed or  *)
(* recovery-required record.                                                   *)
THEOREM LiveEditsAreOwned == MSpec => []LiveEditIsJournaled
<1>1. MInv => LiveEditIsJournaled
  BY DEF MInv
<1> QED
  BY <1>1, MInvariance, PTL

(* Recovery never finds two unfinished transactions                            *)
(* (inspectSemanticMutationRecoveryAuthority).                                 *)
THEOREM OneAuthority == MSpec => []OneUnfinished
<1>1. ASSUME MInv
      PROVE  OneUnfinished
  <2> DEFINE Open == {r \in Request : Unfinished(r)}
  <2>1. \A r, s \in Open : r = s
    BY <1>1 DEF MInv, Alone
  <2>2. CASE Open = {}
    <3>1. Cardinality({}) = 0
      BY FS_EmptySet
    <3> QED
      BY <2>2, <3>1 DEF OneUnfinished
  <2>3. CASE Open # {}
    <3>1. PICK r \in Open : Open = {r}
      BY <2>1, <2>3
    <3>2. Cardinality(Open) = 1
      BY <3>1, FS_Singleton
    <3> QED
      BY <3>2 DEF OneUnfinished
  <2> QED
    BY <2>2, <2>3
<1> QED
  BY <1>1, MInvariance, PTL

(* A session that runs while recovery is required has not passed the look at   *)
(* the journal.                                                                *)
LEMMA BlockedWaits ==
  ASSUME MInv, NEW r \in Request, Blocked(r)
  PROVE  pc \in {"idle", "inspect"}
<1>1. ~Unfinished(r) /\ r \in Occupied
  BY DEF Blocked, Unfinished, Occupied
<1>2. pc \notin Working \cup Ordering
  BY <1>1 DEF MInv, Subject, Alone
<1>3. pc \notin Preparing \cup {"prune", "retire"}
  BY DEF MInv, Alone
<1>4. pc \in MStep
  BY DEF MInv, MTypeOK
<1> QED
  BY <1>2, <1>3, <1>4
     DEF MStep, Working, Recovering, Replacing, Completing, Ordering, Preparing

(* A transaction that requires recovery stops all later work: the journal, the *)
(* residues and the sequence stay, and only an editor changes the source       *)
(* (markRecoveryRequired).                                                     *)
THEOREM RecoveryRequiredFreezes == MSpec => FrozenWhileBlocked
<1> DEFINE Frozen == (\E r \in Request : record[r] = "required" /\ ~rejected[r])
                       => UNCHANGED <<journal, residue, order>> /\ (source' # source => added' # added)
<1>1. ASSUME MInv, MNext
      PROVE  Frozen
  <2>1. SUFFICES ASSUME NEW r \in Request, Blocked(r)
                 PROVE  /\ UNCHANGED <<record, rejected, sequence, artifacts, residue, receipts, head>>
                        /\ source' # source => added' # added
    BY DEF Blocked, journal, order
  <2>2. pc \in {"idle", "inspect"}
    BY <1>1, <2>1, BlockedWaits
  <2>3. CASE Edits
    BY <1>1, <2>3, EditStep
  <2>4. CASE Touches
    BY <1>1, <2>2, <2>4, TouchesData, ResidueStep
  <2>5. CASE Still
    <3>1. ~ReserveSequence /\ ~WriteSequenceHead
      BY <2>2 DEF ReserveSequence, WriteSequenceHead
    <3>2. UNCHANGED <<receipts, head>>
      BY <2>5, <3>1 DEF Still, BeginApply, BeginRecover, InspectAuthority, SettleResidue,
         ObserveLiveDigest, Rederive, Revalidate, FinalRead, ObserveAfterFailure, RebuildLive,
         ConfirmCommitted, RebuildRestored, PruneCensus, PruneDone, ReadRetained, Derive,
         Interrupt, order
    <3> QED
      BY <2>5, <3>2, StillData
  <2>6. ~Notes /\ ~Exchange /\ ~WriteTerminal /\ ~RetireEntry /\ ~Verify
    BY <1>1, <2>2, NotesStep, ExchangeStep, TerminalStep, RetireStep, VerifyStep
       DEF Working, Recovering, Replacing, Completing
  <2> QED
    BY <1>1, <2>3, <2>4, <2>5, <2>6, Kinds
<1>2. MInv /\ [MNext]_mvars => [Frozen]_mvars
  BY <1>1
<1> QED
  BY <1>2, MInvariance, PTL DEF MSpec, FrozenWhileBlocked

(* How the retained terminals change. *)
LEMMA HistoryStep ==
  ASSUME MInv, MNext, NEW r \in Request
  PROVE  /\ ~IsTerminal(r) /\ IsTerminal(r)' =>
              \A s \in Request : s # r /\ IsTerminal(s) => sequence[s] < sequence'[r]
         /\ IsTerminal(r) /\ ~IsTerminal(r)' => Cardinality(Newer(r)) >= Retention
<1>1. CASE UNCHANGED <<record, rejected>>
  BY <1>1 DEF IsTerminal
<1>2. CASE Notes
  <2>1. CASE r = job.subject
    <3>1. ~rejected[r] /\ rejected' = rejected /\ record'[r] \in {"prepared", "committed", "required"}
          /\ record[r] \in {"none", "prepared", "committed"}
      BY <1>2, <2>1, NotesStep DEF Unfinished, Occupied
    <3> QED
      BY <3>1 DEF IsTerminal
  <2>2. CASE r # job.subject
    BY <1>2, <2>2, NotesStep DEF IsTerminal
  <2> QED
    BY <2>1, <2>2
<1>3. CASE WriteTerminal
  <2>1. CASE r = job.subject
    <3>1. ~IsTerminal(r)
      BY <1>3, <2>1, TerminalStep DEF IsTerminal
    <3>2. \A s \in Request : sequence[s] < sequence'[r]
      BY <1>3, <2>1, TerminalStep DEF MInv, Ordered
    <3> QED
      BY <3>1, <3>2
  <2>2. CASE r # job.subject
    BY <1>3, <2>2, TerminalStep DEF IsTerminal
  <2> QED
    BY <2>1, <2>2
<1>4. CASE RetireEntry
  <2>1. PICK d \in job.doomed : d \in Request /\ Deletes(d)
    BY <1>4, RetireStep
  <2>2. CASE r = d
    <3>1. record'[d] \notin {"verified", "rolledBack"} /\ (rejected'[d] => rejected[d])
      BY <2>1 DEF Deletes, Earlier
    <3>2. IsTerminal(r)' => IsTerminal(r)
      BY <2>1, <2>2, <3>1 DEF IsTerminal, MInv, Pairs
    <3>3. IsTerminal(r) => Cardinality(Newer(r)) >= Retention
      BY <1>4, <2>1, <2>2, RetireStep DEF MInv, Counted
    <3> QED
      BY <3>2, <3>3
  <2>3. CASE r # d
    BY <2>1, <2>3 DEF Deletes, IsTerminal
  <2> QED
    BY <2>2, <2>3
<1> QED
  BY <1>1, <1>2, <1>3, <1>4, Kinds, StillData, TouchesData, EditStep, ExchangeStep, VerifyStep

(* The terminal history is a queue: a new terminal is newer than all retained  *)
(* ones, and a prune takes only what is older than Retention others, over      *)
(* crashes between receipt, head and terminal and over interrupted prunes      *)
(* (reserveSemanticMutationTerminalSequence,                                   *)
(* pruneSemanticMutationTerminalRecords).                                      *)
THEOREM HistoryIsAQueue == MSpec => HistoryIsOrdered
<1> DEFINE Grows == \A r, s \in Request :
                      ~IsTerminal(r) /\ IsTerminal(r)' /\ s # r /\ IsTerminal(s)
                        => sequence[s] < sequence'[r]
           Retains == \A r \in Request : IsTerminal(r) /\ ~IsTerminal(r)'
                        => Cardinality(Newer(r)) >= Retention
<1>1. ASSUME MInv, MNext
      PROVE  Grows /\ Retains
  BY <1>1, HistoryStep
<1>2. MInv /\ [MNext]_mvars => [Grows]_mvars /\ [Retains]_mvars
  BY <1>1
<1> QED
  BY <1>2, MInvariance, PTL DEF MSpec, HistoryIsOrdered, SequenceGrows, RetainsNewest
=============================================================================
