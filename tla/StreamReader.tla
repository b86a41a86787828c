------------------------------ MODULE StreamReader -----------------------------
(***************************************************************************)
(* withOwnedByteStreamReader: one reader is lent to an operation as a read *)
(* function, a cancelled parent cancels the stream, and closeout waits for *)
(* the cancellation and for an unfinished read before it releases the      *)
(* lock, each attempted whatever happened to the one before                *)
(* (settleResourcesAsync).  The stream itself is external: a read of a     *)
(* source that has stalled settles only when the stream is cancelled.      *)
(***************************************************************************)
EXTENDS Naturals

CONSTANT MaxReads   \* bound on the reads that are started

ASSUME ReadsAssumption == MaxReads \in Nat

VARIABLES
  stream,       \* external: "flowing", "stalled", "ended"
  admitting, terminal,
  read,         \* pending: "none", or "pending"
  waiting,      \* the operation awaits the pending read
  cancellation, \* "none", "requested", "done" or "failed"
  stopped,      \* the parent's signal
  owner,        \* "operating", then the closeout step, then "ended"
  locked,       \* the stream is locked to the reader
  result,       \* of the operation: "none", "succeeded" or "failed"
  failed,       \* labels of what failed in closeout
  reads

readerVars == <<stream, admitting, terminal, read, waiting, cancellation, stopped,
                owner, locked, result, failed, reads>>

SInit ==
  /\ stream = "flowing"
  /\ admitting = TRUE /\ terminal = FALSE /\ read = "none" /\ waiting = FALSE
  /\ cancellation = "none" /\ stopped = FALSE
  /\ owner = "operating" /\ locked = TRUE /\ result = "none" /\ failed = {}
  /\ reads = 0

-----------------------------------------------------------------------------
(* The source, external.                                                   *)

Stall ==
  /\ stream = "flowing"
  /\ stream' = "stalled"
  /\ UNCHANGED <<admitting, terminal, read, waiting, cancellation, stopped, owner,
                 locked, result, failed, reads>>

\* A read settles with bytes, with the end of the stream, or with an error.
\* The handlers of read run with it, and the operation, if it waits, goes on.
\* An error during closeout is the one the join will meet.
ReadSettles ==
  /\ read = "pending"
  /\ read' = "none"
  /\ waiting' = FALSE
  /\ \/ stream = "flowing" /\ UNCHANGED <<stream, terminal, failed>>
     \/ /\ stream # "stalled" /\ stream' = "ended" /\ terminal' = TRUE
        /\ failed' \in {failed} \cup
             IF owner \in {"cancelling", "joining"} THEN {failed \cup {"read"}} ELSE {}
  /\ UNCHANGED <<admitting, cancellation, stopped, owner, locked, result, reads>>

\* reader.cancel settles; its stream has ended.
CancelSettles ==
  /\ cancellation = "requested"
  /\ cancellation' \in {"done", "failed"}
  /\ stream' = "ended"
  /\ UNCHANGED <<admitting, terminal, read, waiting, stopped, owner, locked, result,
                 failed, reads>>

-----------------------------------------------------------------------------
(* The operation and its signal.                                           *)

\* read(): refused after closeout began, while one is pending, when aborted.
\* A caller the operation has left behind may still try.
StartRead ==
  /\ admitting /\ read = "none" /\ ~stopped
  /\ reads < MaxReads
  /\ read' = "pending" /\ waiting' = (owner = "operating") /\ reads' = reads + 1
  /\ UNCHANGED <<stream, admitting, terminal, cancellation, stopped, owner, locked,
                 result, failed>>

\* The operation stops waiting for its read (a timeout of its own).
Abandon ==
  /\ owner = "operating" /\ waiting
  /\ waiting' = FALSE
  /\ UNCHANGED <<stream, admitting, terminal, read, cancellation, stopped, owner,
                 locked, result, failed, reads>>

Cancel == IF cancellation = "none" THEN "requested" ELSE cancellation

\* Mutant: nobody listens to the signal.
AbortUnheard ==
  /\ ~stopped
  /\ stopped' = TRUE
  /\ UNCHANGED <<cancellation, stream, admitting, terminal, read, waiting, owner,
                 locked, result, failed, reads>>

\* The parent cancels; the listener cancels a stream that has not ended, until
\* closeout removes it.
Abort ==
  /\ ~stopped
  /\ stopped' = TRUE
  /\ cancellation' = IF owner = "operating" /\ ~terminal THEN Cancel ELSE cancellation
  /\ UNCHANGED <<stream, admitting, terminal, read, waiting, owner, locked, result,
                 failed, reads>>

\* Mutant: closeout does not close admission.
OperationEndsOpen ==
  /\ owner = "operating" /\ ~waiting
  /\ result' \in {"failed"} \cup
       IF ~stopped /\ read = "none" THEN {"succeeded"} ELSE {}
  /\ owner' = "cancelling"
  /\ cancellation' = IF terminal THEN cancellation ELSE Cancel
  /\ UNCHANGED <<stream, admitting, terminal, read, waiting, stopped, locked,
                 failed, reads>>

\* The operation ends.  Success needs a signal that is not aborted and no read
\* in flight.
OperationEnds ==
  /\ owner = "operating" /\ ~waiting
  /\ result' \in {"failed"} \cup
       IF ~stopped /\ read = "none" THEN {"succeeded"} ELSE {}
  /\ admitting' = FALSE
  /\ owner' = "cancelling"
  /\ cancellation' = IF terminal THEN cancellation ELSE Cancel
  /\ UNCHANGED <<stream, terminal, read, waiting, stopped, locked, failed, reads>>

-----------------------------------------------------------------------------
(* Closeout: cancel, join the read, release; none is skipped.              *)

\* Mutant: a failed cancellation ends closeout.
CloseCancelStops ==
  /\ owner = "cancelling" /\ cancellation # "requested"
  /\ owner' = IF cancellation = "failed" THEN "ended" ELSE "joining"
  /\ failed' = IF cancellation = "failed" THEN failed \cup {"cancel"} ELSE failed
  /\ UNCHANGED <<stream, admitting, terminal, read, waiting, cancellation, stopped,
                 locked, result, reads>>

CloseCancel ==
  /\ owner = "cancelling" /\ cancellation # "requested"
  /\ owner' = "joining"
  /\ failed' = IF cancellation = "failed" THEN failed \cup {"cancel"} ELSE failed
  /\ UNCHANGED <<stream, admitting, terminal, read, waiting, cancellation, stopped,
                 locked, result, reads>>

\* Mutant: the unfinished read is not waited for.
CloseJoinNever ==
  /\ owner = "joining"
  /\ owner' = "releasing"
  /\ UNCHANGED <<stream, admitting, terminal, read, waiting, cancellation, stopped,
                 locked, result, failed, reads>>

CloseJoin ==
  /\ owner = "joining" /\ read = "none"
  /\ owner' = "releasing"
  /\ UNCHANGED <<stream, admitting, terminal, read, waiting, cancellation, stopped,
                 locked, result, failed, reads>>

CloseRelease ==
  /\ owner = "releasing"
  /\ owner' = "ended" /\ locked' = FALSE
  /\ UNCHANGED <<stream, admitting, terminal, read, waiting, cancellation, stopped,
                 result, failed, reads>>

Closeout == CloseCancel \/ CloseJoin \/ CloseRelease
Source == Stall \/ ReadSettles \/ CancelSettles

SNext == Source \/ StartRead \/ Abandon \/ Abort \/ OperationEnds \/ Closeout

SSpec == SInit /\ [][SNext]_readerVars

\* Closeout goes on; a cancelled or flowing stream settles its calls; an
\* operation that has nothing to wait for ends once it is aborted.
SFairSpec ==
  /\ SSpec
  /\ WF_readerVars(Closeout)
  /\ WF_readerVars(ReadSettles) /\ WF_readerVars(CancelSettles)
  /\ WF_readerVars(stopped /\ OperationEnds)

-----------------------------------------------------------------------------
STypeOK ==
  /\ stream \in {"flowing", "stalled", "ended"}
  /\ {admitting, terminal, waiting, stopped, locked} \subseteq BOOLEAN
  /\ read \in {"none", "pending"}
  /\ cancellation \in {"none", "requested", "done", "failed"}
  /\ owner \in {"operating", "cancelling", "joining", "releasing", "ended"}
  /\ result \in {"none", "succeeded", "failed"}
  /\ failed \subseteq {"cancel", "read"}
  /\ reads \in 0..MaxReads
  /\ waiting => read = "pending"
  /\ admitting <=> owner = "operating"

\* The lock is released on a quiet reader: no read and no cancellation is in
\* flight, so the next owner of the stream meets no late chunk.
ReleasedIsQuiet == ~locked => read = "none" /\ cancellation # "requested"

\* Closeout always ends with the lock released, also when cancelling or the
\* unfinished read failed.
EndedIsReleased == owner = "ended" => ~locked

\* The parent was cancelled and the operation has not ended.
AbortIsPending == stopped /\ owner # "ended"
=============================================================================
