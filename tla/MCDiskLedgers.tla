----------------------------- MODULE MCDiskLedgers -----------------------------
(***************************************************************************)
(* The two protocols by which processes share state on a disk, for TLC:    *)
(* the ledger of the workspace write lease and the journal files of the    *)
(* runtime state.  They share nothing, so every behaviour is one of them,  *)
(* chosen at the start, with the other left in its Init.                   *)
(***************************************************************************)
EXTENDS WorkspaceWriteLease, JournalMutation, TLC

VARIABLE part

diskVars == <<part, vars, jvars>>

\* Beside the lease it does not matter whether there is a journal.
DiskInit ==
  /\ part \in {"lease", "journal"} /\ Init /\ JInit
  /\ part = "lease" => anchor = 0

InLease(A) == part = "lease" /\ A /\ UNCHANGED <<part, jvars>>
InJournal(A) == part = "journal" /\ A /\ UNCHANGED <<part, vars>>

DiskNext == InLease(Next) \/ InJournal(JNext)

DiskSpec == DiskInit /\ [][DiskNext]_diskVars

\* Writers and calls are the same processes, and these are interchangeable.
Interchangeable == Permutations(Writer \cup Session)

\* States are the same when they differ only in what nobody looks at again: the
\* locals of a session or call that has ended, but for what was called and
\* answered, and the attempts of a session that has its owner link.
LiveState ==
  <<part, ledger, pc,
    [w \in Writer |->
      IF pc[w] \in EndSteps THEN <<>>
      ELSE <<view[w], goal[w], todo[w], IF pc[w] \in LinkedSteps THEN 0 ELSE attempts[w]>>],
    disk, guard, born, stage, applied, owed, aborts,
    [s \in Session |->
      IF stage[s] = "ended"
        THEN [NoJob EXCEPT !.op = job[s].op, !.answer = job[s].answer]
        ELSE job[s]]>>
=============================================================================
