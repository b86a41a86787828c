---------------------------- MODULE MCLeaseSessions ----------------------------
(***************************************************************************)
(* The waits of a process that works under a lease, for TLC: sessions that *)
(* contend for the lease, without faults, and what runs under it           *)
(* (MCSession).  The two share no state, so every behaviour is one of      *)
(* them, chosen at the start, with the other left in its Init.             *)
(***************************************************************************)
EXTENDS MCSession

CONSTANTS Contender, NoWriter, MaxGeneration, MaxAttempts, RetiresHistory

VARIABLES contends, owners, terminals, held, at, view, attempts, goal, todo

\* The ledger the contenders share.
Contended == INSTANCE WorkspaceWriteLease WITH
  Writer <- Contender, Faults <- FALSE,
  owner <- owners, terminal <- terminals, holders <- held, pc <- at

contention == <<owners, terminals, held, at, view, attempts, goal, todo>>
sessionsVars == <<contends, contention, sessionVars>>

SessionsInit ==
  /\ contends \in BOOLEAN /\ Contended!Init /\ SessionInit
  /\ contends => part = "root"

Contends(A) == contends /\ A /\ UNCHANGED <<contends, sessionVars>>
Inside(A) == ~contends /\ A /\ UNCHANGED <<contends, contention>>

SessionsNext == Contends(Contended!Next) \/ Inside(SessionNext)

\* A contender goes on, and a holder asks for its release in the end, as in the
\* lease's own Fairness.
SessionsSpec ==
  /\ SessionsInit /\ [][SessionsNext]_sessionsVars
  /\ SessionFairness
  /\ \A w \in Contender :
       /\ WF_sessionsVars(Contends(Contended!Acquire(w)))
       /\ WF_sessionsVars(Contends(Contended!Proceed(w)))
       /\ SF_sessionsVars(Contends(Contended!Request(w, "release")))

-----------------------------------------------------------------------------
\* Somebody waits: contenders of which none has succeeded, a call of the
\* handle, a monitored operation whose lease was lost, a group, close, a reader
\* whose parent was cancelled.
Waiting ==
  \/ Contended!AcquisitionIsPending
  \/ CallIsPending \/ LossIsPending \/ GroupIsPending \/ CloseIsPending \/ AbortIsPending

\* Every wait ends.  What has succeeded or ended stays so, and there are
\* finitely many waits, so this is that each of them ends: contenders do not
\* defeat each other by what they leave on the disk, however few attempts each
\* has, and a call, a group, a close or an operation ends whatever the
\* heartbeat, the lock, the observations, the callbacks or a stalled source do.
EveryWaitEnds == []<>~Waiting
=============================================================================
