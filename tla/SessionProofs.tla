----------------------------- MODULE SessionProofs -----------------------------
(***************************************************************************)
(* Proofs about what runs inside a process that works under a lease, for   *)
(* any number of sessions, calls, items, workers, queries and reads and    *)
(* for every bound on crashes, failures and heartbeats: the protocol root  *)
(* converges, a generation is ended once and quietly, nobody ends before   *)
(* what he started, and no outcome says more than what happened.           *)
(*                                                                         *)
(* The parts share no state, so each has an inductive invariant of its own *)
(* that its steps preserve and that the steps of the others leave alone.   *)
(***************************************************************************)
EXTENDS MCSession, SequenceTheorems, FiniteSetTheorems, TLAPS

-----------------------------------------------------------------------------
(* The protocol root.                                                      *)

\* The stages before a session links a marker, and after it.
Unlinked == {"idle", "start", "rooted", "ready", "candidate"}
Passed == {"linked", "inspect", "list", "stat", "recheck", "unlink", "final", "done"}

\* Directories are there for who made them.
Made ==
  \A s \in Session :
    /\ stage[s] \notin Ended \cup {"start"} => root
    /\ stage[s] \notin Ended \cup {"start", "rooted"} => holders

\* The session whose candidate the marker names never makes another one, and
\* its candidate is there until the link; from then on there is a marker; what
\* a session holds for the alias is the marker, and after its removal the
\* marker has one name.
Published ==
  /\ marker # None => stage[marker] \notin Unlinked
  /\ \A s \in Session :
       /\ stage[s] = "candidate" => s \in candidates
       /\ stage[s] \in Passed => marker # None
       /\ stage[s] \in {"recheck", "unlink"} => alias[s] = marker
       /\ stage[s] \in {"final", "done"} => marker \notin candidates

\* A session that runs alone meets at every stage what it left there.
Undisturbed(s) ==
  /\ stage[s] \notin Ended => \A t \in Session \ {s} : stage[t] \in Ended
  /\ stage[s] \in {"candidate", "linked"} => s \in candidates
  /\ stage[s] \in {"list", "stat", "recheck", "unlink"} => marker \in candidates
  /\ stage[s] = "stat" => listed[s] = candidates
  /\ stage[s] # "failed"

\* While none was interrupted somebody has won or is on the way: before the
\* link everyone, then the session of the marker until its candidate is gone,
\* then who removed that candidate.
OnTheWay ==
  /\ \A s \in Session : stage[s] # "crashed"
  /\ marker = None => \A s \in Session : stage[s] \in Unlinked
  /\ marker # None /\ marker \in candidates => stage[marker] = "linked"
  /\ marker # None /\ marker \notin candidates =>
       \/ stage[marker] = "inspect"
       \/ \E t \in Session : stage[t] \in {"final", "done"}

PInv ==
  /\ PTypeOK /\ Made /\ Published
  /\ \A s \in Session : alone[s] => Undisturbed(s)
  /\ crashes = 0 => OnTheWay

-----------------------------------------------------------------------------
(* The handle.                                                             *)

\* The steps in which a call is in the queue of the control-plane lock, and
\* those in which it holds the lock.
Entered == {"quiesced", "proved", "fenced", "terminal", "removed"}
InQueue(q, job) == \E i \in DOMAIN q : q[i] = job

Endings == {"release", "retire"}

\* What a step says of the operation a call is.
KindOf ==
  \A c \in Calls :
    /\ pc[c] = "idle" => kind[c] = "none"
    /\ pc[c] = "beating" => kind[c] = "heartbeat"
    /\ pc[c] \in {"moved", "checking"} => kind[c] = "relocate"
    /\ pc[c] \in {"asserting", "fenced"} => kind[c] = "retire"
    /\ pc[c] \in {"draining", "drained", "proved", "terminal", "removed"} => kind[c] \in Endings
    /\ pc[c] = "left" => kind[c] = "release"
    /\ pc[c] = "quiesced" => kind[c] = "quiesce"
    /\ pc[c] = "queued" => kind[c] \in Endings \cup {"quiesce"}

\* Who is in the queue, and who is first in it.
QueueShape ==
  /\ \A c \in Calls : pc[c] \in Entered \cup {"queued"} <=> InQueue(lock, c)
  /\ \A c \in Calls : pc[c] \in Entered => Holds(c)
  /\ beat \in Writing => Holds(Beat)

\* A call has ended the generation, and what is true from its drain on.
Ending(c) == kind[c] \in Endings /\ pc[c] \in {"terminal", "removed", "left", "done"}
Behind(c) ==
  /\ kind[c] \in Endings
  /\ pc[c] \in {"queued", "proved", "fenced", "terminal", "removed", "left", "done"}

Closed ==
  /\ closing \/ released => ~timer
  /\ released => closing /\ beat = "none"
  /\ \A c \in Calls :
       /\ pc[c] \in {"draining", "drained"} \/ Behind(c) => closing
       /\ pc[c] = "drained" \/ Behind(c) => beat = "none"
       /\ pc[c] = "draining" => beat # "none"
       /\ Behind(c) /\ kind[c] = "retire" => ~beatFailed
       /\ Behind(c) /\ kind[c] = "release" => saw[c] = beatFailed
       /\ pc[c] = "done" /\ kind[c] \in Endings => ~beatFailed

EndedOnce ==
  /\ \A c \in Calls : Ending(c) => published
  /\ \A c \in Calls : pc[c] \in {"proved", "fenced"} => ~published
  /\ \A c, d \in Calls : Ending(c) /\ Ending(d) => c = d

HInv == HTypeOK /\ KindOf /\ QueueShape /\ Closed /\ EndedOnce /\ QuiescedIsCanonical

-----------------------------------------------------------------------------
(* The compilation: the monitor and the group.                             *)

MonitorPhase ==
  /\ phase = "starting" <=> monitor = "asserting"
  /\ phase = "active" <=> monitor = "running"
  /\ phase = "closed" <=> monitor \in {"returned", "threw"}
  /\ observation # "none" => phase \in {"active", "closing"}
  /\ aborted = failure
  /\ monitor = "failing-observed" => failure
  /\ monitor = "draining" /\ lease = "held" => ended

MonInv == MonTypeOK /\ MonitorPhase /\ ReturnsUnderLease /\ FailuresAreReported

\* Every item that was handed out is with a worker or has settled, once.
HandedOut ==
  /\ \A w \in Workers : running[w] <= next
  /\ \A i \in results : i <= next
  /\ \A f \in failures : f.index <= next
  /\ \A i \in 1..next :
       \/ i \in results
       \/ \E f \in failures : f.index = i
       \/ \E w \in Workers : running[w] = i

\* What closed admission.
Closing ==
  /\ primary # NoReason => cause # NoReason /\ failures # {}
  /\ failures # {} => primary # NoReason
  /\ primary = NoReason => cause \in {NoReason, Parent}
  /\ primary # NoReason => primary = cause
  /\ cancelled <=> primary = Parent
  /\ primary # NoReason /\ primary # Parent => primary \in FailureReasons

Joining ==
  /\ \A w \in Workers : ~live[w] => running[w] = 0 /\ ~Admitting
  /\ outcome # "open" => Joined

TGInv == TGTypeOK /\ CalledOnce /\ HandedOut /\ Closing /\ Joining
           /\ ResultsAreComplete /\ FailuresSurvive

\* The group under the monitor: a loss that was recorded has closed admission,
\* and the operation has ended only with the group at rest.
Linked ==
  /\ failure /\ outcome = "open" => cause # NoReason
  /\ monitor # "running" => \A w \in Workers : running[w] = 0

CInv == MonInv /\ TGInv /\ Linked

-----------------------------------------------------------------------------
(* The query scope and the stream reader.                                  *)

StackShape ==
  /\ \A i \in DOMAIN stack : query[stack[i]] = "preparing"
  /\ \A i, j \in DOMAIN stack : stack[i] = stack[j] => i = j

CloseShape ==
  /\ accepting <=> closed = "open"
  /\ closed = "draining" => tickets \subseteq awaited
  /\ closed = "resolved" => tickets = {}

QInv == QTypeOK /\ StackShape /\ CloseShape /\ CapacityHolds

ReaderShape ==
  /\ locked <=> owner # "ended"
  /\ owner \in {"joining", "releasing", "ended"} => cancellation # "requested"
  /\ owner \in {"releasing", "ended"} => read = "none"

SInv == STypeOK /\ ReaderShape

SessionInv == PInv /\ HInv /\ CInv /\ QInv /\ SInv

-----------------------------------------------------------------------------
(* Steps of the stream reader.                                             *)

\* The reader begins with its lock held and nothing in flight.
LEMMA ReaderInit == SInit => SInv
<1> SUFFICES ASSUME SInit PROVE SInv
  OBVIOUS
<1>1. reads \in 0..MaxReads
  BY ReadsAssumption DEF SInit
<1>2. {admitting, terminal, waiting, stopped, locked} \subseteq BOOLEAN
  BY DEF SInit
<1> QED
  BY <1>1, <1>2 DEF SInit, SInv, STypeOK, ReaderShape

\* Every step of the source, the operation, its signal and the closeout keeps
\* the reader's invariant.
LEMMA ReaderStep == SInv /\ [SNext]_readerVars => SInv'
<1> SUFFICES ASSUME SInv, [SNext]_readerVars PROVE SInv'
  OBVIOUS
<1> USE ReadsAssumption DEF SInv, STypeOK, ReaderShape
<1>1. CASE Stall
  BY <1>1 DEF Stall
<1>2. CASE ReadSettles
  BY <1>2 DEF ReadSettles
<1>3. CASE CancelSettles
  BY <1>3 DEF CancelSettles
<1>4. CASE StartRead
  BY <1>4 DEF StartRead
<1>5. CASE Abandon
  BY <1>5 DEF Abandon
<1>6. CASE Abort
  BY <1>6 DEF Abort, Cancel
<1>7. CASE OperationEnds
  BY <1>7 DEF OperationEnds, Cancel
<1>8. CASE CloseCancel
  BY <1>8 DEF CloseCancel
<1>9. CASE CloseJoin
  BY <1>9 DEF CloseJoin
<1>10. CASE CloseRelease
  BY <1>10 DEF CloseRelease
<1>11. CASE UNCHANGED readerVars
  BY <1>11 DEF readerVars
<1> QED
  BY <1>1, <1>2, <1>3, <1>4, <1>5, <1>6, <1>7, <1>8, <1>9, <1>10, <1>11
  DEF SNext, Source, Closeout

-----------------------------------------------------------------------------
(* Steps of the query scope.                                               *)

\* A scope begins open, with no ticket.
LEMMA ScopeInit == QInit => QInv
<1> SUFFICES ASSUME QInit PROVE QInv
  OBVIOUS
<1>1. QTypeOK /\ StackShape /\ CloseShape
  BY DEF QInit, QTypeOK, StackShape, CloseShape
<1>2. {q \in Queries : query[q] \in {"preparing", "executing"}} = {}
  BY DEF QInit
<1>3. CapacityHolds
  BY <1>2, FS_EmptySet, MaximumAssumption DEF CapacityHolds
<1> QED
  BY <1>1, <1>3 DEF QInv

\* The tickets are finitely many, since the queries are.
LEMMA TicketsFinite == QTypeOK => IsFiniteSet(tickets) /\ Cardinality(tickets) \in Nat
  BY QueriesAssumption, FS_Subset, FS_CardinalityType DEF QTypeOK

\* Whoever is called or returns keeps the stack of running captures, the
\* capacity and what close waits for.
LEMMA ScopeStep == QInv /\ [QNext]_scopeVars => QInv'
<1> SUFFICES ASSUME QInv, [QNext]_scopeVars PROVE QInv'
  OBVIOUS
<1> USE DEF QInv
<1>t. IsFiniteSet(tickets) /\ Cardinality(tickets) \in Nat
  BY TicketsFinite
<1>c. Cardinality(tickets) <= Maximum
  BY DEF CapacityHolds, QTypeOK
<1>1. ASSUME NEW q \in Queries, Refuse(q) PROVE QInv'
  <2>1. QTypeOK' /\ StackShape' /\ CloseShape'
    BY <1>1 DEF Refuse, Becomes, QTypeOK, StackShape, CloseShape
  <2>2. CapacityHolds'
    BY <1>1, <1>c, <2>1 DEF Refuse, CapacityHolds, QTypeOK
  <2> QED
    BY <2>1, <2>2
<1>2. ASSUME NEW q \in Queries, Reserve(q) PROVE QInv'
  <2>1. QTypeOK'
    BY <1>2 DEF Reserve, Becomes, QTypeOK
  <2>s. /\ Len(stack') = Len(stack) + 1 /\ stack'[1] = q
        /\ \A i \in 2..Len(stack') : stack'[i] = stack[i - 1]
        /\ DOMAIN stack = 1..Len(stack) /\ DOMAIN stack' = 1..Len(stack')
        /\ Len(stack) \in Nat
    BY <1>2, <2>1 DEF Reserve, QTypeOK
  <2>n. \A i \in DOMAIN stack : stack[i] # q /\ stack[i] \in Queries
    BY <1>2 DEF Reserve, StackShape, QTypeOK
  <2>2. \A i \in DOMAIN stack' : query'[stack'[i]] = "preparing"
    <3> TAKE i \in DOMAIN stack'
    <3>1. CASE i = 1
      BY <3>1, <2>s, <1>2 DEF Reserve, Becomes, QTypeOK
    <3>2. CASE i # 1
      <4>1. i \in 2..Len(stack') /\ i - 1 \in DOMAIN stack
        BY <3>2, <2>s
      <4> QED
        BY <4>1, <2>s, <2>n, <1>2 DEF Reserve, Becomes, QTypeOK, StackShape
    <3> QED
      BY <3>1, <3>2
  <2>3. \A i, j \in DOMAIN stack' : stack'[i] = stack'[j] => i = j
    <3> TAKE i, j \in DOMAIN stack'
    <3>1. CASE i # 1 /\ j # 1
      <4>1. /\ i \in 2..Len(stack') /\ i - 1 \in DOMAIN stack
            /\ j \in 2..Len(stack') /\ j - 1 \in DOMAIN stack
        BY <3>1, <2>s
      <4> QED
        BY <4>1, <2>s DEF StackShape
    <3>2. CASE i = 1 /\ j # 1
      <4>1. j \in 2..Len(stack') /\ j - 1 \in DOMAIN stack
        BY <3>2, <2>s
      <4> QED
        BY <3>2, <4>1, <2>s, <2>n
    <3>3. CASE i # 1 /\ j = 1
      <4>1. i \in 2..Len(stack') /\ i - 1 \in DOMAIN stack
        BY <3>3, <2>s
      <4> QED
        BY <3>3, <4>1, <2>s, <2>n
    <3> QED
      BY <3>1, <3>2, <3>3
  <2>4. CloseShape'
    BY <1>2 DEF Reserve, CloseShape, QTypeOK
  <2>5. Cardinality(tickets') <= Maximum
    <3>1. Cardinality(tickets) + 1 <= Maximum
      BY <1>2, <1>t, MaximumAssumption DEF Reserve
    <3>2. Cardinality(tickets \cup {q}) \in {Cardinality(tickets), Cardinality(tickets) + 1}
      BY <1>t, FS_AddElement
    <3> QED
      BY <1>2, <1>t, <3>1, <3>2, MaximumAssumption DEF Reserve
  <2> QED
    BY <2>1, <2>2, <2>3, <2>4, <2>5 DEF StackShape, CapacityHolds, QTypeOK
\* The innermost capture leaves the stack: the others stay as they are.
<1>p. ASSUME NEW q \in Queries, stack # <<>>, q = Head(stack), stack' = Tail(stack),
             NEW s \in {"executing", "rejected"}, Becomes(q, s)
      PROVE  /\ StackShape' /\ stack' \in Seq(Queries) /\ query[q] = "preparing"
             /\ query' = [query EXCEPT ![q] = s]
  <2>1. /\ Len(stack) \in Nat \ {0} /\ Len(stack') = Len(stack) - 1 /\ q = stack[1]
        /\ \A i \in 1..Len(stack') : stack'[i] = stack[i + 1]
        /\ DOMAIN stack = 1..Len(stack) /\ DOMAIN stack' = 1..Len(stack')
        /\ stack' \in Seq(Queries)
    BY <1>p DEF QTypeOK
  <2>2. \A i \in DOMAIN stack' : i + 1 \in DOMAIN stack /\ stack'[i] = stack[i + 1]
    BY <2>1
  <2>3. \A i \in DOMAIN stack' : stack'[i] # q /\ stack'[i] \in Queries
    BY <2>1, <2>2 DEF StackShape, QTypeOK
  <2>4. \A i \in DOMAIN stack' : query'[stack'[i]] = "preparing"
    BY <1>p, <2>2, <2>3 DEF StackShape, Becomes, QTypeOK
  <2>5. \A i, j \in DOMAIN stack' : stack'[i] = stack'[j] => i = j
    <3> TAKE i, j \in DOMAIN stack'
    <3> HAVE stack'[i] = stack'[j]
    <3>1. i + 1 = j + 1
      BY <2>2 DEF StackShape
    <3> QED
      BY <3>1, <2>1
  <2> QED
    BY <1>p, <2>1, <2>4, <2>5 DEF StackShape, Becomes
<1>3. ASSUME NEW q \in Queries, Prepared(q) PROVE QInv'
  <2>1. StackShape' /\ stack' \in Seq(Queries) /\ query[q] = "preparing"
        /\ query' = [query EXCEPT ![q] = "executing"]
    BY <1>3, <1>p DEF Prepared
  <2>2. QTypeOK'
    BY <1>3, <2>1 DEF Prepared, QTypeOK
  <2>3. CloseShape'
    BY <1>3 DEF Prepared, CloseShape
  <2> QED
    BY <1>3, <1>c, <2>1, <2>2, <2>3 DEF Prepared, CapacityHolds, QTypeOK
<1>4. ASSUME NEW q \in Queries, NotPrepared(q) PROVE QInv'
  <2>1. StackShape' /\ stack' \in Seq(Queries) /\ query[q] = "preparing"
        /\ query' = [query EXCEPT ![q] = "rejected"]
    BY <1>4, <1>p DEF NotPrepared
  <2>2. QTypeOK'
    BY <1>4, <2>1 DEF NotPrepared, QTypeOK
  <2>3. CloseShape'
    BY <1>4 DEF NotPrepared, CloseShape
  <2>4. Cardinality(tickets') <= Maximum
    BY <1>4, <1>t, <1>c, FS_Subset, FS_CardinalityType, MaximumAssumption DEF NotPrepared
  <2> QED
    BY <2>1, <2>2, <2>3, <2>4 DEF CapacityHolds, QTypeOK
<1>5. ASSUME NEW q \in Queries, Finish(q) PROVE QInv'
  <2>1. QTypeOK' /\ CloseShape'
    BY <1>5 DEF Finish, Becomes, QTypeOK, CloseShape
  <2>2. StackShape'
    BY <1>5 DEF Finish, StackShape
  <2>4. Cardinality(tickets') <= Maximum
    BY <1>5, <1>t, <1>c, FS_Subset, FS_CardinalityType, MaximumAssumption DEF Finish
  <2> QED
    BY <2>1, <2>2, <2>4 DEF CapacityHolds, QTypeOK
<1>6. CASE Close
  BY <1>6 DEF Close, QTypeOK, StackShape, CloseShape, CapacityHolds
<1>7. CASE Resolve
  BY <1>7 DEF Resolve, QTypeOK, StackShape, CloseShape, CapacityHolds
<1>8. CASE UNCHANGED scopeVars
  BY <1>8 DEF scopeVars, QTypeOK, StackShape, CloseShape, CapacityHolds
<1> QED
  BY <1>1, <1>2, <1>3, <1>4, <1>5, <1>6, <1>7, <1>8 DEF QNext, Capture

-----------------------------------------------------------------------------
(* Steps of the protocol root.                                             *)

\* Nothing is there and nobody has begun.
LEMMA RootInit == PInit => PInv
<1> SUFFICES ASSUME PInit PROVE PInv
  OBVIOUS
<1>1. PTypeOK
  <2>1. crashes \in 0..MaxCrashes
    BY CrashAssumption DEF PInit
  <2> QED
    BY <2>1 DEF PInit, PTypeOK, Stages, Ended
<1>2. Made /\ Published
  BY DEF PInit, Made, Published, Ended, Passed, Unlinked
<1>3. \A s \in Session : ~alone[s]
  BY DEF PInit
<1>4. OnTheWay
  BY DEF PInit, OnTheWay, Unlinked
<1> QED
  BY <1>1, <1>2, <1>3, <1>4 DEF PInv

\* Every file-system call keeps the types, and a directory under what is in it.
LEMMA RootTypes ==
  ASSUME PInv, NEW s \in Session, Start(s) \/ SessionStep(s) \/ Crash(s)
  PROVE  PTypeOK'
<1> USE NoneAssumption, CrashAssumption DEF PInv, Reach, PTypeOK, Made, Stages, Ended
<1>1. CASE Start(s)
  BY <1>1 DEF Start, tree
<1>2. CASE MakeRoot(s)
  BY <1>2 DEF MakeRoot
<1>3. CASE MakeHolders(s)
  BY <1>3 DEF MakeHolders
<1>4. CASE CreateCandidate(s)
  BY <1>4 DEF CreateCandidate
<1>5. CASE LinkMarker(s)
  BY <1>5 DEF LinkMarker
<1>6. CASE RemoveCandidate(s)
  BY <1>6 DEF RemoveCandidate
<1>7. CASE Inspect(s)
  BY <1>7 DEF Inspect, Links, tree
<1>8. CASE ListHolders(s)
  BY <1>8 DEF ListHolders, tree
<1>9. CASE StatHolders(s)
  BY <1>9 DEF StatHolders, tree
<1>10. CASE Recheck(s)
  BY <1>10 DEF Recheck, tree
<1>11. CASE UnlinkAlias(s)
  BY <1>11 DEF UnlinkAlias
<1>12. CASE FinalMarker(s)
  BY <1>12 DEF FinalMarker, Links, tree
<1>13. CASE Crash(s)
  BY <1>13 DEF Crash, tree
<1> QED
  BY <1>1, <1>2, <1>3, <1>4, <1>5, <1>6, <1>7, <1>8, <1>9, <1>10, <1>11, <1>12, <1>13
  DEF SessionStep

\* Directories stay.
LEMMA RootMade ==
  ASSUME PInv, NEW s \in Session, Start(s) \/ SessionStep(s) \/ Crash(s)
  PROVE  Made'
<1> USE NoneAssumption, CrashAssumption DEF PInv, Reach, PTypeOK, Made, Stages, Ended
<1>1. CASE Start(s)
  BY <1>1 DEF Start, tree
<1>2. CASE MakeRoot(s)
  BY <1>2 DEF MakeRoot
<1>3. CASE MakeHolders(s)
  BY <1>3 DEF MakeHolders
<1>4. CASE CreateCandidate(s)
  BY <1>4 DEF CreateCandidate
<1>5. CASE LinkMarker(s)
  BY <1>5 DEF LinkMarker
<1>6. CASE RemoveCandidate(s)
  BY <1>6 DEF RemoveCandidate
<1>7. CASE Inspect(s)
  BY <1>7 DEF Inspect, Links, tree
<1>8. CASE ListHolders(s)
  BY <1>8 DEF ListHolders, tree
<1>9. CASE StatHolders(s)
  BY <1>9 DEF StatHolders, tree
<1>10. CASE Recheck(s)
  BY <1>10 DEF Recheck, tree
<1>11. CASE UnlinkAlias(s)
  BY <1>11 DEF UnlinkAlias
<1>12. CASE FinalMarker(s)
  BY <1>12 DEF FinalMarker, Links, tree
<1>13. CASE Crash(s)
  BY <1>13 DEF Crash, tree
<1> QED
  BY <1>1, <1>2, <1>3, <1>4, <1>5, <1>6, <1>7, <1>8, <1>9, <1>10, <1>11, <1>12, <1>13
  DEF SessionStep

\* The link gives the marker its inode once, and nobody makes that candidate again.
LEMMA RootPublished ==
  ASSUME PInv, NEW s \in Session, Start(s) \/ SessionStep(s) \/ Crash(s)
  PROVE  Published'
<1> USE NoneAssumption, CrashAssumption
    DEF PInv, Reach, PTypeOK, Published, Stages, Ended, Unlinked, Passed
<1>1. CASE Start(s)
  BY <1>1 DEF Start, tree
<1>2. CASE MakeRoot(s)
  BY <1>2 DEF MakeRoot
<1>3. CASE MakeHolders(s)
  BY <1>3 DEF MakeHolders
<1>4. CASE CreateCandidate(s)
  BY <1>4 DEF CreateCandidate
<1>5. CASE LinkMarker(s)
  BY <1>5 DEF LinkMarker
<1>6. CASE RemoveCandidate(s)
  BY <1>6 DEF RemoveCandidate
<1>7. CASE Inspect(s)
  BY <1>7 DEF Inspect, Links, tree
<1>8. CASE ListHolders(s)
  BY <1>8 DEF ListHolders, tree
<1>9. CASE StatHolders(s)
  BY <1>9 DEF StatHolders, tree
<1>10. CASE Recheck(s)
  BY <1>10 DEF Recheck, tree
<1>11. CASE UnlinkAlias(s)
  BY <1>11 DEF UnlinkAlias
<1>12. CASE FinalMarker(s)
  BY <1>12 DEF FinalMarker, Links, tree
<1>13. CASE Crash(s)
  BY <1>13 DEF Crash, tree
<1> QED
  BY <1>1, <1>2, <1>3, <1>4, <1>5, <1>6, <1>7, <1>8, <1>9, <1>10, <1>11, <1>12, <1>13
  DEF SessionStep

\* A session that runs alone stays undisturbed: who starts next to it ends its
\* being alone, and who has ended takes no step.
LEMMA RootUndisturbed ==
  ASSUME PInv, NEW s \in Session, Start(s) \/ SessionStep(s) \/ Crash(s)
  PROVE  \A t \in Session : alone'[t] => Undisturbed(t)'
<1> USE NoneAssumption, CrashAssumption DEF PInv, Reach, PTypeOK, Stages, Ended, Published, Passed
<1> SUFFICES ASSUME NEW t \in Session, alone'[t]
             PROVE  Undisturbed(t)'
  OBVIOUS
<1>a. stage[s] \notin {"done", "failed", "crashed"}
  BY DEF SessionStep, Start, MakeRoot, MakeHolders, CreateCandidate, LinkMarker,
         RemoveCandidate, Inspect, ListHolders, StatHolders, Recheck, UnlinkAlias,
         FinalMarker, Crash
\* Only t steps while t is under way alone, and then the files are as t left them.
<1>b. CASE Start(s)
  <2>1. CASE t = s
    BY <1>b, <2>1 DEF Start, tree, Undisturbed
  <2>2. CASE t # s
    BY <1>b, <2>2 DEF Start, tree, Undisturbed
  <2> QED
    BY <2>1, <2>2
<1>c. CASE ~Start(s)
  <2>1. alone[t] /\ Undisturbed(t) /\ stage[s] # "idle"
    BY <1>c
    DEF SessionStep, tree, Start, MakeRoot, MakeHolders, CreateCandidate, LinkMarker,
        RemoveCandidate, Inspect, ListHolders, StatHolders, Recheck, UnlinkAlias,
        FinalMarker, Crash
  <2>2. CASE t # s
    <3>1. stage[t] \in Ended
      BY <1>a, <2>1, <2>2 DEF Undisturbed
    <3>2. stage'[t] = stage[t]
      BY <1>c, <2>2
      DEF SessionStep, Start, MakeRoot, MakeHolders, CreateCandidate, LinkMarker,
          RemoveCandidate, Inspect, ListHolders, StatHolders, Recheck, UnlinkAlias,
          FinalMarker, Crash
    <3> QED
      BY <2>1, <3>1, <3>2 DEF Undisturbed
  <2>3. CASE t = s
    <3> USE <2>1, <2>3 DEF Undisturbed
    <3>1. CASE MakeRoot(s)
      BY <3>1 DEF MakeRoot
    <3>2. CASE MakeHolders(s)
      BY <3>2 DEF MakeHolders
    <3>3. CASE CreateCandidate(s)
      BY <3>3 DEF CreateCandidate
    <3>4. CASE LinkMarker(s)
      BY <3>4 DEF LinkMarker
    <3>5. CASE RemoveCandidate(s)
      BY <3>5 DEF RemoveCandidate
    <3>6. CASE Inspect(s)
      BY <3>6 DEF Inspect, Links, tree
    <3>7. CASE ListHolders(s)
      BY <3>7 DEF ListHolders, tree
    <3>8. CASE StatHolders(s)
      BY <3>8 DEF StatHolders, tree
    <3>9. CASE Recheck(s)
      BY <3>9 DEF Recheck, tree
    <3>10. CASE UnlinkAlias(s)
      BY <3>10 DEF UnlinkAlias
    <3>11. CASE FinalMarker(s)
      BY <3>11 DEF FinalMarker, Links, tree
    <3>12. CASE Crash(s)
      BY <3>12 DEF Crash, tree
    <3> QED
      BY <1>c, <3>1, <3>2, <3>3, <3>4, <3>5, <3>6, <3>7, <3>8, <3>9, <3>10, <3>11, <3>12
      DEF SessionStep
  <2> QED
    BY <2>2, <2>3
<1> QED
  BY <1>b, <1>c

\* Somebody stays on the way to a canonical root as long as nobody crashes.
LEMMA RootOnTheWay ==
  ASSUME PInv, NEW s \in Session, Start(s) \/ SessionStep(s) \/ Crash(s), crashes' = 0
  PROVE  OnTheWay'
<1> USE NoneAssumption, CrashAssumption DEF PInv, Reach, PTypeOK, Stages, Ended, Published, Passed,
        Unlinked
<1>a. crashes = 0 /\ OnTheWay /\ ~Crash(s)
  BY DEF SessionStep, Crash, Start, MakeRoot, MakeHolders, CreateCandidate, LinkMarker,
         RemoveCandidate, Inspect, ListHolders, StatHolders, Recheck, UnlinkAlias,
         FinalMarker
<1> USE <1>a DEF OnTheWay
<1>1. CASE Start(s)
  BY <1>1 DEF Start, tree
<1>2. CASE MakeRoot(s)
  BY <1>2 DEF MakeRoot
<1>3. CASE MakeHolders(s)
  BY <1>3 DEF MakeHolders
<1>4. CASE CreateCandidate(s)
  BY <1>4 DEF CreateCandidate
<1>5. CASE LinkMarker(s)
  BY <1>5 DEF LinkMarker
<1>6. CASE RemoveCandidate(s)
  BY <1>6 DEF RemoveCandidate
<1>7. CASE Inspect(s)
  BY <1>7 DEF Inspect, Links, tree
<1>8. CASE ListHolders(s)
  BY <1>8 DEF ListHolders, tree
<1>9. CASE StatHolders(s)
  BY <1>9 DEF StatHolders, tree
<1>10. CASE Recheck(s)
  BY <1>10 DEF Recheck, tree
<1>11. CASE UnlinkAlias(s)
  BY <1>11 DEF UnlinkAlias
<1>12. CASE FinalMarker(s)
  BY <1>12 DEF FinalMarker, Links, tree
<1> QED
  BY <1>1, <1>2, <1>3, <1>4, <1>5, <1>6, <1>7, <1>8, <1>9, <1>10, <1>11, <1>12 DEF SessionStep

\* The invariant of the protocol root holds at every step of the sessions.
LEMMA RootStep == PInv /\ [PNext]_rootVars => PInv'
<1> SUFFICES ASSUME PInv, [PNext]_rootVars PROVE PInv'
  OBVIOUS
<1>1. ASSUME NEW s \in Session, Start(s) \/ SessionStep(s) \/ Crash(s) PROVE PInv'
  BY <1>1, RootTypes, RootMade, RootPublished, RootUndisturbed, RootOnTheWay DEF PInv
<1>2. CASE UNCHANGED rootVars
  BY <1>2 DEF rootVars, tree, PInv, PTypeOK, Made, Published, Undisturbed, OnTheWay
<1> QED
  BY <1>1, <1>2 DEF PNext

-----------------------------------------------------------------------------
(* Steps of the monitor.                                                   *)

\* The monitor begins with its first assertion, before any observation.
LEMMA MonitorInit == MonInit => MonInv
<1> SUFFICES ASSUME MonInit PROVE MonInv
  OBVIOUS
<1>1. ticks \in 0..MaxTicks
  BY TicksAssumption DEF MonInit
<1> QED
  BY <1>1 DEF MonInit, MonInv, MonTypeOK, MonitorPhase, ReturnsUnderLease, FailuresAreReported

\* What the catch block throws holds the recorded loss and the operation's
\* own error.
LEMMA ReportIsComplete ==
  ASSUME MonInv, Throws
  PROVE  /\ failure => \E i \in DOMAIN thrown' : thrown'[i] = "observation"
         /\ error \notin {"cancelled", "observation"} =>
              \E i \in DOMAIN thrown' : thrown'[i] = error
<1> USE DEF MonInv, MonTypeOK, MonitorPhase, Throws
<1>1. CASE thrown' = <<"observation">> /\ error \in {"cancelled", "observation"}
  <2>1. 1 \in DOMAIN thrown' /\ thrown'[1] = "observation"
    BY <1>1
  <2> QED
    BY <1>1, <2>1
<1>2. CASE thrown' = <<"observation", error>>
  <2>1. {1, 2} \subseteq DOMAIN thrown' /\ thrown'[1] = "observation" /\ thrown'[2] = error
    BY <1>2
  <2> QED
    BY <2>1
<1>3. CASE thrown' = <<error, "observation">>
  <2>1. {1, 2} \subseteq DOMAIN thrown' /\ thrown'[2] = "observation" /\ thrown'[1] = error
    BY <1>3
  <2> QED
    BY <2>1
<1>4. CASE thrown' = <<error>> /\ ~failure
  <2>1. 1 \in DOMAIN thrown' /\ thrown'[1] = error
    BY <1>4
  <2> QED
    BY <1>4, <2>1
<1> QED
  BY <1>1, <1>2, <1>3, <1>4 DEF Report

\* Interval, observations, the operation's end and the drains keep the
\* monitor's invariant.
LEMMA MonitorKeeps == MonInv /\ [MonNext]_monVars => MonInv'
<1> SUFFICES ASSUME MonInv, [MonNext]_monVars PROVE MonInv'
  OBVIOUS
<1> USE TicksAssumption DEF MonInv, MonTypeOK, MonitorPhase, ReturnsUnderLease, FailuresAreReported
<1>1. CASE Lose
  BY <1>1 DEF Lose
<1>2. CASE FirstAssertion
  BY <1>2 DEF FirstAssertion
<1>3. CASE Tick
  BY <1>3 DEF Tick
<1>4. CASE Observe
  BY <1>4 DEF Observe
<1>5. CASE SettleObservation
  BY <1>5 DEF SettleObservation
<1>6. CASE BodyReturns
  BY <1>6 DEF BodyReturns
<1>7. CASE BodyThrows
  BY <1>7 DEF BodyThrows
<1>8. CASE DrainedFailure
  BY <1>8 DEF DrainedFailure, Drained
<1>9. CASE DrainedAssertion
  BY <1>9 DEF DrainedAssertion, Drained
<1>10. CASE Throws
  BY <1>10, ReportIsComplete DEF Throws, Drained
<1>11. CASE Release
  BY <1>11 DEF Release
<1>12. CASE UNCHANGED monVars
  BY <1>12 DEF monVars
<1> QED
  BY <1>1, <1>2, <1>3, <1>4, <1>5, <1>6, <1>7, <1>8, <1>9, <1>10, <1>11, <1>12
  DEF MonNext, Monitor, Body

-----------------------------------------------------------------------------
(* Steps of the group.                                                     *)

\* The group begins with no item handed out.
LEMMA GroupInit == TGInit => TGInv
<1> SUFFICES ASSUME TGInit PROVE TGInv
  OBVIOUS
<1> USE SizeAssumption DEF TGInit
<1>0. 0 \in 0..N
  OBVIOUS
<1>1. TGTypeOK
  BY <1>0 DEF TGTypeOK
<1>2. HandedOut
  BY DEF HandedOut
<1>3. CalledOnce
  BY DEF CalledOnce
<1>5. Closing
  BY DEF Closing, Parent, NoReason, FailureReasons
<1>4. Joining /\ ResultsAreComplete /\ FailuresSurvive
  BY DEF Joining, ResultsAreComplete, FailuresSurvive
<1> QED
  BY <1>1, <1>2, <1>3, <1>4, <1>5 DEF TGInv

\* A reason is not NoReason, and an item is not the parent.
LEMMA ReasonFacts ==
  /\ NoReason \notin Reasons /\ Parent \in Reasons /\ Parent \notin Items
  /\ Items \subseteq Reasons /\ 0 \notin Items
  BY SizeAssumption DEF NoReason, Reasons, Parent, Items

\* A loop takes the next item: it is with nobody else and has not settled.
LEMMA TakeItemKeeps ==
  ASSUME TGInv, NEW w \in Workers, TakeItem(w)
  PROVE  TGInv'
<1> USE SizeAssumption DEF TGInv, TGTypeOK, TakeItem
<1>1. /\ next \in Nat /\ next < N /\ next + 1 \in Items /\ primary = NoReason /\ cause = NoReason
      /\ next' = next + 1 /\ running' \in [Workers -> 0..N]
      /\ running'[w] = next + 1 /\ \A v \in Workers \ {w} : running'[v] = running[v]
  BY DEF Admitting, Items
<1>2. \A v \in Workers : running[v] \in Nat /\ running[v] <= next
  BY DEF HandedOut
<1>3. next + 1 \notin results /\ \A f \in failures : f.index # next + 1
  BY <1>1 DEF HandedOut
<1>4. outcome = "open"
  BY DEF Joining, Joined
<1>5. TGTypeOK'
  BY <1>1
<1>6. CalledOnce'
  BY <1>1, <1>2, <1>3 DEF CalledOnce
<1>7. HandedOut'
  <2>1. \A v \in Workers : running'[v] <= next'
    BY <1>1, <1>2
  <2>2. \A i \in results' : i <= next'
    BY <1>1 DEF HandedOut, Items
  <2>3. \A f \in failures' : f.index <= next'
    BY <1>1 DEF HandedOut, Items
  <2>4. ASSUME NEW i \in 1..next'
        PROVE  \/ i \in results'
               \/ \E f \in failures' : f.index = i
               \/ \E v \in Workers : running'[v] = i
    <3>1. CASE i = next + 1
      BY <3>1, <1>1
    <3>2. CASE i # next + 1
      <4>1. i \in 1..next
        BY <3>2, <1>1
      <4>2. CASE \E v \in Workers : running[v] = i
        <5>1. PICK v \in Workers : running[v] = i
          BY <4>2
        <5>2. v # w
          BY <5>1, <4>1
        <5> QED
          BY <5>1, <5>2, <1>1
      <4> QED
        BY <4>1, <4>2 DEF HandedOut
    <3> QED
      BY <3>1, <3>2
  <2> QED
    BY <2>1, <2>2, <2>3, <2>4 DEF HandedOut
<1>8. Closing'
  BY DEF Closing, FailureReasons
<1>9. Joining'
  BY <1>1, <1>4 DEF Joining, Joined, Admitting
<1> QED
  BY <1>4, <1>5, <1>6, <1>7, <1>8, <1>9 DEF ResultsAreComplete, FailuresSurvive

\* A loop ends when it finds admission closed or the items used up.
LEMMA WorkerEndsKeeps ==
  ASSUME TGInv, NEW w \in Workers, WorkerEnds(w)
  PROVE  TGInv'
<1> USE SizeAssumption DEF TGInv, TGTypeOK, WorkerEnds
<1>1. outcome = "open"
  BY DEF Joining, Joined
<1>2. TGTypeOK' /\ CalledOnce' /\ HandedOut' /\ Closing'
  BY DEF CalledOnce, HandedOut, Closing, FailureReasons
<1>3. Joining'
  BY <1>1 DEF Joining, Joined, Admitting
<1> QED
  BY <1>1, <1>2, <1>3 DEF ResultsAreComplete, FailuresSurvive

\* A callback settles, with a result or a rejection: its item leaves the
\* worker and is settled, and no other is touched.
LEMMA SettledItem ==
  ASSUME TGInv, NEW w \in Workers, running[w] # 0, next' = next, live' = live, outcome' = outcome,
         running' = [running EXCEPT ![w] = 0],
         results' \in SUBSET Items, failures' \in SUBSET [index : Items, reason : Reasons],
         results \subseteq results', failures \subseteq failures',
         \/ results' = results \cup {running[w]} /\ failures' = failures
         \/ /\ results' = results
            /\ \E r \in Reasons : failures' = failures \cup {[index |-> running[w], reason |-> r]}
  PROVE  CalledOnce' /\ HandedOut' /\ outcome = "open"
<1> USE SizeAssumption DEF TGInv, TGTypeOK
<1> DEFINE it == running[w]
<1>1. /\ it \in Items /\ it <= next /\ next \in Nat
      /\ running'[w] = 0 /\ \A v \in Workers \ {w} : running'[v] = running[v] /\ running[v] # it
  BY DEF HandedOut, CalledOnce, Items
<1>2. outcome = "open"
  BY DEF Joining, Joined
<1>3. /\ \A i \in results' : i \in results \/ i = it
      /\ \A f \in failures' : f \in failures \/ f.index = it
  BY <1>1
<1>4. it \in results' \/ \E f \in failures' : f.index = it
  <2>1. ASSUME NEW r \in Reasons, failures' = failures \cup {[index |-> it, reason |-> r]}
        PROVE  \E f \in failures' : f.index = it
    <3>1. [index |-> it, reason |-> r].index = it
      OBVIOUS
    <3> QED
      BY <2>1, <3>1
  <2> QED
    BY <2>1
<1>5. it \notin results \/ results' = results
  BY DEF CalledOnce
<1>d. ~(it \in results) /\ \A f \in failures : f.index # it
  BY DEF CalledOnce
<1>6. CalledOnce'
  <2>1. \A u, v \in Workers : running'[u] # 0 /\ running'[u] = running'[v] => u = v
    BY <1>1 DEF CalledOnce
  <2>2. ASSUME NEW v \in Workers
        PROVE  running'[v] \notin results' /\ \A f \in failures' : f.index # running'[v]
    <3>1. CASE v = w
      BY <3>1, <1>1 DEF Items
    <3>2. CASE v # w
      <4>1. running'[v] = running[v] /\ running[v] # it
        BY <3>2, <1>1
      <4>2. running[v] \notin results /\ \A f \in failures : f.index # running[v]
        BY DEF CalledOnce
      <4> QED
        BY <4>1, <4>2, <1>3
    <3> QED
      BY <3>1, <3>2
  <2>3. \A f \in failures' : f.index \notin results'
    <3>1. CASE results' = results \cup {it} /\ failures' = failures
      BY <3>1, <1>d DEF CalledOnce
    <3>2. CASE results' = results
      BY <3>2, <1>d, <1>3 DEF CalledOnce
    <3> QED
      BY <3>1, <3>2
  <2> QED
    BY <2>1, <2>2, <2>3 DEF CalledOnce
<1>7. HandedOut'
  <2>1. \A v \in Workers : running'[v] <= next'
    BY <1>1 DEF HandedOut
  <2>2. /\ \A i \in results' : i <= next'
        /\ \A f \in failures' : f.index <= next'
    BY <1>1, <1>3 DEF HandedOut
  <2>3. ASSUME NEW i \in 1..next'
        PROVE  \/ i \in results'
               \/ \E f \in failures' : f.index = i
               \/ \E v \in Workers : running'[v] = i
    <3>1. CASE i = it
      BY <3>1, <1>4
    <3>2. CASE i # it
      <4>1. CASE \E v \in Workers : running[v] = i
        BY <3>2, <4>1, <1>1
      <4> QED
        BY <3>2, <4>1 DEF HandedOut
    <3> QED
      BY <3>1, <3>2
  <2> QED
    BY <2>1, <2>2, <2>3 DEF HandedOut
<1> QED
  BY <1>2, <1>6, <1>7

\* A callback returns.
LEMMA CallbackReturnsKeeps ==
  ASSUME TGInv, NEW w \in Workers, CallbackReturns(w)
  PROVE  TGInv'
<1> USE SizeAssumption DEF TGInv, TGTypeOK, CallbackReturns
<1>1. running[w] \in Items
  BY DEF Items
<1>2. TGTypeOK'
  BY <1>1
<1>3. CalledOnce' /\ HandedOut' /\ outcome = "open"
  BY <1>2, SettledItem
<1>4. Closing'
  BY DEF Closing, FailureReasons
<1>5. Joining'
  BY DEF Joining, Joined, Admitting
<1> QED
  BY <1>2, <1>3, <1>4, <1>5 DEF ResultsAreComplete, FailuresSurvive

\* A callback rejects; the first rejection closes admission, with the parent's
\* cancellation as the primary reason if that came before it.
LEMMA CallbackRejectsKeeps ==
  ASSUME TGInv, NEW w \in Workers, CallbackRejects(w)
  PROVE  TGInv'
<1> USE SizeAssumption, ReasonFacts DEF TGInv, TGTypeOK
<1>1. PICK reason \in {running[w]} \cup ({cause} \ {NoReason}) :
             /\ failures' = failures \cup {[index |-> running[w], reason |-> reason]}
             /\ IF primary = NoReason
                  THEN FirstFailure(reason)
                  ELSE UNCHANGED <<primary, cancelled, cause>>
  BY DEF CallbackRejects
<1> USE DEF CallbackRejects
<1>2. running[w] \in Items /\ reason \in Reasons
  BY DEF Items
<1>r. [index |-> running[w], reason |-> reason] \in failures'
      /\ [index |-> running[w], reason |-> reason].reason = reason
  BY <1>1
<1>3. FailureReasons' = FailureReasons \cup {reason}
  <2>1. FailureReasons' = {f.reason : f \in failures'}
    BY DEF FailureReasons
  <2>2. ASSUME NEW f \in failures' PROVE f \in failures \/ f.reason = reason
    BY <1>1
  <2>3. failures \subseteq failures'
    BY <1>1
  <2>4. FailureReasons' \subseteq FailureReasons \cup {reason}
    BY <2>1, <2>2 DEF FailureReasons
  <2>5. FailureReasons \subseteq FailureReasons'
    BY <2>1, <2>3 DEF FailureReasons
  <2>6. reason \in FailureReasons'
    BY <2>1, <1>r
  <2> QED
    BY <2>4, <2>5, <2>6
<1>4. TGTypeOK'
  <2>1. [index |-> running[w], reason |-> reason] \in [index : Items, reason : Reasons]
    BY <1>2
  <2>2. failures' \subseteq [index : Items, reason : Reasons]
    BY <1>1, <2>1
  <2>3. running' \in [Workers -> 0..N]
    OBVIOUS
  <2>4. /\ primary' \in Reasons \cup {NoReason} /\ cause' \in Reasons \cup {NoReason}
        /\ cancelled' \in BOOLEAN
    BY <1>1, <1>2 DEF FirstFailure
  <2> QED
    BY <2>2, <2>3, <2>4
<1>5. CalledOnce' /\ HandedOut' /\ outcome = "open"
  BY <1>1, <1>2, <1>4, SettledItem
<1>6. Closing'
  <2>1. CASE primary = NoReason
    BY <2>1, <1>1, <1>2, <1>r, <1>3 DEF Closing, FirstFailure
  <2>2. CASE primary # NoReason
    BY <2>2, <1>1, <1>2, <1>r, <1>3 DEF Closing
  <2> QED
    BY <2>1, <2>2
<1>7. Joining'
  <2>1. ~Admitting => ~Admitting'
    BY <1>1, <1>2 DEF Admitting, FirstFailure, Closing
  <2> QED
    BY <2>1, <1>5 DEF Joining, Joined
<1> QED
  BY <1>4, <1>5, <1>6, <1>7 DEF ResultsAreComplete, FailuresSurvive

\* The parent cancels.
LEMMA ParentCancelsKeeps ==
  ASSUME TGInv, ParentCancels
  PROVE  TGInv'
<1> USE SizeAssumption, ReasonFacts DEF TGInv, TGTypeOK, ParentCancels
<1>1. TGTypeOK' /\ CalledOnce' /\ HandedOut'
  BY DEF CalledOnce, HandedOut
<1>2. Closing'
  BY DEF Closing, FailureReasons
<1>3. Joining'
  BY DEF Joining, Joined, Admitting
<1> QED
  BY <1>1, <1>2, <1>3 DEF ResultsAreComplete, FailuresSurvive

\* The group settles: results are complete because nothing closed admission
\* before the last item, and the error carries every reason.
LEMMA SettleKeeps ==
  ASSUME TGInv, Settle
  PROVE  TGInv'
<1> USE SizeAssumption, ReasonFacts DEF TGInv, TGTypeOK, Settle
<1>1. FailureReasons \subseteq Reasons
  BY DEF FailureReasons
<1>2. TGTypeOK'
  <2>1. CASE failures = {} /\ cause = NoReason
    BY <2>1
  <2>2. CASE ~(failures = {} /\ cause = NoReason)
    BY <2>2, <1>1
  <2> QED
    BY <2>1, <2>2
<1>3. CalledOnce' /\ HandedOut' /\ Closing'
  BY DEF CalledOnce, HandedOut, Closing, FailureReasons
<1>4. Joining'
  BY DEF Joining, Joined, Admitting
<1>5. ResultsAreComplete'
  <2> SUFFICES ASSUME outcome' = "results" PROVE results' = Items /\ failures' = {}
    BY DEF ResultsAreComplete
  <2>1. failures = {} /\ cause = NoReason /\ primary = NoReason
    BY DEF Closing
  <2>2. \A w \in Workers : ~live[w] /\ running[w] = 0 /\ ~Admitting
    BY DEF Joined, Joining
  <2>3. N = 0 \/ next = N
    <3>1. CASE N # 0
      <4>1. 1 \in Workers
        BY <3>1 DEF Workers
      <4> QED
        BY <4>1, <2>1, <2>2 DEF Admitting
    <3> QED
      BY <3>1
  <2>4. Items \subseteq results
    <3> SUFFICES ASSUME NEW i \in Items PROVE i \in results
      OBVIOUS
    <3>1. i \in 1..next /\ i # 0
      BY <2>3 DEF Items
    <3> QED
      BY <3>1, <2>1, <2>2 DEF HandedOut
  <2> QED
    BY <2>1, <2>4
<1>6. FailuresSurvive'
  <2> SUFFICES ASSUME outcome' = "error"
               PROVE  /\ FailureReasons \subseteq report'
                      /\ primary # NoReason => primary \in report'
                      /\ cause = Parent => Parent \in report'
    BY DEF FailuresSurvive, FailureReasons
  <2>1. report' = FailureReasons \cup (IF cancelled THEN {Parent} ELSE {})
                                 \cup (IF failures = {} THEN {cause} ELSE {})
    OBVIOUS
  <2> QED
    BY <2>1 DEF Closing
<1> QED
  BY <1>2, <1>3, <1>4, <1>5, <1>6

\* Every step of the group keeps its invariant.
LEMMA GroupKeeps == TGInv /\ [TGNext]_groupVars => TGInv'
<1> SUFFICES ASSUME TGInv, [TGNext]_groupVars PROVE TGInv'
  OBVIOUS
<1>1. CASE UNCHANGED groupVars
  BY <1>1 DEF groupVars, TGInv, TGTypeOK, CalledOnce, HandedOut, Closing, Joining, Joined, Admitting,
              FailureReasons, ResultsAreComplete, FailuresSurvive
<1> QED
  BY <1>1, TakeItemKeeps, WorkerEndsKeeps, CallbackReturnsKeeps, CallbackRejectsKeeps,
     ParentCancelsKeeps, SettleKeeps DEF TGNext, Loop, Callback

-----------------------------------------------------------------------------
(* Steps of the compilation.                                               *)

\* Before the compilation the monitor asserts and the group has not begun.
LEMMA CompilationInit == CInit => CInv
<1> SUFFICES ASSUME CInit PROVE CInv
  OBVIOUS
<1>1. MonInv /\ TGInv
  BY MonitorInit, GroupInit DEF CInit
<1>2. Linked
  BY DEF CInit, MonInit, TGInit, Linked
<1> QED
  BY <1>1, <1>2 DEF CInv

\* A step of the compilation is a step of the monitor, of the group, or of
\* both at once when a loss cancels the group.
LEMMA CompilationParts == [CNext]_composed => [MonNext]_monVars /\ [TGNext]_groupVars
<1> SUFFICES ASSUME [CNext]_composed PROVE [MonNext]_monVars /\ [TGNext]_groupVars
  OBVIOUS
<1>1. CASE UNCHANGED composed
  BY <1>1 DEF composed
<1>2. CASE Surroundings
  BY <1>2 DEF Surroundings, MonNext
<1>3. CASE MonitorStep
  BY <1>3 DEF MonitorStep, MonNext, Monitor
<1>4. CASE ObservationSettles
  BY <1>4 DEF ObservationSettles, MonNext, Monitor, TGNext
<1>5. CASE StagesEnd
  BY <1>5 DEF StagesEnd, StagesThrow, StagesReturn, MonNext, Body
<1>6. CASE (\E w \in Workers : GroupLoop(w) \/ GroupCallback(w)) \/ GroupSettle
  BY <1>6 DEF GroupLoop, GroupCallback, GroupSettle, TGNext
<1> QED
  BY <1>1, <1>2, <1>3, <1>4, <1>5, <1>6 DEF CNext

\* A loss that is recorded closes the admission of an open group in the same
\* step, and the operation ends with the group at rest.
LEMMA CompilationStep == CInv /\ [CNext]_composed => CInv'
<1> SUFFICES ASSUME CInv, [CNext]_composed PROVE CInv'
  OBVIOUS
<1>1. MonInv' /\ TGInv'
  BY CompilationParts, MonitorKeeps, GroupKeeps DEF CInv
<1>2. Linked'
  <2> USE ReasonFacts DEF CInv, MonInv, TGInv, Linked
  <2>1. CASE UNCHANGED composed
    BY <2>1 DEF composed, monVars, groupVars
  <2>2. CASE Surroundings
    BY <2>2 DEF Surroundings, Lose, Tick, Release, groupVars
  <2>3. CASE MonitorStep
    BY <2>3 DEF MonitorStep, FirstAssertion, Observe, DrainedFailure, DrainedAssertion, Throws,
                groupVars
  <2>4. CASE ObservationSettles
    BY <2>4 DEF ObservationSettles, SettleObservation, ParentCancels, groupVars, MonitorPhase,
                MonTypeOK
  <2>5. CASE StagesEnd
    <3>1. \A w \in Workers : running[w] = 0
      <4>1. CASE next = 0
        BY <4>1 DEF HandedOut, TGTypeOK
      <4>2. CASE outcome # "open"
        BY <4>2 DEF Joining, Joined
      <4> QED
        BY <4>1, <4>2, <2>5 DEF StagesEnd, StagesThrow, StagesReturn, GroupAwaited
    <3> QED
      BY <2>5, <3>1 DEF StagesEnd, StagesThrow, StagesReturn, BodyThrows, BodyReturns, groupVars
  <2>6. CASE (\E w \in Workers : GroupLoop(w) \/ GroupCallback(w)) \/ GroupSettle
    <3>1. monitor' = monitor /\ monitor = "running" /\ failure' = failure
      BY <2>6 DEF GroupLoop, GroupCallback, GroupSettle, monVars
    <3>2. /\ outcome' = "open" => outcome = "open"
          /\ cause # NoReason => cause' # NoReason
      BY <2>6 DEF GroupLoop, GroupCallback, GroupSettle, Loop, Callback, TakeItem, WorkerEnds,
                  CallbackReturns, CallbackRejects, FirstFailure, Settle
    <3> QED
      BY <3>1, <3>2
  <2> QED
    BY <2>1, <2>2, <2>3, <2>4, <2>5, <2>6 DEF CNext
<1> QED
  BY <1>1, <1>2 DEF CInv

-----------------------------------------------------------------------------
(* The queue of the control-plane lock.                                    *)

\* Who joins the queue comes after everyone in it.
LEMMA QueueAppends ==
  ASSUME HTypeOK, NEW j \in Calls \cup {Beat}, ~InQueue(lock, j), Enqueue(j)
  PROVE  /\ lock' \in Seq(Calls \cup {Beat})
         /\ \A i, k \in DOMAIN lock' : lock'[i] = lock'[k] => i = k
         /\ \A k : InQueue(lock', k) <=> InQueue(lock, k) \/ k = j
         /\ \A k : Holds(k) => Holds(k)'
<1>1. /\ lock \in Seq(Calls \cup {Beat}) /\ lock' \in Seq(Calls \cup {Beat})
      /\ Len(lock) \in Nat /\ Len(lock') = Len(lock) + 1
      /\ DOMAIN lock = 1..Len(lock) /\ DOMAIN lock' = 1..Len(lock')
      /\ \A i \in 1..Len(lock) : lock'[i] = lock[i]
      /\ lock'[Len(lock')] = j
  BY DEF HTypeOK, Enqueue
<1>2. \A i \in DOMAIN lock' : i \in DOMAIN lock \/ i = Len(lock')
  BY <1>1
<1>3. DOMAIN lock \subseteq DOMAIN lock' /\ Len(lock') \in DOMAIN lock'
  BY <1>1
<1>4. \A i, k \in DOMAIN lock' : lock'[i] = lock'[k] => i = k
  BY <1>1, <1>2 DEF InQueue, HTypeOK
<1>5. \A k : InQueue(lock', k) <=> InQueue(lock, k) \/ k = j
  BY <1>1, <1>2, <1>3 DEF InQueue
<1>6. lock # <<>> => lock' # <<>> /\ Head(lock') = Head(lock)
  BY <1>1
<1> QED
  BY <1>1, <1>4, <1>5, <1>6 DEF Holds

\* Who leaves the queue was first in it, once.
LEMMA QueuePasses ==
  ASSUME HTypeOK, NEW j \in Calls \cup {Beat}, Holds(j), Dequeue
  PROVE  /\ lock' \in Seq(Calls \cup {Beat})
         /\ \A i, k \in DOMAIN lock' : lock'[i] = lock'[k] => i = k
         /\ \A k : InQueue(lock', k) <=> InQueue(lock, k) /\ k # j
         /\ InQueue(lock, j)
<1>1. /\ lock \in Seq(Calls \cup {Beat}) /\ lock' \in Seq(Calls \cup {Beat})
      /\ Len(lock) \in Nat \ {0} /\ Len(lock') = Len(lock) - 1
      /\ DOMAIN lock = 1..Len(lock) /\ DOMAIN lock' = 1..Len(lock')
      /\ \A i \in 1..Len(lock') : lock'[i] = lock[i + 1]
      /\ lock[1] = j
  BY DEF HTypeOK, Dequeue, Holds
<1>2. \A i \in DOMAIN lock' : i + 1 \in DOMAIN lock /\ i + 1 # 1 /\ lock'[i] = lock[i + 1]
  BY <1>1
<1>3. \A i \in DOMAIN lock \ {1} : i - 1 \in DOMAIN lock' /\ lock'[i - 1] = lock[i]
  BY <1>1
<1>4. 1 \in DOMAIN lock
  BY <1>1
<1>5. ASSUME NEW i \in DOMAIN lock', NEW k \in DOMAIN lock', lock'[i] = lock'[k] PROVE i = k
  <2>1. i + 1 = k + 1
    BY <1>2, <1>5 DEF HTypeOK
  <2> QED
    BY <2>1, <1>1
<1>6. ASSUME NEW k PROVE InQueue(lock', k) <=> InQueue(lock, k) /\ k # j
  <2>1. ASSUME InQueue(lock', k) PROVE InQueue(lock, k) /\ k # j
    BY <2>1, <1>1, <1>2, <1>4 DEF InQueue, HTypeOK
  <2>2. ASSUME InQueue(lock, k), k # j PROVE InQueue(lock', k)
    BY <2>2, <1>1, <1>3 DEF InQueue
  <2> QED
    BY <2>1, <2>2
<1> QED
  BY <1>1, <1>4, <1>5, <1>6 DEF InQueue

\* One job is first.
LEMMA OneFirst == \A j, k : Holds(j) /\ Holds(k) => j = k
  BY DEF Holds

\* The handle begins with its timer on and nobody in the queue.
LEMMA HandleInit == HInit => HInv
<1> SUFFICES ASSUME HInit PROVE HInv
  OBVIOUS
<1>0. beats \in 0..MaxBeats /\ faults \in 0..MaxFaults
  BY BoundAssumption DEF HInit
<1>1. lock \in Seq(Calls \cup {Beat}) /\ DOMAIN lock = {}
  BY DEF HInit
<1>2. HTypeOK
  BY <1>0, <1>1 DEF HInit, HTypeOK, Roots, Steps
<1>3. KindOf /\ QuiescedIsCanonical
  BY DEF HInit, KindOf, QuiescedIsCanonical
<1>4. QueueShape
  BY <1>1 DEF HInit, QueueShape, InQueue, Entered, Writing
<1>5. Closed /\ EndedOnce
  BY DEF HInit, Closed, EndedOnce, Behind, Ending, Endings
<1> QED
  BY <1>2, <1>3, <1>4, <1>5 DEF HInv

-----------------------------------------------------------------------------
(* Steps of the handle.                                                    *)

\* The heartbeat proves its ownership once it has the lock.
LEMMA BeatProveKeeps ==
  ASSUME HInv, BeatProve
  PROVE  HInv'
<1> USE BeatAssumption, BoundAssumption, OneFirst DEF HInv, HTypeOK, disk, handle, heart, call,
        BeatProve, Owned
<1>q. \A k : (Holds(k)' <=> Holds(k)) /\ (InQueue(lock', k) <=> InQueue(lock, k))
  BY DEF Holds, InQueue
<1>0. (beat # "none" <=> InQueue(lock, Beat)) /\ (beat' # "none" <=> InQueue(lock', Beat))
  <2>1. beat # "none" <=> InQueue(lock, Beat)
    BY DEF InQueue
  <2> QED
    BY <2>1, <1>q DEF Writing
<1>1. HTypeOK'
  <2>1. beat' # "none" <=> \E i \in DOMAIN lock' : lock'[i] = Beat
    BY <1>0 DEF InQueue
  <2> QED
    BY <2>1, <1>q DEF Roots, Steps, Kinds, Writing, Entered, Endings
<1>2. KindOf'
  BY <1>q, <1>0 DEF KindOf, Entered, Endings
<1>3. QueueShape'
  BY <1>q, <1>0 DEF QueueShape, Entered, Writing, Endings, KindOf
<1>4. Closed'
  BY <1>q, <1>0 DEF Closed, Behind, Endings, KindOf, Entered
<1>5. EndedOnce'
  BY <1>q, <1>0 DEF EndedOnce, Ending, Endings, KindOf, QueueShape, Entered, Closed
<1>6. QuiescedIsCanonical'
  BY <1>q, <1>0 DEF QuiescedIsCanonical, QueueShape, KindOf, Entered, Writing, Candidate,
      EndedOnce
<1> QED
  BY <1>1, <1>2, <1>3, <1>4, <1>5, <1>6

\* The heartbeat writes its candidate.
LEMMA BeatCandidateKeeps ==
  ASSUME HInv, BeatCandidate
  PROVE  HInv'
<1> USE BeatAssumption, BoundAssumption, OneFirst DEF HInv, HTypeOK, disk, handle, heart, call,
        BeatCandidate
<1>q. \A k : (Holds(k)' <=> Holds(k)) /\ (InQueue(lock', k) <=> InQueue(lock, k))
  BY DEF Holds, InQueue
<1>0. (beat # "none" <=> InQueue(lock, Beat)) /\ (beat' # "none" <=> InQueue(lock', Beat))
  <2>1. beat # "none" <=> InQueue(lock, Beat)
    BY DEF InQueue
  <2> QED
    BY <2>1, <1>q DEF Writing
<1>1. HTypeOK'
  <2>1. beat' # "none" <=> \E i \in DOMAIN lock' : lock'[i] = Beat
    BY <1>0 DEF InQueue
  <2> QED
    BY <2>1, <1>q DEF Roots, Steps, Kinds, Writing, Entered, Endings
<1>2. KindOf'
  BY <1>q, <1>0 DEF KindOf, Entered, Endings
<1>3. QueueShape'
  BY <1>q, <1>0 DEF QueueShape, Entered, Writing, Endings, KindOf
<1>4. Closed'
  BY <1>q, <1>0 DEF Closed, Behind, Endings, KindOf, Entered
<1>5. EndedOnce'
  BY <1>q, <1>0 DEF EndedOnce, Ending, Endings, KindOf, QueueShape, Entered, Closed
<1>6. QuiescedIsCanonical'
  BY <1>q, <1>0 DEF QuiescedIsCanonical, QueueShape, KindOf, Entered, Writing, Candidate,
      EndedOnce
<1> QED
  BY <1>1, <1>2, <1>3, <1>4, <1>5, <1>6

\* The heartbeat renames its candidate.
LEMMA BeatRenameKeeps ==
  ASSUME HInv, BeatRename
  PROVE  HInv'
<1> USE BeatAssumption, BoundAssumption, OneFirst DEF HInv, HTypeOK, disk, handle, heart, call,
        BeatRename
<1>q. \A k : (Holds(k)' <=> Holds(k)) /\ (InQueue(lock', k) <=> InQueue(lock, k))
  BY DEF Holds, InQueue
<1>0. (beat # "none" <=> InQueue(lock, Beat)) /\ (beat' # "none" <=> InQueue(lock', Beat))
  <2>1. beat # "none" <=> InQueue(lock, Beat)
    BY DEF InQueue
  <2> QED
    BY <2>1, <1>q DEF Writing
<1>1. HTypeOK'
  <2>1. beat' # "none" <=> \E i \in DOMAIN lock' : lock'[i] = Beat
    BY <1>0 DEF InQueue
  <2> QED
    BY <2>1, <1>q DEF Roots, Steps, Kinds, Writing, Entered, Endings
<1>2. KindOf'
  BY <1>q, <1>0 DEF KindOf, Entered, Endings
<1>3. QueueShape'
  BY <1>q, <1>0 DEF QueueShape, Entered, Writing, Endings, KindOf
<1>4. Closed'
  BY <1>q, <1>0 DEF Closed, Behind, Endings, KindOf, Entered
<1>5. EndedOnce'
  BY <1>q, <1>0 DEF EndedOnce, Ending, Endings, KindOf, QueueShape, Entered, Closed
<1>6. QuiescedIsCanonical'
  BY <1>q, <1>0 DEF QuiescedIsCanonical, QueueShape, KindOf, Entered, Writing, Candidate,
      EndedOnce
<1> QED
  BY <1>1, <1>2, <1>3, <1>4, <1>5, <1>6

\* The heartbeat ends well.
LEMMA BeatFinishKeeps ==
  ASSUME HInv, BeatFinish
  PROVE  HInv'
<1> USE BeatAssumption, BoundAssumption, OneFirst DEF HInv, HTypeOK, disk, handle, heart, call,
        BeatFinish, BeatSettle
<1>q. /\ lock' \in Seq(Calls \cup {Beat})
      /\ \A i, k \in DOMAIN lock' : lock'[i] = lock'[k] => i = k
      /\ \A k : InQueue(lock', k) <=> InQueue(lock, k) /\ k # Beat
      /\ Holds(Beat)
  <2>1. Holds(Beat)
    BY DEF QueueShape, Writing
  <2> QED
    BY <2>1, QueuePasses
<1>0. (beat # "none" <=> InQueue(lock, Beat)) /\ (beat' # "none" <=> InQueue(lock', Beat))
  <2>1. beat # "none" <=> InQueue(lock, Beat)
    BY DEF InQueue
  <2> QED
    BY <2>1, <1>q DEF Writing
<1>1. HTypeOK'
  <2>1. beat' # "none" <=> \E i \in DOMAIN lock' : lock'[i] = Beat
    BY <1>0 DEF InQueue
  <2> QED
    BY <2>1, <1>q DEF Roots, Steps, Kinds, Writing, Entered, Endings
<1>2. KindOf'
  BY <1>q, <1>0 DEF KindOf, Entered, Endings
<1>3. QueueShape'
  BY <1>q, <1>0 DEF QueueShape, Entered, Writing, Endings, KindOf
<1>4. Closed'
  <2>1. beat # "none" /\ ~released
    BY <1>q, <1>0 DEF Closed
  <2>2. \A d \in Calls : ~Behind(d) /\ pc[d] # "drained"
    BY <2>1 DEF Closed
  <2>3. ASSUME NEW d \in Calls
        PROVE  /\ pc'[d] # "draining" /\ ~Behind(d)'
               /\ pc'[d] = "drained" => pc[d] = "draining"
    BY <2>2 DEF Behind, KindOf, Endings
  <2> QED
    BY <2>1, <2>2, <2>3 DEF Closed, Behind, Endings
<1>5. EndedOnce'
  BY <1>q, <1>0 DEF EndedOnce, Ending, Endings, KindOf, QueueShape, Entered, Closed
<1>6. QuiescedIsCanonical'
  BY <1>q, <1>0 DEF QuiescedIsCanonical, QueueShape, KindOf, Entered, Writing, Candidate,
      EndedOnce
<1> QED
  BY <1>1, <1>2, <1>3, <1>4, <1>5, <1>6

\* The heartbeat finds its path or its generation gone.
LEMMA BeatLostKeeps ==
  ASSUME HInv, BeatLost
  PROVE  HInv'
<1> USE BeatAssumption, BoundAssumption, OneFirst DEF HInv, HTypeOK, disk, handle, heart, call,
        BeatLost, BeatSettle
<1>q. /\ lock' \in Seq(Calls \cup {Beat})
      /\ \A i, k \in DOMAIN lock' : lock'[i] = lock'[k] => i = k
      /\ \A k : InQueue(lock', k) <=> InQueue(lock, k) /\ k # Beat
      /\ Holds(Beat)
  <2>1. Holds(Beat)
    BY DEF QueueShape, Writing
  <2> QED
    BY <2>1, QueuePasses
<1>0. (beat # "none" <=> InQueue(lock, Beat)) /\ (beat' # "none" <=> InQueue(lock', Beat))
  <2>1. beat # "none" <=> InQueue(lock, Beat)
    BY DEF InQueue
  <2> QED
    BY <2>1, <1>q DEF Writing
<1>1. HTypeOK'
  <2>1. beat' # "none" <=> \E i \in DOMAIN lock' : lock'[i] = Beat
    BY <1>0 DEF InQueue
  <2> QED
    BY <2>1, <1>q DEF Roots, Steps, Kinds, Writing, Entered, Endings
<1>2. KindOf'
  BY <1>q, <1>0 DEF KindOf, Entered, Endings
<1>3. QueueShape'
  BY <1>q, <1>0 DEF QueueShape, Entered, Writing, Endings, KindOf
<1>4. Closed'
  <2>1. beat # "none" /\ ~released
    BY <1>q, <1>0 DEF Closed
  <2>2. \A d \in Calls : ~Behind(d) /\ pc[d] # "drained"
    BY <2>1 DEF Closed
  <2>3. ASSUME NEW d \in Calls
        PROVE  /\ pc'[d] # "draining" /\ ~Behind(d)'
               /\ pc'[d] = "drained" => pc[d] = "draining"
    BY <2>2 DEF Behind, KindOf, Endings
  <2> QED
    BY <2>1, <2>2, <2>3 DEF Closed, Behind, Endings
<1>5. EndedOnce'
  BY <1>q, <1>0 DEF EndedOnce, Ending, Endings, KindOf, QueueShape, Entered, Closed
<1>6. QuiescedIsCanonical'
  BY <1>q, <1>0 DEF QuiescedIsCanonical, QueueShape, KindOf, Entered, Writing, Candidate,
      EndedOnce
<1> QED
  BY <1>1, <1>2, <1>3, <1>4, <1>5, <1>6

\* A file-system call of the heartbeat fails.
LEMMA BeatFaultKeeps ==
  ASSUME HInv, BeatFault
  PROVE  HInv'
<1> USE BeatAssumption, BoundAssumption, OneFirst DEF HInv, HTypeOK, disk, handle, heart, call,
        BeatFault, BeatSettle, Fault
<1>q. /\ lock' \in Seq(Calls \cup {Beat})
      /\ \A i, k \in DOMAIN lock' : lock'[i] = lock'[k] => i = k
      /\ \A k : InQueue(lock', k) <=> InQueue(lock, k) /\ k # Beat
      /\ Holds(Beat)
  <2>1. Holds(Beat)
    BY DEF QueueShape, Writing
  <2> QED
    BY <2>1, QueuePasses
<1>0. (beat # "none" <=> InQueue(lock, Beat)) /\ (beat' # "none" <=> InQueue(lock', Beat))
  <2>1. beat # "none" <=> InQueue(lock, Beat)
    BY DEF InQueue
  <2> QED
    BY <2>1, <1>q DEF Writing
<1>1. HTypeOK'
  <2>1. beat' # "none" <=> \E i \in DOMAIN lock' : lock'[i] = Beat
    BY <1>0 DEF InQueue
  <2>2. faults' \in 0..MaxFaults
    OBVIOUS
  <2>3. {published', holder', residue', beatFailed', ticked'} \subseteq BOOLEAN
    OBVIOUS
  <2>4. pc' \in [Calls -> Steps]
    BY DEF Steps
  <2> QED
    BY <2>1, <2>2, <2>3, <2>4, <1>q DEF Roots, Kinds, Writing, Entered, Endings
<1>2. KindOf'
  BY <1>q, <1>0 DEF KindOf, Entered, Endings
<1>3. QueueShape'
  BY <1>q, <1>0 DEF QueueShape, Entered, Writing, Endings, KindOf
<1>4. Closed'
  <2>1. beat # "none" /\ ~released
    BY <1>q, <1>0 DEF Closed, Writing
  <2>2. \A d \in Calls : ~Behind(d) /\ pc[d] # "drained"
    BY <2>1 DEF Closed
  <2>3. ASSUME NEW d \in Calls
        PROVE  /\ pc'[d] # "draining" /\ ~Behind(d)'
               /\ pc'[d] = "drained" => pc[d] = "draining"
    BY <2>2 DEF Behind, KindOf, Endings
  <2> QED
    BY <2>1, <2>2, <2>3 DEF Closed, Behind, Endings
<1>5. EndedOnce'
  BY <1>q, <1>0 DEF EndedOnce, Ending, Endings, KindOf, QueueShape, Entered, Closed
<1>6. QuiescedIsCanonical'
  BY <1>q, <1>0 DEF QuiescedIsCanonical, QueueShape, KindOf, Entered, Writing, Candidate,
      EndedOnce
<1> QED
  BY <1>1, <1>2, <1>3, <1>4, <1>5, <1>6

\* The closeout moves the workspace.
LEMMA MoveWorkspaceKeeps ==
  ASSUME HInv, NEW c \in Calls, MoveWorkspace(c)
  PROVE  HInv'
<1> USE BeatAssumption, BoundAssumption, OneFirst DEF HInv, HTypeOK, disk, handle, heart, call,
        MoveWorkspace, Begin, At
<1>q. \A k : (Holds(k)' <=> Holds(k)) /\ (InQueue(lock', k) <=> InQueue(lock, k))
  BY DEF Holds, InQueue
<1>0. (beat # "none" <=> InQueue(lock, Beat)) /\ (beat' # "none" <=> InQueue(lock', Beat))
  <2>1. beat # "none" <=> InQueue(lock, Beat)
    BY DEF InQueue
  <2> QED
    BY <2>1, <1>q DEF Writing
<1>1. HTypeOK'
  <2>1. beat' # "none" <=> \E i \in DOMAIN lock' : lock'[i] = Beat
    BY <1>0 DEF InQueue
  <2> QED
    BY <2>1, <1>q DEF Roots, Steps, Kinds, Writing, Entered, Endings
<1>2. KindOf'
  BY <1>q, <1>0 DEF KindOf, Entered, Endings
<1>3. QueueShape'
  BY <1>q, <1>0 DEF QueueShape, Entered, Writing, Endings, KindOf
<1>4. Closed'
  BY <1>q, <1>0 DEF Closed, Behind, Endings, KindOf, Entered
<1>5. EndedOnce'
  BY <1>q, <1>0 DEF EndedOnce, Ending, Endings, KindOf, QueueShape, Entered, Closed
<1>6. QuiescedIsCanonical'
  BY <1>q, <1>0 DEF QuiescedIsCanonical, QueueShape, KindOf, Entered, Writing, Candidate,
      EndedOnce
<1> QED
  BY <1>1, <1>2, <1>3, <1>4, <1>5, <1>6

\* relocate looks at the handle.
LEMMA RelocateOpenKeeps ==
  ASSUME HInv, NEW c \in Calls, RelocateOpen(c)
  PROVE  HInv'
<1> USE BeatAssumption, BoundAssumption, OneFirst DEF HInv, HTypeOK, disk, handle, heart, call,
        RelocateOpen, At
<1>q. \A k : (Holds(k)' <=> Holds(k)) /\ (InQueue(lock', k) <=> InQueue(lock, k))
  BY DEF Holds, InQueue
<1>0. (beat # "none" <=> InQueue(lock, Beat)) /\ (beat' # "none" <=> InQueue(lock', Beat))
  <2>1. beat # "none" <=> InQueue(lock, Beat)
    BY DEF InQueue
  <2> QED
    BY <2>1, <1>q DEF Writing
<1>1. HTypeOK'
  <2>1. beat' # "none" <=> \E i \in DOMAIN lock' : lock'[i] = Beat
    BY <1>0 DEF InQueue
  <2> QED
    BY <2>1, <1>q DEF Roots, Steps, Kinds, Writing, Entered, Endings
<1>2. KindOf'
  BY <1>q, <1>0 DEF KindOf, Entered, Endings
<1>3. QueueShape'
  BY <1>q, <1>0 DEF QueueShape, Entered, Writing, Endings, KindOf
<1>4. Closed'
  BY <1>q, <1>0 DEF Closed, Behind, Endings, KindOf, Entered
<1>5. EndedOnce'
  BY <1>q, <1>0 DEF EndedOnce, Ending, Endings, KindOf, QueueShape, Entered, Closed
<1>6. QuiescedIsCanonical'
  BY <1>q, <1>0 DEF QuiescedIsCanonical, QueueShape, KindOf, Entered, Writing, Candidate,
      EndedOnce
<1> QED
  BY <1>1, <1>2, <1>3, <1>4, <1>5, <1>6

\* relocate proves the ownership at the new root.
LEMMA RelocateCommitKeeps ==
  ASSUME HInv, NEW c \in Calls, RelocateCommit(c)
  PROVE  HInv'
<1> USE BeatAssumption, BoundAssumption, OneFirst DEF HInv, HTypeOK, disk, handle, heart, call,
        RelocateCommit, At
<1>q. \A k : (Holds(k)' <=> Holds(k)) /\ (InQueue(lock', k) <=> InQueue(lock, k))
  BY DEF Holds, InQueue
<1>0. (beat # "none" <=> InQueue(lock, Beat)) /\ (beat' # "none" <=> InQueue(lock', Beat))
  <2>1. beat # "none" <=> InQueue(lock, Beat)
    BY DEF InQueue
  <2> QED
    BY <2>1, <1>q DEF Writing
<1>1. HTypeOK'
  <2>1. beat' # "none" <=> \E i \in DOMAIN lock' : lock'[i] = Beat
    BY <1>0 DEF InQueue
  <2> QED
    BY <2>1, <1>q DEF Roots, Steps, Kinds, Writing, Entered, Endings
<1>2. KindOf'
  BY <1>q, <1>0 DEF KindOf, Entered, Endings
<1>3. QueueShape'
  BY <1>q, <1>0 DEF QueueShape, Entered, Writing, Endings, KindOf
<1>4. Closed'
  BY <1>q, <1>0 DEF Closed, Behind, Endings, KindOf, Entered
<1>5. EndedOnce'
  BY <1>q, <1>0 DEF EndedOnce, Ending, Endings, KindOf, QueueShape, Entered, Closed
<1>6. QuiescedIsCanonical'
  BY <1>q, <1>0 DEF QuiescedIsCanonical, QueueShape, KindOf, Entered, Writing, Candidate,
      EndedOnce
<1> QED
  BY <1>1, <1>2, <1>3, <1>4, <1>5, <1>6

\* A retirement begins on a handle that is open.
LEMMA RetireCallKeeps ==
  ASSUME HInv, NEW c \in Calls, RetireCall(c)
  PROVE  HInv'
<1> USE BeatAssumption, BoundAssumption, OneFirst DEF HInv, HTypeOK, disk, handle, heart, call,
        RetireCall, Begin, At
<1>q. \A k : (Holds(k)' <=> Holds(k)) /\ (InQueue(lock', k) <=> InQueue(lock, k))
  BY DEF Holds, InQueue
<1>0. (beat # "none" <=> InQueue(lock, Beat)) /\ (beat' # "none" <=> InQueue(lock', Beat))
  <2>1. beat # "none" <=> InQueue(lock, Beat)
    BY DEF InQueue
  <2> QED
    BY <2>1, <1>q DEF Writing
<1>1. HTypeOK'
  <2>1. beat' # "none" <=> \E i \in DOMAIN lock' : lock'[i] = Beat
    BY <1>0 DEF InQueue
  <2> QED
    BY <2>1, <1>q DEF Roots, Steps, Kinds, Writing, Entered, Endings
<1>2. KindOf'
  BY <1>q, <1>0 DEF KindOf, Entered, Endings
<1>3. QueueShape'
  BY <1>q, <1>0 DEF QueueShape, Entered, Writing, Endings, KindOf
<1>4. Closed'
  BY <1>q, <1>0 DEF Closed, Behind, Endings, KindOf, Entered
<1>5. EndedOnce'
  BY <1>q, <1>0 DEF EndedOnce, Ending, Endings, KindOf, QueueShape, Entered, Closed
<1>6. QuiescedIsCanonical'
  BY <1>q, <1>0 DEF QuiescedIsCanonical, QueueShape, KindOf, Entered, Writing, Candidate,
      EndedOnce
<1> QED
  BY <1>1, <1>2, <1>3, <1>4, <1>5, <1>6

\* The retirement closes admission and captures the pending heartbeat.
LEMMA RetireCloseKeeps ==
  ASSUME HInv, NEW c \in Calls, RetireClose(c)
  PROVE  HInv'
<1> USE BeatAssumption, BoundAssumption, OneFirst DEF HInv, HTypeOK, disk, handle, heart, call,
        RetireClose, CloseAdmission, At
<1>q. \A k : (Holds(k)' <=> Holds(k)) /\ (InQueue(lock', k) <=> InQueue(lock, k))
  BY DEF Holds, InQueue
<1>0. (beat # "none" <=> InQueue(lock, Beat)) /\ (beat' # "none" <=> InQueue(lock', Beat))
  <2>1. beat # "none" <=> InQueue(lock, Beat)
    BY DEF InQueue
  <2> QED
    BY <2>1, <1>q DEF Writing
<1>1. HTypeOK'
  <2>1. beat' # "none" <=> \E i \in DOMAIN lock' : lock'[i] = Beat
    BY <1>0 DEF InQueue
  <2> QED
    BY <2>1, <1>q DEF Roots, Steps, Kinds, Writing, Entered, Endings
<1>2. KindOf'
  BY <1>q, <1>0 DEF KindOf, Entered, Endings
<1>3. QueueShape'
  BY <1>q, <1>0 DEF QueueShape, Entered, Writing, Endings, KindOf
<1>4. Closed'
  BY <1>q, <1>0 DEF Closed, Behind, Endings, KindOf, Entered
<1>5. EndedOnce'
  BY <1>q, <1>0 DEF EndedOnce, Ending, Endings, KindOf, QueueShape, Entered, Closed
<1>6. QuiescedIsCanonical'
  BY <1>q, <1>0 DEF QuiescedIsCanonical, QueueShape, KindOf, Entered, Writing, Candidate,
      EndedOnce
<1> QED
  BY <1>1, <1>2, <1>3, <1>4, <1>5, <1>6

\* The retirement finds the generation gone.
LEMMA RetireRefusedKeeps ==
  ASSUME HInv, NEW c \in Calls, RetireRefused(c)
  PROVE  HInv'
<1> USE BeatAssumption, BoundAssumption, OneFirst DEF HInv, HTypeOK, disk, handle, heart, call,
        RetireRefused, At
<1>q. \A k : (Holds(k)' <=> Holds(k)) /\ (InQueue(lock', k) <=> InQueue(lock, k))
  BY DEF Holds, InQueue
<1>0. (beat # "none" <=> InQueue(lock, Beat)) /\ (beat' # "none" <=> InQueue(lock', Beat))
  <2>1. beat # "none" <=> InQueue(lock, Beat)
    BY DEF InQueue
  <2> QED
    BY <2>1, <1>q DEF Writing
<1>1. HTypeOK'
  <2>1. beat' # "none" <=> \E i \in DOMAIN lock' : lock'[i] = Beat
    BY <1>0 DEF InQueue
  <2> QED
    BY <2>1, <1>q DEF Roots, Steps, Kinds, Writing, Entered, Endings
<1>2. KindOf'
  BY <1>q, <1>0 DEF KindOf, Entered, Endings
<1>3. QueueShape'
  BY <1>q, <1>0 DEF QueueShape, Entered, Writing, Endings, KindOf
<1>4. Closed'
  BY <1>q, <1>0 DEF Closed, Behind, Endings, KindOf, Entered
<1>5. EndedOnce'
  BY <1>q, <1>0 DEF EndedOnce, Ending, Endings, KindOf, QueueShape, Entered, Closed
<1>6. QuiescedIsCanonical'
  BY <1>q, <1>0 DEF QuiescedIsCanonical, QueueShape, KindOf, Entered, Writing, Candidate,
      EndedOnce
<1> QED
  BY <1>1, <1>2, <1>3, <1>4, <1>5, <1>6

\* A release closes admission and captures the pending heartbeat.
LEMMA ReleaseCallKeeps ==
  ASSUME HInv, NEW c \in Calls, ReleaseCall(c)
  PROVE  HInv'
<1> USE BeatAssumption, BoundAssumption, OneFirst DEF HInv, HTypeOK, disk, handle, heart, call,
        ReleaseCall, CloseAdmission, At
<1>q. \A k : (Holds(k)' <=> Holds(k)) /\ (InQueue(lock', k) <=> InQueue(lock, k))
  BY DEF Holds, InQueue
<1>0. (beat # "none" <=> InQueue(lock, Beat)) /\ (beat' # "none" <=> InQueue(lock', Beat))
  <2>1. beat # "none" <=> InQueue(lock, Beat)
    BY DEF InQueue
  <2> QED
    BY <2>1, <1>q DEF Writing
<1>1. HTypeOK'
  <2>1. beat' # "none" <=> \E i \in DOMAIN lock' : lock'[i] = Beat
    BY <1>0 DEF InQueue
  <2> QED
    BY <2>1, <1>q DEF Roots, Steps, Kinds, Writing, Entered, Endings
<1>2. KindOf'
  BY <1>q, <1>0 DEF KindOf, Entered, Endings
<1>3. QueueShape'
  BY <1>q, <1>0 DEF QueueShape, Entered, Writing, Endings, KindOf
<1>4. Closed'
  BY <1>q, <1>0 DEF Closed, Behind, Endings, KindOf, Entered
<1>5. EndedOnce'
  BY <1>q, <1>0 DEF EndedOnce, Ending, Endings, KindOf, QueueShape, Entered, Closed
<1>6. QuiescedIsCanonical'
  BY <1>q, <1>0 DEF QuiescedIsCanonical, QueueShape, KindOf, Entered, Writing, Candidate,
      EndedOnce
<1> QED
  BY <1>1, <1>2, <1>3, <1>4, <1>5, <1>6

\* A quiesced section queues for the lock.
LEMMA QuiesceCallKeeps ==
  ASSUME HInv, NEW c \in Calls, QuiesceCall(c)
  PROVE  HInv'
<1> USE BeatAssumption, BoundAssumption, OneFirst DEF HInv, HTypeOK, disk, handle, heart, call,
        QuiesceCall, Begin, At
<1>q. /\ lock' \in Seq(Calls \cup {Beat})
      /\ \A i, k \in DOMAIN lock' : lock'[i] = lock'[k] => i = k
      /\ \A k : InQueue(lock', k) <=> InQueue(lock, k) \/ k = c
      /\ \A k : Holds(k) => Holds(k)'
  <2>1. ~InQueue(lock, c)
    BY DEF QueueShape, Entered
  <2> QED
    BY <2>1, QueueAppends
<1>0. (beat # "none" <=> InQueue(lock, Beat)) /\ (beat' # "none" <=> InQueue(lock', Beat))
  <2>1. beat # "none" <=> InQueue(lock, Beat)
    BY DEF InQueue
  <2> QED
    BY <2>1, <1>q DEF Writing
<1>1. HTypeOK'
  <2>1. beat' # "none" <=> \E i \in DOMAIN lock' : lock'[i] = Beat
    BY <1>0 DEF InQueue
  <2> QED
    BY <2>1, <1>q DEF Roots, Steps, Kinds, Writing, Entered, Endings
<1>2. KindOf'
  BY <1>q, <1>0 DEF KindOf, Entered, Endings
<1>3. QueueShape'
  BY <1>q, <1>0 DEF QueueShape, Entered, Writing, Endings, KindOf
<1>4. Closed'
  BY <1>q, <1>0 DEF Closed, Behind, Endings, KindOf, Entered
<1>5. EndedOnce'
  BY <1>q, <1>0 DEF EndedOnce, Ending, Endings, KindOf, QueueShape, Entered, Closed
<1>6. QuiescedIsCanonical'
  BY <1>q, <1>0 DEF QuiescedIsCanonical, QueueShape, KindOf, Entered, Writing, Candidate,
      EndedOnce
<1> QED
  BY <1>1, <1>2, <1>3, <1>4, <1>5, <1>6

\* A call has the lock and proves the generation.
LEMMA EnterKeeps ==
  ASSUME HInv, NEW c \in Calls, Enter(c)
  PROVE  HInv'
<1> USE BeatAssumption, BoundAssumption, OneFirst DEF HInv, HTypeOK, disk, handle, heart, call,
        Enter, At, Proves, Owned
<1>q. \A k : (Holds(k)' <=> Holds(k)) /\ (InQueue(lock', k) <=> InQueue(lock, k))
  BY DEF Holds, InQueue
<1>0. (beat # "none" <=> InQueue(lock, Beat)) /\ (beat' # "none" <=> InQueue(lock', Beat))
  <2>1. beat # "none" <=> InQueue(lock, Beat)
    BY DEF InQueue
  <2> QED
    BY <2>1, <1>q DEF Writing
<1>1. HTypeOK'
  <2>1. beat' # "none" <=> \E i \in DOMAIN lock' : lock'[i] = Beat
    BY <1>0 DEF InQueue
  <2> QED
    BY <2>1, <1>q DEF Roots, Steps, Kinds, Writing, Entered, Endings
<1>2. KindOf'
  BY <1>q, <1>0 DEF KindOf, Entered, Endings
<1>3. QueueShape'
  BY <1>q, <1>0 DEF QueueShape, Entered, Writing, Endings, KindOf
<1>4. Closed'
  BY <1>q, <1>0 DEF Closed, Behind, Endings, KindOf, Entered
<1>5. EndedOnce'
  BY <1>q, <1>0 DEF EndedOnce, Ending, Endings, KindOf, QueueShape, Entered, Closed
<1>6. QuiescedIsCanonical'
  BY <1>q, <1>0 DEF QuiescedIsCanonical, QueueShape, KindOf, Entered, Writing, Candidate,
      EndedOnce
<1> QED
  BY <1>1, <1>2, <1>3, <1>4, <1>5, <1>6

\* A proof fails inside the lock.
LEMMA RefusedKeeps ==
  ASSUME HInv, NEW c \in Calls, Refused(c)
  PROVE  HInv'
<1> USE BeatAssumption, BoundAssumption, OneFirst DEF HInv, HTypeOK, disk, handle, heart, call,
        Refused, At
<1>q. /\ lock' \in Seq(Calls \cup {Beat})
      /\ \A i, k \in DOMAIN lock' : lock'[i] = lock'[k] => i = k
      /\ \A k : InQueue(lock', k) <=> InQueue(lock, k) /\ k # c
  BY QueuePasses
<1>0. (beat # "none" <=> InQueue(lock, Beat)) /\ (beat' # "none" <=> InQueue(lock', Beat))
  <2>1. beat # "none" <=> InQueue(lock, Beat)
    BY DEF InQueue
  <2> QED
    BY <2>1, <1>q DEF Writing
<1>1. HTypeOK'
  <2>1. beat' # "none" <=> \E i \in DOMAIN lock' : lock'[i] = Beat
    BY <1>0 DEF InQueue
  <2> QED
    BY <2>1, <1>q DEF Roots, Steps, Kinds, Writing, Entered, Endings
<1>2. KindOf'
  BY <1>q, <1>0 DEF KindOf, Entered, Endings
<1>3. QueueShape'
  BY <1>q, <1>0 DEF QueueShape, Entered, Writing, Endings, KindOf
<1>4. Closed'
  BY <1>q, <1>0 DEF Closed, Behind, Endings, KindOf, Entered
<1>5. EndedOnce'
  BY <1>q, <1>0 DEF EndedOnce, Ending, Endings, KindOf, QueueShape, Entered, Closed
<1>6. QuiescedIsCanonical'
  BY <1>q, <1>0 DEF QuiescedIsCanonical, QueueShape, KindOf, Entered, Writing, Candidate,
      EndedOnce
<1> QED
  BY <1>1, <1>2, <1>3, <1>4, <1>5, <1>6

\* A file-system call fails inside the lock.
LEMMA LockedFaultKeeps ==
  ASSUME HInv, NEW c \in Calls, LockedFault(c)
  PROVE  HInv'
<1> USE BeatAssumption, BoundAssumption, OneFirst DEF HInv, HTypeOK, disk, handle, heart, call,
        LockedFault, At, Fault
<1>q. /\ lock' \in Seq(Calls \cup {Beat})
      /\ \A i, k \in DOMAIN lock' : lock'[i] = lock'[k] => i = k
      /\ \A k : InQueue(lock', k) <=> InQueue(lock, k) /\ k # c
  BY QueuePasses
<1>0. (beat # "none" <=> InQueue(lock, Beat)) /\ (beat' # "none" <=> InQueue(lock', Beat))
  <2>1. beat # "none" <=> InQueue(lock, Beat)
    BY DEF InQueue
  <2> QED
    BY <2>1, <1>q DEF Writing
<1>1. HTypeOK'
  <2>1. beat' # "none" <=> \E i \in DOMAIN lock' : lock'[i] = Beat
    BY <1>0 DEF InQueue
  <2> QED
    BY <2>1, <1>q DEF Roots, Steps, Kinds, Writing, Entered, Endings
<1>2. KindOf'
  BY <1>q, <1>0 DEF KindOf, Entered, Endings
<1>3. QueueShape'
  BY <1>q, <1>0 DEF QueueShape, Entered, Writing, Endings, KindOf
<1>4. Closed'
  BY <1>q, <1>0 DEF Closed, Behind, Endings, KindOf, Entered
<1>5. EndedOnce'
  BY <1>q, <1>0 DEF EndedOnce, Ending, Endings, KindOf, QueueShape, Entered, Closed
<1>6. QuiescedIsCanonical'
  BY <1>q, <1>0 DEF QuiescedIsCanonical, QueueShape, KindOf, Entered, Writing, Candidate,
      EndedOnce
<1> QED
  BY <1>1, <1>2, <1>3, <1>4, <1>5, <1>6

\* The quiesced section leaves.
LEMMA QuiesceLeaveKeeps ==
  ASSUME HInv, NEW c \in Calls, QuiesceLeave(c)
  PROVE  HInv'
<1> USE BeatAssumption, BoundAssumption, OneFirst DEF HInv, HTypeOK, disk, handle, heart, call,
        QuiesceLeave, At
<1>q. /\ lock' \in Seq(Calls \cup {Beat})
      /\ \A i, k \in DOMAIN lock' : lock'[i] = lock'[k] => i = k
      /\ \A k : InQueue(lock', k) <=> InQueue(lock, k) /\ k # c
  BY QueuePasses
<1>0. (beat # "none" <=> InQueue(lock, Beat)) /\ (beat' # "none" <=> InQueue(lock', Beat))
  <2>1. beat # "none" <=> InQueue(lock, Beat)
    BY DEF InQueue
  <2> QED
    BY <2>1, <1>q DEF Writing
<1>1. HTypeOK'
  <2>1. beat' # "none" <=> \E i \in DOMAIN lock' : lock'[i] = Beat
    BY <1>0 DEF InQueue
  <2> QED
    BY <2>1, <1>q DEF Roots, Steps, Kinds, Writing, Entered, Endings
<1>2. KindOf'
  BY <1>q, <1>0 DEF KindOf, Entered, Endings
<1>3. QueueShape'
  BY <1>q, <1>0 DEF QueueShape, Entered, Writing, Endings, KindOf
<1>4. Closed'
  BY <1>q, <1>0 DEF Closed, Behind, Endings, KindOf, Entered
<1>5. EndedOnce'
  BY <1>q, <1>0 DEF EndedOnce, Ending, Endings, KindOf, QueueShape, Entered, Closed
<1>6. QuiescedIsCanonical'
  BY <1>q, <1>0 DEF QuiescedIsCanonical, QueueShape, KindOf, Entered, Writing, Candidate,
      EndedOnce
<1> QED
  BY <1>1, <1>2, <1>3, <1>4, <1>5, <1>6

\* The retirement writes its fence.
LEMMA RetireFenceKeeps ==
  ASSUME HInv, NEW c \in Calls, RetireFence(c)
  PROVE  HInv'
<1> USE BeatAssumption, BoundAssumption, OneFirst DEF HInv, HTypeOK, disk, handle, heart, call,
        RetireFence, At
<1>q. \A k : (Holds(k)' <=> Holds(k)) /\ (InQueue(lock', k) <=> InQueue(lock, k))
  BY DEF Holds, InQueue
<1>0. (beat # "none" <=> InQueue(lock, Beat)) /\ (beat' # "none" <=> InQueue(lock', Beat))
  <2>1. beat # "none" <=> InQueue(lock, Beat)
    BY DEF InQueue
  <2> QED
    BY <2>1, <1>q DEF Writing
<1>1. HTypeOK'
  <2>1. beat' # "none" <=> \E i \in DOMAIN lock' : lock'[i] = Beat
    BY <1>0 DEF InQueue
  <2> QED
    BY <2>1, <1>q DEF Roots, Steps, Kinds, Writing, Entered, Endings
<1>2. KindOf'
  BY <1>q, <1>0 DEF KindOf, Entered, Endings
<1>3. QueueShape'
  BY <1>q, <1>0 DEF QueueShape, Entered, Writing, Endings, KindOf
<1>4. Closed'
  BY <1>q, <1>0 DEF Closed, Behind, Endings, KindOf, Entered
<1>5. EndedOnce'
  BY <1>q, <1>0 DEF EndedOnce, Ending, Endings, KindOf, QueueShape, Entered, Closed
<1>6. QuiescedIsCanonical'
  BY <1>q, <1>0 DEF QuiescedIsCanonical, QueueShape, KindOf, Entered, Writing, Candidate,
      EndedOnce
<1> QED
  BY <1>1, <1>2, <1>3, <1>4, <1>5, <1>6

\* The terminal is published:
\* by one call, because who has proved the generation holds the lock.
LEMMA PublishTerminalKeeps ==
  ASSUME HInv, NEW c \in Calls, PublishTerminal(c)
  PROVE  HInv'
<1> USE BeatAssumption, BoundAssumption, OneFirst DEF HInv, HTypeOK, disk, handle, heart, call,
        PublishTerminal, At
<1>q. \A k : (Holds(k)' <=> Holds(k)) /\ (InQueue(lock', k) <=> InQueue(lock, k))
  BY DEF Holds, InQueue
<1>0. (beat # "none" <=> InQueue(lock, Beat)) /\ (beat' # "none" <=> InQueue(lock', Beat))
  <2>1. beat # "none" <=> InQueue(lock, Beat)
    BY DEF InQueue
  <2> QED
    BY <2>1, <1>q DEF Writing
<1>1. HTypeOK'
  <2>1. beat' # "none" <=> \E i \in DOMAIN lock' : lock'[i] = Beat
    BY <1>0 DEF InQueue
  <2> QED
    BY <2>1, <1>q DEF Roots, Steps, Kinds, Writing, Entered, Endings
<1>2. KindOf'
  BY <1>q, <1>0 DEF KindOf, Entered, Endings
<1>3. QueueShape'
  BY <1>q, <1>0 DEF QueueShape, Entered, Writing, Endings, KindOf
<1>4. Closed'
  BY <1>q, <1>0 DEF Closed, Behind, Endings, KindOf, Entered
<1>5. EndedOnce'
  BY <1>q, <1>0 DEF EndedOnce, Ending, Endings, KindOf, QueueShape, Entered, Closed
<1>6. QuiescedIsCanonical'
  BY <1>q, <1>0 DEF QuiescedIsCanonical, QueueShape, KindOf, Entered, Writing, Candidate,
      EndedOnce
<1> QED
  BY <1>1, <1>2, <1>3, <1>4, <1>5, <1>6

\* The holder directory is removed.
LEMMA RemoveHolderKeeps ==
  ASSUME HInv, NEW c \in Calls, RemoveHolder(c)
  PROVE  HInv'
<1> USE BeatAssumption, BoundAssumption, OneFirst DEF HInv, HTypeOK, disk, handle, heart, call,
        RemoveHolder, At, Fault
<1>q. \A k : (Holds(k)' <=> Holds(k)) /\ (InQueue(lock', k) <=> InQueue(lock, k))
  BY DEF Holds, InQueue
<1>0. (beat # "none" <=> InQueue(lock, Beat)) /\ (beat' # "none" <=> InQueue(lock', Beat))
  <2>1. beat # "none" <=> InQueue(lock, Beat)
    BY DEF InQueue
  <2> QED
    BY <2>1, <1>q DEF Writing
<1>1. HTypeOK'
  <2>1. beat' # "none" <=> \E i \in DOMAIN lock' : lock'[i] = Beat
    BY <1>0 DEF InQueue
  <2>2. faults' \in 0..MaxFaults
    OBVIOUS
  <2>3. {published', holder', residue', beatFailed', ticked'} \subseteq BOOLEAN
    OBVIOUS
  <2>4. pc' \in [Calls -> Steps]
    BY DEF Steps
  <2> QED
    BY <2>1, <2>2, <2>3, <2>4, <1>q DEF Roots, Kinds, Writing, Entered, Endings
<1>2. KindOf'
  BY <1>q, <1>0 DEF KindOf, Entered, Endings
<1>3. QueueShape'
  BY <1>q, <1>0 DEF QueueShape, Entered, Writing, Endings, KindOf
<1>4. Closed'
  BY <1>q, <1>0 DEF Closed, Behind, Endings, KindOf, Entered
<1>5. EndedOnce'
  BY <1>q, <1>0 DEF EndedOnce, Ending, Endings, KindOf, QueueShape, Entered, Closed
<1>6. QuiescedIsCanonical'
  BY <1>q, <1>0 DEF QuiescedIsCanonical, QueueShape, KindOf, Entered, Writing, Candidate,
      EndedOnce
<1> QED
  BY <1>1, <1>2, <1>3, <1>4, <1>5, <1>6

\* The retirement clears the handle.
LEMMA RetireLeaveKeeps ==
  ASSUME HInv, NEW c \in Calls, RetireLeave(c)
  PROVE  HInv'
<1> USE BeatAssumption, BoundAssumption, OneFirst DEF HInv, HTypeOK, disk, handle, heart, call,
        RetireLeave, At
<1>q. /\ lock' \in Seq(Calls \cup {Beat})
      /\ \A i, k \in DOMAIN lock' : lock'[i] = lock'[k] => i = k
      /\ \A k : InQueue(lock', k) <=> InQueue(lock, k) /\ k # c
  BY QueuePasses
<1>0. (beat # "none" <=> InQueue(lock, Beat)) /\ (beat' # "none" <=> InQueue(lock', Beat))
  <2>1. beat # "none" <=> InQueue(lock, Beat)
    BY DEF InQueue
  <2> QED
    BY <2>1, <1>q DEF Writing
<1>1. HTypeOK'
  <2>1. beat' # "none" <=> \E i \in DOMAIN lock' : lock'[i] = Beat
    BY <1>0 DEF InQueue
  <2> QED
    BY <2>1, <1>q DEF Roots, Steps, Kinds, Writing, Entered, Endings
<1>2. KindOf'
  BY <1>q, <1>0 DEF KindOf, Entered, Endings
<1>3. QueueShape'
  BY <1>q, <1>0 DEF QueueShape, Entered, Writing, Endings, KindOf
<1>4. Closed'
  BY <1>q, <1>0 DEF Closed, Behind, Endings, KindOf, Entered
<1>5. EndedOnce'
  BY <1>q, <1>0 DEF EndedOnce, Ending, Endings, KindOf, QueueShape, Entered, Closed
<1>6. QuiescedIsCanonical'
  BY <1>q, <1>0 DEF QuiescedIsCanonical, QueueShape, KindOf, Entered, Writing, Candidate,
      EndedOnce
<1> QED
  BY <1>1, <1>2, <1>3, <1>4, <1>5, <1>6

\* The release leaves the lock.
LEMMA ReleaseLeaveKeeps ==
  ASSUME HInv, NEW c \in Calls, ReleaseLeave(c)
  PROVE  HInv'
<1> USE BeatAssumption, BoundAssumption, OneFirst DEF HInv, HTypeOK, disk, handle, heart, call,
        ReleaseLeave, At
<1>q. /\ lock' \in Seq(Calls \cup {Beat})
      /\ \A i, k \in DOMAIN lock' : lock'[i] = lock'[k] => i = k
      /\ \A k : InQueue(lock', k) <=> InQueue(lock, k) /\ k # c
  BY QueuePasses
<1>0. (beat # "none" <=> InQueue(lock, Beat)) /\ (beat' # "none" <=> InQueue(lock', Beat))
  <2>1. beat # "none" <=> InQueue(lock, Beat)
    BY DEF InQueue
  <2> QED
    BY <2>1, <1>q DEF Writing
<1>1. HTypeOK'
  <2>1. beat' # "none" <=> \E i \in DOMAIN lock' : lock'[i] = Beat
    BY <1>0 DEF InQueue
  <2> QED
    BY <2>1, <1>q DEF Roots, Steps, Kinds, Writing, Entered, Endings
<1>2. KindOf'
  BY <1>q, <1>0 DEF KindOf, Entered, Endings
<1>3. QueueShape'
  BY <1>q, <1>0 DEF QueueShape, Entered, Writing, Endings, KindOf
<1>4. Closed'
  BY <1>q, <1>0 DEF Closed, Behind, Endings, KindOf, Entered
<1>5. EndedOnce'
  BY <1>q, <1>0 DEF EndedOnce, Ending, Endings, KindOf, QueueShape, Entered, Closed
<1>6. QuiescedIsCanonical'
  BY <1>q, <1>0 DEF QuiescedIsCanonical, QueueShape, KindOf, Entered, Writing, Candidate,
      EndedOnce
<1> QED
  BY <1>1, <1>2, <1>3, <1>4, <1>5, <1>6

\* The release clears the handle.
LEMMA ReleaseReturnKeeps ==
  ASSUME HInv, NEW c \in Calls, ReleaseReturn(c)
  PROVE  HInv'
<1> USE BeatAssumption, BoundAssumption, OneFirst DEF HInv, HTypeOK, disk, handle, heart, call,
        ReleaseReturn, At
<1>q. \A k : (Holds(k)' <=> Holds(k)) /\ (InQueue(lock', k) <=> InQueue(lock, k))
  BY DEF Holds, InQueue
<1>0. (beat # "none" <=> InQueue(lock, Beat)) /\ (beat' # "none" <=> InQueue(lock', Beat))
  <2>1. beat # "none" <=> InQueue(lock, Beat)
    BY DEF InQueue
  <2> QED
    BY <2>1, <1>q DEF Writing
<1>1. HTypeOK'
  <2>1. beat' # "none" <=> \E i \in DOMAIN lock' : lock'[i] = Beat
    BY <1>0 DEF InQueue
  <2> QED
    BY <2>1, <1>q DEF Roots, Steps, Kinds, Writing, Entered, Endings
<1>2. KindOf'
  BY <1>q, <1>0 DEF KindOf, Entered, Endings
<1>3. QueueShape'
  BY <1>q, <1>0 DEF QueueShape, Entered, Writing, Endings, KindOf
<1>4. Closed'
  BY <1>q, <1>0 DEF Closed, Behind, Endings, KindOf, Entered
<1>5. EndedOnce'
  BY <1>q, <1>0 DEF EndedOnce, Ending, Endings, KindOf, QueueShape, Entered, Closed
<1>6. QuiescedIsCanonical'
  BY <1>q, <1>0 DEF QuiescedIsCanonical, QueueShape, KindOf, Entered, Writing, Candidate,
      EndedOnce
<1> QED
  BY <1>1, <1>2, <1>3, <1>4, <1>5, <1>6

\* A heartbeat is requested while the handle is not closing: it joins the
\* pending one, or starts one at the end of the queue.
LEMMA RequestKeepsQueue ==
  ASSUME HInv, StartBeat \/ JoinBeat, ~closing
  PROVE  /\ lock' \in Seq(Calls \cup {Beat})
         /\ \A i, k \in DOMAIN lock' : lock'[i] = lock'[k] => i = k
         /\ beat' # "none"
         /\ \E i \in DOMAIN lock' : lock'[i] = Beat
         /\ \A c \in Calls : InQueue(lock', c) <=> InQueue(lock, c)
         /\ \A k : Holds(k) => Holds(k)'
         /\ beat' \in {"none", "queued"} \cup Writing
         /\ beat' \in {"queued", beat} /\ beatRoot' \in Roots /\ beats' \in 0..MaxBeats
<1> USE BeatAssumption, BoundAssumption DEF HInv, HTypeOK
<1>1. CASE StartBeat
  <2>1. ~InQueue(lock, Beat)
    BY <1>1 DEF StartBeat, InQueue
  <2>2. /\ lock' \in Seq(Calls \cup {Beat})
        /\ \A i, k \in DOMAIN lock' : lock'[i] = lock'[k] => i = k
        /\ \A k : InQueue(lock', k) <=> InQueue(lock, k) \/ k = Beat
        /\ \A k : Holds(k) => Holds(k)'
    BY <1>1, <2>1, QueueAppends DEF StartBeat
  <2>3. \E i \in DOMAIN lock' : lock'[i] = Beat
    BY <2>2 DEF InQueue
  <2>4. beats' \in 0..MaxBeats
    BY <1>1 DEF StartBeat
  <2> QED
    BY <1>1, <2>2, <2>3, <2>4 DEF StartBeat
<1>2. CASE JoinBeat
  BY <1>2 DEF JoinBeat, InQueue, Holds
<1> QED
  BY <1>1, <1>2

\* The interval fires, which it does only before the handle is closing.
LEMMA BeatTickKeeps ==
  ASSUME HInv, BeatTick
  PROVE  HInv'
<1> USE DEF BeatTick, disk, handle, call
<1>0. ~closing /\ ~released
  BY DEF HInv, Closed
<1>q. /\ lock' \in Seq(Calls \cup {Beat})
      /\ \A i, k \in DOMAIN lock' : lock'[i] = lock'[k] => i = k
      /\ beat' # "none"
      /\ \E i \in DOMAIN lock' : lock'[i] = Beat
      /\ \A c \in Calls : InQueue(lock', c) <=> InQueue(lock, c)
      /\ \A k : Holds(k) => Holds(k)'
      /\ beat' \in {"none", "queued"} \cup Writing
      /\ beat' \in {"queued", beat} /\ beatRoot' \in Roots /\ beats' \in 0..MaxBeats
  BY <1>0, RequestKeepsQueue
<1> USE DEF HInv
<1>1. HTypeOK'
  BY <1>q DEF HTypeOK
<1>2. KindOf'
  BY DEF KindOf
<1>3. QueueShape'
  BY <1>q DEF QueueShape, Writing
<1>4. Closed'
  BY <1>0, <1>q DEF Closed, Behind
<1>5. EndedOnce'
  BY DEF EndedOnce, Ending
<1>6. QuiescedIsCanonical'
  BY <1>q DEF QuiescedIsCanonical, Candidate, Writing
<1> QED
  BY <1>1, <1>2, <1>3, <1>4, <1>5, <1>6

\* A caller asks for a heartbeat, which a closing handle refuses.
LEMMA HeartbeatCallKeeps ==
  ASSUME HInv, NEW c \in Calls, HeartbeatCall(c)
  PROVE  HInv'
<1> USE DEF HeartbeatCall, Begin, At, disk, handle
<1>q. /\ lock' \in Seq(Calls \cup {Beat})
      /\ \A i, k \in DOMAIN lock' : lock'[i] = lock'[k] => i = k
      /\ beat' # "none"
      /\ \E i \in DOMAIN lock' : lock'[i] = Beat
      /\ \A d \in Calls : InQueue(lock', d) <=> InQueue(lock, d)
      /\ \A k : Holds(k) => Holds(k)'
      /\ beat' \in {"none", "queued"} \cup Writing
      /\ beat' \in {"queued", beat} /\ beatRoot' \in Roots /\ beats' \in 0..MaxBeats
  BY RequestKeepsQueue
<1> USE DEF HInv
<1>1. HTypeOK'
  BY <1>q DEF HTypeOK, Kinds, Steps
<1> USE DEF HTypeOK
<1>2. KindOf'
  BY DEF KindOf
<1>3. QueueShape'
  BY <1>q DEF QueueShape, Entered, Writing
<1>4. Closed'
  BY <1>q DEF Closed, Behind, Endings
<1>5. EndedOnce'
  BY DEF EndedOnce, Ending, Endings
<1>6. QuiescedIsCanonical'
  BY <1>q DEF QuiescedIsCanonical, Candidate, Writing
<1> QED
  BY <1>1, <1>2, <1>3, <1>4, <1>5, <1>6

\* The heartbeat is drained: the call queues for the lock, remembering whether
\* a heartbeat had failed, or ends.
LEMMA DrainedBeatKeeps ==
  ASSUME HInv, NEW c \in Calls, DrainedBeat(c)
  PROVE  HInv'
<1> USE BeatAssumption DEF HInv, HTypeOK, DrainedBeat, At, disk, handle, heart
<1>0. ~InQueue(lock, c) /\ pc[c] = "drained" /\ kind[c] \in Endings
  BY DEF QueueShape, Entered, KindOf
<1>1. CASE ~(kind[c] = "retire" /\ beatFailed) /\ ~(kind[c] = "release" /\ ~active)
  <2>q. /\ lock' \in Seq(Calls \cup {Beat})
        /\ \A i, k \in DOMAIN lock' : lock'[i] = lock'[k] => i = k
        /\ \A k : InQueue(lock', k) <=> InQueue(lock, k) \/ k = c
        /\ \A k : Holds(k) => Holds(k)'
    BY <1>0, <1>1, QueueAppends
  <2>0. (beat # "none" <=> InQueue(lock, Beat)) /\ (beat' # "none" <=> InQueue(lock', Beat))
    <3>1. beat # "none" <=> InQueue(lock, Beat)
      BY DEF InQueue
    <3> QED
      BY <3>1, <2>q
  <2>1. HTypeOK'
    <3>1. beat' # "none" <=> \E i \in DOMAIN lock' : lock'[i] = Beat
      BY <2>0 DEF InQueue
    <3> QED
      BY <3>1, <2>q, <1>1 DEF Steps
  <2>2. KindOf'
    BY <1>0, <1>1 DEF KindOf
  <2>3. QueueShape'
    BY <1>0, <1>1, <2>q DEF QueueShape, Entered
  <2>4. Closed'
    BY <1>0, <1>1 DEF Closed, Behind, Endings
  <2>5. EndedOnce'
    BY <1>0, <1>1 DEF EndedOnce, Ending
  <2>6. QuiescedIsCanonical'
    BY <1>0, <1>1 DEF QuiescedIsCanonical, Candidate
  <2> QED
    BY <2>1, <2>2, <2>3, <2>4, <2>5, <2>6
<1>2. CASE (kind[c] = "retire" /\ beatFailed) \/ (kind[c] = "release" /\ ~active)
  <2>q. \A k : (Holds(k)' <=> Holds(k)) /\ (InQueue(lock', k) <=> InQueue(lock, k))
    BY <1>2 DEF Holds, InQueue
  <2>1. HTypeOK'
    BY <1>2 DEF Steps
  <2>2. KindOf'
    BY <1>0, <1>2 DEF KindOf
  <2>3. QueueShape'
    BY <1>0, <1>2, <2>q DEF QueueShape, Entered
  <2>4. Closed'
    BY <1>0, <1>2 DEF Closed, Behind, Endings
  <2>5. EndedOnce'
    BY <1>0, <1>2 DEF EndedOnce, Ending
  <2>6. QuiescedIsCanonical'
    BY <1>0, <1>2 DEF QuiescedIsCanonical, Candidate
  <2> QED
    BY <2>1, <2>2, <2>3, <2>4, <2>5, <2>6
<1> QED
  BY <1>1, <1>2

\* The invariant of the handle holds at every step of its timer, its
\* heartbeat, its calls and the failures.
LEMMA HandleStep == HInv /\ [HNext]_handleVars => HInv'
<1> SUFFICES ASSUME HInv, [HNext]_handleVars PROVE HInv'
  OBVIOUS
<1>1. CASE UNCHANGED handleVars
  <2> USE <1>1 DEF handleVars, disk, handle, heart, call, HInv
  <2>1. HTypeOK' /\ KindOf'
    BY DEF HTypeOK, KindOf
  <2>2. QueueShape'
    BY DEF QueueShape, InQueue, Holds
  <2>3. Closed' /\ EndedOnce' /\ QuiescedIsCanonical'
    BY DEF Closed, Behind, EndedOnce, Ending, QuiescedIsCanonical, Candidate
  <2> QED
    BY <2>1, <2>2, <2>3
<1>2. CASE BeatTick \/ BeatStep \/ BeatFault
  BY <1>2, BeatTickKeeps, BeatProveKeeps, BeatCandidateKeeps, BeatRenameKeeps, BeatFinishKeeps,
     BeatLostKeeps, BeatFaultKeeps DEF BeatStep
<1>3. ASSUME NEW c \in Calls, CallStart(c) PROVE HInv'
  BY <1>3, HeartbeatCallKeeps, MoveWorkspaceKeeps, RetireCallKeeps, ReleaseCallKeeps,
     QuiesceCallKeeps DEF CallStart
<1>4. ASSUME NEW c \in Calls, CallStep(c) PROVE HInv'
  BY <1>4, RelocateOpenKeeps, RelocateCommitKeeps, RetireCloseKeeps, RetireRefusedKeeps,
     DrainedBeatKeeps, EnterKeeps, RefusedKeeps, QuiesceLeaveKeeps, RetireFenceKeeps,
     PublishTerminalKeeps, RemoveHolderKeeps, RetireLeaveKeeps, ReleaseLeaveKeeps,
     ReleaseReturnKeeps DEF CallStep
<1> QED
  BY <1>1, <1>2, <1>3, <1>4, LockedFaultKeeps DEF HNext

-----------------------------------------------------------------------------
(* The session.                                                            *)

\* Every part begins in its invariant.
LEMMA SessionInitInv == SessionInit => SessionInv
  BY RootInit, HandleInit, CompilationInit, ScopeInit, ReaderInit DEF SessionInit, SessionInv

\* A step of the session is a step of one part and leaves the others alone.
LEMMA SessionParts ==
  [SessionNext]_sessionVars =>
    /\ [PNext]_rootVars /\ [HNext]_handleVars /\ [CNext]_composed
    /\ [QNext]_scopeVars /\ [SNext]_readerVars
<1> SUFFICES ASSUME [SessionNext]_sessionVars
             PROVE  /\ [PNext]_rootVars /\ [HNext]_handleVars /\ [CNext]_composed
                    /\ [QNext]_scopeVars /\ [SNext]_readerVars
  OBVIOUS
<1>1. CASE UNCHANGED sessionVars
  BY <1>1 DEF sessionVars
<1> QED
  BY <1>1 DEF SessionNext, InRoot, InHandle, Compilation, Scope, Reader

\* Every step of the session keeps the invariants of all parts.
LEMMA SessionStepInv == SessionInv /\ [SessionNext]_sessionVars => SessionInv'
<1> SUFFICES ASSUME SessionInv, [SessionNext]_sessionVars PROVE SessionInv'
  OBVIOUS
<1>1. /\ [PNext]_rootVars /\ [HNext]_handleVars /\ [CNext]_composed
      /\ [QNext]_scopeVars /\ [SNext]_readerVars
  BY SessionParts
<1> QED
  BY <1>1, RootStep, HandleStep, CompilationStep, ScopeStep, ReaderStep DEF SessionInv

\* The invariants of all parts hold at every moment of a session: the protocol
\* root (ensureProtocolRoot), the handle (acquire's handle and its timer), the
\* monitored compilation (withLeaseObservationMonitor, runCapturedGroup), the
\* query scope (createRuntimeQueryScope) and the stream reader
\* (withOwnedByteStreamReader).
THEOREM SessionInvariant == SessionSpec => []SessionInv
  BY SessionInitInv, SessionStepInv, PTL DEF SessionSpec

\* The types hold: the queue of the control-plane lock holds a job once, a
\* ticket is held exactly while its query is in flight, the monitor's phase
\* follows its control.
THEOREM SessionTypes == SessionSpec => []SessionTypeOK
<1>1. SessionInv => SessionTypeOK
  BY DEF SessionInv, SessionTypeOK, PInv, HInv, CInv, MonInv, TGInv, QInv, SInv
<1> QED
  BY <1>1, SessionInvariant, PTL

\* The protocol root converges, for any number of sessions and crashes: who
\* gets past ensureProtocolRoot leaves a marker with one name, an undisturbed
\* session gets past whatever was left, and racing sessions never all fail.
THEOREM ProtocolRootConverges == SessionSpec => []RootConverges
<1>1. SessionInv => RootConverges
  <2> SUFFICES ASSUME PInv PROVE RootConverges
    BY DEF SessionInv
  <2>1. ReadyIsCanonical
    BY DEF PInv, Published, Passed, ReadyIsCanonical, Links
  <2>2. UndisturbedSucceeds
    BY DEF PInv, Undisturbed, UndisturbedSucceeds
  <2>3. ContentionHasAWinner
    <3> SUFFICES ASSUME crashes = 0, \A s \in Session : stage[s] \in Ended,
                        NEW s \in Session, stage[s] # "idle"
                 PROVE  \E t \in Session : stage[t] = "done"
      BY DEF ContentionHasAWinner
    <3>1. OnTheWay /\ PTypeOK
      BY DEF PInv
    <3>2. marker # None /\ marker \in Session
      BY <3>1 DEF OnTheWay, Unlinked, Ended, PTypeOK
    <3>3. marker \notin candidates /\ stage[marker] # "inspect"
      BY <3>1, <3>2 DEF OnTheWay, Ended
    <3>4. PICK t \in Session : stage[t] \in {"final", "done"}
      BY <3>1, <3>2, <3>3 DEF OnTheWay
    <3> QED
      BY <3>4 DEF Ended
  <2> QED
    BY <2>1, <2>2, <2>3 DEF RootConverges
<1> QED
  BY <1>1, SessionInvariant, PTL

\* A quiesced callback runs on an owned generation with nobody else in the
\* control plane (withControlPlaneQuiesced).
THEOREM QuiescedStaysCanonical == SessionSpec => []QuiescedIsCanonical
<1>1. SessionInv => QuiescedIsCanonical
  BY DEF SessionInv, HInv
<1> QED
  BY <1>1, SessionInvariant, PTL

\* Of the releases and retirements of a generation that race one reports
\* success, none does over a failed heartbeat, and an ended handle is quiet.
THEOREM GenerationEndsOnce == SessionSpec => []EndingIsOrderly
<1>1. SessionInv => EndingIsOrderly
  <2> SUFFICES ASSUME HInv PROVE EndingIsOrderly
    BY DEF SessionInv
  <2>1. OneEnding
    BY DEF HInv, EndedOnce, Ending, Endings, OneEnding
  <2>2. EndedIsQuiet
    BY DEF HInv, Closed, EndedIsQuiet
  <2>3. FailureIsReported
    BY DEF HInv, Closed, Endings, FailureIsReported
  <2> QED
    BY <2>1, <2>2, <2>3 DEF EndingIsOrderly
<1> QED
  BY <1>1, SessionInvariant, PTL

\* Whoever ends, ends after everything it started: the monitor, the group, the
\* scope and the reader, for every number of workers, queries and reads.
THEOREM NothingOutlives == SessionSpec => []NothingIsLeftRunning
<1>1. SessionInv => NothingIsLeftRunning
  <2> SUFFICES ASSUME SessionInv PROVE NothingIsLeftRunning
    OBVIOUS
  <2> USE DEF SessionInv
  <2>1. NoObservationOutlives
    BY DEF CInv, MonInv, MonitorPhase, MonTypeOK, NoObservationOutlives
  <2>2. NoWorkWithoutLease
    BY DEF CInv, Linked, NoWorkWithoutLease
  <2>3. JoinsStarted
    BY DEF CInv, TGInv, Joining, Joined, JoinsStarted
  <2>4. CapacityHolds
    BY DEF QInv
  <2>5. CloseDrains
    BY DEF QInv, QTypeOK, CloseShape, CloseDrains
  <2>6. ReleasedIsQuiet /\ EndedIsReleased
    BY DEF SInv, STypeOK, ReaderShape, ReleasedIsQuiet, EndedIsReleased
  <2> QED
    BY <2>1, <2>2, <2>3, <2>4, <2>5, <2>6 DEF NothingIsLeftRunning
<1> QED
  BY <1>1, SessionInvariant, PTL

\* A result was made under the lease and is complete, every failure is in the
\* error, and no item was called twice (withLeaseObservationMonitor,
\* runCapturedGroup).
THEOREM OutcomesStayTrue == SessionSpec => []OutcomesAreTrue
<1>1. SessionInv => OutcomesAreTrue
  BY DEF SessionInv, CInv, MonInv, TGInv, OutcomesAreTrue
<1> QED
  BY <1>1, SessionInvariant, PTL

\* Nothing is started late: no item after a loss of the lease was recorded, no
\* query's execution after close.
THEOREM NothingBeginsLate == SessionSpec => NothingStartsLate
<1>1. SessionInv /\ [SessionNext]_sessionVars => [failure => next' = next]_composed
  <2> SUFFICES ASSUME SessionInv, [SessionNext]_sessionVars, failure PROVE next' = next
    OBVIOUS
  <2>1. [TGNext]_groupVars
    BY SessionParts, CompilationParts
  <2>2. cause # NoReason \/ outcome # "open"
    BY DEF SessionInv, CInv, Linked
  <2>3. \A w \in Workers : ~TakeItem(w)
    BY <2>2 DEF SessionInv, CInv, TGInv, Joining, Joined, TakeItem, Admitting
  <2> QED
    BY <2>1, <2>3 DEF TGNext, Loop, WorkerEnds, Callback, CallbackReturns, CallbackRejects,
                      ParentCancels, Settle, groupVars
<1>2. SessionInv /\ [SessionNext]_sessionVars =>
        [\A q \in Queries :
           query[q] # "executing" /\ query'[q] = "executing" => closed = "open"]_scopeVars
  <2> SUFFICES ASSUME SessionInv, [SessionNext]_sessionVars, NEW q \in Queries,
                      query[q] # "executing", query'[q] = "executing"
               PROVE  closed = "open"
    OBVIOUS
  <2>1. QInv /\ [QNext]_scopeVars
    BY SessionParts DEF SessionInv
  <2>2. accepting
    BY <2>1 DEF QInv, QTypeOK, QNext, Refuse, Reserve, Capture, Prepared, NotPrepared, Finish, Close,
                Resolve, Becomes, scopeVars
  <2> QED
    BY <2>1, <2>2 DEF QInv, CloseShape
<1> QED
  BY <1>1, <1>2, SessionInvariant, PTL DEF NothingStartsLate, NoWorkAfterLoss,
     NoExecutionAfterClose, SessionSpec

=============================================================================
