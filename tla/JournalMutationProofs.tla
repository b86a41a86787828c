------------------------- MODULE JournalMutationProofs -------------------------
(***************************************************************************)
(* Proofs that the guarded mutations of a journal keep its three files     *)
(* consistent, forget no interrupted owner and implement AtomicJournal,    *)
(* for any number of sessions and of interruptions.                        *)
(***************************************************************************)
EXTENDS JournalMutation, FiniteSetTheorems, TLAPS

\* The numbers: every generation a session or a file names was made, and each
\* session makes at most one.
Makers == {s \in Session : job[s].init}
Numbered ==
  /\ born <= 1 + Cardinality(Makers)
  /\ anchor <= born /\ record.gen <= born
  /\ \A s \in Session : job[s].gen <= born
  /\ record.gen = 0 <=> record = NoRecord

\* What a call knows of itself at each of its steps.
CallInv(s) ==
  /\ stage[s] = "idle" <=> job[s].op = "none"
  /\ stage[s] \in {"idle", "begin", "admit", "check", "anchor"} => ~job[s].init /\ job[s].gen = 0
  /\ stage[s] \in {"check", "anchor"} => job[s].absent
  /\ job[s].init => job[s].absent /\ job[s].gen # 0
  /\ job[s].absent => job[s].op \in Creating
  /\ job[s].op = "create" => stage[s] \in {"begin", "ended"} \/ job[s].absent
  /\ stage[s] = "record" => job[s].init
  /\ stage[s] \in {"record", "lock"} \cup Held => job[s].gen # 0
  /\ stage[s] \in {"run", "write", "complete", "release", "unlink"} =>
       job[s].op \notin {"retire", "probe"}
  /\ stage[s] \in {"fence", "removePayload", "removeRecord", "removeAnchor"} =>
       job[s].op = "retire"

\* What it has done, and what its answer may say of it.
EffectInv(s) ==
  /\ job[s].entered => stage[s] \in {"complete", "release", "ended"}
  /\ s \in applied => \/ stage[s] \in {"complete", "release"} /\ job[s].entered
                      \/ stage[s] \in {"removeRecord", "removeAnchor", "ended"}
  /\ stage[s] \in {"removeRecord", "removeAnchor"} => s \in applied
  /\ stage[s] \in {"complete", "release", "unlink"} =>
       /\ job[s].answer \in {"true", "false", "error"}
       /\ job[s].answer = "true" => s \in applied \/ job[s].op = "mutate"
       /\ job[s].answer = "false" => s \notin applied \/ job[s].op = "create"

\* What the owner of the guard has made sure of.
GuardInv(s) ==
  /\ stage[s] \in Held => anchor = job[s].gen
  /\ stage[s] \in Held \ {"acquire", "unlink", "removeAnchor"} =>
       record.active = s /\ record.gen = job[s].gen
  /\ stage[s] \in {"held", "run", "write", "release", "fence"} =>
       record.phase = "ready" \/ (record.phase = "initializing" /\ job[s].init)
  /\ stage[s] = "complete" => record.phase = "initializing" /\ job[s].init
  /\ stage[s] \in {"removePayload", "removeRecord"} => record.phase = "retiring"
  /\ stage[s] \in {"unlink", "removeAnchor"} => record = NoRecord
  /\ stage[s] = "removeRecord" => payload = None
  /\ stage[s] = "held" =>
       /\ job[s].seen \in Records
       /\ record.gen = job[s].seen.gen /\ record.phase = job[s].seen.phase
       /\ record.recovery = IF job[s].seen.recovery # None
                              THEN job[s].seen.recovery ELSE job[s].seen.active
  /\ stage[s] \in Held \ {"acquire", "held"} => record.recovery = None
  /\ stage[s] = "write" =>
       /\ job[s].op \in {"cas", "delete"} => payload = job[s].want
       /\ job[s].op \in {"delete", "remove"} => payload # None
  /\ stage[s] = "removePayload" => payload = job[s].want /\ payload # None

\* What a session that makes the journal may rely on before it has the guard.
MakerInv(s) ==
  /\ stage[s] = "record" => anchor = job[s].gen /\ record = NoRecord
  /\ stage[s] \in {"lock", "acquire"} /\ record.phase = "initializing" /\ job[s].gen = record.gen =>
       record.active = None /\ payload = None

\* A generation belongs to its maker alone until its record is ready.
Private ==
  \A s, t \in Session : s # t /\ job[s].init /\ job[t].gen = job[s].gen =>
    stage[s] # "record" /\ (record.phase = "initializing" => record.gen # job[s].gen)

\* A payload under a record that is not ready yet is its owner's publication.
FirstPublication ==
  record.phase = "initializing" /\ payload # None =>
    \E s \in Session : record.active = s /\ job[s].entered

\* The owner that is still to be acknowledged is the one a successor is told
\* of, and nobody has gone past its acknowledgement.
Lineage ==
  owed # None =>
    /\ record # NoRecord /\ Predecessor = owed
    /\ \A s \in Session : stage[s] \in Held =>
         stage[s] = "acquire" \/ (stage[s] = "held" /\ record.recovery = owed)

\* A record at rest: no owner, or one whose retirement met another payload.
AtRest(r) ==
  r.recovery = None /\ (r.active # None => job[r.active].op = "retire")

\* As long as nothing is interrupted, whatever is half made or half removed
\* has a running session that finishes it.
Undisturbed ==
  aborts = 0 =>
    /\ record.phase = "initializing" =>
         \E s \in Session :
           /\ job[s].init /\ job[s].gen = record.gen
           /\ stage[s] \in {"lock", "acquire", "held", "run", "write", "complete", "release"}
    /\ record.phase = "retiring" =>
         \E s \in Session : stage[s] \in {"removePayload", "removeRecord"}
    /\ record = NoRecord /\ anchor # 0 =>
         \E s \in Session : stage[s] \in {"record", "unlink", "removeAnchor"}
    /\ record.phase = "ready" /\ (\A s \in Session : stage[s] \notin Held \ {"acquire"}) =>
         AtRest(record)
    /\ \A s \in Session :
         /\ stage[s] = "held" /\ record.phase = "ready" => AtRest(job[s].seen)
         /\ stage[s] = "release" /\ record.phase = "initializing" => ~job[s].entered

JInv ==
  /\ JTypeOK /\ Numbered
  /\ \A s \in Session : CallInv(s) /\ EffectInv(s) /\ GuardInv(s) /\ MakerInv(s)
  /\ FilesNest /\ Private /\ FirstPublication /\ Lineage /\ Undisturbed

---------------------------------------------------------------------------
(* The generations. *)

(* The bound on generations is a number. *)
LEMMA Bound == Cardinality(Session) \in Nat /\ Generations \subseteq Nat
<1>1. Cardinality(Session) \in Nat
  BY JournalAssumption, FS_CardinalityType
<1> QED
  BY <1>1 DEF Generations

(* A session that makes its first generation leaves room for it. *)
LEMMA Room ==
  ASSUME NEW S \in SUBSET Session, NEW s \in Session, s \notin S
  PROVE  /\ Cardinality(S) \in Nat
         /\ Cardinality(S \cup {s}) = Cardinality(S) + 1
         /\ Cardinality(S) < Cardinality(Session)
<1>1. IsFiniteSet(S) /\ IsFiniteSet(S \cup {s}) /\ IsFiniteSet(Session)
  BY JournalAssumption, FS_Subset
<1>2. Cardinality(S) \in Nat /\ Cardinality(S \cup {s}) = Cardinality(S) + 1
  BY <1>1, FS_AddElement, FS_CardinalityType
<1>3. Cardinality(S \cup {s}) <= Cardinality(Session)
  BY <1>1, FS_Subset
<1> QED
  BY <1>1, <1>2, <1>3, Bound

---------------------------------------------------------------------------
(* Types. *)

JobType == [op : Operations \cup {"none"}, want : Values, absent : BOOLEAN,
            gen : Generations, init : BOOLEAN, entered : BOOLEAN,
            seen : Records \cup {NoRecord},
            answer : {"none", "true", "false", "error"}]

(* Every call begins in its type. *)
LEMMA JTypeInit == JInit => JTypeOK
<1>1. {0, 1} \subseteq Generations
  BY Bound DEF Generations
<1> QED
  BY <1>1, JournalAssumption
     DEF JInit, JTypeOK, NoJob, NoRecord, Records, Values, Owners, Steps, Held, Operations

(* A session moves alone and within its types. *)
LEMMA Frame ==
  ASSUME JTypeOK, Numbered, \A t \in Session : CallInv(t),
         NEW s \in Session, Call(s) \/ JStep(s) \/ Abort(s)
  PROVE  /\ \A t \in Session \ {s} : stage'[t] = stage[t] /\ job'[t] = job[t]
         /\ stage' \in [Session -> Steps]
         /\ job' \in [Session -> JobType]
<1> USE DEF Go, Answers, Ends
<1>1. job \in [Session -> JobType] /\ stage \in [Session -> Steps]
  BY DEF JTypeOK, JobType
<1>2. ASSUME NEW j \in JobType, NEW p \in Steps,
             job' = job \/ job' = [job EXCEPT ![s] = j],
             stage' = [stage EXCEPT ![s] = p]
      PROVE  /\ \A t \in Session \ {s} : stage'[t] = stage[t] /\ job'[t] = job[t]
             /\ stage' \in [Session -> Steps]
             /\ job' \in [Session -> JobType]
  BY <1>1, <1>2
<1>3. \E p \in Steps : stage' = [stage EXCEPT ![s] = p]
  <2> USE DEF Steps
  <2>1. CASE Call(s) \/ Begin(s) \/ Admit(s) \/ InitCheck(s) \/ PublishAnchor(s) \/ PublishRecord(s)
    BY <2>1 DEF Call, Begin, Admit, InitCheck, PublishAnchor, PublishRecord
  <2>2. CASE Lock(s) \/ AcquireLease(s) \/ Acknowledge(s) \/ DisposeUnrun(s) \/ Run(s)
    BY <2>2 DEF Lock, AcquireLease, Acknowledge, DisposeUnrun, Run
  <2>3. CASE WritePayload(s) \/ WriteConflict(s) \/ WriteFails(s) \/ Complete(s)
    BY <2>3 DEF WritePayload, WriteConflict, WriteFails, Complete
  <2>4. CASE ReleaseReady(s) \/ CancelRecord(s) \/ CancelAnchor(s) \/ ReleaseResidue(s)
    BY <2>4 DEF ReleaseReady, CancelRecord, CancelAnchor, ReleaseResidue
  <2>5. CASE RetireFence(s) \/ RemovePayload(s) \/ RemoveRecord(s) \/ RemoveAnchor(s) \/ Abort(s)
    BY <2>5 DEF RetireFence, RemovePayload, RemoveRecord, RemoveAnchor, Abort
  <2> QED
    BY <2>1, <2>2, <2>3, <2>4, <2>5 DEF JStep
<1>4. \E j \in JobType : job' = job \/ job' = [job EXCEPT ![s] = j]
  <2>1. job[s] \in JobType
    BY <1>1
  <2>2. ASSUME NEW a \in {"none", "true", "false", "error"}
        PROVE  /\ [job[s] EXCEPT !.answer = a] \in JobType
               /\ [job[s] EXCEPT !.entered = TRUE, !.answer = a] \in JobType
    BY <2>1 DEF JobType
  <2>3. CASE Call(s)
    <3>1. PICK o \in Operations :
            job' = [job EXCEPT ![s] = [NoJob EXCEPT !.op = o, !.want = payload]]
      BY <2>3 DEF Call
    <3>2. [NoJob EXCEPT !.op = o, !.want = payload] \in JobType
      <4>1. payload \in Values /\ None \in Values /\ 0 \in Generations
        BY Bound DEF JTypeOK, Values, Generations
      <4> QED
        BY <4>1 DEF NoJob, JobType
    <3> QED
      BY <3>1, <3>2
  <2>4. CASE Begin(s)
    <3>1. \A b \in BOOLEAN : [job[s] EXCEPT !.absent = b] \in JobType
      BY <2>1 DEF JobType
    <3> QED
      BY <2>4, <2>2, <3>1 DEF Begin
  <2>5. CASE Admit(s)
    <3>1. \A g \in Generations : [job[s] EXCEPT !.gen = g] \in JobType
      BY <2>1 DEF JobType
    <3>2. record.gen \in Generations
      BY Bound DEF JTypeOK, Records, NoRecord, Generations
    <3> QED
      BY <2>5, <2>2, <3>1, <3>2 DEF Admit
  <2>6. CASE PublishAnchor(s)
    <3>1. \A g \in Generations : [job[s] EXCEPT !.gen = g, !.init = TRUE] \in JobType
      BY <2>1 DEF JobType
    <3>2. born + 1 \in Generations
      <4>1. s \notin Makers
        BY <2>6 DEF PublishAnchor, CallInv, Makers
      <4>2. Cardinality(Makers) \in Nat /\ Cardinality(Makers) < Cardinality(Session)
        BY <4>1, Room DEF Makers
      <4>3. born \in Nat /\ born <= 1 + Cardinality(Makers)
        BY Bound DEF Numbered, JTypeOK
      <4> QED
        BY <4>2, <4>3, Bound DEF Generations
    <3> QED
      BY <2>6, <2>2, <3>1, <3>2 DEF PublishAnchor
  <2>7. CASE AcquireLease(s)
    <3>1. [job[s] EXCEPT !.seen = record] \in JobType
      BY <2>1 DEF JobType, JTypeOK
    <3> QED
      BY <2>7, <2>2, <3>1 DEF AcquireLease
  <2>8. CASE \/ InitCheck(s) \/ PublishRecord(s) \/ Lock(s) \/ Run(s) \/ DisposeUnrun(s)
             \/ Abort(s)
    BY <2>1, <2>2, <2>8 DEF InitCheck, PublishRecord, Lock, Run, DisposeUnrun, Abort
  <2>9. CASE Acknowledge(s) \/ Complete(s) \/ ReleaseReady(s) \/ CancelRecord(s) \/ CancelAnchor(s)
    BY <2>1, <2>9 DEF Acknowledge, Complete, ReleaseReady, CancelRecord, CancelAnchor
  <2>10. CASE WritePayload(s) \/ WriteConflict(s)
    BY <2>1, <2>2, <2>10 DEF WritePayload, WriteConflict
  <2>11. CASE WriteFails(s)
    BY <2>1, <2>2, <2>11 DEF WriteFails
  <2>12. CASE \/ ReleaseResidue(s) \/ RetireFence(s) \/ RemovePayload(s) \/ RemoveRecord(s)
              \/ RemoveAnchor(s)
    BY <2>1, <2>2, <2>12
       DEF ReleaseResidue, RetireFence, RemovePayload, RemoveRecord, RemoveAnchor
  <2> QED
    BY <2>3, <2>4, <2>5, <2>6, <2>7, <2>8, <2>9, <2>10, <2>11, <2>12 DEF JStep
<1> QED
  BY <1>2, <1>3, <1>4

---------------------------------------------------------------------------
(* What a call knows of itself. *)

(* What a call knows of itself stays true. *)
LEMMA CallStep ==
  ASSUME JInv, NEW s \in Session, Call(s) \/ JStep(s) \/ Abort(s)
  PROVE  \A t \in Session : CallInv(t)' /\ EffectInv(t)'
<1>1. /\ \A t \in Session \ {s} : stage'[t] = stage[t] /\ job'[t] = job[t]
      /\ stage \in [Session -> Steps] /\ job \in [Session -> JobType]
  BY Frame DEF JInv, JTypeOK, JobType
<1>2. applied' = applied \/ applied' = applied \cup {s}
  BY DEF Call, JStep, Begin, Admit, InitCheck, PublishAnchor, PublishRecord, Lock, AcquireLease,
         Acknowledge, DisposeUnrun, Run, WritePayload, WriteConflict, WriteFails, Complete,
         ReleaseReady, CancelRecord, CancelAnchor, ReleaseResidue, RetireFence,
         RemovePayload, RemoveRecord, RemoveAnchor, Abort
<1>3. ASSUME NEW t \in Session, t # s
      PROVE  CallInv(t)' /\ EffectInv(t)'
  BY <1>1, <1>2, <1>3 DEF JInv, CallInv, EffectInv
<1>4. /\ CallInv(s) /\ EffectInv(s)
      /\ job[s] \in JobType /\ s \in DOMAIN job /\ s \in DOMAIN stage
      /\ \A j : [job EXCEPT ![s] = j][s] = j
      /\ \A p : [stage EXCEPT ![s] = p][s] = p
  BY <1>1 DEF JInv
<1>5. CallInv(s)' /\ EffectInv(s)'
  <2> USE <1>4 DEF CallInv, EffectInv, JobType, Go, Answers, Ends, Held
  <2>1. CASE Call(s)
    <3>1. PICK o \in Operations :
            job' = [job EXCEPT ![s] = [NoJob EXCEPT !.op = o, !.want = payload]]
      BY <2>1 DEF Call
    <3>2. /\ job'[s].op = o /\ ~job'[s].absent /\ ~job'[s].init /\ ~job'[s].entered
          /\ job'[s].gen = 0
      BY <3>1 DEF NoJob
    <3>3. stage'[s] = "begin" /\ s \notin applied' /\ o # "none"
      BY <2>1 DEF Call, Operations
    <3> QED
      BY <3>2, <3>3
  <2>2. CASE Begin(s)
    <3>1. /\ job'[s].op = job[s].op /\ job'[s].init = job[s].init
          /\ job'[s].entered = job[s].entered /\ job'[s].gen = job[s].gen
          /\ stage'[s] = "admit" => job'[s].absent = (job[s].op \in Creating /\ payload = None)
          /\ stage'[s] = "ended" => job'[s].absent = job[s].absent
      BY <2>2 DEF Begin
    <3>2. /\ stage'[s] \in {"admit", "ended"} /\ stage[s] = "begin" /\ applied' = applied
          /\ job[s].op = "create" /\ payload # None => stage'[s] = "ended"
      BY <2>2 DEF Begin
    <3> QED
      BY <3>1, <3>2 DEF Creating
  <2>3. CASE Admit(s)
    <3>1. /\ job'[s].op = job[s].op /\ job'[s].init = job[s].init
          /\ job'[s].entered = job[s].entered /\ job'[s].absent = job[s].absent
          /\ stage'[s] = "lock" => job'[s].gen = record.gen /\ record.phase = "ready"
          /\ stage'[s] # "lock" => job'[s].gen = job[s].gen
          /\ stage'[s] = "check" => job[s].absent
      BY <2>3 DEF Admit
    <3>2. stage'[s] \in {"lock", "check", "ended"} /\ stage[s] = "admit" /\ applied' = applied
      BY <2>3 DEF Admit
    <3>3. record.phase = "ready" => record.gen # 0
      BY DEF JInv, Numbered, NoRecord
    <3> QED
      BY <3>1, <3>2, <3>3
  <2>4. CASE InitCheck(s)
    BY <2>4 DEF InitCheck
  <2>5. CASE PublishAnchor(s)
    <3>1. /\ job'[s].op = job[s].op /\ job'[s].entered = job[s].entered
          /\ job'[s].absent = job[s].absent
          /\ stage'[s] = "record" => job'[s].gen = born + 1 /\ job'[s].init
          /\ stage'[s] # "record" => job'[s].gen = job[s].gen /\ job'[s].init = job[s].init
      <4>1. CASE anchor = 0
        <5>1. /\ job'[s] = [job[s] EXCEPT !.gen = born + 1, !.init = TRUE]
              /\ stage'[s] = "record"
          BY <2>5, <4>1 DEF PublishAnchor
        <5> QED
          BY <5>1
      <4>2. CASE anchor # 0
        BY <2>5, <4>2 DEF PublishAnchor
      <4> QED
        BY <4>1, <4>2
    <3>2. stage'[s] \in {"record", "ended"} /\ stage[s] = "anchor" /\ applied' = applied
      BY <2>5 DEF PublishAnchor
    <3>3. born + 1 # 0
      BY Bound DEF JInv, JTypeOK
    <3> QED
      BY <3>1, <3>2, <3>3
  <2>6. CASE PublishRecord(s)
    BY <2>6 DEF PublishRecord
  <2>7. CASE Lock(s)
    BY <2>7 DEF Lock
  <2>8. CASE AcquireLease(s)
    BY <2>8 DEF AcquireLease
  <2>9. CASE Acknowledge(s)
    BY <2>9 DEF Acknowledge
  <2>10. CASE DisposeUnrun(s)
    BY <2>10 DEF DisposeUnrun
  <2>11. CASE Run(s)
    BY <2>11 DEF Run
  <2>12. CASE WritePayload(s)
    BY <2>12 DEF WritePayload
  <2>13. CASE WriteConflict(s)
    BY <2>13 DEF WriteConflict
  <2>14. CASE WriteFails(s)
    BY <2>14 DEF WriteFails
  <2>15. CASE Complete(s)
    BY <2>15 DEF Complete
  <2>16. CASE ReleaseReady(s)
    BY <2>16 DEF ReleaseReady
  <2>17. CASE CancelRecord(s)
    BY <2>17 DEF CancelRecord
  <2>18. CASE CancelAnchor(s)
    BY <2>18 DEF CancelAnchor
  <2>19. CASE ReleaseResidue(s)
    BY <2>19 DEF ReleaseResidue
  <2>20. CASE RetireFence(s)
    BY <2>20 DEF RetireFence
  <2>21. CASE RemovePayload(s)
    BY <2>21 DEF RemovePayload
  <2>22. CASE RemoveRecord(s)
    BY <2>22 DEF RemoveRecord
  <2>23. CASE RemoveAnchor(s)
    BY <2>23 DEF RemoveAnchor
  <2>24. CASE Abort(s)
    BY <2>24 DEF Abort
  <2> QED
    BY <2>1, <2>2, <2>3, <2>4, <2>5, <2>6, <2>7, <2>8, <2>9, <2>10, <2>11, <2>12, <2>13, <2>14, <2>15, <2>16, <2>17, <2>18, <2>19, <2>20, <2>21, <2>22, <2>23, <2>24 DEF JStep
<1> QED
  BY <1>3, <1>5

---------------------------------------------------------------------------
(* What a step leaves alone. *)

(* A call gets a generation by making it or by admission to a ready record, *)
(* and keeps it; its operation, its expectation and the record it replaced  *)
(* stay as they are.                                                        *)
LEMMA Keeps ==
  ASSUME JInv, NEW s \in Session, Call(s) \/ JStep(s) \/ Abort(s)
  PROVE  /\ stage'[s] = "record" =>
              /\ stage[s] = "anchor" /\ anchor = 0 /\ anchor' = born + 1 /\ born' = born + 1
              /\ job'[s].init /\ job'[s].gen = born + 1
              /\ UNCHANGED <<record, payload, guard, owed, aborts>>
         /\ stage'[s] # "record" => born' = born /\ job'[s].init = job[s].init
         /\ stage[s] = "admit" /\ stage'[s] = "lock" =>
              record.phase = "ready" /\ job'[s].gen = record.gen
         /\ stage'[s] # "record" /\ ~(stage[s] = "admit" /\ stage'[s] = "lock") =>
              job'[s].gen = job[s].gen
         /\ stage[s] # "idle" => job'[s].op = job[s].op /\ job'[s].want = job[s].want
         /\ stage[s] \notin {"idle", "begin"} => job'[s].absent = job[s].absent
         /\ stage[s] \notin {"idle", "acquire"} => job'[s].seen = job[s].seen
         /\ stage[s] # "write" => job'[s].entered = job[s].entered
         /\ stage[s] = "acquire" /\ stage'[s] = "held" => job'[s].seen = record
<1>1. /\ job[s] \in JobType /\ s \in DOMAIN job /\ s \in DOMAIN stage
      /\ \A j : [job EXCEPT ![s] = j][s] = j
      /\ \A p : [stage EXCEPT ![s] = p][s] = p
  BY DEF JInv, JTypeOK, JobType
<1>3. CASE Call(s)
  <2>1. PICK o \in Operations :
          job' = [job EXCEPT ![s] = [NoJob EXCEPT !.op = o, !.want = payload]]
    BY <1>3 DEF Call
  <2>2. job'[s].init = FALSE /\ job'[s].entered = FALSE /\ job'[s].gen = 0
    BY <1>1, <2>1 DEF NoJob
  <2>3. stage[s] = "idle" /\ stage'[s] = "begin" /\ born' = born
    BY <1>1, <1>3 DEF Call, Go
  <2>4. job[s].init = FALSE /\ job[s].entered = FALSE /\ job[s].gen = 0
    BY <1>1, <2>3 DEF JInv, CallInv, EffectInv, JobType
  <2> QED
    BY <2>2, <2>3, <2>4
<1>4. CASE Begin(s) \/ Admit(s) \/ AcquireLease(s)
  BY <1>1, <1>4 DEF Begin, Admit, AcquireLease, Go, Ends, Answers, JobType
<1>5. CASE PublishAnchor(s)
  <2>1. CASE anchor = 0
    <3>1. /\ job'[s] = [job[s] EXCEPT !.gen = born + 1, !.init = TRUE]
          /\ stage'[s] = "record" /\ stage[s] = "anchor" /\ anchor' = born + 1 /\ born' = born + 1
          /\ UNCHANGED <<record, payload, guard, owed, aborts>>
      BY <1>1, <1>5, <2>1 DEF PublishAnchor, Go
    <3> QED
      BY <1>1, <2>1, <3>1 DEF JobType
  <2>2. CASE anchor # 0
    BY <1>1, <1>5, <2>2 DEF PublishAnchor, Go, Ends, Answers, JobType
  <2> QED
    BY <2>1, <2>2
<1>6. CASE InitCheck(s) \/ PublishRecord(s) \/ Lock(s) \/ Run(s) \/ DisposeUnrun(s) \/ Abort(s)
  BY <1>1, <1>6 DEF InitCheck, PublishRecord, Lock, Run, DisposeUnrun, Abort, Go, Ends, Answers, JobType
<1>7. CASE WritePayload(s) \/ WriteConflict(s) \/ WriteFails(s)
  <2>1. stage'[s] \in {"complete", "release"} /\ born' = born /\ stage[s] = "write"
    BY <1>1, <1>7 DEF WritePayload, WriteConflict, WriteFails, Go
  <2>2. PICK a \in {"true", "false", "error"} :
          job'[s] = [job[s] EXCEPT !.entered = TRUE, !.answer = a]
    BY <1>1, <1>7 DEF WritePayload, WriteConflict, WriteFails
  <2> QED
    BY <1>1, <2>1, <2>2 DEF JobType
<1>8. CASE ReleaseResidue(s) \/ RetireFence(s) \/ RemoveAnchor(s)
  BY <1>1, <1>8 DEF ReleaseResidue, RetireFence, RemoveAnchor, Go, Ends, Answers, JobType
<1>9. CASE \/ Acknowledge(s) \/ Complete(s) \/ ReleaseReady(s) \/ CancelRecord(s)
           \/ CancelAnchor(s) \/ RemovePayload(s) \/ RemoveRecord(s)
  BY <1>1, <1>9 DEF Acknowledge, Complete, ReleaseReady, CancelRecord, CancelAnchor,
     RemovePayload, RemoveRecord, Go
<1> QED
  BY <1>3, <1>4, <1>5, <1>6, <1>7, <1>8, <1>9 DEF JStep

(* Where the steps that lead to the guard begin. *)
LEMMA Arrives ==
  ASSUME JInv, NEW s \in Session, Call(s) \/ JStep(s) \/ Abort(s)
  PROVE  /\ stage'[s] = "lock" => stage[s] \in {"admit", "record"}
         /\ stage'[s] = "acquire" => stage[s] = "lock"
         /\ stage'[s] = "held" => stage[s] = "acquire"
         /\ stage'[s] \in Held \ {"acquire"} => stage[s] \in Held
<1>1. s \in DOMAIN stage /\ \A p : [stage EXCEPT ![s] = p][s] = p
  BY DEF JInv, JTypeOK
<1> USE <1>1 DEF Go, Ends, Held
<1>2. CASE Call(s) \/ Begin(s) \/ Admit(s) \/ InitCheck(s) \/ PublishAnchor(s) \/ PublishRecord(s)
  BY <1>2 DEF Call, Begin, Admit, InitCheck, PublishAnchor, PublishRecord
<1>3. CASE Lock(s) \/ AcquireLease(s) \/ Acknowledge(s) \/ DisposeUnrun(s) \/ Run(s)
  BY <1>3 DEF Lock, AcquireLease, Acknowledge, DisposeUnrun, Run
<1>4. CASE WritePayload(s) \/ WriteConflict(s) \/ WriteFails(s) \/ Complete(s)
  BY <1>4 DEF WritePayload, WriteConflict, WriteFails, Complete
<1>5. CASE ReleaseReady(s) \/ CancelRecord(s) \/ CancelAnchor(s) \/ ReleaseResidue(s)
  BY <1>5 DEF ReleaseReady, CancelRecord, CancelAnchor, ReleaseResidue
<1>6. CASE RetireFence(s) \/ RemovePayload(s) \/ RemoveRecord(s) \/ RemoveAnchor(s) \/ Abort(s)
  BY <1>6 DEF RetireFence, RemovePayload, RemoveRecord, RemoveAnchor, Abort
<1> QED
  BY <1>2, <1>3, <1>4, <1>5, <1>6 DEF JStep

(* While a session works under the guard, no other changes a file, the guard *)
(* or what is owed.                                                          *)
LEMMA Excluded ==
  ASSUME JInv, NEW s \in Session, Call(s) \/ JStep(s) \/ Abort(s),
         NEW t \in Session, t # s, stage[t] \in Held
  PROVE  UNCHANGED <<anchor, record, payload, guard, owed>>
<1>1. stage[s] \notin Held /\ guard # s /\ guard # None /\ anchor # 0
  <2>1. guard = t /\ anchor = job[t].gen
    BY DEF JInv, JTypeOK, GuardInv
  <2>2. job[t].gen # 0
    BY DEF JInv, CallInv
  <2> QED
    BY <2>1, <2>2, JournalAssumption DEF JInv, JTypeOK
<1>2. CASE Call(s) \/ Begin(s) \/ Admit(s) \/ InitCheck(s)
  BY <1>2 DEF Call, Begin, Admit, InitCheck, disk
<1>3. CASE PublishAnchor(s) \/ PublishRecord(s) \/ Lock(s) \/ Abort(s)
  BY <1>1, <1>3 DEF PublishAnchor, PublishRecord, Lock, Abort, disk
<1>4. CASE stage[s] \in Held
  BY <1>1, <1>4
<1> QED
  BY <1>2, <1>3, <1>4 DEF JStep, Held, AcquireLease, Acknowledge, DisposeUnrun, Run, WritePayload,
     WriteConflict, WriteFails, Complete, ReleaseReady, CancelRecord, CancelAnchor,
     ReleaseResidue, RetireFence, RemovePayload, RemoveRecord, RemoveAnchor

---------------------------------------------------------------------------
(* Types and numbers. *)

(* No step leaves the types. *)
LEMMA TypeStep ==
  ASSUME JInv, NEW s \in Session, Call(s) \/ JStep(s) \/ Abort(s)
  PROVE  JTypeOK'
<1>1. /\ stage' \in [Session -> Steps] /\ job' \in [Session -> JobType]
      /\ \A t \in Session \ {s} : stage'[t] = stage[t]
  BY Frame DEF JInv
<1>2. /\ anchor \in Generations /\ born \in Generations
      /\ record \in Records \cup {NoRecord} /\ payload \in Values
      /\ guard \in Owners /\ owed \in Owners
      /\ applied \subseteq Session /\ aborts \in 0..MaxAborts
      /\ \A t \in Session : stage[t] \in Held <=> guard = t
      /\ job[s] \in JobType /\ s \in DOMAIN stage
      /\ \A p : [stage EXCEPT ![s] = p][s] = p
  BY DEF JInv, JTypeOK, JobType
<1>3. /\ anchor' \in Generations /\ born' \in Generations
      /\ record' \in Records \cup {NoRecord} /\ payload' \in Values
      /\ owed' \in Owners
      /\ applied' \subseteq Session /\ aborts' \in 0..MaxAborts
  <2>1. record \in Records \/ (record = NoRecord /\ record.phase = "none")
    BY <1>2 DEF NoRecord
  <2>2. 0 \in Generations
    BY Bound DEF Generations
  <2>3. CASE Call(s) \/ Begin(s) \/ Admit(s) \/ InitCheck(s) \/ Lock(s) \/ Run(s) \/ WriteConflict(s)
    BY <1>2, <2>3 DEF Call, Begin, Admit, InitCheck, Lock, Run, WriteConflict, disk
  <2>4. CASE PublishAnchor(s)
    <3>1. job'[s].gen \in Generations
      BY <1>1 DEF JobType
    <3> QED
      BY <1>2, <2>4, <3>1, Keeps DEF PublishAnchor
  <2>5. CASE PublishRecord(s)
    BY <1>2, <2>5 DEF PublishRecord, Records, Owners, JobType
  <2>6. CASE AcquireLease(s)
    <3>1. CASE Admissible(s)
      <4>1. record \in Records
        BY <2>1, <3>1 DEF Admissible
      <4>2. Predecessor \in Owners /\ s \in Owners
        BY <4>1 DEF Predecessor, Records, Owners
      <4>3. [record EXCEPT !.active = s, !.recovery = Predecessor] \in Records
        BY <4>1, <4>2 DEF Records
      <4> QED
        BY <1>2, <2>6, <3>1, <4>3 DEF AcquireLease
    <3> QED
      BY <1>2, <2>6, <3>1 DEF AcquireLease
  <2>7. CASE Acknowledge(s) \/ DisposeUnrun(s) \/ Complete(s) \/ RetireFence(s) \/ ReleaseReady(s)
    <3>1. record \in Records
      <4>1. stage[s] \in {"held", "complete", "fence"} \/ record.phase = "ready"
        BY <2>7 DEF Acknowledge, DisposeUnrun, Complete, RetireFence, ReleaseReady
      <4>2. record.phase # "none"
        BY <4>1 DEF JInv, GuardInv
      <4> QED
        BY <2>1, <4>2
    <3>2. None \in Owners
      BY DEF Owners
    <3>3. /\ [record EXCEPT !.recovery = None] \in Records
          /\ [record EXCEPT !.active = None] \in Records
          /\ [record EXCEPT !.active = None, !.recovery = None] \in Records
          /\ [record EXCEPT !.phase = "ready"] \in Records
          /\ [record EXCEPT !.phase = "retiring"] \in Records
      BY <3>1, <3>2 DEF Records
    <3>4. stage[s] = "held" => job[s].seen \in Records
      BY DEF JInv, GuardInv
    <3> QED
      BY <1>2, <2>7, <3>2, <3>3, <3>4
         DEF Acknowledge, DisposeUnrun, Complete, RetireFence, ReleaseReady, Owners
  <2>8. CASE WritePayload(s) \/ WriteFails(s) \/ RemovePayload(s)
    BY <1>2, <2>8, JournalAssumption DEF WritePayload, WriteFails, RemovePayload, New, Values, Aborts
  <2>9. CASE \/ CancelRecord(s) \/ CancelAnchor(s) \/ ReleaseResidue(s)
             \/ RemoveRecord(s) \/ RemoveAnchor(s)
    BY <1>2, <2>2, <2>9 DEF CancelRecord, CancelAnchor, ReleaseResidue,
       RemoveRecord, RemoveAnchor, disk, Owners
  <2>10. CASE Abort(s)
    BY <1>2, <2>10, JournalAssumption DEF Abort, disk, Owners, Aborts
  <2> QED
    BY <2>3, <2>4, <2>5, <2>6, <2>7, <2>8, <2>9, <2>10 DEF JStep
<1>4. guard' \in Owners /\ \A t \in Session : stage'[t] \in Held <=> guard' = t
  <2>1. None \notin Session /\ None \in Owners /\ s \in Owners
    BY JournalAssumption DEF Owners
  <2>2. ASSUME guard' = guard, stage'[s] \in Held <=> stage[s] \in Held
        PROVE  guard' \in Owners /\ \A t \in Session : stage'[t] \in Held <=> guard' = t
    BY <1>1, <1>2, <2>2
  <2>3. ASSUME guard' = None, stage'[s] \notin Held, guard \in {s, None}
        PROVE  guard' \in Owners /\ \A t \in Session : stage'[t] \in Held <=> guard' = t
    BY <1>1, <1>2, <2>1, <2>3
  <2>4. ASSUME guard = None, guard' = s, stage'[s] \in Held
        PROVE  guard' \in Owners /\ \A t \in Session : stage'[t] \in Held <=> guard' = t
    BY <1>1, <1>2, <2>1, <2>4
  <2> USE <1>2 DEF Held, Go, Ends
  <2>5. CASE Call(s) \/ Begin(s) \/ Admit(s) \/ InitCheck(s) \/ PublishAnchor(s) \/ PublishRecord(s)
    <3>1. /\ stage[s] \in {"idle", "begin", "admit", "check", "anchor", "record"}
          /\ guard' = guard
      BY <2>5 DEF Call, Begin, Admit, InitCheck, PublishAnchor, PublishRecord
    <3>2. stage'[s] \in {"begin", "admit", "check", "anchor", "record", "lock", "ended"}
      BY <2>5 DEF Call, Begin, Admit, InitCheck, PublishAnchor, PublishRecord
    <3> QED
      BY <2>2, <3>1, <3>2
  <2>6. CASE Lock(s)
    <3>1. \/ guard' = guard /\ stage'[s] = "ended"
          \/ guard = None /\ guard' = s /\ stage'[s] = "acquire"
      <4>1. CASE anchor # job[s].gen
        BY <2>6, <4>1 DEF Lock
      <4>2. CASE anchor = job[s].gen /\ guard # None
        BY <2>6, <4>2 DEF Lock
      <4>3. CASE anchor = job[s].gen /\ guard = None
        BY <2>6, <4>3 DEF Lock
      <4> QED
        BY <4>1, <4>2, <4>3
    <3>2. stage[s] = "lock"
      BY <2>6 DEF Lock
    <3> QED
      BY <2>2, <2>4, <3>1, <3>2
  <2>7. CASE AcquireLease(s)
    BY <2>2, <2>3, <2>7 DEF AcquireLease
  <2>8. CASE DisposeUnrun(s) \/ ReleaseReady(s) \/ CancelAnchor(s) \/ ReleaseResidue(s)
             \/ RemoveAnchor(s)
    BY <2>3, <2>8 DEF DisposeUnrun, ReleaseReady, CancelAnchor, ReleaseResidue, RemoveAnchor
  <2>9. CASE Acknowledge(s) \/ Run(s) \/ WritePayload(s) \/ WriteConflict(s) \/ WriteFails(s) \/ Complete(s)
             \/ CancelRecord(s) \/ RemovePayload(s) \/ RemoveRecord(s)
    BY <2>2, <2>9 DEF Acknowledge, Run, WritePayload, WriteConflict, WriteFails, Complete,
       CancelRecord, RemovePayload, RemoveRecord
  <2>10. CASE RetireFence(s)
    BY <2>2, <2>3, <2>10 DEF RetireFence
  <2>11. CASE Abort(s)
    <3>1. stage'[s] = "ended" /\ guard' = IF guard = s THEN None ELSE guard
      BY <2>11 DEF Abort
    <3> QED
      BY <2>2, <2>3, <3>1
  <2> QED
    BY <2>5, <2>6, <2>7, <2>8, <2>9, <2>10, <2>11 DEF JStep
<1> QED
  BY <1>1, <1>3, <1>4 DEF JTypeOK, JobType

(* Every generation named was made, and none is made twice. *)
LEMMA NumberStep ==
  ASSUME JInv, NEW s \in Session, Call(s) \/ JStep(s) \/ Abort(s)
  PROVE  Numbered'
<1>1. /\ \A t \in Session \ {s} : job'[t] = job[t]
      /\ born \in Nat /\ record.gen <= born /\ anchor <= born
      /\ \A t \in Session : job[t].gen <= born
      /\ record.gen = 0 <=> record = NoRecord
  BY Frame, Bound DEF JInv, JTypeOK, Numbered
<1>2. CASE stage'[s] = "record"
  <2>1. record' = record
    BY <1>2, Keeps
  <2>2. Makers' = Makers \cup {s} /\ s \notin Makers
    BY <1>1, <1>2, Keeps DEF Makers, JInv, CallInv
  <2>3. Cardinality(Makers') = Cardinality(Makers) + 1 /\ Cardinality(Makers) \in Nat
    BY <2>2, Room DEF Makers
  <2>4. born' = born + 1 /\ anchor' = born + 1 /\ job'[s].gen = born + 1
    BY <1>2, Keeps
  <2>5. record.gen \in Nat /\ \A t \in Session : job[t].gen \in Nat
    <3>1. record \in Records => record.gen \in Generations
      BY DEF Records
    <3>2. record \in Records \/ record.gen = 0
      BY DEF JInv, JTypeOK, NoRecord
    <3>3. \A t \in Session : job[t].gen \in Generations
      BY DEF JInv, JTypeOK
    <3> QED
      BY <3>1, <3>2, <3>3, Bound DEF Generations
  <2>6. \A t \in Session : job'[t].gen <= born + 1
    BY <1>1, <2>4, <2>5
  <2>7. born <= 1 + Cardinality(Makers)
    BY DEF JInv, Numbered
  <2> QED
    BY <1>1, <2>1, <2>3, <2>4, <2>5, <2>6, <2>7 DEF Numbered
<1>3. CASE stage'[s] # "record"
  <2>1. Makers' = Makers /\ born' = born
    BY <1>1, <1>3, Keeps DEF Makers
  <2>2. \A t \in Session : job'[t].gen <= born
    BY <1>1, <1>3, Keeps
  <2>3. /\ anchor' \in {anchor, 0}
        /\ record'.gen \in {record.gen, 0, job[s].gen}
        /\ record'.gen = 0 <=> record' = NoRecord
    <3>1. /\ record \in Records \cup {NoRecord} /\ s \in DOMAIN stage
          /\ \A p : [stage EXCEPT ![s] = p][s] = p
      BY DEF JInv, JTypeOK
    <3>2. NoRecord.gen = 0 /\ NoRecord.phase = "none"
      BY DEF NoRecord
    <3>3. CASE Call(s) \/ Begin(s) \/ Admit(s) \/ InitCheck(s) \/ Lock(s) \/ Run(s) \/ WriteConflict(s)
               \/ ReleaseResidue(s) \/ Abort(s) \/ WritePayload(s) \/ WriteFails(s) \/ RemovePayload(s)
      BY <1>1, <3>3 DEF Call, Begin, Admit, InitCheck, Lock, Run, WriteConflict, disk,
         ReleaseResidue, Abort, WritePayload, WriteFails, RemovePayload
    <3>4. CASE PublishAnchor(s)
      BY <1>1, <1>3, <3>1, <3>4 DEF PublishAnchor, Go
    <3>5. CASE PublishRecord(s)
      <4>1. stage[s] = "record" /\ job[s].gen # 0
        BY <3>5 DEF PublishRecord, JInv, CallInv
      <4> QED
        BY <1>1, <3>2, <3>5, <4>1 DEF PublishRecord
    <3>6. CASE AcquireLease(s)
      <4>1. Admissible(s) => record.gen # 0
        BY <1>1, <3>2 DEF Admissible
      <4> QED
        BY <1>1, <3>1, <3>2, <3>6, <4>1 DEF AcquireLease, Records, NoRecord
    <3>7. CASE DisposeUnrun(s)
      <4>1. job[s].seen.gen = record.gen /\ record.gen = job[s].gen /\ job[s].gen # 0
        BY <3>7 DEF DisposeUnrun, JInv, GuardInv, CallInv, Held
      <4> QED
        BY <1>1, <3>1, <3>2, <3>7, <4>1 DEF DisposeUnrun, Records, NoRecord
    <3>8. CASE Acknowledge(s) \/ Complete(s) \/ RetireFence(s) \/ ReleaseReady(s)
      <4>1. record.gen = job[s].gen /\ job[s].gen # 0
        BY <3>8 DEF Acknowledge, Complete, RetireFence, ReleaseReady, JInv, GuardInv, CallInv, Held
      <4> QED
        BY <1>1, <3>1, <3>2, <3>8, <4>1
           DEF Acknowledge, Complete, RetireFence, ReleaseReady, Records, NoRecord
    <3>9. CASE CancelRecord(s) \/ CancelAnchor(s) \/ RemoveRecord(s) \/ RemoveAnchor(s)
      BY <1>1, <3>2, <3>9 DEF CancelRecord, CancelAnchor, RemoveRecord, RemoveAnchor
    <3> QED
      BY <3>3, <3>4, <3>5, <3>6, <3>7, <3>8, <3>9 DEF JStep
  <2>4. born <= 1 + Cardinality(Makers) /\ 0 <= born /\ job[s].gen <= born
    BY <1>1 DEF JInv, Numbered
  <2> QED
    BY <1>1, <2>1, <2>2, <2>3, <2>4 DEF Numbered
<1> QED
  BY <1>2, <1>3

---------------------------------------------------------------------------
(* The owner of the guard. *)

(* What the owner of the guard has made sure of stays true: nobody else     *)
(* changes a file, and each of its own steps establishes what the next one  *)
(* needs.                                                                   *)
LEMMA GuardStep ==
  ASSUME JInv, NEW s \in Session, Call(s) \/ JStep(s) \/ Abort(s)
  PROVE  \A t \in Session : GuardInv(t)'
<1>1. /\ \A t \in Session \ {s} : stage'[t] = stage[t] /\ job'[t] = job[t]
      /\ s \in DOMAIN stage /\ \A p : [stage EXCEPT ![s] = p][s] = p
      /\ s \in DOMAIN job /\ \A j : [job EXCEPT ![s] = j][s] = j
      /\ job[s] \in JobType /\ record \in Records \cup {NoRecord}
  BY Frame DEF JInv, JTypeOK, JobType
<1>2. ASSUME NEW t \in Session, t # s
      PROVE  GuardInv(t)'
  <2>1. CASE stage[t] \in Held
    <3>1. GuardInv(t) /\ stage'[t] = stage[t] /\ job'[t] = job[t]
      BY <1>1, <1>2 DEF JInv
    <3>2. anchor' = anchor /\ record' = record /\ payload' = payload
      BY <1>2, <2>1, Excluded
    <3> QED
      BY <3>1, <3>2 DEF GuardInv
  <2>2. CASE stage[t] \notin Held
    BY <1>1, <1>2, <2>2 DEF GuardInv, Held
  <2> QED
    BY <2>1, <2>2
<1>3. GuardInv(s) /\ CallInv(s)
  BY DEF JInv
<1>4. GuardInv(s)'
  <2>1. CASE stage'[s] \notin Held
    BY <2>1 DEF GuardInv, Held
  <2>2. /\ stage[s] \notin {"anchor", "admit"} =>
             job'[s].gen = job[s].gen /\ job'[s].init = job[s].init
        /\ stage[s] # "idle" => job'[s].op = job[s].op /\ job'[s].want = job[s].want
        /\ stage[s] \notin {"idle", "acquire"} => job'[s].seen = job[s].seen
    BY Keeps
  <2> USE DEF Go
  <2>3. CASE Lock(s)
    <3>1. stage'[s] \in Held => stage'[s] = "acquire" /\ anchor' = anchor /\ anchor = job[s].gen
      BY <1>1, <2>3 DEF Lock, Ends, Held, disk
    <3>2. stage[s] = "lock"
      BY <2>3 DEF Lock
    <3> QED
      BY <2>1, <2>2, <3>1, <3>2 DEF GuardInv, Held
  <2>4. CASE AcquireLease(s)
    <3>1. CASE Admissible(s)
      <4>1. record \in Records
        BY <1>1, <3>1 DEF Admissible, NoRecord
      <4>2. /\ stage[s] = "acquire" /\ stage'[s] = "held" /\ anchor' = anchor /\ payload' = payload
            /\ job'[s].seen = record
        BY <1>1, <2>4, <3>1 DEF AcquireLease, JobType
      <4>3. record' = [record EXCEPT !.active = s, !.recovery = Predecessor]
        BY <2>4, <3>1 DEF AcquireLease
      <4>4. /\ record'.active = s /\ record'.gen = record.gen /\ record'.phase = record.phase
            /\ record'.recovery = IF record.recovery # None THEN record.recovery ELSE record.active
        BY <4>1, <4>3 DEF Records, Predecessor
      <4> QED
        BY <1>3, <2>2, <3>1, <4>1, <4>2, <4>4 DEF GuardInv, Held, Admissible
    <3>2. CASE ~Admissible(s)
      BY <1>1, <2>1, <2>4, <3>2 DEF AcquireLease, Ends, Held
    <3> QED
      BY <3>1, <3>2
  <2>5. CASE Acknowledge(s)
    <3>1. /\ stage[s] = "held" /\ stage'[s] \in {"fence", "run"}
          /\ anchor' = anchor /\ payload' = payload
      BY <1>1, <2>5 DEF Acknowledge
    <3>2. record' = [record EXCEPT !.recovery = None] /\ record \in Records
      BY <1>1, <1>3, <2>5, <3>1 DEF Acknowledge, GuardInv, NoRecord
    <3>3. /\ record'.active = record.active /\ record'.gen = record.gen
          /\ record'.phase = record.phase /\ record'.recovery = None
      BY <3>2 DEF Records
    <3> QED
      BY <1>3, <2>2, <3>1, <3>3 DEF GuardInv, Held
  <2>6. CASE Run(s)
    <3>1. stage[s] = "run" /\ stage'[s] \in {"write", "release"} /\ UNCHANGED <<anchor, record, payload>>
      BY <1>1, <2>6 DEF Run, disk
    <3>2. stage'[s] = "write" => job[s].op \in {"create", "mutate"} \/ Met(s)
      BY <1>1, <2>6 DEF Run
    <3> QED
      BY <1>3, <2>2, <3>1, <3>2 DEF GuardInv, Held, Met
  <2>7. CASE WritePayload(s) \/ WriteConflict(s) \/ WriteFails(s)
    <3>1. /\ stage[s] = "write" /\ UNCHANGED <<anchor, record>>
          /\ \/ stage'[s] = "complete" /\ record.phase = "initializing"
             \/ stage'[s] = "release"
      BY <1>1, <2>7 DEF WritePayload, WriteConflict, WriteFails, disk
    <3> QED
      BY <1>3, <2>2, <3>1 DEF GuardInv, Held
  <2>8. CASE Complete(s)
    <3>1. stage[s] = "complete" /\ stage'[s] = "release" /\ UNCHANGED <<anchor, payload>>
      BY <1>1, <2>8 DEF Complete
    <3>2. record' = [record EXCEPT !.phase = "ready"] /\ record \in Records
      BY <1>1, <1>3, <2>8, <3>1 DEF Complete, GuardInv, NoRecord
    <3>3. /\ record'.active = record.active /\ record'.gen = record.gen
          /\ record'.phase = "ready" /\ record'.recovery = record.recovery
      BY <3>2 DEF Records
    <3> QED
      BY <1>3, <2>2, <3>1, <3>3 DEF GuardInv, Held
  <2>9. CASE CancelRecord(s) \/ RemoveRecord(s)
    <3>1. /\ stage[s] \in {"release", "removeRecord"} /\ stage'[s] \in {"unlink", "removeAnchor"}
          /\ UNCHANGED <<anchor, payload>> /\ record' = NoRecord
      BY <1>1, <2>9 DEF CancelRecord, RemoveRecord
    <3>2. NoRecord.recovery = None
      BY DEF NoRecord
    <3> QED
      BY <1>3, <2>2, <3>1, <3>2 DEF GuardInv, Held
  <2>10. CASE RetireFence(s)
    <3>1. CASE payload # None /\ payload = job[s].want
      <4>1. stage[s] = "fence" /\ stage'[s] = "removePayload" /\ UNCHANGED <<anchor, payload>>
        BY <1>1, <2>10, <3>1 DEF RetireFence
      <4>2. record' = [record EXCEPT !.phase = "retiring"] /\ record \in Records
        BY <1>1, <1>3, <2>10, <3>1, <4>1 DEF RetireFence, GuardInv, NoRecord
      <4>3. /\ record'.active = record.active /\ record'.gen = record.gen
            /\ record'.phase = "retiring" /\ record'.recovery = record.recovery
        BY <4>2 DEF Records
      <4> QED
        BY <1>3, <2>2, <3>1, <4>1, <4>3 DEF GuardInv, Held
    <3>2. CASE ~(payload # None /\ payload = job[s].want)
      BY <1>1, <2>1, <2>10, <3>2 DEF RetireFence, Ends, Held
    <3> QED
      BY <3>1, <3>2
  <2>11. CASE RemovePayload(s)
    <3>1. /\ stage[s] = "removePayload" /\ stage'[s] = "removeRecord"
          /\ UNCHANGED <<anchor, record>> /\ payload' = None
      BY <1>1, <2>11 DEF RemovePayload
    <3> QED
      BY <1>3, <2>2, <3>1 DEF GuardInv, Held
  <2>12. CASE Call(s) \/ Begin(s) \/ Admit(s) \/ InitCheck(s) \/ PublishAnchor(s) \/ PublishRecord(s)
    <3>1. stage'[s] \in {"begin", "admit", "check", "anchor", "record", "lock", "ended"}
      BY <1>1, <2>12 DEF Call, Begin, Admit, InitCheck, PublishAnchor, PublishRecord, Ends
    <3> QED
      BY <2>1, <3>1 DEF Held
  <2>13. CASE \/ DisposeUnrun(s) \/ ReleaseReady(s) \/ CancelAnchor(s) \/ ReleaseResidue(s)
              \/ RemoveAnchor(s) \/ Abort(s)
    <3>1. stage'[s] = "ended"
      BY <1>1, <2>13 DEF DisposeUnrun, ReleaseReady, CancelAnchor, ReleaseResidue,
         RemoveAnchor, Abort, Ends
    <3> QED
      BY <2>1, <3>1 DEF Held
  <2> QED
    BY <2>3, <2>4, <2>5, <2>6, <2>7, <2>8, <2>9, <2>10, <2>11, <2>12, <2>13 DEF JStep
<1> QED
  BY <1>2, <1>4

---------------------------------------------------------------------------
(* The ways a step changes the three files. *)

Publishes(s) ==
  /\ stage[s] = "record" /\ stage'[s] = "lock" /\ guard = None /\ guard' = None
  /\ record = NoRecord /\ payload = None /\ anchor = job[s].gen
  /\ record'.gen = job[s].gen /\ record'.phase = "initializing"
  /\ record'.active = None /\ record'.recovery = None
  /\ UNCHANGED <<anchor, payload, owed, aborts>>

Discards(s) ==
  /\ record' = NoRecord
  /\ \/ /\ stage[s] = "release" /\ record.phase = "initializing" /\ ~job[s].entered
        /\ stage'[s] = "unlink"
     \/ stage[s] = "removeRecord" /\ stage'[s] = "removeAnchor"
  /\ UNCHANGED <<anchor, payload, guard, owed, aborts>>

\* A record is put back as it was found, or loses its owner.
Restores(s) ==
  \/ /\ record.recovery # None
     /\ record'.active = job[s].seen.active /\ record'.recovery = job[s].seen.recovery
  \/ record.recovery = None /\ record'.active = None /\ record'.recovery = None

Amends(s) ==
  /\ record \in Records /\ record' \in Records
  /\ record'.gen = record.gen
  /\ UNCHANGED <<anchor, payload, aborts>>
  /\ \/ /\ stage[s] = "acquire" /\ stage'[s] = "held" /\ Admissible(s)
        /\ record'.phase = record.phase /\ record'.active = s /\ record'.recovery = Predecessor
        /\ UNCHANGED <<guard, owed>>
     \/ /\ stage[s] = "held" /\ stage'[s] \in {"run", "fence"}
        /\ record'.phase = record.phase /\ record'.active = record.active
        /\ record'.recovery = None /\ owed' = None /\ UNCHANGED guard
     \/ /\ stage[s] = "held" /\ stage'[s] = "ended" /\ job[s].op = "probe" /\ guard' = None
        /\ record'.phase = record.phase /\ Restores(s) /\ UNCHANGED owed
     \/ /\ stage[s] = "complete" /\ stage'[s] = "release" /\ record'.phase = "ready"
        /\ record'.active = record.active /\ record'.recovery = record.recovery
        /\ UNCHANGED <<guard, owed>>
     \/ /\ stage[s] = "release" /\ stage'[s] = "ended" /\ guard' = None
        /\ record.phase = "ready" /\ record'.phase = "ready"
        /\ record'.active = None /\ record'.recovery = None /\ UNCHANGED owed
     \/ /\ stage[s] = "fence" /\ stage'[s] = "removePayload" /\ record'.phase = "retiring"
        /\ record'.active = record.active /\ record'.recovery = record.recovery
        /\ UNCHANGED <<guard, owed>>

\* A step that writes or removes the payload.
Changes(s) ==
  \/ /\ stage[s] = "write" /\ stage'[s] \in {"complete", "release"} /\ job'[s].entered
     /\ UNCHANGED <<anchor, record, guard, owed>>
     /\ aborts' = 0 => (record.phase = "initializing" => stage'[s] = "complete" \/ Conflict(s))
     /\ stage'[s] = "complete" => record.phase = "initializing"
  \/ /\ stage[s] = "removePayload" /\ stage'[s] = "removeRecord" /\ payload' = None
     /\ UNCHANGED <<anchor, record, guard, owed, aborts>>

Unlinks(s) ==
  /\ stage[s] \in {"unlink", "removeAnchor"} /\ stage'[s] = "ended"
  /\ anchor' = 0 /\ guard' = None
  /\ UNCHANGED <<record, payload, owed, aborts>>

\* A step that leaves the files alone: without an interruption it moves a
\* session past the acknowledgement only to its next step, to the end of a
\* retirement that met another payload, or to an unresolved publication.
Idles(s) ==
  /\ UNCHANGED <<anchor, record, payload>>
  /\ stage[s] \in {"acquire", "held"} => stage'[s] = "ended"
  /\ aborts' = 0 =>
       /\ stage[s] \in {"held", "complete", "unlink", "removePayload", "removeRecord",
                     "removeAnchor"} => FALSE
       /\ stage[s] = "lock" => stage'[s] = "acquire" \/ anchor # job[s].gen \/ guard # None
       /\ stage[s] = "acquire" => ~Admissible(s)
       /\ stage[s] = "run" => stage'[s] \in {"write", "release"}
       /\ stage[s] = "write" => stage'[s] = "release" /\ payload # None
       /\ stage[s] = "release" => record.phase = "initializing" /\ job[s].entered
       /\ stage[s] = "record" => guard # None \/ anchor # job[s].gen \/ payload # None

(* Every step changes the files in one of these ways, or makes an anchor, or *)
(* leaves the files alone.                                                   *)
LEMMA FileStep ==
  ASSUME JInv, NEW s \in Session, Call(s) \/ JStep(s) \/ Abort(s)
  PROVE  \/ Publishes(s) \/ Discards(s) \/ Amends(s) \/ Changes(s) \/ Unlinks(s)
         \/ stage'[s] = "record"
         \/ Idles(s)
<1>1. /\ s \in DOMAIN stage /\ \A p : [stage EXCEPT ![s] = p][s] = p
      /\ s \in DOMAIN job /\ \A j : [job EXCEPT ![s] = j][s] = j
      /\ job[s] \in JobType /\ record \in Records \cup {NoRecord}
      /\ record' \in Records \cup {NoRecord}
  BY TypeStep DEF JInv, JTypeOK, JobType
<1>2. GuardInv(s) /\ NoRecord.phase = "none"
  BY DEF JInv, NoRecord
<1> USE <1>1 DEF Go, Ends
<1>3. CASE Call(s) \/ Begin(s) \/ Admit(s) \/ InitCheck(s)
  <2>1. /\ UNCHANGED <<anchor, record, payload>>
        /\ stage[s] \in {"idle", "begin", "admit", "check"}
    BY <1>3 DEF Call, Begin, Admit, InitCheck, disk
  <2>2. stage'[s] \in {"begin", "admit", "check", "anchor", "lock", "ended"}
    BY <1>3 DEF Call, Begin, Admit, InitCheck
  <2> QED
    BY <2>1, <2>2 DEF Idles, Held
<1>4. CASE Lock(s)
  BY <1>4 DEF Lock, disk, Idles, Held
<1>5. CASE Run(s)
  <2>1. stage[s] = "run" /\ stage'[s] \in {"write", "release"} /\ UNCHANGED <<anchor, record, payload>>
    BY <1>5 DEF Run, disk
  <2> QED
    BY <2>1 DEF Idles, Held
<1>6. CASE ReleaseResidue(s)
  BY <1>6 DEF ReleaseResidue, disk, Idles, Held
<1>7. CASE Abort(s)
  <2>1. aborts' # 0
    BY <1>7 DEF Abort, Aborts, JInv, JTypeOK
  <2> QED
    BY <1>7, <2>1 DEF Abort, disk, Idles, Held
<1>8. CASE PublishAnchor(s)
  BY <1>8 DEF PublishAnchor, Idles, Held
<1>9. CASE PublishRecord(s)
  <2>1. record = NoRecord
    BY <1>9 DEF PublishRecord, JInv, MakerInv
  <2> QED
    BY <1>9, <2>1 DEF PublishRecord, Publishes, Idles, Held
<1>10. CASE AcquireLease(s)
  <2>1. CASE Admissible(s)
    <3>1. record \in Records
      BY <1>2, <2>1 DEF Admissible
    <3>2. record' = [record EXCEPT !.active = s, !.recovery = Predecessor]
      BY <1>10, <2>1 DEF AcquireLease
    <3>3. /\ record'.active = s /\ record'.recovery = Predecessor
          /\ record'.gen = record.gen /\ record'.phase = record.phase /\ record' # NoRecord
      BY <1>2, <2>1, <3>1, <3>2 DEF Records, Admissible
    <3> QED
      BY <1>10, <2>1, <3>1, <3>3 DEF AcquireLease, Amends
  <2> QED
    BY <1>10, <2>1 DEF AcquireLease, Idles, Held
<1>11. CASE Acknowledge(s)
  <2>1. record' = [record EXCEPT !.recovery = None] /\ record \in Records
    BY <1>2, <1>11 DEF Acknowledge, GuardInv
  <2>2. /\ record'.active = record.active /\ record'.recovery = None
        /\ record'.gen = record.gen /\ record'.phase = record.phase /\ record' # NoRecord
    BY <1>2, <1>11, <2>1 DEF Records, Acknowledge, GuardInv
  <2> QED
    BY <1>11, <2>1, <2>2 DEF Acknowledge, Amends
<1>12. CASE DisposeUnrun(s)
  <2>1. record \in Records /\ record.phase \in {"ready", "initializing"}
    BY <1>2, <1>12 DEF DisposeUnrun, GuardInv
  <2>2. CASE record.recovery # None
    <3>1. record' = job[s].seen /\ job[s].seen.phase = record.phase /\ job[s].seen.gen = record.gen
      BY <1>2, <1>12, <2>2 DEF DisposeUnrun, GuardInv
    <3> QED
      BY <1>2, <1>12, <2>1, <2>2, <3>1 DEF DisposeUnrun, Amends, Restores
  <2>3. CASE record.recovery = None
    <3>1. record' = [record EXCEPT !.active = None]
      BY <1>12, <2>3 DEF DisposeUnrun
    <3>2. /\ record'.active = None /\ record'.recovery = None /\ record'.gen = record.gen
          /\ record'.phase = record.phase
      BY <2>1, <2>3, <3>1 DEF Records
    <3> QED
      BY <1>2, <1>12, <2>1, <2>3, <3>2 DEF DisposeUnrun, Amends, Restores
  <2> QED
    BY <2>2, <2>3
<1>13. CASE WritePayload(s)
  BY <1>13 DEF WritePayload, Changes, JobType
<1>14. CASE WriteConflict(s)
  BY <1>14 DEF WriteConflict, disk, Idles, Held, Conflict
<1>15. CASE WriteFails(s)
  <2>1. aborts' # 0
    BY <1>15 DEF WriteFails, Aborts, JInv, JTypeOK
  <2>2. job'[s].entered
    <3>1. PICK a : job'[s] = [job[s] EXCEPT !.entered = TRUE, !.answer = a]
      BY <1>15 DEF WriteFails
    <3> QED
      BY <3>1 DEF JobType
  <2> QED
    BY <1>15, <2>1, <2>2 DEF WriteFails, Changes
<1>16. CASE Complete(s)
  <2>1. record' = [record EXCEPT !.phase = "ready"] /\ record \in Records
    BY <1>2, <1>16 DEF Complete, GuardInv
  <2>2. /\ record'.active = record.active /\ record'.recovery = record.recovery
        /\ record'.gen = record.gen /\ record'.phase = "ready"
    BY <2>1 DEF Records
  <2> QED
    BY <1>2, <1>16, <2>1, <2>2 DEF Complete, Amends
<1>17. CASE ReleaseReady(s)
  <2>1. /\ record' = [record EXCEPT !.active = None, !.recovery = None]
        /\ record \in Records /\ record.phase = "ready"
    BY <1>2, <1>17 DEF ReleaseReady
  <2>2. /\ record'.active = None /\ record'.recovery = None
        /\ record'.gen = record.gen /\ record'.phase = "ready"
    BY <2>1 DEF Records
  <2> QED
    BY <1>2, <1>17, <2>1, <2>2 DEF ReleaseReady, Amends
<1>18. CASE RetireFence(s)
  <2>1. CASE payload # None /\ payload = job[s].want
    <3>1. record' = [record EXCEPT !.phase = "retiring"] /\ record \in Records
      BY <1>2, <1>18, <2>1 DEF RetireFence, GuardInv
    <3>2. /\ record'.active = record.active /\ record'.recovery = record.recovery
          /\ record'.gen = record.gen /\ record'.phase = "retiring"
      BY <3>1 DEF Records
    <3> QED
      BY <1>2, <1>18, <2>1, <3>1, <3>2 DEF RetireFence, Amends
  <2> QED
    BY <1>18, <2>1 DEF RetireFence, Idles, Held
<1>19. CASE CancelRecord(s) \/ RemoveRecord(s)
  BY <1>19 DEF CancelRecord, RemoveRecord, Discards
<1>20. CASE CancelAnchor(s) \/ RemoveAnchor(s)
  BY <1>20 DEF CancelAnchor, RemoveAnchor, Unlinks
<1>21. CASE RemovePayload(s)
  BY <1>21 DEF RemovePayload, Changes
<1> QED
  BY <1>3, <1>4, <1>5, <1>6, <1>7, <1>8, <1>9, <1>10, <1>11, <1>12,
     <1>13, <1>14, <1>15, <1>16, <1>17, <1>18, <1>19, <1>20, <1>21 DEF JStep

---------------------------------------------------------------------------
(* The files. *)

(* The maker of an anchor that has no record is alone with it. *)
LEMMA Alone ==
  ASSUME JInv, NEW s \in Session, NEW t \in Session, s # t, stage[t] = "record"
  PROVE  stage[s] # "record" /\ stage[s] \notin Held
<1>1. job[t].init /\ anchor = job[t].gen
  BY DEF JInv, CallInv, MakerInv
<1>2. stage[s] = "record" \/ stage[s] \in Held => job[s].gen = anchor
  BY DEF JInv, MakerInv, GuardInv
<1> QED
  BY <1>1, <1>2 DEF JInv, Private

(* Under a record that is not ready yet only its maker works. *)
LEMMA MakerWorks ==
  ASSUME JInv, NEW s \in Session, NEW t \in Session, s # t,
         record.phase = "initializing", job[t].gen = record.gen,
         stage[s] \in Held \ {"acquire"} \/ (stage[s] = "acquire" /\ Admissible(s))
  PROVE  FALSE
<1>1. NoRecord.phase = "none"
  BY DEF NoRecord
<1>2. GuardInv(s)
  BY DEF JInv
<1>3. job[s].init /\ job[s].gen = record.gen
  BY <1>1, <1>2 DEF GuardInv, Admissible, Held
<1> QED
  BY <1>3 DEF JInv, Private

(* The files nest after every step. *)
LEMMA NestStep ==
  ASSUME JInv, NEW s \in Session, Call(s) \/ JStep(s) \/ Abort(s)
  PROVE  FilesNest' /\ FirstPublication'
<1>1. /\ payload # None => record # NoRecord
      /\ record # NoRecord => anchor = record.gen
      /\ NoRecord.phase = "none" /\ NoRecord.gen = 0 /\ NoRecord.active = None
      /\ record.gen = 0 <=> record = NoRecord
      /\ record'.gen = 0 <=> record' = NoRecord
  BY NumberStep DEF JInv, FilesNest, NoRecord, Numbered
<1>2. record.phase = "initializing" /\ payload # None =>
        \E u \in Session : record.active = u /\ job[u].entered
  BY DEF JInv, FirstPublication
<1>3. /\ CallInv(s) /\ EffectInv(s) /\ GuardInv(s) /\ MakerInv(s) /\ None \notin Session
      /\ \A u \in Session \ {s} : job'[u] = job[u]
      /\ stage[s] # "write" => job'[s].entered = job[s].entered
  BY Frame, Keeps, JournalAssumption DEF JInv
<1>4. CASE Publishes(s)
  BY <1>1, <1>3, <1>4 DEF Publishes, FilesNest, FirstPublication, CallInv
<1>5. CASE Discards(s)
  <2>1. payload = None
    <3>1. CASE stage[s] = "removeRecord"
      BY <1>3, <3>1 DEF GuardInv
    <3>2. CASE stage[s] = "release" /\ record.phase = "initializing" /\ ~job[s].entered
      <4>1. record.active = s
        BY <1>3, <3>2 DEF GuardInv, Held
      <4> QED
        BY <1>2, <3>2, <4>1
    <3> QED
      BY <1>5, <3>1, <3>2 DEF Discards
  <2> QED
    BY <1>1, <1>5, <2>1 DEF Discards, FilesNest, FirstPublication
<1>6. CASE Amends(s)
  <2>1. FilesNest'
    BY <1>1, <1>6 DEF Amends, FilesNest, Records
  <2>2. record'.phase = "initializing" => payload' = None
    <3>1. record'.phase = "initializing" =>
            record.phase = "initializing" /\ stage[s] \in {"acquire", "held"}
      BY <1>6 DEF Amends
    <3>2. stage[s] = "acquire" /\ record.phase = "initializing" => payload = None
      BY <1>6 DEF Amends, Admissible
    <3>3. stage[s] = "held" /\ record.phase = "initializing" => payload = None
      BY <1>2, <1>3 DEF GuardInv, EffectInv, Held
    <3> QED
      BY <1>6, <3>1, <3>2, <3>3 DEF Amends
  <2> QED
    BY <2>1, <2>2 DEF FirstPublication
<1>7. CASE Changes(s)
  <2>1. record.active = s /\ record # NoRecord /\ record' = record /\ anchor' = anchor
    BY <1>1, <1>3, <1>7 DEF Changes, GuardInv, Held
  <2>2. record.phase = "initializing" => job'[s].entered
    BY <1>3, <1>7 DEF Changes, GuardInv
  <2> QED
    BY <1>1, <2>1, <2>2 DEF FilesNest, FirstPublication
<1>8. CASE Unlinks(s)
  BY <1>1, <1>3, <1>8 DEF Unlinks, GuardInv, FilesNest, FirstPublication
<1>9. CASE stage'[s] = "record"
  BY <1>1, <1>9, Keeps DEF FilesNest, FirstPublication
<1>10. CASE UNCHANGED <<anchor, record, payload>>
  <2>1. FilesNest'
    BY <1>1, <1>10 DEF FilesNest
  <2>2. \A u \in Session : job[u].entered => job'[u].entered
    <3>1. job[s].entered => stage[s] # "write"
      BY <1>3 DEF EffectInv
    <3> QED
      BY <1>3, <3>1
  <2> QED
    BY <1>2, <1>10, <2>1, <2>2 DEF FirstPublication
<1> QED
  BY <1>4, <1>5, <1>6, <1>7, <1>8, <1>9, <1>10, FileStep DEF Idles

(* A generation stays its maker's own until its record is ready. *)
LEMMA PrivateStep ==
  ASSUME JInv, NEW s \in Session, Call(s) \/ JStep(s) \/ Abort(s)
  PROVE  Private'
<1> SUFFICES ASSUME NEW u \in Session, NEW v \in Session, u # v,
                    job'[u].init, job'[v].gen = job'[u].gen
             PROVE  /\ stage'[u] # "record"
                    /\ record'.phase = "initializing" => record'.gen # job'[u].gen
  BY DEF Private
<1>1. /\ \A t \in Session \ {s} : stage'[t] = stage[t] /\ job'[t] = job[t]
      /\ CallInv(u) /\ CallInv(v) /\ CallInv(s) /\ MakerInv(u) /\ MakerInv(s)
      /\ NoRecord.phase = "none"
  BY Frame DEF JInv, NoRecord
<1>2. CASE stage'[s] = "record"
  <2>1. /\ job'[s].gen = born + 1 /\ UNCHANGED record
        /\ anchor = 0 /\ job[s].init = FALSE
    BY <1>1, <1>2, Keeps DEF CallInv, JInv, JTypeOK
  <2>2. \A t \in Session : job[t].gen # born + 1
    BY Bound DEF JInv, JTypeOK, Numbered, Generations
  <2>3. u # s /\ v # s
    BY <1>1, <2>1, <2>2
  <2>4. job[u].init /\ job[v].gen = job[u].gen
    BY <1>1, <2>3
  <2> QED
    BY <1>1, <2>1, <2>3, <2>4 DEF JInv, Private
<1>3. CASE stage[s] = "admit" /\ stage'[s] = "lock"
  <2>1. record.phase = "ready" /\ job'[s].init = job[s].init
    BY <1>3, Keeps
  <2>2. u # s /\ job[u].init
    BY <1>1, <1>3, <2>1 DEF CallInv
  <2>3. stage[u] # "record"
    BY <1>1, <2>1 DEF MakerInv
  <2>4. record' = record
    BY <1>3, FileStep DEF Publishes, Discards, Amends, Changes, Unlinks, Idles
  <2> QED
    BY <1>1, <2>1, <2>2, <2>3, <2>4
<1>4. CASE stage'[s] # "record" /\ ~(stage[s] = "admit" /\ stage'[s] = "lock")
  <2>1. job'[s].init = job[s].init /\ job'[s].gen = job[s].gen
    BY <1>4, Keeps
  <2>2. job[u].init /\ job[v].gen = job[u].gen /\ job'[u].gen = job[u].gen
    BY <1>1, <2>1
  <2>3. stage[u] # "record" /\ (record.phase = "initializing" => record.gen # job[u].gen)
    BY <2>2 DEF JInv, Private
  <2>4. stage'[u] # "record"
    BY <1>1, <1>4, <2>3
  <2>5. ASSUME record'.phase = "initializing" PROVE record'.gen # job[u].gen
    <3>1. CASE Publishes(s)
      <4>1. job[s].init /\ record'.gen = job[s].gen /\ stage[s] = "record"
        BY <1>1, <3>1 DEF Publishes, CallInv
      <4>2. s # u
        BY <2>3, <4>1
      <4> QED
        BY <4>1, <4>2 DEF JInv, Private
    <3>2. CASE Discards(s)
      BY <1>1, <2>5, <3>2 DEF Discards
    <3>3. CASE Amends(s)
      BY <2>3, <2>5, <3>3 DEF Amends
    <3>4. CASE record' = record
      BY <2>3, <2>5, <3>4
    <3> QED
      BY <1>4, <3>1, <3>2, <3>3, <3>4, FileStep DEF Changes, Unlinks, Idles
  <2> QED
    BY <2>2, <2>4, <2>5
<1> QED
  BY <1>2, <1>3, <1>4

(* What the maker of the journal relies on stays true. *)
LEMMA MakerStep ==
  ASSUME JInv, NEW s \in Session, Call(s) \/ JStep(s) \/ Abort(s)
  PROVE  \A t \in Session : MakerInv(t)'
<1> SUFFICES ASSUME NEW t \in Session PROVE MakerInv(t)'
  OBVIOUS
<1>1. /\ \A u \in Session \ {s} : stage'[u] = stage[u] /\ job'[u] = job[u]
      /\ CallInv(t) /\ CallInv(s) /\ MakerInv(t) /\ MakerInv(s) /\ GuardInv(s)
      /\ NoRecord.phase = "none" /\ NoRecord.gen = 0
      /\ stage[t] \in Steps /\ stage[s] \in Steps
      /\ record.gen = 0 <=> record = NoRecord
      /\ record # NoRecord => anchor = record.gen
  BY Frame DEF JInv, NoRecord, JTypeOK, Numbered, FilesNest
<1>2. ASSUME stage'[t] = "record" PROVE anchor' = job'[t].gen /\ record' = NoRecord
  <2>1. CASE t = s
    <3>1. anchor' = job'[t].gen /\ record' = record /\ anchor = 0
      BY <1>2, <2>1, Keeps
    <3> QED
      BY <1>1, <3>1
  <2>2. CASE t # s
    <3>1. stage[t] = "record" /\ anchor = job[t].gen /\ record = NoRecord /\ job'[t].gen = job[t].gen
      BY <1>1, <1>2, <2>2 DEF MakerInv
    <3>2. stage[s] # "record" /\ stage[s] \notin Held
      BY <2>2, <3>1, Alone
    <3>3. stage'[s] # "record"
      <4>1. anchor # 0
        BY <1>1, <3>1 DEF CallInv
      <4> QED
        BY <4>1, Keeps
    <3>4. UNCHANGED <<anchor, record>>
      BY <3>2, <3>3, FileStep DEF Publishes, Discards, Amends, Changes, Unlinks, Idles, Held
    <3> QED
      BY <3>1, <3>4
  <2> QED
    BY <2>1, <2>2
<1>3. ASSUME stage'[t] \in {"lock", "acquire"}, record'.phase = "initializing",
             job'[t].gen = record'.gen
      PROVE  record'.active = None /\ payload' = None
  <2>1. CASE Publishes(s)
    BY <2>1 DEF Publishes
  <2>2. CASE t = s /\ ~Publishes(s)
    <3>1. \/ stage[s] = "admit" /\ stage'[s] = "lock"
          \/ stage[s] = "record" /\ stage'[s] = "lock"
          \/ stage[s] = "lock" /\ stage'[s] = "acquire"
      BY <1>3, <2>2, Arrives
    <3>2. UNCHANGED <<record, payload>>
      BY <2>2, <3>1, FileStep DEF Publishes, Discards, Amends, Changes, Unlinks, Idles
    <3>3. stage[s] = "admit" => record.phase = "ready"
      BY <3>1, Keeps
    <3>4. stage[s] = "record" => record = NoRecord
      BY <1>1 DEF MakerInv
    <3>5. stage[s] = "lock" /\ job[s].gen = record.gen =>
            record.phase # "initializing" \/ (record.active = None /\ payload = None)
      BY <1>1 DEF MakerInv
    <3>6. stage[s] = "lock" => job'[s].gen = job[s].gen
      BY <1>3, <2>2, Keeps
    <3> QED
      BY <1>1, <1>3, <2>2, <3>1, <3>2, <3>3, <3>4, <3>5, <3>6
  <2>3. CASE t # s /\ ~Publishes(s)
    <3>1. stage[t] \in {"lock", "acquire"} /\ job[t].gen = record'.gen
      BY <1>1, <1>3, <2>3
    <3>2. CASE UNCHANGED <<record, payload>>
      BY <1>1, <1>3, <3>1, <3>2 DEF MakerInv
    <3>3. CASE Discards(s)
      BY <1>1, <1>3, <3>3 DEF Discards
    <3>4. CASE Amends(s)
      <4>1. record.phase = "initializing" /\ job[t].gen = record.gen /\ stage[s] \in {"acquire", "held"}
        BY <1>3, <3>1, <3>4 DEF Amends
      <4>2. stage[s] = "acquire" => Admissible(s)
        BY <3>4 DEF Amends
      <4> QED
        BY <2>3, <4>1, <4>2, MakerWorks DEF Held
    <3>5. CASE Changes(s)
      <4>1. record.phase = "initializing" /\ job[t].gen = record.gen /\ stage[s] \in {"write", "removePayload"}
        BY <1>3, <3>1, <3>5 DEF Changes
      <4> QED
        BY <2>3, <4>1, MakerWorks DEF Held
    <3>6. CASE Unlinks(s) \/ stage'[s] = "record"
      BY <1>1, <1>3, <3>1, <3>6, Keeps DEF Unlinks, MakerInv
    <3> QED
      BY <2>3, <3>2, <3>3, <3>4, <3>5, <3>6, FileStep DEF Idles
  <2> QED
    BY <2>1, <2>2, <2>3
<1> QED
  BY <1>2, <1>3 DEF MakerInv

---------------------------------------------------------------------------
(* The owner that is still to be acknowledged. *)

(* An owner comes to be owed an acknowledgement only while the record names  *)
(* it and nobody else.                                                       *)
LEMMA OwedStep ==
  ASSUME JInv, NEW s \in Session, Call(s) \/ JStep(s) \/ Abort(s)
  PROVE  \/ owed' \in {owed, None}
         \/ /\ owed' = s /\ record' = record
            /\ record.active = s /\ record.recovery = None /\ guard' = None
<1>1. GuardInv(s)
  BY DEF JInv
<1>2. CASE Call(s) \/ Begin(s) \/ Admit(s) \/ InitCheck(s) \/ PublishAnchor(s) \/ PublishRecord(s) \/ Lock(s)
  BY <1>2 DEF Call, Begin, Admit, InitCheck, PublishAnchor, PublishRecord, Lock
<1>3. CASE AcquireLease(s) \/ Acknowledge(s) \/ DisposeUnrun(s) \/ Run(s) \/ WritePayload(s) \/ WriteConflict(s)
           \/ WriteFails(s) \/ Complete(s)
  BY <1>3 DEF AcquireLease, Acknowledge, DisposeUnrun, Run, WritePayload, WriteConflict, WriteFails, Complete
<1>4. CASE ReleaseReady(s) \/ CancelRecord(s) \/ CancelAnchor(s) \/ RemovePayload(s) \/ RemoveRecord(s)
           \/ RemoveAnchor(s)
  BY <1>4 DEF ReleaseReady, CancelRecord, CancelAnchor, RemovePayload, RemoveRecord, RemoveAnchor
<1>5. CASE ReleaseResidue(s)
  BY <1>1, <1>5 DEF ReleaseResidue, GuardInv, Held, disk
<1>6. CASE RetireFence(s)
  BY <1>1, <1>6 DEF RetireFence, GuardInv, Held
<1>7. CASE Abort(s)
  BY <1>7 DEF Abort, disk
<1> QED
  BY <1>2, <1>3, <1>4, <1>5, <1>6, <1>7 DEF JStep

(* No interrupted owner is forgotten. *)
LEMMA LineageStep ==
  ASSUME JInv, NEW s \in Session, Call(s) \/ JStep(s) \/ Abort(s)
  PROVE  Lineage'
<1> SUFFICES ASSUME owed' # None
             PROVE  /\ record' # NoRecord
                    /\ (IF record'.recovery # None THEN record'.recovery ELSE record'.active) = owed'
                    /\ \A u \in Session : stage'[u] \in Held =>
                         stage'[u] = "acquire" \/ (stage'[u] = "held" /\ record'.recovery = owed')
  BY DEF Lineage, Predecessor
<1>1. /\ \A u \in Session \ {s} : stage'[u] = stage[u]
      /\ \A u \in Session : stage[u] \in Held <=> guard = u
      /\ \A u \in Session : stage'[u] \in Held <=> guard' = u
      /\ NoRecord.active = None /\ None \notin Session /\ NoRecord.gen = 0
      /\ record.gen = 0 <=> record = NoRecord
      /\ record'.gen = 0 <=> record' = NoRecord
  BY Frame, TypeStep, NumberStep, JournalAssumption DEF JInv, JTypeOK, NoRecord, Numbered
<1>2. CASE owed' = s /\ record' = record /\ record.active = s /\ record.recovery = None /\ guard' = None
  BY <1>1, <1>2
<1>3. CASE owed' = owed
  <2>1. /\ record # NoRecord /\ Predecessor = owed
        /\ \A u \in Session : stage[u] \in Held =>
             stage[u] = "acquire" \/ (stage[u] = "held" /\ record.recovery = owed)
    BY <1>3 DEF JInv, Lineage
  <2>2. CASE Publishes(s)
    BY <2>1, <2>2 DEF Publishes
  <2>3. CASE Discards(s) \/ Changes(s) \/ Unlinks(s)
    BY <2>1, <2>3 DEF Discards, Changes, Unlinks, Held
  <2>4. CASE Amends(s)
    <3>1. record' # NoRecord
      BY <1>1, <2>1, <2>4 DEF Amends
    <3>2. CASE stage[s] = "acquire"
      <4>1. /\ stage'[s] = "held" /\ record'.recovery = owed /\ guard' = guard
        BY <2>1, <2>4, <3>2 DEF Amends
      <4>2. guard = s
        BY <1>1, <3>2 DEF Held
      <4> QED
        BY <1>1, <1>3, <3>1, <4>1, <4>2
    <3>3. CASE stage[s] = "held"
      <4>1. record.recovery = owed /\ GuardInv(s)
        BY <2>1, <3>3 DEF JInv, Held
      <4>2. guard' = None /\ Restores(s)
        BY <1>3, <2>4, <3>3 DEF Amends
      <4>3. /\ record'.active = job[s].seen.active /\ record'.recovery = job[s].seen.recovery
            /\ owed = IF job[s].seen.recovery # None THEN job[s].seen.recovery
                                                       ELSE job[s].seen.active
        BY <1>3, <3>3, <4>1, <4>2 DEF Restores, GuardInv
      <4> QED
        BY <1>1, <1>3, <3>1, <4>2, <4>3
    <3> QED
      BY <2>1, <2>4, <3>2, <3>3 DEF Amends, Held
  <2>5. CASE stage'[s] = "record"
    BY <1>1, <1>3, <2>1, <2>5, Keeps DEF Predecessor, Held
  <2>6. CASE Idles(s)
    <3>1. stage'[s] \in Held => stage'[s] = "acquire"
      BY <2>1, <2>6, Arrives DEF Idles, Held
    <3> QED
      BY <1>1, <1>3, <2>1, <2>6, <3>1 DEF Idles, Predecessor
  <2> QED
    BY <2>2, <2>3, <2>4, <2>5, <2>6, FileStep
<1> QED
  BY <1>2, <1>3, OwedStep

---------------------------------------------------------------------------
(* Without an interruption. *)

(* What has a running session that finishes it has one after every step. *)
LEMMA UndisturbedStep ==
  ASSUME JInv, NEW s \in Session, Call(s) \/ JStep(s) \/ Abort(s)
  PROVE  Undisturbed'
<1> SUFFICES ASSUME aborts' = 0 PROVE Undisturbed'
  BY DEF Undisturbed
<1>1. aborts = 0
  <2>1. aborts \in Nat
    BY JournalAssumption DEF JInv, JTypeOK
  <2>2. CASE \/ Call(s) \/ Begin(s) \/ Admit(s) \/ InitCheck(s) \/ PublishAnchor(s)
             \/ PublishRecord(s) \/ Lock(s)
    BY <2>2 DEF Call, Begin, Admit, InitCheck, PublishAnchor, PublishRecord, Lock
  <2>3. CASE \/ AcquireLease(s) \/ Acknowledge(s) \/ DisposeUnrun(s) \/ Run(s) \/ WritePayload(s)
             \/ WriteConflict(s) \/ Complete(s)
    BY <2>3 DEF AcquireLease, Acknowledge, DisposeUnrun, Run, WritePayload, WriteConflict, Complete
  <2>4. CASE \/ ReleaseReady(s) \/ CancelRecord(s) \/ CancelAnchor(s) \/ ReleaseResidue(s)
             \/ RetireFence(s) \/ RemovePayload(s) \/ RemoveRecord(s) \/ RemoveAnchor(s)
    BY <2>4 DEF ReleaseReady, CancelRecord, CancelAnchor, ReleaseResidue, RetireFence,
       RemovePayload, RemoveRecord, RemoveAnchor
  <2>5. CASE WriteFails(s) \/ Abort(s)
    BY <2>1, <2>5 DEF WriteFails, Abort, Aborts
  <2> QED
    BY <2>2, <2>3, <2>4, <2>5 DEF JStep
<1>2. /\ \A u \in Session \ {s} : stage'[u] = stage[u] /\ job'[u] = job[u]
      /\ \A u \in Session : stage[u] \in Held <=> guard = u
      /\ guard \in Session \cup {None} /\ None \notin Session
      /\ NoRecord.active = None /\ NoRecord.gen = 0 /\ NoRecord.phase = "none"
      /\ record.gen = 0 <=> record = NoRecord
      /\ CallInv(s) /\ EffectInv(s) /\ GuardInv(s) /\ MakerInv(s)
      /\ payload # None => record # NoRecord
      /\ record # NoRecord => anchor = record.gen
  BY Frame, JournalAssumption DEF JInv, JTypeOK, NoRecord, Numbered, Owners, FilesNest
<1>3. /\ record' \in Records \cup {NoRecord} /\ record \in Records \cup {NoRecord}
      /\ job \in [Session -> JobType] /\ NoRecord \notin Records
      /\ record'.gen = 0 <=> record' = NoRecord
      /\ CallInv(s)'
  BY TypeStep, NumberStep, CallStep DEF JInv, JTypeOK, JobType, Numbered, NoRecord, Records
<1>4. \A t \in Session : job[t].op = "retire" => job'[t].op = "retire"
  BY <1>2, Keeps DEF CallInv
<1>5. stage'[s] = "record" => stage[s] = "anchor" /\ anchor = 0 /\ record' = record
  BY Keeps
<1>6. ASSUME record'.phase = "initializing"
      PROVE  \E u \in Session :
               /\ job'[u].init /\ job'[u].gen = record'.gen
               /\ stage'[u] \in {"lock", "acquire", "held", "run", "write", "complete", "release"}
  <2>1. CASE Publishes(s)
    <3>1. job[s].init /\ stage[s] = "record" /\ stage'[s] = "lock" /\ record'.gen = job[s].gen
      BY <1>2, <2>1 DEF Publishes, CallInv
    <3>2. job'[s].init /\ job'[s].gen = job[s].gen
      BY <3>1, Keeps
    <3> QED
      BY <3>1, <3>2
  <2>2. CASE ~Publishes(s)
    <3>1. record.phase = "initializing" /\ record'.gen = record.gen /\ record # NoRecord
      BY <1>2, <1>5, <1>6, <2>2, FileStep DEF Discards, Amends, Changes, Unlinks, Idles
    <3>2. PICK u \in Session :
            /\ job[u].init /\ job[u].gen = record.gen
            /\ stage[u] \in {"lock", "acquire", "held", "run", "write", "complete", "release"}
      BY <1>1, <3>1 DEF JInv, Undisturbed
    <3>3. CASE u # s
      BY <1>2, <3>1, <3>2, <3>3
    <3>4. CASE u = s
      <4>1. job'[s].init /\ job'[s].gen = record'.gen
        BY <1>5, <3>1, <3>2, <3>4, Keeps
      <4>2. job[s].op \in Creating /\ job'[s].op = job[s].op
        BY <1>2, <3>2, <3>4, Keeps DEF CallInv
      <4>3. stage'[s] \in {"lock", "acquire", "held", "run", "write", "complete", "release"}
        <5>1. CASE Amends(s)
          <6>1. stage'[s] # "fence"
            BY <1>3, <4>2 DEF CallInv, Creating
          <6> QED
            BY <1>6, <3>2, <3>4, <4>2, <5>1, <6>1 DEF Amends, Creating
        <5>2. CASE Changes(s)
          BY <3>2, <3>4, <5>2 DEF Changes
        <5>3. CASE Idles(s)
          <6>1. stage[s] = "lock" => anchor = job[s].gen /\ guard = None
            <7>1. anchor = record.gen
              BY <1>2, <3>1
            <7>2. stage[s] = "lock" => guard # s
              BY <1>2 DEF Held
            <7>3. \A t \in Session : t # s => guard # t
              <8> SUFFICES ASSUME NEW t \in Session, t # s, guard = t PROVE FALSE
                OBVIOUS
              <8>1. job[t].gen = anchor
                BY <1>2 DEF JInv, GuardInv
              <8> QED
                BY <3>1, <3>2, <3>4, <7>1, <8>1 DEF JInv, Private
            <7> QED
              BY <1>2, <3>2, <3>4, <7>1, <7>2, <7>3
          <6>2. stage[s] = "acquire" => Admissible(s)
            BY <1>2, <3>1, <3>2, <3>4 DEF MakerInv, Admissible
          <6>3. stage[s] = "release" => ~job[s].entered
            BY <1>1, <3>1 DEF JInv, Undisturbed
          <6> QED
            BY <3>2, <3>4, <5>3, <6>1, <6>2, <6>3 DEF Idles
        <5> QED
          BY <1>2, <1>5, <1>6, <2>2, <3>2, <3>4, <5>1, <5>2, <5>3, FileStep DEF Discards, Unlinks
      <4> QED
        BY <4>1, <4>3
    <3> QED
      BY <3>3, <3>4
  <2> QED
    BY <2>1, <2>2
<1>7. ASSUME record'.phase = "retiring"
      PROVE  \E u \in Session : stage'[u] \in {"removePayload", "removeRecord"}
  <2>1. CASE stage'[s] \in {"removePayload", "removeRecord"}
    BY <2>1
  <2>2. CASE stage'[s] \notin {"removePayload", "removeRecord"}
    <3>1. record.phase = "retiring"
      BY <1>2, <1>5, <1>7, <2>2, FileStep DEF Publishes, Discards, Amends, Changes, Unlinks, Idles
    <3>2. PICK u \in Session : stage[u] \in {"removePayload", "removeRecord"}
      BY <1>1, <3>1 DEF JInv, Undisturbed
    <3>3. CASE u = s
      BY <1>2, <1>5, <1>7, <2>2, <3>2, <3>3, FileStep
         DEF Publishes, Discards, Amends, Changes, Unlinks, Idles
    <3> QED
      BY <1>2, <3>2, <3>3
  <2> QED
    BY <2>1, <2>2
<1>8. ASSUME record' = NoRecord, anchor' # 0
      PROVE  \E u \in Session : stage'[u] \in {"record", "unlink", "removeAnchor"}
  <2>1. CASE stage'[s] \in {"record", "unlink", "removeAnchor"}
    BY <2>1
  <2>2. CASE stage'[s] \notin {"record", "unlink", "removeAnchor"}
    <3>1. record = NoRecord /\ anchor # 0 /\ (Changes(s) \/ Idles(s))
      <4>1. ~Publishes(s)
        BY <1>2, <1>8 DEF Publishes
      <4>2. ~Amends(s)
        BY <1>3, <1>8 DEF Amends
      <4> QED
        BY <1>8, <2>2, <4>1, <4>2, FileStep DEF Discards, Changes, Unlinks, Idles
    <3>2. PICK u \in Session : stage[u] \in {"record", "unlink", "removeAnchor"}
      BY <1>1, <3>1 DEF JInv, Undisturbed
    <3>3. CASE u = s
      <4>1. stage[s] = "record" => guard = None /\ anchor = job[s].gen /\ payload = None
        <5>1. stage[s] = "record" => \A t \in Session : guard # t
          BY <1>2, Alone DEF Held
        <5> QED
          BY <1>2, <3>1, <5>1 DEF MakerInv
      <4> QED
        BY <1>1, <3>1, <3>2, <3>3, <4>1 DEF Changes, Idles
    <3> QED
      BY <1>2, <3>2, <3>3
  <2> QED
    BY <2>1, <2>2
<1>9. ASSUME record'.phase = "ready", \A u \in Session : stage'[u] \notin Held \ {"acquire"}
      PROVE  AtRest(record)'
  <2>1. CASE Amends(s)
    <3>1. \/ record'.active = None /\ record'.recovery = None
          \/ /\ stage[s] = "held" /\ record.phase = "ready"
             /\ record'.active = job[s].seen.active /\ record'.recovery = job[s].seen.recovery
      BY <1>9, <2>1 DEF Amends, Restores, Held
    <3>2. stage[s] = "held" /\ record.phase = "ready" =>
            /\ job[s].seen.recovery = None
            /\ job[s].seen.active # None => job[job[s].seen.active].op = "retire"
      BY <1>1 DEF JInv, Undisturbed, AtRest
    <3>3. job[s].seen.active \in Session \cup {None}
      BY <1>3 DEF JobType, Records, NoRecord, Owners
    <3> QED
      BY <1>4, <3>1, <3>2, <3>3 DEF AtRest
  <2>2. CASE Idles(s)
    <3>1. record' = record /\ record.active \in Session \cup {None}
      BY <1>3, <2>2 DEF Idles, Records, NoRecord, Owners
    <3>2. CASE stage[s] = "fence"
      <4>1. record.active = s /\ record.recovery = None /\ job[s].op = "retire"
        BY <1>2, <3>2 DEF GuardInv, CallInv, Held
      <4> QED
        BY <1>4, <3>1, <4>1 DEF AtRest
    <3>3. CASE stage[s] # "fence"
      <4>1. stage[s] \notin Held \ {"acquire"}
        BY <1>9, <2>2, <3>1, <3>3 DEF Idles, Held
      <4>2. \A u \in Session : stage[u] \notin Held \ {"acquire"}
        BY <1>2, <1>9, <4>1
      <4>3. /\ record.recovery = None
            /\ record.active # None => job[record.active].op = "retire"
        BY <1>1, <1>9, <3>1, <4>2 DEF JInv, Undisturbed, AtRest
      <4> QED
        BY <1>4, <3>1, <4>3 DEF AtRest
    <3> QED
      BY <3>2, <3>3
  <2>3. ~Changes(s)
    BY <1>9 DEF Changes, Held
  <2>4. ~Unlinks(s)
    BY <1>2, <1>9 DEF Unlinks, GuardInv
  <2>5. stage'[s] # "record"
    BY <1>2, <1>5, <1>9
  <2> QED
    BY <1>2, <1>9, <2>1, <2>2, <2>3, <2>4, <2>5, FileStep DEF Publishes, Discards
<1>10. ASSUME NEW t \in Session, stage'[t] = "held", record'.phase = "ready"
       PROVE  AtRest(job[t].seen)'
  <2>1. CASE t # s
    <3>1. stage[t] = "held" /\ job'[t] = job[t]
      BY <1>2, <1>10, <2>1
    <3>2. record' = record
      BY <2>1, <3>1, Excluded DEF Held
    <3>3. /\ job[t].seen.recovery = None
          /\ job[t].seen.active # None => job[job[t].seen.active].op = "retire"
      BY <1>1, <1>10, <3>1, <3>2 DEF JInv, Undisturbed, AtRest
    <3>4. job[t].seen.active \in Session \cup {None}
      BY <1>3 DEF JobType, Records, NoRecord, Owners
    <3> QED
      BY <1>4, <3>1, <3>3, <3>4 DEF AtRest
  <2>2. CASE t = s
    <3>1. stage[s] = "acquire" /\ job'[s].seen = record
      BY <1>10, <2>2, Arrives, Keeps
    <3>2. record.phase = "ready"
      BY <1>2, <1>10, <2>2, <3>1, FileStep DEF Publishes, Discards, Amends, Changes, Unlinks, Idles
    <3>3. \A u \in Session : stage[u] \notin Held \ {"acquire"}
      BY <1>2, <3>1 DEF Held
    <3>4. /\ record.recovery = None
          /\ record.active # None => job[record.active].op = "retire"
      BY <1>1, <3>2, <3>3 DEF JInv, Undisturbed, AtRest
    <3>5. record.active \in Session \cup {None}
      BY <1>3 DEF Records, NoRecord, Owners
    <3> QED
      BY <1>4, <2>2, <3>1, <3>4, <3>5 DEF AtRest
  <2> QED
    BY <2>1, <2>2
<1>11. ASSUME NEW t \in Session, stage'[t] = "release", record'.phase = "initializing"
       PROVE  ~job'[t].entered
  <2>1. CASE t # s
    <3>1. stage[t] = "release" /\ job'[t] = job[t]
      BY <1>2, <1>11, <2>1
    <3>2. record' = record
      BY <2>1, <3>1, Excluded DEF Held
    <3> QED
      BY <1>1, <1>11, <3>1, <3>2 DEF JInv, Undisturbed
  <2>2. CASE t = s
    <3>1. stage[s] = "write" => ~(record.phase = "initializing" /\ payload # None)
      BY <1>2 DEF JInv, FirstPublication, GuardInv, EffectInv, Held
    <3>2. ~Changes(s)
      BY <1>11, <2>2, <3>1 DEF Changes, Conflict
    <3>3. Idles(s)
      BY <1>2, <1>11, <2>2, <3>2, FileStep DEF Publishes, Discards, Amends, Unlinks
    <3>4. stage[s] = "release" => ~job[s].entered
      BY <1>1, <1>11, <3>3 DEF JInv, Undisturbed, Idles
    <3>5. stage[s] \in {"run", "fence"}
      BY <1>11, <2>2, <3>1, <3>3, <3>4, Arrives DEF Idles, Held
    <3> QED
      BY <1>2, <2>2, <3>5, Keeps DEF EffectInv
  <2> QED
    BY <2>1, <2>2
<1> QED
  BY <1>6, <1>7, <1>8, <1>9, <1>10, <1>11 DEF Undisturbed

---------------------------------------------------------------------------
(* The theorems. *)

(* The inductive invariant holds in a journal that is not there or idle. *)
LEMMA InvInit == JInit => JInv
<1> SUFFICES ASSUME JInit PROVE JInv
  OBVIOUS
<1>1. JTypeOK
  BY JTypeInit
<1>2. /\ \A s \in Session : stage[s] = "idle" /\ job[s] = NoJob
      /\ applied = {} /\ owed = None /\ None \notin Session /\ born \in {0, 1}
      /\ \/ anchor = 0 /\ record = NoRecord /\ payload = None /\ born = 0
         \/ /\ anchor = 1 /\ born = 1 /\ record.gen = 1 /\ record.phase = "ready"
            /\ record.active = None /\ record.recovery = None
  BY JournalAssumption DEF JInit
<1>3. /\ NoJob.op = "none" /\ NoJob.init = FALSE /\ NoJob.gen = 0 /\ NoJob.entered = FALSE
      /\ NoJob.absent = FALSE
      /\ NoRecord.gen = 0 /\ NoRecord.phase = "none"
      /\ NoRecord.active = None /\ NoRecord.recovery = None
  BY DEF NoJob, NoRecord
<1>4. Numbered
  <2>1. Cardinality(Makers) \in Nat
    <3>1. Makers = {}
      BY <1>2, <1>3 DEF Makers
    <3> QED
      BY <3>1, FS_EmptySet
  <2> QED
    BY <1>2, <1>3, <2>1 DEF Numbered
<1>5. \A s \in Session : CallInv(s) /\ EffectInv(s) /\ GuardInv(s) /\ MakerInv(s)
  BY <1>2, <1>3 DEF CallInv, EffectInv, GuardInv, MakerInv, Held
<1>6. FilesNest /\ Private /\ FirstPublication /\ Lineage
  BY <1>2, <1>3 DEF FilesNest, Private, FirstPublication, Lineage
<1>7. Undisturbed
  BY <1>2, <1>3 DEF Undisturbed, AtRest
<1> QED
  BY <1>1, <1>4, <1>5, <1>6, <1>7 DEF JInv

(* Every step keeps the inductive invariant. *)
LEMMA InvStep == JInv /\ [JNext]_jvars => JInv'
<1> SUFFICES ASSUME JInv, [JNext]_jvars PROVE JInv'
  OBVIOUS
<1>1. CASE JNext
  <2>1. PICK s \in Session : Call(s) \/ JStep(s) \/ Abort(s)
    BY <1>1 DEF JNext
  <2>2. JTypeOK' /\ Numbered'
    BY <2>1, TypeStep, NumberStep
  <2>3. \A t \in Session : CallInv(t)' /\ EffectInv(t)' /\ GuardInv(t)' /\ MakerInv(t)'
    BY <2>1, CallStep, GuardStep, MakerStep
  <2>4. FilesNest' /\ Private' /\ FirstPublication' /\ Lineage' /\ Undisturbed'
    BY <2>1, NestStep, PrivateStep, LineageStep, UndisturbedStep
  <2> QED
    BY <2>2, <2>3, <2>4 DEF JInv
<1>2. CASE UNCHANGED jvars
  <2>1. UNCHANGED <<anchor, record, payload, guard, born, stage, job, applied, owed, aborts>>
    BY <1>2 DEF jvars, disk
  <2>2. JTypeOK' /\ Numbered'
    BY <2>1 DEF JInv, JTypeOK, Numbered, Makers
  <2>3. \A t \in Session : CallInv(t)' /\ EffectInv(t)' /\ GuardInv(t)' /\ MakerInv(t)'
    BY <2>1 DEF JInv, CallInv, EffectInv, GuardInv, MakerInv
  <2>4. FilesNest' /\ Private' /\ FirstPublication' /\ Lineage' /\ Undisturbed'
    BY <2>1 DEF JInv, FilesNest, Private, FirstPublication, Lineage, Predecessor,
       Undisturbed, AtRest
  <2> QED
    BY <2>2, <2>3, <2>4 DEF JInv
<1> QED
  BY <1>1, <1>2

(* It is an invariant. *)
LEMMA Invariance == JSpec => []JInv
  BY InvInit, InvStep, PTL DEF JSpec

(* At every step of every interleaving the state is well typed, and a session *)
(* works under the guard exactly when its process has the anchor locked.      *)
THEOREM JournalTypes == JSpec => []JTypeOK
<1>1. JInv => JTypeOK
  BY DEF JInv
<1> QED
  BY <1>1, Invariance, PTL

(* The record names the session that works under the guard and the owner      *)
(* whose effects nobody has acknowledged, however many successors stopped or  *)
(* put the record back in between.                                            *)
THEOREM JournalOwners == JSpec => []OwnersAreRecorded
<1>1. JInv => OwnersAreRecorded
  <2> SUFFICES ASSUME JInv PROVE OwnersAreRecorded
    OBVIOUS
  <2>1. HolderIsRecorded
    BY DEF JInv, GuardInv, HolderIsRecorded
  <2>2. LineageSurvives
    BY DEF JInv, Lineage, LineageSurvives, Predecessor, Held
  <2> QED
    BY <2>1, <2>2 DEF OwnersAreRecorded
<1> QED
  BY <1>1, Invariance, PTL

(* The anchor, the record and the payload nest over every interruption, and   *)
(* without one the calls leave no half-made or half-removed journal.          *)
THEOREM JournalFiles == JSpec => []FilesAreSound
<1>1. JInv => FilesAreSound
  <2> SUFFICES ASSUME JInv PROVE FilesAreSound
    OBVIOUS
  <2>1. ASSUME aborts = 0, \A s \in Session : stage[s] \in {"idle", "ended"}
        PROVE  \/ anchor = 0 /\ record = NoRecord /\ payload = None
               \/ /\ record.phase = "ready" /\ record.recovery = None
                  /\ record.active = None \/ job[record.active].op = "retire"
    <3>1. record.phase \notin {"initializing", "retiring"} /\ ~(record = NoRecord /\ anchor # 0)
      BY <2>1 DEF JInv, Undisturbed
    <3>2. record.phase = "ready" =>
            record.recovery = None /\ (record.active = None \/ job[record.active].op = "retire")
      BY <2>1 DEF JInv, Undisturbed, AtRest, Held
    <3>3. record.phase \in {"initializing", "ready", "retiring"} \/ record = NoRecord
      BY DEF JInv, JTypeOK, Records
    <3>4. record = NoRecord => payload = None
      BY DEF JInv, FilesNest
    <3> QED
      BY <3>1, <3>2, <3>3, <3>4
  <2> QED
    BY <2>1 DEF JInv, FilesAreSound, QuiescentIsClean
<1> QED
  BY <1>1, Invariance, PTL

(* Nothing changes the files that an interrupted creation or retirement left: *)
(* no later session takes them for its own.                                   *)
THEOREM JournalResidue == JSpec => ResidueIsFrozen
<1>1. JInv /\ [JNext]_jvars => [Residue => UNCHANGED disk]_jvars
  <2> SUFFICES ASSUME JInv, JNext, Residue PROVE UNCHANGED disk
    OBVIOUS
  <2>1. PICK s \in Session : Call(s) \/ JStep(s) \/ Abort(s)
    BY DEF JNext
  <2>2. /\ anchor # 0 /\ record.phase # "ready"
        /\ job[s].gen = anchor =>
             IF job[s].init THEN stage[s] = "ended" ELSE stage[s] \notin Held \ {"acquire"}
    BY DEF Residue
  <2>3. CallInv(s) /\ GuardInv(s) /\ MakerInv(s)
    BY DEF JInv
  <2>4. stage[s] \notin Held \ {"acquire"} /\ stage[s] # "record"
    BY <2>2, <2>3 DEF CallInv, GuardInv, MakerInv, Held
  <2>5. stage[s] = "acquire" => ~Admissible(s)
    BY <2>2, <2>3 DEF GuardInv, Admissible, Held
  <2>6. stage'[s] # "record"
    BY <2>1, <2>2, Keeps
  <2>7. Idles(s)
    BY <2>1, <2>4, <2>5, <2>6, FileStep
       DEF Publishes, Discards, Amends, Changes, Unlinks, Held
  <2> QED
    BY <2>7 DEF Idles, disk
<1> QED
  BY <1>1, Invariance, PTL DEF JSpec, ResidueIsFrozen

---------------------------------------------------------------------------
(* The atomic journal. *)

(* A call answers in its last step, truthfully, and changes nothing in it. *)
LEMMA AnswerStep ==
  ASSUME JInv, NEW s \in Session, Call(s) \/ JStep(s) \/ Abort(s)
  PROVE  /\ stage[s] # "ended"
         /\ stage'[s] = "ended" =>
              /\ stage[s] # "idle" /\ UNCHANGED <<payload, applied>>
              /\ job'[s].answer \in {"true", "false", "error"}
              /\ job'[s].answer = "true" => s \in applied \/ job[s].op \in {"mutate", "probe"}
              /\ job'[s].answer = "false" => s \notin applied \/ job[s].op = "create"
<1>1. /\ s \in DOMAIN stage /\ \A p : [stage EXCEPT ![s] = p][s] = p
      /\ s \in DOMAIN job /\ \A j : [job EXCEPT ![s] = j][s] = j
      /\ job[s] \in JobType /\ EffectInv(s)
  BY DEF JInv, JTypeOK, JobType
<1> USE <1>1 DEF Go, Ends, Answers, JobType
<1>2. CASE \/ Begin(s) \/ Admit(s) \/ InitCheck(s) \/ PublishAnchor(s) \/ PublishRecord(s)
           \/ Lock(s) \/ AcquireLease(s)
  <2>1. /\ stage[s] \in {"begin", "admit", "check", "anchor", "record", "lock", "acquire"}
        /\ UNCHANGED <<payload, applied>>
    BY <1>2 DEF Begin, Admit, InitCheck, PublishAnchor, PublishRecord, Lock, AcquireLease, disk
  <2>2. stage'[s] = "ended" => job'[s].answer \in {"false", "error"}
    BY <1>2 DEF Begin, Admit, InitCheck, PublishAnchor, PublishRecord, Lock, AcquireLease
  <2> QED
    BY <2>1, <2>2 DEF EffectInv
<1>3. CASE \/ Call(s) \/ Acknowledge(s) \/ Run(s) \/ WritePayload(s) \/ WriteConflict(s)
           \/ WriteFails(s) \/ Complete(s) \/ CancelRecord(s) \/ RemovePayload(s)
           \/ RemoveRecord(s)
  BY <1>3 DEF Call, Acknowledge, Run, WritePayload, WriteConflict, WriteFails, Complete,
     CancelRecord, RemovePayload, RemoveRecord
<1>4. CASE DisposeUnrun(s) \/ ReleaseResidue(s) \/ RetireFence(s) \/ Abort(s)
  BY <1>4 DEF DisposeUnrun, ReleaseResidue, RetireFence, Abort, disk
<1>5. CASE ReleaseReady(s) \/ CancelAnchor(s) \/ RemoveAnchor(s)
  BY <1>5 DEF ReleaseReady, CancelAnchor, RemoveAnchor, EffectInv
<1> QED
  BY <1>2, <1>3, <1>4, <1>5 DEF JStep

\* The call of s takes effect.
TakesEffect(s) ==
  /\ s \notin applied /\ applied' = applied \cup {s} /\ payload' = New(s)
  /\ \/ job[s].op = "cas" /\ payload = job[s].want
     \/ job[s].op = "create" /\ payload = None
     \/ job[s].op = "mutate"
     \/ job[s].op \in {"delete", "retire"} /\ payload = job[s].want /\ payload # None
     \/ job[s].op = "remove" /\ payload # None

(* A call changes the payload once, from the value it expects. *)
LEMMA EffectStep ==
  ASSUME JInv, NEW s \in Session, Call(s) \/ JStep(s) \/ Abort(s)
  PROVE  UNCHANGED <<payload, applied>> \/ TakesEffect(s)
<1>1. /\ CallInv(s) /\ EffectInv(s) /\ GuardInv(s)
      /\ job[s].op \in Operations \cup {"none"}
  BY DEF JInv, JTypeOK
<1>2. CASE WritePayload(s) \/ WriteFails(s)
  <2>1. /\ stage[s] = "write" /\ ~Conflict(s)
        /\ UNCHANGED <<payload, applied>> \/ (payload' = New(s) /\ applied' = applied \cup {s})
    BY <1>2 DEF WritePayload, WriteFails
  <2>2. s \notin applied /\ job[s].op \in {"cas", "create", "mutate", "delete", "remove"}
    BY <1>1, <2>1 DEF CallInv, EffectInv, Operations
  <2>3. /\ job[s].op \in {"cas", "delete"} => payload = job[s].want
        /\ job[s].op \in {"delete", "remove"} => payload # None
        /\ job[s].op = "create" => payload = None
    BY <1>1, <2>1 DEF CallInv, GuardInv, Conflict, Exclusive
  <2> QED
    BY <2>1, <2>2, <2>3 DEF TakesEffect
<1>3. CASE RemovePayload(s)
  BY <1>1, <1>3 DEF RemovePayload, TakesEffect, CallInv, EffectInv, GuardInv, New, Creating
<1>4. CASE \/ Call(s) \/ Begin(s) \/ Admit(s) \/ InitCheck(s) \/ PublishAnchor(s)
           \/ PublishRecord(s) \/ Lock(s) \/ AcquireLease(s) \/ Acknowledge(s) \/ DisposeUnrun(s)
  BY <1>4 DEF Call, Begin, Admit, InitCheck, PublishAnchor, PublishRecord, Lock, AcquireLease,
     Acknowledge, DisposeUnrun, disk
<1>5. CASE \/ Run(s) \/ WriteConflict(s) \/ Complete(s) \/ ReleaseReady(s) \/ CancelRecord(s)
           \/ CancelAnchor(s) \/ ReleaseResidue(s) \/ RetireFence(s) \/ RemoveRecord(s)
           \/ RemoveAnchor(s) \/ Abort(s)
  BY <1>5 DEF Run, WriteConflict, Complete, ReleaseReady, CancelRecord, CancelAnchor,
     ReleaseResidue, RetireFence, RemoveRecord, RemoveAnchor, Abort, disk
<1> QED
  BY <1>2, <1>3, <1>4, <1>5 DEF JStep

(* Every step is a call, an effect or an answer of the atomic journal, or     *)
(* none of them.                                                              *)
LEMMA AtomicStep ==
  ASSUME JInv, NEW s \in Session, Call(s) \/ JStep(s) \/ Abort(s)
  PROVE  Atomic!ANext \/ UNCHANGED Atomic!avars
<1>1. /\ \A t \in Session \ {s} : stage'[t] = stage[t] /\ job'[t] = job[t]
      /\ job \in [Session -> JobType]
      /\ stage[s] = "idle" <=> job[s].op = "none"
  BY Frame DEF JInv, JTypeOK, JobType, CallInv
<1> DEFINE op == [t \in Session |-> job[t].op]
           want == [t \in Session |-> job[t].want]
           reply == [t \in Session |-> IF stage[t] = "ended" THEN job[t].answer ELSE "none"]
<1>2. CASE Call(s)
  <2>1. PICK o \in Operations :
          job' = [job EXCEPT ![s] = [NoJob EXCEPT !.op = o, !.want = payload]]
    BY <1>2 DEF Call
  <2>2. job'[s].op = o /\ job'[s].want = payload
    <3>1. job'[s] = [NoJob EXCEPT !.op = o, !.want = payload]
      BY <1>1, <2>1
    <3> QED
      BY <3>1 DEF NoJob
  <2>3. stage[s] = "idle" /\ stage'[s] = "begin" /\ UNCHANGED <<payload, applied>>
    BY <1>2 DEF Call, Go, disk, JInv, JTypeOK
  <2>4. op' = [op EXCEPT ![s] = o] /\ want' = [want EXCEPT ![s] = payload] /\ reply' = reply
    BY <1>1, <2>2, <2>3
  <2>5. op[s] = "none" /\ o \in Atomic!Operations
    BY <1>1, <2>3 DEF Operations, Atomic!Operations
  <2>6. Atomic!ACall(s)
    BY <2>3, <2>4, <2>5 DEF Atomic!ACall
  <2> QED
    BY <2>6 DEF Atomic!ANext
<1>3. CASE ~Call(s)
  <2>1. stage[s] # "idle"
    BY <1>3 DEF JStep, Begin, Admit, InitCheck, PublishAnchor, PublishRecord, Lock, AcquireLease,
         Acknowledge, DisposeUnrun, Run, WritePayload, WriteConflict, WriteFails, Complete,
         ReleaseReady, CancelRecord, CancelAnchor, ReleaseResidue, RetireFence,
         RemovePayload, RemoveRecord, RemoveAnchor, Abort
  <2>2. op' = op /\ want' = want /\ op[s] = job[s].op /\ op[s] # "none"
    <3>1. job'[s].op = job[s].op /\ job'[s].want = job[s].want
      BY <2>1, Keeps
    <3> QED
      BY <1>1, <2>1, <3>1
  <2>3. want[s] = job[s].want
    OBVIOUS
  <2>4. reply[s] = "none"
    BY AnswerStep
  <2>5. CASE stage'[s] = "ended"
    <3>1. PICK a \in {"true", "false", "error"} : job'[s].answer = a
      BY <2>5, AnswerStep
    <3>2. /\ a = "true" => s \in applied \/ op[s] \in {"mutate", "probe"}
          /\ a = "false" => s \notin applied \/ op[s] = "create"
          /\ UNCHANGED <<payload, applied>>
      BY <2>2, <2>5, <3>1, AnswerStep
    <3>3. reply' = [reply EXCEPT ![s] = a]
      BY <1>1, <2>5, <3>1
    <3>4. Atomic!AReply(s)
      BY <2>2, <2>4, <3>2, <3>3 DEF Atomic!AReply
    <3> QED
      BY <3>4 DEF Atomic!ANext
  <2>6. CASE stage'[s] # "ended"
    <3>1. reply' = reply
      BY <1>1, <2>6, AnswerStep
    <3>2. CASE UNCHANGED <<payload, applied>>
      BY <2>2, <3>1, <3>2 DEF Atomic!avars
    <3>3. CASE TakesEffect(s)
      <4>1. Atomic!Expected(s)
        BY <2>2, <2>3, <3>3 DEF Atomic!Expected, TakesEffect
      <4>2. payload' = Atomic!Result(s)
        BY <2>2, <3>3 DEF Atomic!Result, TakesEffect, New, Creating
      <4>3. Atomic!AApply(s)
        BY <2>2, <2>4, <3>1, <3>3, <4>1, <4>2 DEF Atomic!AApply, TakesEffect
      <4> QED
        BY <4>3 DEF Atomic!ANext
    <3> QED
      BY <3>2, <3>3, EffectStep
  <2> QED
    BY <2>5, <2>6
<1> QED
  BY <1>2, <1>3

(* The guarded protocol, with its interruptions, implements a journal whose   *)
(* calls each take effect at most once, in one step, from the value they      *)
(* expect, and answer as they did.                                            *)
THEOREM JournalIsAtomic == JSpec => ImplementsAtomicJournal
<1>1. JInit => Atomic!AInit
  BY DEF JInit, Atomic!AInit, NoJob
<1>2. JInv /\ [JNext]_jvars => [Atomic!ANext]_(Atomic!avars)
  <2> SUFFICES ASSUME JInv, [JNext]_jvars PROVE Atomic!ANext \/ UNCHANGED Atomic!avars
    OBVIOUS
  <2>1. CASE JNext
    BY <2>1, AtomicStep DEF JNext
  <2>2. CASE UNCHANGED jvars
    BY <2>2 DEF jvars, disk, Atomic!avars
  <2> QED
    BY <2>1, <2>2
<1> QED
  BY <1>1, <1>2, Invariance, PTL DEF JSpec, ImplementsAtomicJournal, Atomic!ASpec
=============================================================================
