------------------------- MODULE RecoveryLedgersProofs -------------------------
(***************************************************************************)
(* Proofs about ContainerReadiness, for any number of processes, bound     *)
(* operations, records and stops, and about the specification that joins   *)
(* it with UpgradeApply: what an attempt to start the engine leaves in its *)
(* journal is enough to recover it, and no call goes around the journal.   *)
(*                                                                         *)
(* A journal is described by its records, not by its history (Lawful); a   *)
(* call between the check and the swap of an append by what holds as long  *)
(* as the journal is as it was read (Pending).                             *)
(***************************************************************************)
EXTENDS MCRecoveryLedgers, UpgradeApplyProofs, SequenceTheorems

-----------------------------------------------------------------------------
(* Journals.                                                               *)

\* What observeDurableExecutionJournal makes of the records it accepts: an
\* intent, then attempts one after the other, each noted and read back once.
Lawful(j) ==
  /\ j \in Seq(DurableRecords)
  /\ \A i \in 1..Len(j) : i = 1 \/ \E s \in Places(j, "start") : s <= i
  /\ \A i \in Places(j, "start") \cup Places(j, "readback") : i # 1
  /\ \A i1, i2 \in Active(j) : i1 = i2
  /\ Settled(j) => ~IsActive(j)
  /\ \A kind \in {"settlement", "lost", "readback"} :
       \A k1, k2 \in Noted(j, kind) : k1 = k2
  /\ \A i \in Places(j, "resolution") : j[i].ref # NoNonce

Justified(j) ==
  \A i \in Places(j, "start") :
    i > 2 => /\ \A r \in Places(j, "readback") : r < i => j[r].mode = "not-applied"
             /\ \E r \in Places(j, "readback") : r < i /\ j[r].ref = j[i].ref

Journals ==
  /\ durable \in [Ops -> Seq(DurableRecords)]
  /\ \A k \in Ops :
       /\ Lawful(durable[k]) /\ Justified(durable[k])
       /\ IsActive(durable[k]) => WithinLimits(durable[k])
       /\ k > 1 /\ durable[k] # <<>> => Settled(durable[k - 1])

HasStart(k, n) == \E i \in Places(durable[k], "start") : durable[k][i].by = n
NotRead(n) == \A k \in Ops : \A r \in Places(durable[k], "readback") : durable[k][r].ref # n

-----------------------------------------------------------------------------
(* Calls.                                                                  *)

CallRecord ==
  [at : Stations, op : Ops, nonce : Nonces \cup {NoNonce}, before : Nonces \cup {NoNonce},
   claimed : BOOLEAN, recs : Seq(DurableRecords), length : 0..MaxRecords, next : Stations,
   answer : Outcomes]

\* The station a call is at, or comes to when its append succeeds.
Toward(c) == IF At(c, "commit") THEN call[c].next ELSE call[c].at

\* What the records of an append tell by the station it leads to: a readback
\* is issued by the call itself; an attempt is the first one, or follows the
\* resolution of the one before in the same append.
FitsStation(recs, nonce, next) ==
  /\ \/ Len(recs) = 1 /\ (recs[1].kind = "start" => recs[1].ref = NoNonce)
     \/ /\ Len(recs) = 2
        /\ recs[1].kind = "resolution" /\ recs[1].mode = "retry"
        /\ recs[2].kind = "start" /\ recs[2].ref = recs[1].ref
  /\ \A i \in 1..Len(recs) :
       /\ recs[i].kind # "intent"
       /\ recs[i].kind = "resolution" => recs[i].ref # NoNonce
       /\ recs[i].kind = "readback" =>
            recs[i].ref = nonce /\ (next = "verdictDown" => recs[i].mode = "not-applied")
  /\ next \in {"launch", "ensure"} =>
       recs[Len(recs)].kind = "start" /\ recs[Len(recs)].by = nonce
  /\ next = "successor" => recs[1].kind = "resolution" /\ recs[1].mode = "terminal"

\* A second attempt is let in only where no readback found the first applied.
Acceptable(j, recs) ==
  /\ AllowsAll(j, recs) /\ WithinLimits(j \o recs)
  /\ Len(recs) = 2 => \A r \in Places(j, "readback") : j[r].mode = "not-applied"

\* An append that has been checked but not made: the check still tells of the
\* journal unless that has grown.
Pending(c) ==
  /\ FitsStation(call[c].recs, call[c].nonce, call[c].next)
  /\ call[c].length <= Len(Journal(c))
  /\ Len(Journal(c)) = call[c].length => Acceptable(Journal(c), call[c].recs)

Reached == {"verdictUp", "verdictDown", "successor", "return", "ensure", "launch", "final",
            "lost", "abandon", "report", "close"}
Recovering == {"recover", "verdictUp", "verdictDown"}
Early == {"read", "prepared", "settled", "successor"} \cup Recovering
Unlaunched == Early \cup {"ensure", "locked", "intent", "start", "launch"}
UnderLock == {"locked", "intent", "start", "launch", "launched", "reported", "lost", "abandon",
              "final"}

CallInv(c) ==
  /\ At(c, "idle") => call[c].nonce = NoNonce /\ ~call[c].claimed
  /\ ~At(c, "idle") => call[c].nonce # NoNonce
  /\ At(c, "commit") => call[c].next \in Reached /\ Pending(c)
  /\ call[c].op > 1 => Settled(durable[call[c].op - 1])
  /\ call[c].at \in {"settled", "successor"} => Settled(Journal(c))
  /\ Toward(c) \in Recovering => call[c].before # NoNonce
  /\ Toward(c) \in Early => ~call[c].claimed
  /\ Toward(c) \in Unlaunched => call[c].nonce \notin launched
  /\ Toward(c) \in UnderLock => launcher = c
  /\ At(c, "launch") => HasStart(call[c].op, call[c].nonce)
  /\ call[c].at \in {"ensure", "locked"} /\ call[c].claimed => HasStart(call[c].op, call[c].nonce)
  /\ call[c].at \in {"read", "recover"} => NotRead(call[c].nonce)
  /\ At(c, "commit") /\ call[c].next = "verdictDown" => NotRead(call[c].nonce)
  /\ At(c, "verdictDown") =>
       \A r \in Places(Journal(c), "readback") :
         Journal(c)[r].ref = call[c].nonce => Journal(c)[r].mode = "not-applied"
  /\ call[c].answer # "noRoom"

Owners == Caller \cup {NoCaller, DeadCaller}

ReadTypes ==
  /\ call \in [Caller -> CallRecord]
  /\ launcher \in Owners
  /\ launched \subseteq Nonces
  /\ stops \in 0..MaxStops

\* Nonces tell calls apart, and a launched one is in a journal.
Nonced ==
  /\ \A c, d \in Caller : call[c].nonce = call[d].nonce /\ c # d => At(c, "idle")
  /\ \A n \in launched : \E k \in Ops : HasStart(k, n)

ReadInv == ReadTypes /\ Journals /\ Nonced /\ \A c \in Caller : CallInv(c)

-----------------------------------------------------------------------------
(* One more record.                                                        *)

Notes == {"settlement", "lost", "readback"}

\* Journal m is j and the record r.
Extends(m, j, r) ==
  /\ m \in Seq(DurableRecords) /\ Len(m) = Len(j) + 1
  /\ \A i \in 1..Len(j) : m[i] = j[i]
  /\ m[Len(j) + 1] = r

\* A place of a journal is a number up to its length.
LEMMA PlaceFacts ==
  ASSUME NEW j \in Seq(DurableRecords), NEW kind
  PROVE  /\ Len(j) \in Nat
         /\ \A i \in Places(j, kind) : i \in Nat /\ 1 <= i /\ i <= Len(j) /\ j[i].kind = kind
         /\ \A i \in 1..Len(j) : i \in Places(j, kind) <=> j[i].kind = kind
  BY DEF Places

\* The places of a longer journal.
LEMMA PlacesExtend ==
  ASSUME NEW j \in Seq(DurableRecords), NEW r \in DurableRecords, NEW m, Extends(m, j, r),
         NEW kind
  PROVE  /\ r.kind = kind => Places(m, kind) = Places(j, kind) \cup {Len(j) + 1}
         /\ r.kind # kind => Places(m, kind) = Places(j, kind)
<1>1. Len(j) \in Nat /\ 1..Len(m) = (1..Len(j)) \cup {Len(j) + 1}
  BY DEF Extends
<1> QED
  BY <1>1 DEF Places, Extends

\* A resolution ends the active attempt, a start begins one, any other record
\* leaves it.
LEMMA ActiveExtend ==
  ASSUME NEW j \in Seq(DurableRecords), NEW r \in DurableRecords, NEW m, Extends(m, j, r)
  PROVE  /\ r.kind = "resolution" => Active(m) = {}
         /\ r.kind = "start" /\ ~IsActive(j) => Active(m) = {Len(j) + 1}
         /\ r.kind \notin {"resolution", "start"} => Active(m) = Active(j)
<1> DEFINE s == Places(j, "start")
           e == Places(j, "resolution")
<1>1. Len(j) \in Nat /\ \A i \in s \cup e : i \in Nat /\ i <= Len(j)
  BY PlaceFacts
<1>p. \A kind \in {"start", "resolution"} :
        /\ r.kind = kind => Places(m, kind) = Places(j, kind) \cup {Len(j) + 1}
        /\ r.kind # kind => Places(m, kind) = Places(j, kind)
  <2> TAKE kind \in {"start", "resolution"}
  <2> QED
    BY PlacesExtend, SMTT(30)
<1>2. ASSUME r.kind = "resolution" PROVE Active(m) = {}
  <2>1. Places(m, "start") = s /\ Places(m, "resolution") = e \cup {Len(j) + 1}
    BY <1>2, <1>p
  <2> HIDE DEF s, e
  <2> QED
    BY <1>1, <2>1 DEF Active
<1>3. ASSUME r.kind = "start", ~IsActive(j) PROVE Active(m) = {Len(j) + 1}
  <2>1. Places(m, "start") = s \cup {Len(j) + 1}
    BY <1>3, <1>p
  <2>2. Places(m, "resolution") = e
    BY <1>3, <1>p
  <2>3. \A i \in s : ~(\A k \in e : k < i)
    BY <1>3 DEF IsActive, Active
  <2> HIDE DEF s, e
  <2> QED
    BY <1>1, <2>1, <2>2, <2>3 DEF Active
<1>4. ASSUME r.kind \notin {"resolution", "start"} PROVE Active(m) = Active(j)
  <2>1. Places(m, "start") = s /\ Places(m, "resolution") = e
    BY <1>4, <1>p
  <2> QED
    BY <2>1 DEF Active
<1> QED
  BY <1>2, <1>3, <1>4

\* A new or resolved attempt has nothing noted; another record is noted of the
\* active attempt.
LEMMA NotedExtend ==
  ASSUME NEW j \in Seq(DurableRecords), NEW r \in DurableRecords, NEW m, Extends(m, j, r),
         NEW kind \in Notes
  PROVE  /\ r.kind = "resolution" => Noted(m, kind) = {}
         /\ r.kind = "start" /\ ~IsActive(j) => Noted(m, kind) = {}
         /\ r.kind = kind /\ IsActive(j) => Noted(m, kind) = Noted(j, kind) \cup {Len(j) + 1}
         /\ r.kind \in Notes /\ r.kind # kind => Noted(m, kind) = Noted(j, kind)
<1> DEFINE p == Places(j, kind)
           a == Active(j)
<1>0. Len(j) \in Nat /\ (\A i \in p : i \in Nat /\ i <= Len(j))
      /\ \A i \in a : i \in Nat /\ i <= Len(j)
  BY PlaceFacts DEF Active
<1>p. /\ r.kind = kind => Places(m, kind) = p \cup {Len(j) + 1}
      /\ r.kind # kind => Places(m, kind) = p
  BY PlacesExtend
<1>a. /\ r.kind = "resolution" => Active(m) = {}
      /\ r.kind = "start" /\ ~IsActive(j) => Active(m) = {Len(j) + 1}
      /\ r.kind \notin {"resolution", "start"} => Active(m) = a
  BY ActiveExtend
<1>k. kind \notin {"resolution", "start"}
  BY DEF Notes
<1>1. ASSUME r.kind = "resolution" PROVE Noted(m, kind) = {}
  BY <1>1, <1>a DEF Noted
<1>2. ASSUME r.kind = "start", ~IsActive(j) PROVE Noted(m, kind) = {}
  <2>1. Active(m) = {Len(j) + 1} /\ Places(m, kind) = p
    BY <1>2, <1>a, <1>p, <1>k
  <2> HIDE DEF p
  <2> QED
    BY <2>1, <1>0 DEF Noted
<1>3. ASSUME r.kind = kind, IsActive(j) PROVE Noted(m, kind) = Noted(j, kind) \cup {Len(j) + 1}
  <2>1. Active(m) = a /\ Places(m, kind) = p \cup {Len(j) + 1}
    BY <1>3, <1>a, <1>p, <1>k
  <2>2. Noted(j, kind) = {k \in p : \E i \in a : i < k}
    BY DEF Noted
  <2>3. Noted(m, kind) = {k \in p \cup {Len(j) + 1} : \E i \in a : i < k}
    BY <2>1 DEF Noted
  <2>4. \E i \in a : i < Len(j) + 1
    BY <1>0, <1>3 DEF IsActive
  <2> HIDE DEF p, a
  <2> QED
    BY <2>2, <2>3, <2>4
<1>4. ASSUME r.kind \in Notes, r.kind # kind PROVE Noted(m, kind) = Noted(j, kind)
  <2>1. Active(m) = a /\ Places(m, kind) = p
    BY <1>4, <1>a, <1>p DEF Notes
  <2> QED
    BY <2>1 DEF Noted
<1> QED
  BY <1>1, <1>2, <1>3, <1>4

\* A terminal resolution settles a journal for good.
LEMMA SettledExtend ==
  ASSUME NEW j \in Seq(DurableRecords), NEW r \in DurableRecords, NEW m, Extends(m, j, r)
  PROVE  Settled(m) <=> Settled(j) \/ (r.kind = "resolution" /\ r.mode = "terminal")
<1>1. /\ \A k \in Places(j, "resolution") : m[k] = j[k]
      /\ m[Len(j) + 1] = r
  BY DEF Extends, Places
<1>2. /\ r.kind = "resolution" =>
           Places(m, "resolution") = Places(j, "resolution") \cup {Len(j) + 1}
      /\ r.kind # "resolution" => Places(m, "resolution") = Places(j, "resolution")
  BY PlacesExtend
<1> QED
  BY <1>1, <1>2 DEF Settled

\* The checks of the journal keep it lawful.
LEMMA LawfulExtend ==
  ASSUME NEW j, Lawful(j), NEW r \in DurableRecords, NEW m, Extends(m, j, r), Allows(j, r),
         r.kind = "resolution" => r.ref # NoNonce
  PROVE  Lawful(m)
<1>0. j \in Seq(DurableRecords) /\ Len(j) \in Nat /\ r.kind \in Kinds
      /\ 1..Len(m) = (1..Len(j)) \cup {Len(j) + 1}
      /\ \A kind : \A i \in Places(j, kind) : i \in 1..Len(j)
  BY DEF Lawful, DurableRecords, Extends, Places
<1>j. j = <<>> <=> Len(j) = 0
  BY <1>0
<1>a. r.kind \in Notes \cup {"resolution"} => IsActive(j)
  BY DEF Allows, Targets, IsActive, Notes
<1>i. r.kind = "intent" => Len(j) = 0
  BY <1>j DEF Allows
<1>s. r.kind = "start" => Len(j) # 0 /\ ~IsActive(j) /\ ~Settled(j)
  BY <1>j DEF Allows
<1>1. \A i \in 1..Len(m) : i = 1 \/ \E s \in Places(m, "start") : s <= i
  <2> TAKE i \in 1..Len(m)
  <2>0. Places(j, "start") \subseteq Places(m, "start")
    BY <1>0, PlacesExtend
  <2>1. CASE i \in 1..Len(j)
    BY <2>0, <2>1 DEF Lawful
  <2>2. CASE i = Len(j) + 1 /\ r.kind = "start"
    BY <2>2, <1>0, PlacesExtend
  <2>3. CASE i = Len(j) + 1 /\ r.kind = "intent"
    BY <2>3, <1>i, <1>0
  <2>4. CASE i = Len(j) + 1 /\ r.kind \in Notes \cup {"resolution"}
    <3>1. PICK s \in Places(j, "start") : TRUE
      BY <2>4, <1>a DEF IsActive, Active
    <3>2. s \in 1..Len(j)
      BY <1>0
    <3> QED
      BY <2>0, <2>4, <3>1, <3>2, <1>0
  <2> QED
    BY <1>0, <2>1, <2>2, <2>3, <2>4 DEF Kinds, Notes
<1>2. \A i \in Places(m, "start") \cup Places(m, "readback") : i # 1
  <2>1. r.kind \in {"start", "readback"} => Len(j) + 1 # 1
    <3>1. IsActive(j) => Len(j) # 0
      BY <1>0 DEF IsActive, Active
    <3> QED
      BY <1>a, <1>s, <1>0, <3>1 DEF Notes
  <2> QED
    BY <2>1, <1>0, PlacesExtend DEF Lawful
<1>3. \A i1, i2 \in Active(m) : i1 = i2
  BY <1>0, <1>s, ActiveExtend DEF Lawful
<1>4. Settled(m) => ~IsActive(m)
  <2>1. CASE r.kind = "resolution"
    BY <2>1, <1>0, ActiveExtend DEF IsActive
  <2>2. CASE r.kind = "start"
    BY <2>2, <1>0, <1>s, SettledExtend
  <2>3. CASE r.kind \notin {"resolution", "start"}
    BY <2>3, <1>0, ActiveExtend, SettledExtend DEF IsActive, Lawful
  <2> QED
    BY <2>1, <2>2, <2>3
<1>5. ASSUME NEW kind \in Notes PROVE \A k1, k2 \in Noted(m, kind) : k1 = k2
  <2>1. CASE r.kind \in {"resolution", "start"}
    BY <2>1, <1>0, <1>s, NotedExtend
  <2>2. CASE r.kind = "intent"
    <3>1. Places(m, "start") = Places(j, "start")
      BY <2>2, <1>0, PlacesExtend
    <3>2. Places(j, "start") = {}
      BY <2>2, <1>0, <1>i
    <3> QED
      BY <3>1, <3>2 DEF Noted, Active
  <2>3. CASE r.kind \in Notes /\ r.kind # kind
    BY <2>3, <1>0, NotedExtend DEF Lawful, Notes
  <2>4. CASE r.kind = kind
    <3>1. Noted(j, kind) = {}
      BY <2>4 DEF Allows, Notes
    <3> QED
      BY <2>4, <3>1, <1>0, <1>a, NotedExtend
  <2> QED
    BY <1>0, <2>1, <2>2, <2>3, <2>4 DEF Kinds, Notes
<1>6. \A i \in Places(m, "resolution") : m[i].ref # NoNonce
  <2> TAKE i \in Places(m, "resolution")
  <2>1. CASE i \in Places(j, "resolution")
    BY <2>1, <1>0 DEF Lawful, Extends
  <2>2. CASE i \notin Places(j, "resolution")
    <3>1. /\ r.kind = "resolution" =>
               Places(m, "resolution") = Places(j, "resolution") \cup {Len(j) + 1}
          /\ r.kind # "resolution" => Places(m, "resolution") = Places(j, "resolution")
      BY <1>0, PlacesExtend
    <3>2. r.kind = "resolution" /\ i = Len(j) + 1
      BY <2>2, <3>1
    <3> QED
      BY <3>2 DEF Extends
  <2> QED
    BY <2>1, <2>2
<1> QED
  BY <1>1, <1>2, <1>3, <1>4, <1>5, <1>6 DEF Lawful, Notes, Extends

\* Of each kind at most one record is noted of the active attempt.
LEMMA NotedCount ==
  ASSUME NEW j, Lawful(j), NEW kind \in Notes
  PROVE  /\ Noted(j, kind) = {} => Cardinality(Noted(j, kind)) = 0
         /\ Noted(j, kind) # {} => Cardinality(Noted(j, kind)) = 1
<1>1. ASSUME NEW k \in Noted(j, kind) PROVE Noted(j, kind) = {k}
  BY DEF Lawful, Notes
<1> QED
  BY <1>1, FS_EmptySet, FS_Singleton

\* What an active attempt still has to write was reserved when it began:
\* writing it stays within the limits.
LEMMA WithinExtend ==
  ASSUME NEW j, Lawful(j), IsActive(j), WithinLimits(j), NEW r \in DurableRecords, NEW m,
         Extends(m, j, r), Allows(j, r), r.kind \in Notes \cup {"resolution"},
         r.kind = "resolution" => r.ref # NoNonce
  PROVE  WithinLimits(m)
<1>0. j \in Seq(DurableRecords) /\ Len(j) \in Nat /\ Len(m) = Len(j) + 1 /\ MaxRecords \in Nat
  BY ReadinessAssumption DEF Lawful, Extends
<1>m. Lawful(m)
  BY LawfulExtend
<1>s. Places(m, "start") = Places(j, "start")
  BY <1>0, PlacesExtend DEF Notes
<1>c. \A kind \in Notes : /\ Noted(j, kind) = {} => Cardinality(Noted(j, kind)) = 0
                          /\ Noted(j, kind) # {} => Cardinality(Noted(j, kind)) = 1
                          /\ Noted(m, kind) = {} => Cardinality(Noted(m, kind)) = 0
                          /\ Noted(m, kind) # {} => Cardinality(Noted(m, kind)) = 1
  BY <1>m, NotedCount
<1>1. CASE r.kind = "resolution"
  <2>1. Reserved(m) = 0
    BY <1>1, <1>0, ActiveExtend DEF Reserved, IsActive
  <2>2. Reserved(j) >= 1 /\ Reserved(j) \in Nat
    BY <1>c DEF Reserved, Notes
  <2> QED
    BY <2>1, <2>2, <1>0, <1>s DEF WithinLimits
<1>2. CASE r.kind \in Notes
  <2>1. IsActive(m)
    BY <1>2, <1>0, ActiveExtend DEF IsActive, Notes
  <2>2. \A kind \in Notes : r.kind # kind => Noted(m, kind) = Noted(j, kind)
    BY <1>2, <1>0, NotedExtend
  <2>3. Noted(m, r.kind) # {}
    <3>1. Noted(m, r.kind) = Noted(j, r.kind) \cup {Len(j) + 1}
      BY <1>2, <1>0, NotedExtend
    <3> QED
      BY <3>1
  <2>4. CASE r.kind = "settlement"
    <3>1. Noted(j, "settlement") = {} /\ Noted(j, "lost") = {} /\ Noted(j, "readback") = {}
      BY <2>4 DEF Allows
    <3> QED
      BY <2>1, <2>2, <2>3, <2>4, <3>1, <1>c, <1>0, <1>s DEF Reserved, WithinLimits, Notes
  <2>5. CASE r.kind = "lost"
    <3>1. Noted(j, "lost") = {} /\ Noted(j, "readback") = {}
      BY <2>5 DEF Allows
    <3> QED
      BY <2>1, <2>2, <2>3, <2>5, <3>1, <1>c, <1>0, <1>s DEF Reserved, WithinLimits, Notes
  <2>6. CASE r.kind = "readback"
    <3>1. Noted(j, "readback") = {}
      BY <2>6 DEF Allows
    <3> QED
      BY <2>1, <2>2, <2>3, <2>6, <3>1, <1>c, <1>0, <1>s DEF Reserved, WithinLimits, Notes
  <2> QED
    BY <1>2, <2>4, <2>5, <2>6 DEF Notes
<1> QED
  BY <1>1, <1>2

\* A record that starts no attempt leaves the attempts justified; one that
\* does is the first, or follows readbacks that all found no effect.
LEMMA JustifiedExtend ==
  ASSUME NEW j \in Seq(DurableRecords), Justified(j), NEW r \in DurableRecords, NEW m,
         Extends(m, j, r),
         r.kind = "start" => \/ Len(j) = 1
                             \/ /\ \A i \in Places(j, "readback") : j[i].mode = "not-applied"
                                /\ \E i \in Places(j, "readback") : j[i].ref = r.ref
  PROVE  Justified(m)
<1>0. Len(j) \in Nat /\ m[Len(j) + 1] = r
  BY DEF Extends
<1>q. \A i \in Places(j, "start") \cup Places(j, "readback") :
        i \in Nat /\ i <= Len(j) /\ m[i] = j[i]
  BY DEF Extends, Places
<1>p. \A kind \in {"start", "readback"} :
        /\ r.kind = kind => Places(m, kind) = Places(j, kind) \cup {Len(j) + 1}
        /\ r.kind # kind => Places(m, kind) = Places(j, kind)
  <2> TAKE kind \in {"start", "readback"}
  <2> QED
    BY PlacesExtend
<1>h. SUFFICES ASSUME NEW i \in Places(m, "start"), i > 2
             PROVE  /\ \A k \in Places(m, "readback") : k < i => m[k].mode = "not-applied"
                    /\ \E k \in Places(m, "readback") : k < i /\ m[k].ref = m[i].ref
  BY DEF Justified
<1>b. /\ Places(j, "readback") \subseteq Places(m, "readback")
      /\ \A k \in Places(m, "readback") : k \in Places(j, "readback") \/ k = Len(j) + 1
  BY <1>p
<1>1. CASE i \in Places(j, "start")
  <2>1. \A k \in Places(m, "readback") : k < i => k \in Places(j, "readback")
    BY <1>1, <1>0, <1>q, <1>b
  <2>2. /\ \A k \in Places(j, "readback") : k < i => j[k].mode = "not-applied"
        /\ \E k \in Places(j, "readback") : k < i /\ j[k].ref = j[i].ref
    BY <1>1, <1>h DEF Justified
  <2> QED
    BY <1>1, <2>1, <2>2, <1>q, <1>b
<1>2. CASE i \notin Places(j, "start")
  <2>1. i = Len(j) + 1 /\ r.kind = "start"
    BY <1>2, <1>p
  <2>2. Places(m, "readback") = Places(j, "readback")
    BY <2>1, <1>p
  <2>h. i > 2
    BY <1>h
  <2>3. Len(j) # 1
    <3>1. \A n \in Nat : n + 1 > 2 => n # 1
      OBVIOUS
    <3> QED
      BY <2>1, <2>h, <1>0, <3>1
  <2> QED
    BY <2>1, <2>2, <2>3, <1>0, <1>q
<1> QED
  BY <1>1, <1>2

\* A first attempt is the second record: nothing but an intent is before it.
LEMMA FirstStart ==
  ASSUME NEW j, Lawful(j), NEW r \in DurableRecords, Allows(j, r), r.kind = "start",
         r.ref = NoNonce
  PROVE  Len(j) = 1
<1>0. j \in Seq(DurableRecords) /\ Len(j) \in Nat /\ j # <<>> /\ ~IsActive(j)
      /\ (j = <<>> <=> Len(j) = 0)
  BY DEF Lawful, Allows
<1>1. Places(j, "resolution") = {}
  <2> SUFFICES ASSUME Places(j, "resolution") # {} PROVE FALSE
    OBVIOUS
  <2>1. j[Len(j)].kind = "resolution" /\ r.ref = j[Len(j)].ref
    BY DEF Allows
  <2>2. Len(j) \in Places(j, "resolution")
    BY <1>0, <2>1 DEF Places
  <2> QED
    BY <2>1, <2>2 DEF Lawful
<1>2. Places(j, "start") = {}
  BY <1>0, <1>1 DEF IsActive, Active
<1>3. Len(j) \in 1..Len(j)
  BY <1>0
<1> QED
  BY <1>2, <1>3 DEF Lawful

-----------------------------------------------------------------------------
(* Appends.                                                                *)

\* Journal m is j and what operation n has written after it.
Grown(m, j, n) ==
  /\ m \in Seq(DurableRecords) /\ Len(j) < Len(m)
  /\ \A i \in 1..Len(j) : m[i] = j[i]
  /\ \A r \in Places(m, "readback") : r \in Places(j, "readback") \/ m[r].ref = n

\* The elements of a concatenation.
LEMMA Concatenated ==
  ASSUME NEW j \in Seq(DurableRecords), NEW recs \in Seq(DurableRecords)
  PROVE  /\ j \o recs \in Seq(DurableRecords)
         /\ Len(j) \in Nat /\ Len(recs) \in Nat /\ Len(j \o recs) = Len(j) + Len(recs)
         /\ \A i \in 1..Len(j) : (j \o recs)[i] = j[i]
         /\ \A i \in 1..Len(recs) : (j \o recs)[Len(j) + i] = recs[i]
<1>1. /\ j \o recs \in Seq(DurableRecords) /\ Len(j \o recs) = Len(j) + Len(recs)
      /\ \A i \in 1..(Len(j) + Len(recs)) :
           (j \o recs)[i] = IF i <= Len(j) THEN j[i] ELSE recs[i - Len(j)]
  BY ConcatProperties
<1>2. Len(j) \in Nat /\ Len(recs) \in Nat
  OBVIOUS
<1> DEFINE n == Len(j)
           l == Len(recs)
           m == j \o recs
<1>3. \A i \in 1..n : m[i] = j[i]
  <2> HIDE DEF n, l, m
  <2> QED
    BY <1>1, <1>2 DEF n, l, m
<1>4. \A i \in 1..l : m[n + i] = recs[i]
  <2> TAKE i \in 1..l
  <2>1. n + i \in 1..(n + l) /\ ~(n + i <= n) /\ (n + i) - n = i
    BY <1>2
  <2> QED
    BY <1>1, <2>1
<1> QED
  BY <1>1, <1>2, <1>3, <1>4

\* An append of one record.
LEMMA OneRecord ==
  ASSUME NEW j \in Seq(DurableRecords), NEW recs \in Seq(DurableRecords), Len(recs) = 1
  PROVE  /\ recs[1] \in DurableRecords
         /\ Extends(j \o recs, j, recs[1])
         /\ AllowsAll(j, recs) => Allows(j, recs[1])
<1>1. recs[1] \in DurableRecords /\ 1 \in 1..Len(recs)
  BY ElementOfSeq
<1>2. Extends(j \o recs, j, recs[1])
  BY <1>1, Concatenated DEF Extends
<1>3. ASSUME AllowsAll(j, recs) PROVE Allows(j, recs[1])
  <2>1. Allows(j \o SubSeq(recs, 1, 1 - 1), recs[1])
    BY <1>1, <1>3 DEF AllowsAll
  <2>2. SubSeq(recs, 1, 1 - 1) = <<>>
    BY SubSeqEmpty
  <2>3. j \o <<>> = j
    BY ConcatEmptySeq
  <2> QED
    BY <2>1, <2>2, <2>3
<1> QED
  BY <1>1, <1>2, <1>3

\* An append of two records: the second is checked after the first.
LEMMA TwoRecords ==
  ASSUME NEW j \in Seq(DurableRecords), NEW recs \in Seq(DurableRecords), Len(recs) = 2
  PROVE  LET m == j \o SubSeq(recs, 1, 1) IN
         /\ recs[1] \in DurableRecords /\ recs[2] \in DurableRecords
         /\ m \in Seq(DurableRecords)
         /\ Extends(m, j, recs[1]) /\ Extends(j \o recs, m, recs[2])
         /\ AllowsAll(j, recs) => Allows(j, recs[1]) /\ Allows(m, recs[2])
<1> DEFINE p == SubSeq(recs, 1, 1)
           m == j \o p
<1>1. /\ recs[1] \in DurableRecords /\ recs[2] \in DurableRecords
      /\ 1 \in 1..Len(recs) /\ 2 \in 1..Len(recs)
  <2>1. 1 \in 1..Len(recs) /\ 2 \in 1..Len(recs)
    OBVIOUS
  <2> QED
    BY <2>1, ElementOfSeq
<1>p. p \in Seq(DurableRecords) /\ Len(p) = 1 /\ p[1] = recs[1]
  <2>1. \A i \in 1..1 : recs[i] \in DurableRecords
    BY <1>1
  <2>2. /\ p \in Seq(DurableRecords)
        /\ Len(p) = IF 1 <= 1 THEN 1 - 1 + 1 ELSE 0
        /\ \A i \in 1..(1 - 1 + 1) : p[i] = recs[1 + i - 1]
    BY <2>1, SubSeqProperties
  <2> HIDE DEF p
  <2> QED
    BY <2>2
<1>2. m \in Seq(DurableRecords) /\ Len(m) = Len(j) + 1 /\ Len(j) \in Nat
      /\ (\A i \in 1..Len(j) : m[i] = j[i]) /\ m[Len(j) + 1] = recs[1]
  <2> HIDE DEF p
  <2>1. 1 \in 1..Len(p)
    BY <1>p
  <2>2. /\ j \o p \in Seq(DurableRecords)
        /\ Len(j) \in Nat /\ Len(j \o p) = Len(j) + Len(p)
        /\ \A i \in 1..Len(j) : (j \o p)[i] = j[i]
        /\ \A i \in 1..Len(p) : (j \o p)[Len(j) + i] = p[i]
    BY <1>p, Concatenated
  <2> HIDE DEF m
  <2> QED
    BY <1>p, <2>1, <2>2 DEF m
<1>3. /\ j \o recs \in Seq(DurableRecords) /\ Len(j \o recs) = Len(j) + 2
      /\ \A i \in 1..Len(j) : (j \o recs)[i] = j[i]
      /\ (j \o recs)[Len(j) + 1] = recs[1] /\ (j \o recs)[Len(j) + 2] = recs[2]
  <2>1. /\ j \o recs \in Seq(DurableRecords)
        /\ Len(j) \in Nat /\ Len(j \o recs) = Len(j) + Len(recs)
        /\ \A i \in 1..Len(j) : (j \o recs)[i] = j[i]
        /\ \A i \in 1..Len(recs) : (j \o recs)[Len(j) + i] = recs[i]
    BY Concatenated
  <2> QED
    BY <1>1, <2>1
<1> HIDE DEF m
<1>4. Extends(m, j, recs[1])
  BY <1>2 DEF Extends
<1>5. Extends(j \o recs, m, recs[2])
  <2>1. \A i \in 1..Len(m) : i \in 1..Len(j) \/ i = Len(j) + 1
    BY <1>2
  <2>2. \A i \in 1..Len(m) : (j \o recs)[i] = m[i]
    BY <2>1, <1>2, <1>3
  <2> QED
    BY <1>2, <1>3, <2>2 DEF Extends
<1>6. ASSUME AllowsAll(j, recs) PROVE Allows(j, recs[1]) /\ Allows(m, recs[2])
  <2>1. Allows(j \o SubSeq(recs, 1, 1 - 1), recs[1]) /\ Allows(j \o SubSeq(recs, 1, 2 - 1), recs[2])
    BY <1>1, <1>6 DEF AllowsAll
  <2>2. SubSeq(recs, 1, 1 - 1) = <<>>
    BY SubSeqEmpty
  <2>3. j \o <<>> = j
    BY ConcatEmptySeq
  <2>4. 2 - 1 = 1
    OBVIOUS
  <2> QED
    BY <2>1, <2>2, <2>3, <2>4 DEF m
<1> QED
  BY <1>1, <1>2, <1>4, <1>5, <1>6 DEF m

\* Only a journal that exists and is not settled takes another record.
LEMMA OpenJournal ==
  ASSUME NEW j, Lawful(j), NEW r \in DurableRecords, Allows(j, r), r.kind # "intent"
  PROVE  Len(j) # 0 /\ ~Settled(j) /\ (r.kind # "start" => IsActive(j))
<1>0. j \in Seq(DurableRecords) /\ Len(j) \in Nat /\ (j = <<>> <=> Len(j) = 0) /\ r.kind \in Kinds
  BY DEF Lawful, DurableRecords
<1>1. CASE r.kind = "start"
  BY <1>0, <1>1 DEF Allows
<1>2. CASE r.kind # "start"
  <2>1. IsActive(j)
    BY <1>0, <1>2 DEF Allows, Kinds, Targets, IsActive
  <2>2. Len(j) # 0
    BY <1>0, <2>1 DEF IsActive, Active, Places
  <2> QED
    BY <1>2, <2>1, <2>2 DEF Lawful
<1> QED
  BY <1>1, <1>2

\* A journal with one more record has grown.
LEMMA GrownByOne ==
  ASSUME NEW j \in Seq(DurableRecords), NEW r \in DurableRecords, NEW m, Extends(m, j, r),
         NEW n, r.kind = "readback" => r.ref = n
  PROVE  /\ Grown(m, j, n)
         /\ r.kind # "readback" => Places(m, "readback") = Places(j, "readback")
         /\ r.kind = "start" => Len(j) + 1 \in Places(m, "start")
<1>1. m \in Seq(DurableRecords) /\ Len(j) \in Nat /\ Len(m) = Len(j) + 1
      /\ (\A i \in 1..Len(j) : m[i] = j[i]) /\ m[Len(j) + 1] = r
  BY DEF Extends
<1>2. /\ r.kind = "readback" => Places(m, "readback") = Places(j, "readback") \cup {Len(j) + 1}
      /\ r.kind # "readback" => Places(m, "readback") = Places(j, "readback")
  BY PlacesExtend
<1>s. r.kind = "start" => Places(m, "start") = Places(j, "start") \cup {Len(j) + 1}
  BY PlacesExtend
<1>3. \A k \in Places(m, "readback") : k \in Places(j, "readback") \/ m[k].ref = n
  BY <1>1, <1>2
<1> QED
  BY <1>1, <1>2, <1>s, <1>3 DEF Grown

\* What an acceptable append makes of a journal.
LEMMA Appended ==
  ASSUME NEW j, Lawful(j), Justified(j), NEW recs \in Seq(DurableRecords), NEW n, NEW next,
         FitsStation(recs, n, next), Acceptable(j, recs)
  PROVE  LET m == j \o recs IN
         /\ Lawful(m) /\ Justified(m) /\ Grown(m, j, n) /\ ~Settled(j) /\ Len(j) # 0
         /\ next \in {"launch", "ensure"} => \E i \in Places(m, "start") : m[i].by = n
         /\ next = "successor" => Settled(m)
         /\ next = "verdictDown" =>
              \A r \in Places(m, "readback") :
                r \in Places(j, "readback") \/ m[r].mode = "not-applied"
<1> DEFINE m == j \o recs
<1>0. j \in Seq(DurableRecords) /\ Len(j) \in Nat /\ AllowsAll(j, recs)
  BY DEF Lawful, Acceptable
<1>1. CASE Len(recs) = 1
  <2> DEFINE r == recs[1]
  <2>1. r \in DurableRecords /\ Extends(m, j, r) /\ Allows(j, r)
    BY <1>0, <1>1, OneRecord
  <2>2. /\ r.kind = "start" => r.ref = NoNonce
        /\ r.kind # "intent" /\ (r.kind = "resolution" => r.ref # NoNonce)
        /\ r.kind = "readback" => r.ref = n /\ (next = "verdictDown" => r.mode = "not-applied")
        /\ next \in {"launch", "ensure"} => r.kind = "start" /\ r.by = n
        /\ next = "successor" => r.kind = "resolution" /\ r.mode = "terminal"
    BY <1>1 DEF FitsStation
  <2> HIDE DEF m, r
  <2>3. m \in Seq(DurableRecords) /\ m[Len(j) + 1] = r
    BY <2>1 DEF Extends
  <2>4. Lawful(m)
    BY <2>1, <2>2, LawfulExtend
  <2>5. Justified(m)
    <3>1. r.kind = "start" => Len(j) = 1
      BY <2>1, <2>2, FirstStart
    <3> QED
      BY <1>0, <2>1, <3>1, JustifiedExtend
  <2>6. ~Settled(j) /\ Len(j) # 0
    BY <2>1, <2>2, OpenJournal
  <2>7. /\ Grown(m, j, n)
        /\ r.kind # "readback" => Places(m, "readback") = Places(j, "readback")
        /\ r.kind = "start" => Len(j) + 1 \in Places(m, "start")
    BY <1>0, <2>1, <2>2, GrownByOne
  <2>8. next = "successor" => Settled(m)
    BY <1>0, <2>1, <2>2, SettledExtend
  <2>9. ASSUME next = "verdictDown", NEW k \in Places(m, "readback")
        PROVE  k \in Places(j, "readback") \/ m[k].mode = "not-applied"
    <3>1. r.kind = "readback" => Places(m, "readback") = Places(j, "readback") \cup {Len(j) + 1}
      BY <1>0, <2>1, PlacesExtend
    <3> QED
      BY <2>9, <2>2, <2>3, <2>7, <3>1
  <2> QED
    BY <2>2, <2>3, <2>4, <2>5, <2>6, <2>7, <2>8, <2>9 DEF m
<1>2. CASE Len(recs) # 1
  <2> DEFINE r1 == recs[1]
             r2 == recs[2]
             o == j \o SubSeq(recs, 1, 1)
  <2>0. /\ Len(recs) = 2
        /\ r1.kind = "resolution" /\ r1.mode = "retry"
        /\ r2.kind = "start" /\ r2.ref = r1.ref
        /\ r1.ref # NoNonce
        /\ next \in {"launch", "ensure"} => r2.by = n
        /\ next # "successor"
    BY <1>2 DEF FitsStation
  <2>1. /\ r1 \in DurableRecords /\ r2 \in DurableRecords /\ o \in Seq(DurableRecords)
        /\ Extends(o, j, r1) /\ Extends(m, o, r2) /\ Allows(j, r1) /\ Allows(o, r2)
    BY <1>0, <2>0, TwoRecords
  <2>a. \A i \in Places(j, "readback") : j[i].mode = "not-applied"
    BY <2>0 DEF Acceptable
  <2> HIDE DEF m, r1, r2, o
  <2>2. m \in Seq(DurableRecords) /\ Len(o) = Len(j) + 1 /\ m[Len(o) + 1] = r2
        /\ \A i \in 1..Len(j) : o[i] = j[i]
    BY <2>1 DEF Extends
  <2>3. Lawful(o)
    BY <2>0, <2>1, LawfulExtend
  <2>4. Lawful(m)
    BY <2>0, <2>1, <2>3, LawfulExtend
  <2>5. ~Settled(j) /\ Len(j) # 0
    BY <2>0, <2>1, OpenJournal
  <2>6. /\ Grown(o, j, n)
        /\ Places(o, "readback") = Places(j, "readback")
    BY <1>0, <2>0, <2>1, GrownByOne
  <2>7. /\ Grown(m, o, n)
        /\ Places(m, "readback") = Places(o, "readback")
        /\ Len(o) + 1 \in Places(m, "start")
    BY <2>0, <2>1, GrownByOne
  <2>8. Grown(m, j, n)
    BY <1>0, <2>2, <2>6, <2>7 DEF Grown
  <2>9. Justified(m)
    <3>1. Justified(o)
      BY <1>0, <2>0, <2>1, JustifiedExtend
    <3>2. \A i \in Places(o, "readback") : i \in 1..Len(j) /\ o[i] = j[i]
      BY <2>2, <2>6 DEF Places
    <3>3. \A i \in Places(o, "readback") : o[i].mode = "not-applied"
      BY <2>a, <2>6, <3>2
    <3>4. PICK i \in Places(j, "readback") : j[i].ref = r1.ref
      BY <2>0, <2>1 DEF Allows, Noted
    <3>5. \E i1 \in Places(o, "readback") : o[i1].ref = r2.ref
      BY <2>0, <2>6, <3>2, <3>4
    <3> QED
      BY <2>0, <2>1, <3>1, <3>3, <3>5, JustifiedExtend
  <2> QED
    BY <2>0, <2>2, <2>4, <2>5, <2>6, <2>7, <2>8, <2>9 DEF m
<1> QED
  BY <1>1, <1>2

\* No record that closes an attempt is refused for want of room.
LEMMA RoomForClosure ==
  ASSUME NEW j, Lawful(j), IsActive(j) => WithinLimits(j), NEW recs \in Seq(DurableRecords),
         NEW n, NEW next, FitsStation(recs, n, next), AllowsAll(j, recs),
         ~ \E i \in 1..Len(recs) : recs[i].kind = "start"
  PROVE  WithinLimits(j \o recs)
<1>0. j \in Seq(DurableRecords)
  BY DEF Lawful
<1>1. Len(recs) = 1 /\ 1 \in 1..Len(recs)
  BY DEF FitsStation
<1>2. /\ recs[1].kind \notin {"intent", "start"}
      /\ recs[1].kind = "resolution" => recs[1].ref # NoNonce
  BY <1>1 DEF FitsStation
<1>3. recs[1] \in DurableRecords /\ Extends(j \o recs, j, recs[1]) /\ Allows(j, recs[1])
  BY <1>0, <1>1, OneRecord
<1>4. IsActive(j)
  BY <1>2, <1>3, OpenJournal
<1>5. recs[1].kind \in Notes \cup {"resolution"}
  BY <1>2, <1>3 DEF DurableRecords, Kinds, Notes
<1> QED
  BY <1>2, <1>3, <1>4, <1>5, WithinExtend

\* The length of a journal within the limits.
LEMMA LengthWithin ==
  ASSUME NEW j, Lawful(j), WithinLimits(j)
  PROVE  Len(j) \in 0..MaxRecords
<1>0. Len(j) \in Nat /\ MaxRecords \in Nat
  BY ReadinessAssumption DEF Lawful
<1>1. Reserved(j) \in Nat
  <2>1. \A kind \in Notes : /\ Noted(j, kind) = {} => Cardinality(Noted(j, kind)) = 0
                            /\ Noted(j, kind) # {} => Cardinality(Noted(j, kind)) = 1
    BY NotedCount
  <2> QED
    BY <2>1 DEF Reserved, Notes
<1> QED
  BY <1>0, <1>1 DEF WithinLimits

-----------------------------------------------------------------------------
(* What a step of one call leaves of the others.                           *)

\* A step of the call of c: journals grow by what it writes.
StepOf(c) ==
  /\ \A d \in Caller : d # c => call'[d] = call[d] /\ (launcher = d => launcher' = d)
  /\ \A k \in Ops :
       \/ durable'[k] = durable[k]
       \/ /\ ~At(c, "idle") /\ ~Settled(durable[k])
          /\ Grown(durable'[k], durable[k], call[c].nonce)
  /\ \/ launched' = launched
     \/ ~At(c, "idle") /\ launched' = launched \cup {call[c].nonce}

\* What a journal told it still tells.
LEMMA KeptJournal ==
  ASSUME ReadInv, NEW c \in Caller, StepOf(c), NEW k \in Ops
  PROVE  /\ Settled(durable[k]) => Settled(durable'[k])
         /\ \A n : HasStart(k, n) => \E i \in Places(durable'[k], "start") : durable'[k][i].by = n
         /\ Len(durable[k]) <= Len(durable'[k])
         /\ Len(durable'[k]) = Len(durable[k]) => durable'[k] = durable[k]
         /\ \A i \in 1..Len(durable[k]) :
              i \in 1..Len(durable'[k]) /\ durable'[k][i] = durable[k][i]
         /\ \A r \in Places(durable'[k], "readback") :
              \/ r \in Places(durable[k], "readback") /\ durable'[k][r] = durable[k][r]
              \/ ~At(c, "idle") /\ durable'[k][r].ref = call[c].nonce
<1> DEFINE j == durable[k]
           m == durable'[k]
<1>0. j \in Seq(DurableRecords) /\ Len(j) \in Nat
  BY DEF ReadInv, Journals, Lawful
<1>1. m = j \/ (~At(c, "idle") /\ ~Settled(j) /\ Grown(m, j, call[c].nonce))
  BY DEF StepOf
<1>h. \A n : HasStart(k, n) <=> \E i \in Places(j, "start") : j[i].by = n
  BY DEF HasStart
<1>2. CASE m = j
  <2>1. \A r \in Places(m, "readback") : r \in Places(j, "readback") /\ m[r] = j[r]
    BY <1>2
  <2> HIDE DEF m, j
  <2> QED
    BY <1>0, <1>2, <1>h, <2>1 DEF m, j
<1>3. CASE m # j
  <2>1. /\ m \in Seq(DurableRecords) /\ Len(m) \in Nat /\ Len(j) < Len(m) /\ ~Settled(j)
        /\ \A i \in 1..Len(j) : m[i] = j[i]
        /\ \A r \in Places(m, "readback") : r \in Places(j, "readback") \/ m[r].ref = call[c].nonce
        /\ ~At(c, "idle")
    BY <1>1, <1>3 DEF Grown
  <2>2. \A i \in 1..Len(j) : i \in 1..Len(m)
    <3> HIDE DEF m, j
    <3> QED
      BY <1>0, <2>1
  <2>3. \A r \in Places(j, "readback") : m[r] = j[r]
    BY <2>1 DEF Places
  <2>4. ASSUME NEW n, HasStart(k, n) PROVE \E i \in Places(m, "start") : m[i].by = n
    <3>1. PICK i \in Places(j, "start") : j[i].by = n
      BY <1>h, <2>4
    <3>2. i \in 1..Len(j) /\ j[i].kind = "start"
      BY <3>1 DEF Places
    <3>3. i \in Places(m, "start")
      BY <2>1, <2>2, <3>2 DEF Places
    <3> QED
      BY <2>1, <3>1, <3>2, <3>3
  <2> HIDE DEF m, j
  <2> QED
    BY <1>0, <2>1, <2>2, <2>3, <2>4 DEF m, j
<1> QED
  BY <1>2, <1>3

\* Other calls have another nonce.
LEMMA OtherNonce ==
  ASSUME ReadInv, NEW c \in Caller, NEW d \in Caller, d # c, ~At(c, "idle")
  PROVE  call[d].nonce # call[c].nonce
  BY DEF ReadInv, Nonced, CallInv

\* A step of c leaves what the other calls rely on.
LEMMA OthersKeep ==
  ASSUME ReadInv, NEW c \in Caller, NEW d \in Caller, d # c, StepOf(c)
  PROVE  CallInv(d)'
<1> DEFINE o == call[d].op
           n == call[d].nonce
           j == durable[o]
           m == durable'[o]
<1>0. /\ call'[d] = call[d] /\ (launcher = d => launcher' = d)
      /\ CallInv(d) /\ o \in Ops
      /\ launched' = launched \/ (~At(c, "idle") /\ launched' = launched \cup {call[c].nonce})
  BY DEF StepOf, ReadInv, ReadTypes, CallRecord
<1>n. ~At(c, "idle") => n # call[c].nonce
  BY OtherNonce
<1>k. /\ Settled(j) => Settled(m)
      /\ HasStart(o, n) => \E i \in Places(m, "start") : m[i].by = n
      /\ Len(j) <= Len(m)
      /\ Len(m) = Len(j) => m = j
      /\ \A r \in Places(m, "readback") :
           \/ r \in Places(j, "readback") /\ m[r] = j[r]
           \/ ~At(c, "idle") /\ m[r].ref = call[c].nonce
  <2>1. o \in Ops
    BY <1>0
  <2> HIDE DEF o, n
  <2> QED
    BY <2>1, KeptJournal
<1>l. Len(j) \in Nat /\ Len(m) \in Nat
  <2>1. j \in Seq(DurableRecords)
    BY <1>0 DEF ReadInv, Journals, Lawful
  <2>2. m \in Seq(DurableRecords)
    BY <1>0, <2>1 DEF StepOf, Grown
  <2> QED
    BY <2>1, <2>2
<1>p. o > 1 /\ Settled(durable[o - 1]) => Settled(durable'[o - 1])
  <2>1. o > 1 => o - 1 \in Ops
    BY <1>0, ReadinessAssumption DEF Ops
  <2> QED
    BY <2>1, KeptJournal
<1>r. NotRead(n) => \A k \in Ops : \A r \in Places(durable'[k], "readback") : durable'[k][r].ref # n
  <2> SUFFICES ASSUME NotRead(n), NEW k \in Ops, NEW r \in Places(durable'[k], "readback")
               PROVE  durable'[k][r].ref # n
    OBVIOUS
  <2>1. \/ r \in Places(durable[k], "readback") /\ durable'[k][r] = durable[k][r]
        \/ ~At(c, "idle") /\ durable'[k][r].ref = call[c].nonce
    BY KeptJournal
  <2> QED
    BY <2>1, <1>n DEF NotRead
<1>1. At(d, "commit") => Pending(d)'
  <2>0. SUFFICES ASSUME At(d, "commit") PROVE Pending(d)'
    OBVIOUS
  <2>1. /\ FitsStation(call[d].recs, n, call[d].next)
        /\ call[d].length <= Len(j) /\ (Len(j) = call[d].length => Acceptable(j, call[d].recs))
        /\ call[d].length \in Nat
    BY <1>0, <2>0, ReadinessAssumption DEF CallInv, Pending, Journal, ReadInv, ReadTypes, CallRecord
  <2>2. call[d].length <= Len(m) /\ (Len(m) = call[d].length => m = j)
    <3> HIDE DEF m, j
    <3> QED
      BY <1>k, <1>l, <2>1
  <2>3. Len(m) = call[d].length => Acceptable(m, call[d].recs)
    BY <2>1, <2>2
  <2> QED
    BY <1>0, <2>1, <2>2, <2>3 DEF Pending, Journal
<1>2. At(d, "verdictDown") =>
        \A r \in Places(m, "readback") : m[r].ref = n => m[r].mode = "not-applied"
  BY <1>0, <1>k, <1>n DEF CallInv, Journal
<1>3. n \notin launched => n \notin launched'
  BY <1>0, <1>n
<1>4. Toward(d)' = Toward(d) /\ \A s : At(d, s)' = At(d, s)
  BY <1>0 DEF Toward, At
<1>5. /\ At(d, "idle")' => call'[d].nonce = NoNonce /\ ~call'[d].claimed
      /\ ~At(d, "idle")' => call'[d].nonce # NoNonce
      /\ At(d, "commit")' => call'[d].next \in Reached /\ Pending(d)'
      /\ call'[d].op > 1 => Settled(durable'[call'[d].op - 1])
      /\ call'[d].at \in {"settled", "successor"} => Settled(durable'[call'[d].op])
      /\ call'[d].answer # "noRoom"
  BY <1>0, <1>4, <1>1, <1>k, <1>p DEF CallInv, Journal
<1>6. /\ Toward(d)' \in Recovering => call'[d].before # NoNonce
      /\ Toward(d)' \in Early => ~call'[d].claimed
      /\ Toward(d)' \in Unlaunched => call'[d].nonce \notin launched'
      /\ Toward(d)' \in UnderLock => launcher' = d
  BY <1>0, <1>4, <1>3 DEF CallInv
<1>7. /\ At(d, "launch")' => HasStart(call[d].op, call[d].nonce)'
      /\ call'[d].at \in {"ensure", "locked"} /\ call'[d].claimed
           => HasStart(call[d].op, call[d].nonce)'
  BY <1>0, <1>4, <1>k DEF CallInv, HasStart
<1>8. /\ call'[d].at \in {"read", "recover"} => NotRead(call[d].nonce)'
      /\ At(d, "commit")' /\ call'[d].next = "verdictDown" => NotRead(call[d].nonce)'
  BY <1>0, <1>4, <1>r DEF CallInv, NotRead
<1> QED
  BY <1>0, <1>4, <1>5, <1>6, <1>7, <1>8, <1>2 DEF CallInv, Journal

-----------------------------------------------------------------------------
(* Steps of a call.                                                        *)

\* A step keeps a call's nonce, gives it up with the call, or draws a new one.
Renamed(c) ==
  \/ At(c, "idle")' /\ call'[c].nonce = NoNonce
  \/ ~At(c, "idle") /\ call'[c].nonce = call[c].nonce
  \/ call'[c].nonce \notin Used /\ call'[c].nonce # NoNonce

\* What is left to show of a step of c.
LEMMA Keeps ==
  ASSUME ReadInv, NEW c \in Caller, StepOf(c), call' \in [Caller -> CallRecord], Journals',
         launcher' \in Owners, stops' \in 0..MaxStops, CallInv(c)', Renamed(c),
         launched' # launched => HasStart(call[c].op, call[c].nonce)
  PROVE  ReadInv'
<1>0. /\ call \in [Caller -> CallRecord] /\ launched \subseteq Nonces /\ call[c] \in CallRecord
      /\ \A d \in Caller : CallInv(d)
  BY DEF ReadInv, ReadTypes
<1>1. ReadTypes'
  <2>1. ~At(c, "idle") => call[c].nonce \in Nonces
    BY <1>0 DEF CallInv, CallRecord
  <2>2. launched' \subseteq Nonces
    BY <1>0, <2>1 DEF StepOf
  <2> QED
    BY <2>2 DEF ReadTypes
<1>2. \A d \in Caller : CallInv(d)'
  BY OthersKeep
<1>3. ASSUME NEW a \in Caller, NEW b \in Caller, call'[a].nonce = call'[b].nonce, a # b
      PROVE  At(a, "idle")'
  <2>0. \A d \in Caller : d # c => call'[d] = call[d]
    BY DEF StepOf
  <2>1. CASE a # c /\ b # c
    <3>1. At(a, "idle")
      BY <1>3, <2>0, <2>1 DEF ReadInv, Nonced
    <3> QED
      BY <2>0, <2>1, <3>1 DEF At
  <2>2. ASSUME NEW d \in Caller, d # c, call'[c].nonce = call'[d].nonce
        PROVE  At(c, "idle")' /\ At(d, "idle")'
    <3>1. call'[d] = call[d] /\ call[d].nonce \in Used
      BY <2>0, <2>2 DEF Used
    <3>2. ~At(c, "idle") => call[d].nonce # call[c].nonce
      BY <2>2, OtherNonce
    <3>3. At(c, "idle")' /\ call'[c].nonce = NoNonce
      BY <2>2, <3>1, <3>2 DEF Renamed
    <3>4. At(d, "idle")
      BY <1>0, <2>2, <3>1, <3>3 DEF CallInv
    <3> QED
      BY <3>1, <3>3, <3>4 DEF At
  <2> QED
    BY <1>3, <2>1, <2>2
<1>4. ASSUME NEW n \in launched' PROVE \E k \in Ops : HasStart(k, n)'
  <2>1. PICK k \in Ops : HasStart(k, n)
    <3>1. CASE n \in launched
      BY <3>1 DEF ReadInv, Nonced
    <3>2. CASE n \notin launched
      <4>1. n = call[c].nonce /\ call[c].op \in Ops
        BY <1>0, <1>4, <3>2 DEF StepOf, CallRecord
      <4> QED
        BY <3>2, <4>1
    <3> QED
      BY <3>1, <3>2
  <2>2. \E i \in Places(durable'[k], "start") : durable'[k][i].by = n
    BY <2>1, KeptJournal
  <2> QED
    BY <2>2 DEF HasStart
<1>5. Nonced'
  BY <1>3, <1>4 DEF Nonced
<1> QED
  BY <1>1, <1>2, <1>5 DEF ReadInv

\* A step that writes no record.
LEMMA QuietKeeps ==
  ASSUME ReadInv, NEW c \in Caller, NEW rec \in CallRecord, call' = [call EXCEPT ![c] = rec],
         durable' = durable,
         launched' = launched
         \/ (~At(c, "idle") /\ launched' = launched \cup {call[c].nonce}
             /\ HasStart(call[c].op, call[c].nonce)),
         \A d \in Caller : d # c /\ launcher = d => launcher' = d,
         launcher' \in Owners, stops' \in 0..MaxStops,
         \/ rec.at = "idle" /\ rec.nonce = NoNonce
         \/ ~At(c, "idle") /\ rec.nonce = call[c].nonce
         \/ rec.nonce \notin Used /\ rec.nonce # NoNonce,
         call'[c] = rec => CallInv(c)'
  PROVE  ReadInv'
<1>0. call \in [Caller -> CallRecord]
  BY DEF ReadInv, ReadTypes
<1>1. /\ call' \in [Caller -> CallRecord] /\ call'[c] = rec
      /\ \A d \in Caller : d # c => call'[d] = call[d]
  BY <1>0
<1>2. StepOf(c)
  BY <1>1 DEF StepOf
<1>3. Journals'
  BY DEF ReadInv, Journals
<1>4. Renamed(c)
  BY <1>1 DEF Renamed, At
<1> QED
  BY <1>1, <1>2, <1>3, <1>4, Keeps

\* A call that is over leaves its lease and nothing else.
LEMMA LeaveKeeps ==
  ASSUME ReadInv, NEW c \in Caller, NEW answer \in Outcomes, answer # "noRoom",
         NEW owner \in {NoCaller, DeadCaller}, Leave(c, answer, owner), stops' \in 0..MaxStops
  PROVE  ReadInv'
<1>0. 1 \in Ops
  BY ReadinessAssumption DEF Ops
<1>1. Idle(answer) \in CallRecord
  <2>1. 0 \in 0..MaxRecords
    BY ReadinessAssumption
  <2>2. <<>> \in Seq(DurableRecords)
    OBVIOUS
  <2> QED
    BY <1>0, <2>1, <2>2 DEF Idle, CallRecord, Stations
<1>2. ASSUME call'[c] = Idle(answer) PROVE CallInv(c)'
  <2>1. /\ call'[c].at = "idle" /\ call'[c].op = 1 /\ call'[c].nonce = NoNonce
        /\ call'[c].claimed = FALSE /\ call'[c].answer = answer
    BY <1>2 DEF Idle
  <2>2. Toward(c)' = "idle"
    BY <2>1 DEF Toward, At
  <2> QED
    BY <2>1, <2>2 DEF CallInv, At, Recovering, Early, Unlaunched, UnderLock
<1>3. launcher \in Owners /\ owner \in Owners
  BY DEF ReadInv, ReadTypes, Owners
<1>4. /\ call' = [call EXCEPT ![c] = Idle(answer)]
      /\ launcher' = IF launcher = c THEN owner ELSE launcher
      /\ durable' = durable /\ launched' = launched
  BY DEF Leave
<1>5. Idle(answer).at = "idle" /\ Idle(answer).nonce = NoNonce
  BY DEF Idle
<1> HIDE DEF Idle
<1> QED
  BY <1>1, <1>2, <1>3, <1>4, <1>5, QuietKeeps

\* A call that returns or throws.
LEMMA EndKeeps ==
  ASSUME ReadInv, NEW c \in Caller, NEW answer \in Outcomes, answer # "noRoom", End(c, answer)
  PROVE  ReadInv'
<1>1. Leave(c, answer, NoCaller) /\ stops' \in 0..MaxStops
  BY DEF End, ReadInv, ReadTypes
<1> QED
  BY <1>1, LeaveKeeps

\* An append up to the swap: the call goes on to a station that suits the
\* records, or is over; and it is never over for want of room.
LEMMA PrepareKeeps ==
  ASSUME ReadInv, NEW c \in Caller, ~At(c, "idle"), NEW bound \in CallRecord,
         NEW recs \in Seq(DurableRecords), NEW station \in Reached,
         PrepareAppend(c, bound, recs, station), FitsStation(recs, bound.nonce, station),
         bound.op = call[c].op, bound.answer # "noRoom", bound.nonce # NoNonce,
         bound.nonce = call[c].nonce \/ bound.nonce \notin Used,
         station \in Recovering => bound.before # NoNonce,
         station \in Early => ~bound.claimed,
         station \in Unlaunched => bound.nonce \notin launched,
         station \in UnderLock => launcher = c,
         station = "verdictDown" => NotRead(bound.nonce),
         AllowsAll(Journal(c), recs) /\ Len(recs) = 2 =>
           \A r \in Places(Journal(c), "readback") : Journal(c)[r].mode = "not-applied"
  PROVE  ReadInv'
<1> DEFINE j == Journal(c)
           rec == [bound EXCEPT !.at = "commit", !.recs = recs, !.length = Len(j), !.next = station]
<1>0. /\ call[c] \in CallRecord /\ CallInv(c) /\ call[c].op \in Ops
      /\ launcher \in Owners /\ stops \in 0..MaxStops
  BY DEF ReadInv, ReadTypes, CallRecord
<1>j. Lawful(j) /\ Justified(j) /\ (IsActive(j) => WithinLimits(j)) /\ Len(j) \in Nat
  BY <1>0 DEF ReadInv, Journals, Journal, Lawful
<1>1. CASE AllowsAll(j, recs) /\ WithinLimits(j \o recs) /\ call' = [call EXCEPT ![c] = rec]
           /\ UNCHANGED <<durable, launcher, launched, stops>>
  <2>1. Acceptable(j, recs)
    BY <1>1 DEF Acceptable
  <2>2. Len(j) \in 0..MaxRecords
    <3>1. Lawful(j \o recs) /\ Grown(j \o recs, j, bound.nonce)
      BY <1>j, <2>1, Appended
    <3>2. WithinLimits(j \o recs)
      BY <1>1
    <3> HIDE DEF j
    <3>3. Len(j \o recs) \in 0..MaxRecords
      BY <3>1, <3>2, LengthWithin
    <3>4. Len(j) < Len(j \o recs)
      BY <3>1 DEF Grown
    <3>m. MaxRecords \in Nat
      BY ReadinessAssumption
    <3> DEFINE l == Len(j \o recs)
    <3> HIDE DEF l
    <3> QED
      BY <1>j, <3>3, <3>4, <3>m DEF l
  <2>3. station \in Stations /\ "commit" \in Stations
    BY DEF Reached, Stations
  <2> HIDE DEF j
  <2>4. /\ rec.at = "commit" /\ rec.recs = recs /\ rec.length = Len(j) /\ rec.next = station
        /\ rec.op = bound.op /\ rec.nonce = bound.nonce /\ rec.before = bound.before
        /\ rec.claimed = bound.claimed /\ rec.answer = bound.answer
    BY DEF CallRecord
  <2>5. rec \in CallRecord
    BY <2>2, <2>3 DEF CallRecord
  <2> HIDE DEF rec
  <2>6. ASSUME call'[c] = rec PROVE CallInv(c)'
    <3>0. /\ call'[c].at = "commit" /\ call'[c].recs = recs /\ call'[c].length = Len(j)
          /\ call'[c].next = station /\ call'[c].op = call[c].op /\ call'[c].nonce = bound.nonce
          /\ call'[c].before = bound.before /\ call'[c].claimed = bound.claimed
          /\ call'[c].answer = bound.answer
          /\ durable' = durable /\ launched' = launched /\ launcher' = launcher
      BY <1>1, <2>4, <2>6
    <3>1. Journal(c)' = j
      BY <3>0 DEF Journal, j
    <3>2. Pending(c)'
      BY <1>j, <2>1, <3>0, <3>1 DEF Pending
    <3>3. Toward(c)' = station
      BY <3>0 DEF Toward, At
    <3>4. call'[c].op > 1 => Settled(durable'[call'[c].op - 1])
      BY <1>0, <3>0 DEF CallInv
    <3> QED
      BY <3>0, <3>2, <3>3, <3>4 DEF CallInv, At, NotRead
  <2> QED
    BY <1>0, <1>1, <2>4, <2>5, <2>6, QuietKeeps
<1>2. CASE ~AllowsAll(j, recs) /\ End(c, "refused")
  BY <1>2, EndKeeps DEF Outcomes
<1>3. CASE AllowsAll(j, recs) /\ ~WithinLimits(j \o recs)
           /\ End(c, IF \E i \in 1..Len(recs) : recs[i].kind = "start"
                       THEN "exhausted" ELSE "noRoom")
  <2>1. \E i \in 1..Len(recs) : recs[i].kind = "start"
    BY <1>3, <1>j, RoomForClosure
  <2>2. End(c, "exhausted")
    BY <1>3, <2>1
  <2> QED
    BY <2>2, EndKeeps DEF Outcomes
<1> QED
  BY <1>1, <1>2, <1>3 DEF PrepareAppend

\* An append of one record about the call's own attempt or, with its readback,
\* about the attempt it recovers.
LEMMA AppendKeeps ==
  ASSUME ReadInv, NEW c \in Caller, ~At(c, "idle"), NEW r \in DurableRecords,
         NEW station \in Reached, Append1(c, r, station), r.kind \notin {"intent", "start"},
         r.kind = "resolution" => r.ref # NoNonce,
         r.kind = "readback" =>
           r.ref = call[c].nonce /\ (station = "verdictDown" => r.mode = "not-applied"),
         station \notin {"launch", "ensure"},
         station = "successor" => r.kind = "resolution" /\ r.mode = "terminal",
         station \in Recovering => call[c].before # NoNonce,
         station \in Early => ~call[c].claimed,
         station \in Unlaunched => call[c].nonce \notin launched,
         station \in UnderLock => launcher = c,
         station = "verdictDown" => NotRead(call[c].nonce)
  PROVE  ReadInv'
<1>0. /\ call[c] \in CallRecord /\ CallInv(c)
      /\ call[c].nonce # NoNonce /\ call[c].answer # "noRoom"
  BY DEF ReadInv, ReadTypes, CallInv
<1> DEFINE recs == <<r>>
<1>1. recs \in Seq(DurableRecords) /\ Len(recs) = 1 /\ recs[1] = r
  OBVIOUS
<1>2. PrepareAppend(c, call[c], recs, station)
  BY DEF Append1
<1> HIDE DEF recs
<1>3. FitsStation(recs, call[c].nonce, station)
  <2>1. \A i \in 1..Len(recs) : recs[i] = r
    BY <1>1
  <2> QED
    BY <1>1, <2>1 DEF FitsStation
<1>4. Len(recs) # 2
  BY <1>1
<1> QED
  BY <1>0, <1>1, <1>2, <1>3, <1>4, PrepareKeeps

\* The records a call makes.
LEMMA RecordsMade ==
  ASSUME NEW n \in Nonces, NEW b \in Nonces
  PROVE  /\ Settlement(n) \in DurableRecords /\ LostHandle(n) \in DurableRecords
         /\ Start(n, NoNonce) \in DurableRecords /\ Start(n, b) \in DurableRecords
         /\ Intent(n) \in DurableRecords
         /\ \A mode \in Modes : /\ Readback(b, n, mode) \in DurableRecords
                                /\ Resolution(b, n, mode) \in DurableRecords
  BY DEF Settlement, LostHandle, Start, Intent, Readback, Resolution, DurableRecords, Kinds, Modes

\* What is known of the call at any step of it.
LEMMA CallFacts ==
  ASSUME ReadInv, NEW c \in Caller, ~At(c, "idle")
  PROVE  /\ call[c] \in CallRecord /\ CallInv(c) /\ call[c].nonce \in Nonces
         /\ call[c].before # NoNonce => call[c].before \in Nonces
         /\ ~At(c, "commit") => Toward(c) = call[c].at
         /\ call[c].op \in Ops /\ Journal(c) \in Seq(DurableRecords)
         /\ call[c].answer # "noRoom"
         /\ launcher \in Owners /\ stops \in 0..MaxStops
<1>1. call[c] \in CallRecord /\ CallInv(c)
      /\ launcher \in Owners /\ stops \in 0..MaxStops
  BY DEF ReadInv, ReadTypes
<1>2. call[c].nonce # NoNonce /\ call[c].answer # "noRoom"
  BY <1>1 DEF CallInv
<1>3. /\ call[c].op \in Ops /\ call[c].nonce \in Nonces
      /\ call[c].before # NoNonce => call[c].before \in Nonces
  BY <1>1, <1>2 DEF CallRecord
<1>4. Journal(c) \in Seq(DurableRecords)
  BY <1>3 DEF ReadInv, Journals, Lawful, Journal
<1> QED
  BY <1>1, <1>2, <1>3, <1>4 DEF Toward

\* A recovering call reads the engine back.
LEMMA RecoverKeeps ==
  ASSUME ReadInv, NEW c \in Caller, Recover(c)
  PROVE  ReadInv'
<1>0. ~At(c, "idle") /\ At(c, "recover") /\ Toward(c) = "recover"
  BY DEF Recover, At, Toward
<1>1. /\ call[c].before \in Nonces /\ call[c].nonce \in Nonces /\ ~call[c].claimed
      /\ call[c].before # NoNonce
      /\ call[c].nonce \notin launched /\ NotRead(call[c].nonce)
  BY <1>0, CallFacts DEF CallInv, At, Recovering, Early, Unlaunched
<1>2. ASSUME NEW mode \in {"applied", "not-applied"}, NEW station \in {"verdictUp", "verdictDown"},
             station = "verdictDown" => mode = "not-applied",
             Append1(c, Readback(call[c].before, call[c].nonce, mode), station)
      PROVE  ReadInv'
  <2> DEFINE r == Readback(call[c].before, call[c].nonce, mode)
  <2>1. r \in DurableRecords /\ r.kind = "readback" /\ r.ref = call[c].nonce /\ r.mode = mode
    <3>1. r \in DurableRecords
      BY <1>1, RecordsMade DEF Modes
    <3> QED
      BY <3>1 DEF Readback
  <2>2. station \in Reached /\ station \notin UnderLock
    BY DEF Reached, UnderLock
  <2> HIDE DEF r
  <2> QED
    BY <1>0, <1>1, <1>2, <2>1, <2>2, AppendKeeps DEF r
<1> QED
  BY <1>2 DEF Recover

\* The attempt is resolved by what was read back.
LEMMA ResolveKeeps ==
  ASSUME ReadInv, NEW c \in Caller, ResolveUp(c) \/ ResolveExpired(c)
  PROVE  ReadInv'
<1> DEFINE r == Resolution(call[c].before, call[c].nonce, "terminal")
<1>0. ~At(c, "idle") /\ call[c].at \in {"verdictUp", "verdictDown"} /\ Toward(c) = call[c].at
  BY DEF ResolveUp, ResolveExpired, At, Toward
<1>1. /\ call[c].before \in Nonces /\ call[c].nonce \in Nonces /\ ~call[c].claimed
      /\ call[c].nonce \notin launched /\ call[c].nonce # NoNonce
  BY <1>0, CallFacts DEF CallInv, Recovering, Early, Unlaunched
<1>2. /\ r \in DurableRecords /\ r.kind = "resolution" /\ r.ref = call[c].nonce
      /\ r.mode = "terminal"
  <2>1. r \in DurableRecords
    BY <1>1, RecordsMade DEF Modes
  <2> QED
    BY <2>1 DEF Resolution
<1>3. \E station \in {"return", "successor"} : Append1(c, r, station)
  BY DEF ResolveUp, ResolveExpired
<1>4. PICK station \in {"return", "successor"} : Append1(c, r, station)
  BY <1>3
<1>5. station \in Reached /\ station \notin UnderLock \cup Recovering
  BY DEF Reached, UnderLock, Recovering
<1> HIDE DEF r
<1> QED
  BY <1>0, <1>1, <1>2, <1>4, <1>5, AppendKeeps

\* What the launch of an attempt leaves: its settlement, its loss, its
\* readback and its resolution.
LEMMA ClosureKeeps ==
  ASSUME ReadInv, NEW c \in Caller,
         \/ LaunchSettles(c) \/ RecordLoss(c) \/ SettleUnstarted(c) \/ Report(c) \/ CloseAttempt(c)
  PROVE  ReadInv'
<1>0. ~At(c, "idle") /\ ~At(c, "commit") /\ Toward(c) = call[c].at
  BY DEF LaunchSettles, RecordLoss, SettleUnstarted, Report, CloseAttempt, At, Toward
<1>1. call[c].nonce \in Nonces /\ call[c].nonce # NoNonce
      /\ (call[c].at \in {"lost", "reported"} => launcher = c)
  BY <1>0, CallFacts DEF CallInv, UnderLock
<1>2. \A mode \in Modes :
        /\ Settlement(call[c].nonce) \in DurableRecords
        /\ LostHandle(call[c].nonce) \in DurableRecords
        /\ Readback(call[c].nonce, call[c].nonce, mode) \in DurableRecords
        /\ Resolution(call[c].nonce, call[c].nonce, mode) \in DurableRecords
  BY <1>1, RecordsMade
<1>m. "applied" \in Modes /\ "terminal" \in Modes
  BY DEF Modes
<1>3. PICK r \in DurableRecords,
           station \in {"final", "lost", "abandon", "report", "close", "return"} :
        /\ Append1(c, r, station)
        /\ r.kind \notin {"intent", "start"}
        /\ r.kind \in {"resolution", "readback"} => r.ref = call[c].nonce
        /\ station \in {"final", "lost", "abandon"} => launcher = c
  <2>1. CASE LaunchSettles(c)
    <3>1. PICK station \in {"final", "lost"} : Append1(c, Settlement(call[c].nonce), station)
      BY <2>1 DEF LaunchSettles
    <3>2. Settlement(call[c].nonce) \in DurableRecords
          /\ Settlement(call[c].nonce).kind = "settlement"
      BY <1>2, <1>m DEF Settlement
    <3>3. launcher = c
      BY <2>1, <1>1 DEF LaunchSettles, At
    <3> QED
      BY <3>1, <3>2, <3>3
  <2>2. CASE RecordLoss(c)
    <3>1. Append1(c, LostHandle(call[c].nonce), "abandon") /\ launcher = c
      BY <2>2, <1>1 DEF RecordLoss, At
    <3>2. LostHandle(call[c].nonce) \in DurableRecords
          /\ LostHandle(call[c].nonce).kind = "lost"
      BY <1>2, <1>m DEF LostHandle
    <3> QED
      BY <3>1, <3>2
  <2>3. CASE SettleUnstarted(c)
    <3>1. Append1(c, Settlement(call[c].nonce), "report")
      BY <2>3 DEF SettleUnstarted
    <3>2. Settlement(call[c].nonce) \in DurableRecords
          /\ Settlement(call[c].nonce).kind = "settlement"
      BY <1>2, <1>m DEF Settlement
    <3> QED
      BY <3>1, <3>2
  <2>4. CASE Report(c)
    <3> DEFINE r == Readback(call[c].nonce, call[c].nonce, "applied")
    <3>1. Append1(c, r, "close")
      BY <2>4 DEF Report
    <3>2. r \in DurableRecords /\ r.kind = "readback" /\ r.ref = call[c].nonce
      <4>1. r \in DurableRecords
        BY <1>2, <1>m
      <4> QED
        BY <4>1 DEF Readback
    <3> HIDE DEF r
    <3> QED
      BY <3>1, <3>2
  <2>5. CASE CloseAttempt(c)
    <3> DEFINE r == Resolution(call[c].nonce, call[c].nonce, "terminal")
    <3>1. Append1(c, r, "return")
      BY <2>5 DEF CloseAttempt
    <3>2. r \in DurableRecords /\ r.kind = "resolution" /\ r.ref = call[c].nonce
      <4>1. r \in DurableRecords
        BY <1>2, <1>m
      <4> QED
        BY <4>1 DEF Resolution
    <3> HIDE DEF r
    <3> QED
      BY <3>1, <3>2
  <2> QED
    BY <2>1, <2>2, <2>3, <2>4, <2>5
<1>4. /\ station \in Reached /\ station \notin Recovering \cup Early \cup Unlaunched
      /\ station \in UnderLock => station \in {"final", "lost", "abandon"}
      /\ station \notin {"launch", "ensure", "successor", "verdictDown"}
  BY DEF Reached, Recovering, Early, Unlaunched, UnderLock
<1> QED
  BY <1>0, <1>1, <1>3, <1>4, AppendKeeps

\* A fresh nonce is in no journal and nothing was launched for it.
LEMMA FreshFacts ==
  ASSUME ReadInv, NEW n \in Nonces, IsFresh(n)
  PROVE  n \notin Used /\ n # NoNonce /\ n \notin launched /\ NotRead(n)
<1>1. n \notin Used
  BY DEF IsFresh, Free
<1>2. n # NoNonce
  BY ReadinessAssumption DEF Nonces, NoNonce
<1>3. \A k \in Ops : \A i \in 1..Len(durable[k]) :
        durable[k][i].by \in Used /\ durable[k][i].ref \in Used
  <2> TAKE k \in Ops
  <2> TAKE i \in 1..Len(durable[k])
  <2>1. durable[k][i].by \in Recorded(k) /\ durable[k][i].ref \in Recorded(k)
    BY DEF Recorded
  <2> QED
    BY <2>1 DEF Used
<1>4. n \notin launched
  BY <1>1, <1>3 DEF ReadInv, Nonced, HasStart, Places
<1>5. NotRead(n)
  BY <1>1, <1>3 DEF NotRead, Places
<1> QED
  BY <1>1, <1>2, <1>4, <1>5

\* The first attempt is recorded before it is launched.
LEMMA StartKeeps ==
  ASSUME ReadInv, NEW c \in Caller, StartAttempt(c)
  PROVE  ReadInv'
<1> DEFINE r == Start(call[c].nonce, NoNonce)
           recs == <<r>>
<1>0. ~At(c, "idle") /\ At(c, "start") /\ Toward(c) = "start"
  BY DEF StartAttempt, At, Toward
<1>1. /\ call[c] \in CallRecord /\ CallInv(c) /\ call[c].nonce \in Nonces
      /\ call[c].nonce # NoNonce /\ call[c].answer # "noRoom"
      /\ call[c].nonce \notin launched /\ launcher = c
  BY <1>0, CallFacts DEF CallInv, Unlaunched, UnderLock
<1>2. r \in DurableRecords /\ r.kind = "start" /\ r.by = call[c].nonce /\ r.ref = NoNonce
  <2>1. r \in DurableRecords
    BY <1>1, RecordsMade
  <2> QED
    BY <2>1 DEF Start
<1>3. PrepareAppend(c, call[c], recs, "launch")
  BY DEF StartAttempt, Append1
<1> HIDE DEF r
<1>4. recs \in Seq(DurableRecords) /\ Len(recs) = 1 /\ recs[1] = r
  BY <1>2
<1> HIDE DEF recs
<1>5. FitsStation(recs, call[c].nonce, "launch")
  <2>1. \A i \in 1..Len(recs) : recs[i] = r
    BY <1>4
  <2> QED
    BY <1>2, <1>4, <2>1 DEF FitsStation
<1>6. Len(recs) # 2 /\ "launch" \in Reached /\ "launch" \notin Recovering \cup Early
  BY <1>4 DEF Reached, Recovering, Early
<1> QED
  BY <1>0, <1>1, <1>3, <1>4, <1>5, <1>6, PrepareKeeps

\* The readback of an attempt is the last one: those before it are of earlier
\* attempts, and were followed by this one.
LEMMA ReadbacksBefore ==
  ASSUME NEW j, Lawful(j), Justified(j), NEW r \in DurableRecords, Allows(j, r),
         r.kind = "resolution",
         \A i \in Places(j, "readback") : j[i].ref = r.ref => j[i].mode = "not-applied"
  PROVE  \A i \in Places(j, "readback") : j[i].mode = "not-applied"
<1>0. j \in Seq(DurableRecords)
  BY DEF Lawful
<1>1. PICK k \in Noted(j, "readback") : j[k].ref = r.ref
  BY DEF Allows
<1>2. PICK s \in Active(j) : s < k
  BY <1>1 DEF Noted
<1>3. k \in Places(j, "readback") /\ j[k].mode = "not-applied"
  BY <1>1 DEF Noted
<1>4. s \in Places(j, "start") /\ s \in Nat /\ j[s].kind = "start"
  BY <1>0, <1>2, PlaceFacts DEF Active
<1> TAKE i \in Places(j, "readback")
<1>5. i \in Nat /\ j[i].kind = "readback" /\ 1 <= i
  BY <1>0, PlaceFacts
<1>6. CASE s < i
  <2>1. i \in Noted(j, "readback")
    BY <1>2, <1>6 DEF Noted
  <2>2. i = k
    BY <1>1, <2>1 DEF Lawful
  <2> QED
    BY <1>3, <2>2
<1>7. CASE ~(s < i)
  <2>1. i < s
    <3>1. i # s
      BY <1>4, <1>5
    <3> QED
      BY <1>4, <1>5, <1>7, <3>1
  <2>2. i # 1
    BY DEF Lawful
  <2>3. s > 2
    BY <1>4, <1>5, <2>1, <2>2
  <2> QED
    BY <1>4, <2>1, <2>3 DEF Justified
<1> QED
  BY <1>6, <1>7

\* A second attempt, with the resolution of the first: the engine was found
\* down by this call, and by every call before it.
LEMMA RetryKeeps ==
  ASSUME ReadInv, NEW c \in Caller, RetryAdmitted(c)
  PROVE  ReadInv'
<1>0. ~At(c, "idle") /\ At(c, "verdictDown") /\ Toward(c) = "verdictDown"
  BY DEF RetryAdmitted, At, Toward
<1>1. /\ call[c] \in CallRecord /\ CallInv(c) /\ call[c].nonce \in Nonces
      /\ call[c].before \in Nonces
      /\ call[c].nonce # NoNonce /\ call[c].answer # "noRoom" /\ call[c].op \in Ops
  BY <1>0, CallFacts DEF CallInv, Recovering
<1>2. PICK n \in Nonces :
        /\ IsFresh(n)
        /\ PrepareAppend(c, [call[c] EXCEPT !.nonce = n, !.claimed = TRUE],
                         <<Resolution(call[c].before, call[c].nonce, "retry"),
                           Start(n, call[c].nonce)>>, "ensure")
  BY DEF RetryAdmitted
<1>3. n \notin Used /\ n # NoNonce /\ n \notin launched
  BY <1>2, FreshFacts
<1> DEFINE r1 == Resolution(call[c].before, call[c].nonce, "retry")
           r2 == Start(n, call[c].nonce)
           recs == <<r1, r2>>
           bound == [call[c] EXCEPT !.nonce = n, !.claimed = TRUE]
<1>4. /\ bound \in CallRecord /\ bound.nonce = n /\ bound.claimed = TRUE /\ bound.op = call[c].op
      /\ bound.answer = call[c].answer
  BY <1>1 DEF CallRecord
<1>5. /\ r1 \in DurableRecords /\ r1.kind = "resolution" /\ r1.ref = call[c].nonce
      /\ r1.mode = "retry"
      /\ r2 \in DurableRecords /\ r2.kind = "start" /\ r2.ref = call[c].nonce /\ r2.by = n
  <2>1. r1 \in DurableRecords /\ r2 \in DurableRecords
    BY <1>1, RecordsMade DEF Modes
  <2> QED
    BY <2>1 DEF Resolution, Start
<1>6. PrepareAppend(c, bound, recs, "ensure")
  BY <1>2
<1> HIDE DEF bound, r1, r2
<1>7. recs \in Seq(DurableRecords) /\ Len(recs) = 2 /\ recs[1] = r1 /\ recs[2] = r2
  BY <1>5
<1> HIDE DEF recs
<1>8. FitsStation(recs, n, "ensure")
  <2>1. \A i \in 1..Len(recs) : i = 1 \/ i = 2
    BY <1>7
  <2>2. \A i \in 1..Len(recs) : recs[i] = r1 \/ recs[i] = r2
    BY <1>7, <2>1
  <2> QED
    BY <1>1, <1>5, <1>7, <2>2 DEF FitsStation
<1>9. "ensure" \in Reached /\ "ensure" \notin Recovering \cup Early \cup UnderLock
  BY DEF Reached, Recovering, Early, UnderLock
<1>10. ASSUME AllowsAll(Journal(c), recs)
       PROVE  \A i \in Places(Journal(c), "readback") : Journal(c)[i].mode = "not-applied"
  <2> DEFINE j == Journal(c)
  <2>1. Lawful(j) /\ Justified(j) /\ j \in Seq(DurableRecords)
    BY <1>1 DEF ReadInv, Journals, Journal, Lawful
  <2>2. Allows(j, r1)
    BY <1>7, <1>10, <2>1, TwoRecords
  <2>3. \A i \in Places(j, "readback") : j[i].ref = r1.ref => j[i].mode = "not-applied"
    BY <1>0, <1>1, <1>5 DEF CallInv
  <2> HIDE DEF j
  <2>4. \A i \in Places(j, "readback") : j[i].mode = "not-applied"
    BY <1>5, <2>1, <2>2, <2>3, ReadbacksBefore
  <2> QED
    BY <2>4 DEF j
<1> QED
  BY <1>0, <1>1, <1>3, <1>4, <1>6, <1>7, <1>8, <1>9, <1>10, PrepareKeeps

\* A call begins with a nonce of its own.
LEMMA BeginKeeps ==
  ASSUME ReadInv, NEW c \in Caller, BeginCall(c)
  PROVE  ReadInv'
<1>1. PICK n \in Nonces :
        IsFresh(n) /\ call' = [call EXCEPT ![c] = [Idle("none") EXCEPT !.at = "read", !.nonce = n]]
  BY DEF BeginCall
<1>2. n \notin Used /\ n # NoNonce /\ n \notin launched /\ NotRead(n)
  BY <1>1, FreshFacts
<1> DEFINE rec == [Idle("none") EXCEPT !.at = "read", !.nonce = n]
<1>3. /\ rec.at = "read" /\ rec.op = 1 /\ rec.nonce = n /\ rec.claimed = FALSE
      /\ rec.answer = "none"
  BY DEF Idle
<1>4. rec \in CallRecord
  <2>1. 0 \in 0..MaxRecords /\ 1 \in Ops
    BY ReadinessAssumption DEF Ops
  <2>2. <<>> \in Seq(DurableRecords)
    OBVIOUS
  <2> QED
    BY <2>1, <2>2 DEF Idle, CallRecord, Stations, Outcomes
<1>5. /\ call' = [call EXCEPT ![c] = rec] /\ durable' = durable /\ launched' = launched
      /\ launcher' = launcher /\ stops' = stops
      /\ launcher \in Owners /\ stops \in 0..MaxStops
  BY <1>1 DEF BeginCall, ReadInv, ReadTypes
<1> HIDE DEF rec
<1>6. ASSUME call'[c] = rec PROVE CallInv(c)'
  <2>1. Toward(c)' = "read"
    BY <1>3, <1>6 DEF Toward, At
  <2> QED
    BY <1>2, <1>3, <1>5, <1>6, <2>1
    DEF CallInv, At, NotRead, Recovering, Early, Unlaunched, UnderLock
<1> QED
  BY <1>2, <1>3, <1>4, <1>5, <1>6, QuietKeeps

\* The call is at the tip of the lineage: what comes before it is settled.
LEMMA ReadKeeps ==
  ASSUME ReadInv, NEW c \in Caller, ReadLineage(c)
  PROVE  ReadInv'
<1>0. ~At(c, "idle") /\ At(c, "read") /\ Toward(c) = "read"
  BY DEF ReadLineage, At, Toward
<1>1. /\ call[c] \in CallRecord /\ CallInv(c) /\ call[c].nonce \in Nonces
      /\ call[c].nonce # NoNonce /\ call[c].answer # "noRoom" /\ ~call[c].claimed
      /\ call[c].nonce \notin launched /\ NotRead(call[c].nonce)
      /\ launcher \in Owners /\ stops \in 0..MaxStops
  BY <1>0, CallFacts DEF CallInv, Early, Unlaunched, At
<1>2. PICK k \in Ops :
       /\ IsTip(k)
       /\ call' = [call EXCEPT
            ![c].op = k,
            ![c].before = ActiveNonce(durable[k]),
            ![c].at = CASE durable[k] = <<>> -> "ensure"
                        [] IsActive(durable[k]) -> "recover"
                        [] Settled(durable[k]) -> "settled"
                        [] OTHER -> "prepared"]
  BY DEF ReadLineage
<1> DEFINE j == durable[k]
           b == ActiveNonce(j)
           s == CASE durable[k] = <<>> -> "ensure"
                  [] IsActive(durable[k]) -> "recover"
                  [] Settled(durable[k]) -> "settled"
                  [] OTHER -> "prepared"
           rec == [call[c] EXCEPT !.op = k, !.before = b, !.at = s]
<1>3. s \in {"ensure", "recover", "settled", "prepared"}
      /\ (s = "recover" => IsActive(j)) /\ (s = "settled" => Settled(j))
  OBVIOUS
<1>4. b \in Nonces \cup {NoNonce} /\ (IsActive(j) => b # NoNonce)
  <2>1. CASE IsActive(j)
    <3> DEFINE i == CHOOSE i \in Active(j) : TRUE
    <3>1. i \in Active(j)
      BY <2>1 DEF IsActive
    <3>2. j \in Seq(DurableRecords) /\ i \in 1..Len(j)
      BY <3>1 DEF ReadInv, Journals, Active, Places
    <3> HIDE DEF i, j
    <3>3. j[i] \in DurableRecords
      BY <3>2, ElementOfSeq
    <3>4. j[i].by \in Nonces /\ j[i].by # NoNonce
      BY <3>3, ReadinessAssumption DEF DurableRecords, Nonces, NoNonce
    <3>5. b = j[i].by
      BY <2>1 DEF ActiveNonce, i, j
    <3> QED
      BY <3>4, <3>5
  <2>2. CASE ~IsActive(j)
    BY <2>2 DEF ActiveNonce
  <2> QED
    BY <2>1, <2>2
<1>5. k > 1 => Settled(durable[k - 1])
  <2>1. k > 1 => k - 1 \in 1..(k - 1)
    BY ReadinessAssumption DEF Ops
  <2> QED
    BY <1>2, <2>1 DEF IsTip
<1>e. call' = [call EXCEPT ![c].op = k, ![c].before = b, ![c].at = s]
  BY <1>2
<1>u. durable' = durable /\ launched' = launched /\ launcher' = launcher /\ stops' = stops
  BY DEF ReadLineage
<1> HIDE DEF s, b
<1>6. /\ call' = [call EXCEPT ![c] = rec] /\ durable' = durable /\ launched' = launched
      /\ launcher' = launcher /\ stops' = stops
  <2>1. call \in [Caller -> CallRecord]
    BY DEF ReadInv, ReadTypes
  <2> QED
    BY <1>e, <1>u, <2>1
<1>7. /\ rec.at = s /\ rec.op = k /\ rec.nonce = call[c].nonce /\ rec.before = b
      /\ rec.claimed = call[c].claimed /\ rec.answer = call[c].answer
  BY <1>1 DEF CallRecord
<1>8. rec \in CallRecord
  <2>1. s \in Stations
    BY <1>3 DEF Stations
  <2> QED
    BY <1>1, <1>4, <2>1 DEF CallRecord
<1> HIDE DEF rec
<1>9. ASSUME call'[c] = rec PROVE CallInv(c)'
  <2>0. /\ call'[c].at = s /\ call'[c].op = k /\ call'[c].nonce = call[c].nonce
        /\ call'[c].before = b /\ call'[c].claimed = FALSE /\ call'[c].answer # "noRoom"
    BY <1>1, <1>7, <1>9
  <2>1. Toward(c)' = s
    BY <1>3, <2>0 DEF Toward, At
  <2>2. Journal(c)' = j
    BY <1>6, <2>0 DEF Journal
  <2>3. Settled(Journal(c))' <=> Settled(j)
    BY <2>2
  <2>4. s # "verdictDown" /\ s # "commit" /\ s # "idle" /\ s # "launch" /\ s # "successor"
        /\ s \notin UnderLock /\ (s \in Recovering => s = "recover")
    BY <1>3 DEF UnderLock, Recovering
  <2>5. NotRead(call[c].nonce)'
    BY <1>1, <1>6, <2>0 DEF NotRead
  <2> HIDE DEF j
  <2> QED
    BY <1>1, <1>3, <1>4, <1>5, <1>6, <2>0, <2>1, <2>3, <2>4, <2>5 DEF CallInv, At
<1> QED
  BY <1>0, <1>1, <1>6, <1>7, <1>8, <1>9, QuietKeeps

\* A successor is bound after its predecessor is settled.
LEMMA SucceedKeeps ==
  ASSUME ReadInv, NEW c \in Caller, Succeed(c)
  PROVE  ReadInv'
<1>0. ~At(c, "idle") /\ call[c].at \in {"settled", "successor"} /\ Toward(c) = call[c].at
  BY DEF Succeed, At, Toward
<1>1. /\ call[c] \in CallRecord /\ CallInv(c) /\ call[c].op \in Ops /\ call[c].op < MaxOps
      /\ call[c].answer # "noRoom" /\ ~call[c].claimed /\ Settled(durable[call[c].op])
      /\ launcher \in Owners /\ stops \in 0..MaxStops
  BY <1>0, CallFacts DEF CallInv, Early, Succeed, Journal
<1>2. PICK n \in Nonces :
       /\ IsFresh(n)
       /\ call' = [call EXCEPT ![c].at = "ensure", ![c].op = @ + 1, ![c].nonce = n,
                               ![c].before = NoNonce]
  BY DEF Succeed
<1>3. n \notin Used /\ n # NoNonce /\ n \notin launched
  BY <1>2, FreshFacts
<1> DEFINE rec == [call[c] EXCEPT !.at = "ensure", !.op = @ + 1, !.nonce = n, !.before = NoNonce]
<1>4. call[c].op + 1 \in Ops /\ (call[c].op + 1) - 1 = call[c].op
  BY <1>1, ReadinessAssumption DEF Ops
<1>5. /\ call' = [call EXCEPT ![c] = rec] /\ durable' = durable /\ launched' = launched
      /\ launcher' = launcher /\ stops' = stops
  BY <1>2 DEF Succeed
<1>6. /\ rec.at = "ensure" /\ rec.op = call[c].op + 1 /\ rec.nonce = n
      /\ rec.claimed = call[c].claimed /\ rec.answer = call[c].answer
  BY <1>1 DEF CallRecord
<1>7. rec \in CallRecord
  BY <1>1, <1>4 DEF CallRecord, Stations
<1> HIDE DEF rec
<1>8. ASSUME call'[c] = rec PROVE CallInv(c)'
  <2>1. Toward(c)' = "ensure"
    BY <1>6, <1>8 DEF Toward, At
  <2>2. call'[c].op > 1 => Settled(durable'[call'[c].op - 1])
    BY <1>1, <1>4, <1>5, <1>6, <1>8
  <2> QED
    BY <1>1, <1>3, <1>5, <1>6, <1>8, <2>1, <2>2
    DEF CallInv, At, Recovering, Early, Unlaunched, UnderLock
<1> QED
  BY <1>1, <1>3, <1>5, <1>6, <1>7, <1>8, QuietKeeps

\* A call goes on without a record: to or from the launcher's lease, or to
\* the launch of a recorded attempt.
LEMMA ProceedKeeps ==
  ASSUME ReadInv, NEW c \in Caller, ~At(c, "idle"),
         NEW s \in {"ready", "served", "locked", "intent", "launch", "launched", "reported"},
         Proceed(c, s),
         UNCHANGED <<durable, stops>>,
         \/ launched' = launched
         \/ launched' = launched \cup {call[c].nonce} /\ HasStart(call[c].op, call[c].nonce),
         launcher' \in {c, NoCaller} \/ launcher' = launcher,
         launcher \in {c, NoCaller} \/ launcher' = launcher,
         s \in UnderLock => launcher' = c,
         s \in Unlaunched => call[c].nonce \notin launched',
         s = "launch" \/ (s = "locked" /\ call[c].claimed) => HasStart(call[c].op, call[c].nonce)
  PROVE  ReadInv'
<1>1. /\ call[c] \in CallRecord /\ CallInv(c)
      /\ call[c].nonce # NoNonce /\ call[c].answer # "noRoom"
      /\ launcher \in Owners /\ stops \in 0..MaxStops /\ NoCaller \notin Caller
      /\ c \in Owners /\ NoCaller \in Owners /\ call \in [Caller -> CallRecord]
  BY CallFacts, ReadinessAssumption DEF CallInv, ReadInv, ReadTypes, Owners
<1> DEFINE rec == [call[c] EXCEPT !.at = s]
<1>2. /\ rec.at = s /\ rec.op = call[c].op /\ rec.nonce = call[c].nonce
      /\ rec.claimed = call[c].claimed /\ rec.answer = call[c].answer
  BY <1>1 DEF CallRecord
<1>3. rec \in CallRecord
  <2>1. s \in Stations
    BY DEF Stations
  <2> QED
    BY <1>1, <2>1 DEF CallRecord
<1>4. call' = [call EXCEPT ![c] = rec] /\ durable' = durable /\ stops' = stops
  BY DEF Proceed
<1> HIDE DEF rec
<1>5. ASSUME call'[c] = rec PROVE CallInv(c)'
  <2>1. Toward(c)' = s
    BY <1>2, <1>5 DEF Toward, At
  <2>2. call'[c].op > 1 => Settled(durable'[call'[c].op - 1])
    BY <1>1, <1>2, <1>4, <1>5 DEF CallInv
  <2>3. /\ s = "launch" => HasStart(call[c].op, call[c].nonce)'
        /\ s = "locked" /\ call[c].claimed => HasStart(call[c].op, call[c].nonce)'
    BY <1>2, <1>4, <1>5 DEF HasStart
  <2>4. s \notin Recovering \cup Early
    BY DEF Recovering, Early
  <2> QED
    BY <1>1, <1>2, <1>4, <1>5, <2>1, <2>2, <2>3, <2>4 DEF CallInv, At
<1> QED
  BY <1>1, <1>2, <1>3, <1>4, <1>5, QuietKeeps

\* The launcher's lease is taken and settled, and the launcher started.
LEMMA MovesKeep ==
  ASSUME ReadInv, NEW c \in Caller,
         \/ EnsureUp(c) \/ EnsureDown(c) \/ LockedUp(c) \/ LockedDown(c) \/ Launch(c)
         \/ LauncherReports(c) \/ FinalReadback(c)
  PROVE  ReadInv'
<1>0. ~At(c, "idle") /\ Toward(c) = call[c].at
  BY DEF EnsureUp, EnsureDown, LockedUp, LockedDown, Launch, LauncherReports, FinalReadback, At,
         Toward
<1>1. CallInv(c) /\ "unavailable" \in Outcomes /\ launcher \in Owners
  BY <1>0, CallFacts DEF Outcomes
<1>2. CASE EnsureUp(c)
  <2>1. Proceed(c, "ready") /\ UNCHANGED <<durable, launcher, launched, stops>>
        /\ "ready" \notin UnderLock \cup Unlaunched
    BY <1>2 DEF EnsureUp, UnderLock, Unlaunched, Early, Recovering
  <2> QED
    BY <1>0, <2>1, ProceedKeeps
<1>3. CASE EnsureDown(c)
  <2>1. CASE End(c, "unavailable")
    BY <1>1, <2>1, EndKeeps
  <2>2. CASE ~End(c, "unavailable")
    <3>1. At(c, "ensure") /\ launcher = NoCaller /\ launcher' = c /\ Proceed(c, "locked")
          /\ UNCHANGED <<durable, launched, stops>>
      BY <1>3, <2>2 DEF EnsureDown
    <3>2. /\ call[c].claimed => HasStart(call[c].op, call[c].nonce)
          /\ call[c].nonce \notin launched
      BY <1>0, <1>1, <3>1 DEF CallInv, At, Unlaunched
    <3> QED
      BY <1>0, <3>1, <3>2, ProceedKeeps
  <2> QED
    BY <2>1, <2>2
<1>4. CASE LockedUp(c) \/ FinalReadback(c)
  <2>1. PICK s \in {"ready", "served"} : Unlock(c, s)
    BY <1>4 DEF LockedUp, FinalReadback
  <2>2. launcher = c /\ s \notin UnderLock \cup Unlaunched
    BY <1>0, <1>1, <1>4
    DEF LockedUp, FinalReadback, CallInv, At, UnderLock, Unlaunched, Early, Recovering
  <2> QED
    BY <1>0, <2>1, <2>2, ProceedKeeps DEF Unlock
<1>5. CASE LockedDown(c)
  <2>1. /\ launcher = c /\ call[c].nonce \notin launched
        /\ call[c].claimed => HasStart(call[c].op, call[c].nonce)
    BY <1>0, <1>1, <1>5 DEF LockedDown, CallInv, At, UnderLock, Unlaunched
  <2>2. UNCHANGED <<durable, launcher, launched, stops>>
    BY <1>5 DEF LockedDown
  <2>3. CASE call[c].claimed
    <3>1. Proceed(c, "launch")
      BY <1>5, <2>3 DEF LockedDown
    <3> QED
      BY <1>0, <2>1, <2>2, <2>3, <3>1, ProceedKeeps
  <2>4. CASE ~call[c].claimed
    <3>1. Proceed(c, "intent")
      BY <1>5, <2>4 DEF LockedDown
    <3> QED
      BY <1>0, <2>1, <2>2, <2>4, <3>1, ProceedKeeps
  <2> QED
    BY <2>3, <2>4
<1>6. CASE Launch(c)
  <2>1. /\ Proceed(c, "launched") /\ launched' = launched \cup {call[c].nonce}
        /\ UNCHANGED <<durable, launcher, stops>>
    BY <1>6 DEF Launch
  <2>2. launcher = c /\ HasStart(call[c].op, call[c].nonce) /\ "launched" \notin Unlaunched
    BY <1>0, <1>1, <1>6 DEF Launch, CallInv, At, UnderLock, Unlaunched, Early, Recovering
  <2> QED
    BY <1>0, <2>1, <2>2, ProceedKeeps
<1>7. CASE LauncherReports(c)
  <2>1. Proceed(c, "reported") /\ UNCHANGED <<durable, launcher, launched, stops>>
        /\ "reported" \notin Unlaunched
    BY <1>7 DEF LauncherReports, Unlaunched, Early, Recovering
  <2>2. launcher = c
    BY <1>0, <1>1, <1>7 DEF LauncherReports, CallInv, At, UnderLock
  <2> QED
    BY <1>0, <2>1, <2>2, ProceedKeeps
<1> QED
  BY <1>2, <1>3, <1>4, <1>5, <1>6, <1>7

\* A call that ends of itself.
LEMMA EndsKeep ==
  ASSUME ReadInv, NEW c \in Caller,
         \/ FindUp(c) \/ FindDown(c) \/ RetryRefused(c) \/ Exhausted(c) \/ Abandon(c)
         \/ NothingToClose(c) \/ Return(c) \/ StopCall(c)
  PROVE  ReadInv'
<1>1. CASE StopCall(c)
  <2>1. /\ "none" \in Outcomes /\ stops' \in 0..MaxStops
        /\ \E owner \in {NoCaller, DeadCaller} : Leave(c, "none", owner)
    BY <1>1, ReadinessAssumption DEF StopCall, Outcomes, ReadInv, ReadTypes
  <2> QED
    BY <2>1, LeaveKeeps
<1>2. CASE ~StopCall(c)
  <2>1. PICK answer \in {"ready", "unavailable", "refused"} : End(c, answer)
    BY <1>2 DEF FindUp, FindDown, RetryRefused, Exhausted, Abandon, NothingToClose, Return
  <2>2. answer \in Outcomes /\ answer # "noRoom"
    BY DEF Outcomes
  <2> QED
    BY <2>1, <2>2, EndKeeps
<1> QED
  BY <1>1, <1>2

\* A journal that has grown lawfully leaves the lineage in order.
LEMMA JournalsGrow ==
  ASSUME ReadInv, NEW c \in Caller, ~At(c, "idle"), StepOf(c), NEW m,
         durable' = [durable EXCEPT ![call[c].op] = m],
         Lawful(m), Justified(m), IsActive(m) => WithinLimits(m)
  PROVE  Journals'
<1>0. call[c].op \in Ops /\ CallInv(c)
  BY CallFacts
<1>1. /\ durable \in [Ops -> Seq(DurableRecords)]
      /\ \A k \in Ops :
           /\ Lawful(durable[k]) /\ Justified(durable[k])
           /\ IsActive(durable[k]) => WithinLimits(durable[k])
           /\ k > 1 /\ durable[k] # <<>> => Settled(durable[k - 1])
  BY DEF ReadInv, Journals
<1>2. m \in Seq(DurableRecords)
  BY DEF Lawful
<1>3. /\ durable' \in [Ops -> Seq(DurableRecords)] /\ durable'[call[c].op] = m
      /\ \A k \in Ops : k # call[c].op => durable'[k] = durable[k]
  BY <1>0, <1>1, <1>2
<1>4. ASSUME NEW k \in Ops, k > 1, durable'[k] # <<>> PROVE Settled(durable'[k - 1])
  <2>1. k - 1 \in Ops
    BY <1>4, ReadinessAssumption DEF Ops
  <2>2. Settled(durable[k - 1])
    <3>1. CASE k = call[c].op
      BY <1>0, <1>4, <3>1 DEF CallInv
    <3>2. CASE k # call[c].op
      BY <1>1, <1>3, <1>4, <3>2
    <3> QED
      BY <3>1, <3>2
  <2> QED
    BY <2>1, <2>2, KeptJournal
<1>5. ASSUME NEW k \in Ops
      PROVE  /\ Lawful(durable'[k]) /\ Justified(durable'[k])
             /\ IsActive(durable'[k]) => WithinLimits(durable'[k])
  BY <1>1, <1>3
<1> QED
  BY <1>3, <1>4, <1>5 DEF Journals

\* The swap: the journal is as it was checked, or the call is over.
LEMMA CommitKeeps ==
  ASSUME ReadInv, NEW c \in Caller, CommitAppend(c)
  PROVE  ReadInv'
<1> DEFINE j == Journal(c)
           recs == call[c].recs
           next == call[c].next
           n == call[c].nonce
           m == j \o recs
<1>0. ~At(c, "idle") /\ At(c, "commit") /\ Toward(c) = next
  BY DEF CommitAppend, At, Toward
<1>1. /\ call[c] \in CallRecord /\ CallInv(c) /\ n \in Nonces /\ n # NoNonce
      /\ call[c].answer # "noRoom" /\ call[c].op \in Ops /\ call \in [Caller -> CallRecord]
      /\ launcher \in Owners /\ stops \in 0..MaxStops
      /\ recs \in Seq(DurableRecords)
  BY <1>0, CallFacts DEF CallInv, ReadInv, ReadTypes, CallRecord
<1>2. next \in Reached /\ FitsStation(recs, n, next)
      /\ (Len(j) = call[c].length => Acceptable(j, recs))
  BY <1>0, <1>1 DEF CallInv, Pending
<1>3. CASE Len(j) # call[c].length
  <2>1. End(c, "conflict") /\ "conflict" \in Outcomes
    BY <1>3 DEF CommitAppend, Outcomes
  <2> QED
    BY <2>1, EndKeeps
<1>4. CASE Len(j) = call[c].length
  <2>1. /\ durable' = [durable EXCEPT ![call[c].op] = @ \o recs]
        /\ call' = [call EXCEPT ![c].at = next, ![c].recs = <<>>, ![c].length = 0,
                                ![c].next = "idle"]
        /\ launcher' = launcher /\ launched' = launched /\ stops' = stops
    BY <1>4 DEF CommitAppend
  <2>2. Lawful(j) /\ Justified(j) /\ j \in Seq(DurableRecords)
        /\ durable \in [Ops -> Seq(DurableRecords)] /\ j = durable[call[c].op]
    BY <1>1 DEF ReadInv, Journals, Journal, Lawful
  <2>3. /\ Lawful(m) /\ Justified(m) /\ Grown(m, j, n) /\ ~Settled(j) /\ Len(j) # 0
        /\ next \in {"launch", "ensure"} => \E i \in Places(m, "start") : m[i].by = n
        /\ next = "successor" => Settled(m)
        /\ next = "verdictDown" =>
             \A r \in Places(m, "readback") :
               r \in Places(j, "readback") \/ m[r].mode = "not-applied"
    <3>1. Acceptable(j, recs) /\ FitsStation(recs, n, next) /\ recs \in Seq(DurableRecords)
      BY <1>1, <1>2, <1>4
    <3>2. Lawful(j) /\ Justified(j)
      BY <2>2
    <3> HIDE DEF j, recs, n, next
    <3> QED
      BY <3>1, <3>2, Appended, ZenonT(60)
  <2>w. WithinLimits(m)
    BY <1>2, <1>4 DEF Acceptable
  <2>4. durable' = [durable EXCEPT ![call[c].op] = m]
    BY <2>1, <2>2
  <2> HIDE DEF m, j
  <2>5. /\ durable'[call[c].op] = m
        /\ \A k \in Ops : k # call[c].op => durable'[k] = durable[k]
    BY <1>1, <2>2, <2>4
  <2> DEFINE rec == [call[c] EXCEPT !.at = next, !.recs = <<>>, !.length = 0, !.next = "idle"]
  <2>6. /\ rec.at = next /\ rec.op = call[c].op /\ rec.nonce = n /\ rec.before = call[c].before
        /\ rec.claimed = call[c].claimed /\ rec.answer = call[c].answer
    BY <1>1 DEF CallRecord
  <2>7. rec \in CallRecord
    <3>1. next \in Stations /\ "idle" \in Stations /\ 0 \in 0..MaxRecords
      BY <1>2, ReadinessAssumption DEF Reached, Stations
    <3>2. <<>> \in Seq(DurableRecords)
      OBVIOUS
    <3> QED
      BY <1>1, <3>1, <3>2 DEF CallRecord
  <2>8. call' = [call EXCEPT ![c] = rec]
    BY <1>1, <2>1
  <2> HIDE DEF rec
  <2>9. /\ call' \in [Caller -> CallRecord] /\ call'[c] = rec
        /\ \A d \in Caller : d # c => call'[d] = call[d]
    BY <1>1, <2>7, <2>8, SMTT(30)
  <2>10. StepOf(c)
    BY <1>0, <1>1, <2>1, <2>2, <2>3, <2>5, <2>9 DEF StepOf
  <2>11. Journals'
    BY <1>0, <2>3, <2>4, <2>10, <2>w, JournalsGrow
  <2>12. CallInv(c)'
    <3>0. /\ call'[c].at = next /\ call'[c].op = call[c].op /\ call'[c].nonce = n
          /\ call'[c].before = call[c].before /\ call'[c].claimed = call[c].claimed
          /\ call'[c].answer = call[c].answer
      BY <2>6, <2>9
    <3>1. next \notin {"idle", "commit", "settled", "read", "recover", "locked"}
      BY <1>2 DEF Reached
    <3>2. Toward(c)' = Toward(c) /\ Toward(c) = next
      BY <1>0, <3>0, <3>1 DEF Toward, At
    <3>3. Journal(c)' = m
      BY <2>5, <3>0 DEF Journal
    <3>4. call'[c].op > 1 => Settled(durable'[call'[c].op - 1])
      <4>1. call[c].op > 1 => call[c].op - 1 \in Ops
        BY <1>1, ReadinessAssumption DEF Ops
      <4>2. call[c].op > 1 => Settled(durable[call[c].op - 1])
        BY <1>1 DEF CallInv
      <4> QED
        BY <2>10, <3>0, <4>1, <4>2, KeptJournal
    <3>5. next \in {"launch", "ensure"} => HasStart(call[c].op, call[c].nonce)'
      BY <2>3, <2>5, <3>0 DEF HasStart
    <3>6. ASSUME next = "verdictDown", NEW r \in Places(m, "readback"), m[r].ref = n
          PROVE  m[r].mode = "not-applied"
      <4>1. NotRead(n)
        BY <1>0, <1>1, <3>6 DEF CallInv
      <4>2. ASSUME r \in Places(j, "readback") PROVE FALSE
        <5>1. m[r] = j[r]
          BY <2>3, <4>2 DEF Grown, Places
        <5> QED
          BY <1>1, <2>2, <3>6, <4>1, <4>2, <5>1 DEF NotRead
      <4> QED
        BY <2>3, <3>6, <4>2
    <3>7. /\ next \in Recovering => call'[c].before # NoNonce
          /\ next \in Early => ~call'[c].claimed
          /\ next \in Unlaunched => call'[c].nonce \notin launched'
          /\ next \in UnderLock => launcher' = c
      BY <1>0, <1>1, <2>1, <3>0 DEF CallInv
    <3> HIDE DEF next, n
    <3>8. /\ ~At(c, "idle")' /\ ~At(c, "commit")'
          /\ call'[c].at \in {"settled", "successor"} => Settled(Journal(c)')
          /\ At(c, "launch")' => HasStart(call[c].op, call[c].nonce)'
          /\ call'[c].at \in {"ensure", "locked"} => HasStart(call[c].op, call[c].nonce)'
          /\ call'[c].at \notin {"read", "recover"}
      BY <2>3, <3>0, <3>1, <3>3, <3>5 DEF At
    <3>9. At(c, "verdictDown")' =>
            \A r \in Places(Journal(c)', "readback") :
              Journal(c)'[r].ref = call'[c].nonce => Journal(c)'[r].mode = "not-applied"
      BY <3>0, <3>3, <3>6 DEF At
    <3> QED
      BY <1>1, <3>0, <3>2, <3>4, <3>7, <3>8, <3>9 DEF CallInv
  <2>13. Renamed(c)
    BY <1>0, <2>6, <2>9 DEF Renamed
  <2> QED
    BY <1>1, <2>1, <2>9, <2>10, <2>11, <2>12, <2>13, Keeps
<1> QED
  BY <1>3, <1>4

\* The intent is the first record of its journal.
LEMMA IntentKeeps ==
  ASSUME ReadInv, NEW c \in Caller, CreateIntent(c)
  PROVE  ReadInv'
<1> DEFINE j == Journal(c)
           r == Intent(call[c].nonce)
           m == <<r>>
<1>0. ~At(c, "idle") /\ At(c, "intent") /\ Toward(c) = "intent"
  BY DEF CreateIntent, At, Toward
<1>1. /\ call[c] \in CallRecord /\ CallInv(c) /\ call[c].nonce \in Nonces /\ call[c].nonce # NoNonce
      /\ call[c].answer # "noRoom" /\ call[c].op \in Ops /\ call \in [Caller -> CallRecord]
      /\ launcher \in Owners /\ stops \in 0..MaxStops
      /\ launcher = c /\ call[c].nonce \notin launched
  BY <1>0, CallFacts DEF CallInv, ReadInv, ReadTypes, Unlaunched, UnderLock
<1>2. CASE j # <<>>
  <2>1. End(c, "refused") /\ "refused" \in Outcomes
    BY <1>2 DEF CreateIntent, Outcomes
  <2> QED
    BY <2>1, EndKeeps
<1>3. CASE j = <<>>
  <2>1. /\ durable' = [durable EXCEPT ![call[c].op] = m] /\ Proceed(c, "start")
        /\ launcher' = launcher /\ launched' = launched /\ stops' = stops
    BY <1>3 DEF CreateIntent
  <2>2. Lawful(j) /\ Justified(j) /\ j \in Seq(DurableRecords)
        /\ durable \in [Ops -> Seq(DurableRecords)] /\ j = durable[call[c].op]
    BY <1>1 DEF ReadInv, Journals, Journal, Lawful
  <2>3. r \in DurableRecords /\ r.kind = "intent"
    <3>1. r \in DurableRecords
      BY <1>1, RecordsMade
    <3> QED
      BY <3>1 DEF Intent
  <2> HIDE DEF r
  <2>4. Len(j) = 0
    BY <1>3
  <2>5. Extends(m, j, r)
    <3>1. m \in Seq(DurableRecords) /\ Len(m) = 1 /\ m[1] = r
      BY <2>3
    <3> HIDE DEF m
    <3> QED
      BY <2>4, <3>1 DEF Extends
  <2>6. Allows(j, r)
    BY <1>3, <2>3 DEF Allows
  <2> HIDE DEF m, j
  <2>7. Lawful(m) /\ Justified(m)
    BY <2>2, <2>3, <2>5, <2>6, LawfulExtend, JustifiedExtend
  <2>8. ~IsActive(m)
    <3>1. Active(m) = Active(j)
      BY <2>2, <2>3, <2>5, ActiveExtend
    <3>2. Active(j) = {}
      BY <2>4 DEF Active, Places
    <3> QED
      BY <3>1, <3>2 DEF IsActive
  <2>9. Grown(m, j, call[c].nonce)
    BY <2>2, <2>3, <2>5, GrownByOne
  <2>10. ~Settled(j)
    BY <2>4 DEF Settled, Places
  <2> DEFINE rec == [call[c] EXCEPT !.at = "start"]
  <2>11. /\ rec.at = "start" /\ rec.op = call[c].op /\ rec.nonce = call[c].nonce
         /\ rec.claimed = call[c].claimed /\ rec.answer = call[c].answer
    BY <1>1 DEF CallRecord
  <2>12. rec \in CallRecord
    BY <1>1 DEF CallRecord, Stations
  <2>13. call' = [call EXCEPT ![c] = rec]
    BY <2>1 DEF Proceed
  <2> HIDE DEF rec
  <2>14. /\ call' \in [Caller -> CallRecord] /\ call'[c] = rec
         /\ \A d \in Caller : d # c => call'[d] = call[d]
    BY <1>1, <2>12, <2>13
  <2>15. /\ durable'[call[c].op] = m
         /\ \A k \in Ops : k # call[c].op => durable'[k] = durable[k]
    BY <1>1, <2>1, <2>2
  <2>16. StepOf(c)
    BY <1>0, <1>1, <2>1, <2>2, <2>9, <2>10, <2>14, <2>15 DEF StepOf
  <2>17. Journals'
    BY <1>0, <2>1, <2>7, <2>8, <2>16, JournalsGrow
  <2>18. CallInv(c)'
    <3>1. Toward(c)' = "start"
      BY <2>11, <2>14 DEF Toward, At
    <3>2. call'[c].op > 1 => Settled(durable'[call'[c].op - 1])
      <4>1. call[c].op > 1 => call[c].op - 1 \in Ops
        BY <1>1, ReadinessAssumption DEF Ops
      <4>2. call[c].op > 1 => Settled(durable[call[c].op - 1])
        BY <1>1 DEF CallInv
      <4> QED
        BY <2>11, <2>14, <2>16, <4>1, <4>2, KeptJournal
    <3> QED
      BY <1>1, <2>1, <2>11, <2>14, <3>1, <3>2
      DEF CallInv, At, Recovering, Early, Unlaunched, UnderLock
  <2>19. Renamed(c)
    BY <1>0, <2>11, <2>14 DEF Renamed
  <2> QED
    BY <1>1, <2>1, <2>14, <2>16, <2>17, <2>18, <2>19, Keeps
<1> QED
  BY <1>2, <1>3

-----------------------------------------------------------------------------
(* The invariant.                                                          *)

\* No journal, no call.
LEMMA ReadInitially ==
  ASSUME ReadinessInit PROVE ReadInv
<1>e. <<>> \in Seq(DurableRecords) /\ Len(<<>>) = 0
  OBVIOUS
<1>0. /\ 1 \in Ops /\ 0 \in 0..MaxRecords /\ 0 \in 0..MaxStops
  BY ReadinessAssumption DEF Ops
<1>1. Idle("none") \in CallRecord
  BY <1>0, <1>e DEF Idle, CallRecord, Stations, Outcomes
<1>2. \A kind : Places(<<>>, kind) = {}
  BY DEF Places
<1>3. ~IsActive(<<>>) /\ ~Settled(<<>>) /\ Active(<<>>) = {}
  BY <1>2 DEF IsActive, Active, Settled
<1>4. Lawful(<<>>) /\ Justified(<<>>)
  <2>1. \A kind : Noted(<<>>, kind) = {}
    BY <1>2 DEF Noted
  <2>2. \A i \in 1..Len(<<>>) : i = 1 \/ \E s \in Places(<<>>, "start") : s <= i
    BY <1>e
  <2> QED
    BY <1>e, <1>2, <1>3, <2>1, <2>2 DEF Lawful, Justified
<1>5. durable = [k \in Ops |-> <<>>] /\ \A k \in Ops : durable[k] = <<>>
  BY DEF ReadinessInit
<1>6. Journals
  BY <1>e, <1>3, <1>4, <1>5 DEF Journals
<1>7. call = [c \in Caller |-> Idle("none")] /\ launched = {} /\ launcher = NoCaller /\ stops = 0
  BY DEF ReadinessInit
<1>8. ReadTypes
  BY <1>0, <1>1, <1>7 DEF ReadTypes, Owners
<1>9. \A c \in Caller : /\ call[c].at = "idle" /\ call[c].op = 1 /\ call[c].nonce = NoNonce
                        /\ call[c].claimed = FALSE /\ call[c].answer = "none"
  BY <1>7 DEF Idle
<1>10. Nonced
  BY <1>7, <1>9 DEF Nonced, At
<1>11. ASSUME NEW c \in Caller PROVE CallInv(c)
  <2>1. Toward(c) = "idle"
    BY <1>9 DEF Toward, At
  <2> QED
    BY <1>9, <2>1 DEF CallInv, At, Recovering, Early, Unlaunched, UnderLock
<1> QED
  BY <1>6, <1>8, <1>10, <1>11 DEF ReadInv

\* Every step keeps the invariant.
LEMMA ReadStep ==
  ASSUME ReadInv, [ReadinessNext]_readinessVars
  PROVE  ReadInv'
<1>1. CASE UNCHANGED readinessVars
  <2>1. durable' = durable /\ launcher' = launcher /\ call' = call /\ launched' = launched
        /\ stops' = stops
    BY <1>1 DEF readinessVars
  <2>2. ReadTypes' /\ Journals' /\ Nonced'
    BY <2>1 DEF ReadInv, ReadTypes, Journals, Nonced, HasStart, At
  <2>3. ASSUME NEW c \in Caller PROVE CallInv(c)'
    <3>1. CallInv(c)
      BY DEF ReadInv
    <3> QED
      BY <2>1, <3>1 DEF CallInv, Pending, Journal, Toward, HasStart, NotRead, At
  <2> QED
    BY <2>2, <2>3 DEF ReadInv
<1>2. CASE ReadinessNext
  <2>1. PICK c \in Caller : BeginCall(c) \/ CallStep(c) \/ StopCall(c)
    BY <1>2 DEF ReadinessNext
  <2>2. CASE BeginCall(c)
    BY <2>2, BeginKeeps
  <2>3. CASE StopCall(c)
    BY <2>3, EndsKeep
  <2>4. CASE CallStep(c)
    <3>1. CASE CommitAppend(c)
      BY <3>1, CommitKeeps
    <3>2. CASE ReadLineage(c) \/ Succeed(c)
      BY <3>2, ReadKeeps, SucceedKeeps
    <3>3. CASE \/ FindUp(c) \/ FindDown(c) \/ RetryRefused(c) \/ Exhausted(c) \/ Abandon(c)
               \/ NothingToClose(c) \/ Return(c)
      BY <3>3, EndsKeep
    <3>4. CASE Recover(c)
      BY <3>4, RecoverKeeps
    <3>5. CASE ResolveUp(c) \/ ResolveExpired(c)
      BY <3>5, ResolveKeeps
    <3>6. CASE RetryAdmitted(c)
      BY <3>6, RetryKeeps
    <3>7. CASE \/ EnsureUp(c) \/ EnsureDown(c) \/ LockedUp(c) \/ LockedDown(c) \/ Launch(c)
               \/ LauncherReports(c) \/ FinalReadback(c)
      BY <3>7, MovesKeep
    <3>8. CASE CreateIntent(c)
      BY <3>8, IntentKeeps
    <3>9. CASE StartAttempt(c)
      BY <3>9, StartKeeps
    <3>10. CASE \/ LaunchSettles(c) \/ RecordLoss(c) \/ SettleUnstarted(c) \/ Report(c)
                \/ CloseAttempt(c)
      BY <3>10, ClosureKeeps
    <3> QED
      BY <2>4, <3>1, <3>2, <3>3, <3>4, <3>5, <3>6, <3>7, <3>8, <3>9, <3>10 DEF CallStep
  <2> QED
    BY <2>1, <2>2, <2>3, <2>4
<1> QED
  BY <1>1, <1>2

\* The invariant holds of every behaviour of the readiness protocol.
LEMMA ReadInvariant == ReadinessSpec => []ReadInv
<1>1. ReadinessInit => ReadInv
  BY ReadInitially
<1>2. ReadInv /\ [ReadinessNext]_readinessVars => ReadInv'
  BY ReadStep
<1> QED
  BY <1>1, <1>2, PTL DEF ReadinessSpec

-----------------------------------------------------------------------------
(* What is written stays.                                                  *)

\* A journal that has grown begins with what it was.
LEMMA GrownBegins ==
  ASSUME NEW j \in Seq(DurableRecords), NEW m \in Seq(DurableRecords), Len(j) <= Len(m),
         \A i \in 1..Len(j) : m[i] = j[i]
  PROVE  SubSeq(m, 1, Len(j)) = j
<1> DEFINE l == Len(j)
           p == SubSeq(m, 1, l)
<1>0. l \in Nat
  OBVIOUS
<1>1. \A i \in 1..l : m[i] \in DurableRecords /\ j[i] = m[i]
  BY ElementOfSeq
<1>2. /\ p \in Seq(DurableRecords)
      /\ Len(p) = IF 1 <= l THEN l - 1 + 1 ELSE 0
      /\ \A i \in 1..(l - 1 + 1) : p[i] = m[1 + i - 1]
  <2> HIDE DEF l
  <2> QED
    BY <1>0, <1>1, SubSeqProperties
<1> HIDE DEF p, l
<1>3. Len(p) = l /\ \A i \in 1..l : p[i] = j[i]
  <2>1. l - 1 + 1 = l /\ \A i \in 1..l : 1 + i - 1 = i
    BY <1>0
  <2> QED
    BY <1>0, <1>1, <1>2, <2>1
<1>4. p = j
  BY <1>2, <1>3, SeqEqual DEF l
<1> QED
  BY <1>4 DEF p, l

\* The swap appends to a journal that is not settled.
LEMMA SwapGrows ==
  ASSUME ReadInv, NEW c \in Caller, CommitAppend(c), NEW k \in Ops
  PROVE  \/ durable'[k] = durable[k]
         \/ ~Settled(durable[k]) /\ Grown(durable'[k], durable[k], call[c].nonce)
<1> DEFINE j == Journal(c)
           recs == call[c].recs
           n == call[c].nonce
           next == call[c].next
<1>1. CASE Len(j) # call[c].length
  BY <1>1 DEF CommitAppend, End, Leave
<1>2. CASE Len(j) = call[c].length
  <2>0. ~At(c, "idle") /\ At(c, "commit")
    BY DEF CommitAppend, At
  <2>1. /\ call[c] \in CallRecord /\ CallInv(c) /\ call[c].op \in Ops
        /\ durable \in [Ops -> Seq(DurableRecords)]
        /\ recs \in Seq(DurableRecords)
    BY <2>0, CallFacts DEF ReadInv, Journals, CallRecord
  <2>2. Acceptable(j, recs) /\ FitsStation(recs, n, next)
    BY <1>2, <2>0, <2>1 DEF CallInv, Pending
  <2>3. Lawful(j) /\ Justified(j) /\ j = durable[call[c].op]
    BY <2>1 DEF ReadInv, Journals, Journal
  <2>4. Grown(j \o recs, j, n) /\ ~Settled(j)
    <3> HIDE DEF j, recs, n, next
    <3> QED
      BY <2>1, <2>2, <2>3, Appended
  <2>5. durable' = [durable EXCEPT ![call[c].op] = @ \o recs]
    BY <1>2 DEF CommitAppend
  <2> HIDE DEF j, recs, n
  <2>6. IF k = call[c].op THEN durable'[k] = j \o recs ELSE durable'[k] = durable[k]
    BY <2>1, <2>3, <2>5
  <2> QED
    BY <2>3, <2>4, <2>6 DEF n
<1> QED
  BY <1>1, <1>2

\* The intent is written to a journal that is not there yet.
LEMMA IntentGrows ==
  ASSUME ReadInv, NEW c \in Caller, CreateIntent(c), NEW k \in Ops
  PROVE  \/ durable'[k] = durable[k]
         \/ ~Settled(durable[k]) /\ Grown(durable'[k], durable[k], call[c].nonce)
<1> DEFINE r == Intent(call[c].nonce)
           m == <<r>>
<1>0. ~At(c, "idle")
  BY DEF CreateIntent, At
<1>1. CASE Journal(c) # <<>>
  BY <1>1 DEF CreateIntent, End, Leave
<1>2. CASE Journal(c) = <<>>
  <2>1. durable' = [durable EXCEPT ![call[c].op] = m]
    BY <1>2 DEF CreateIntent
  <2>2. call[c].op \in Ops /\ call[c].nonce \in Nonces /\ durable \in [Ops -> Seq(DurableRecords)]
        /\ durable[call[c].op] = <<>>
    BY <1>0, <1>2, CallFacts DEF ReadInv, Journals, Journal
  <2>3. r \in DurableRecords /\ r.kind = "intent"
    <3>1. r \in DurableRecords
      BY <2>2, RecordsMade
    <3> QED
      BY <3>1 DEF Intent
  <2> HIDE DEF r
  <2>4. m \in Seq(DurableRecords) /\ Len(m) = 1 /\ m[1] = r
    BY <2>3
  <2> HIDE DEF m
  <2>e. <<>> \in Seq(DurableRecords) /\ Len(<<>>) = 0
    OBVIOUS
  <2>5. Extends(m, <<>>, r)
    BY <2>4, <2>e DEF Extends
  <2>6. Grown(m, <<>>, call[c].nonce)
    BY <2>3, <2>5, <2>e, GrownByOne
  <2>7. ~Settled(<<>>)
    BY <2>e DEF Settled, Places
  <2>8. IF k = call[c].op THEN durable'[k] = m ELSE durable'[k] = durable[k]
    BY <2>1, <2>2
  <2> QED
    BY <2>2, <2>6, <2>7, <2>8
<1> QED
  BY <1>1, <1>2

\* An append before its swap, and every step that is not a write, leaves the
\* journals.
LEMMA OthersWriteNothing ==
  ASSUME NEW c \in Caller, BeginCall(c) \/ CallStep(c) \/ StopCall(c),
         ~CommitAppend(c), ~CreateIntent(c)
  PROVE  durable' = durable
<1>1. ASSUME NEW bound, NEW recs, NEW station, PrepareAppend(c, bound, recs, station)
      PROVE  durable' = durable
  BY <1>1 DEF PrepareAppend, End, Leave
<1>2. ASSUME NEW r, NEW station, Append1(c, r, station) PROVE durable' = durable
  BY <1>1, <1>2 DEF Append1
<1>3. CASE \/ Recover(c) \/ ResolveUp(c) \/ ResolveExpired(c) \/ StartAttempt(c)
           \/ LaunchSettles(c) \/ RecordLoss(c) \/ SettleUnstarted(c) \/ Report(c)
           \/ CloseAttempt(c)
  BY <1>2, <1>3
  DEF Recover, ResolveUp, ResolveExpired, StartAttempt, LaunchSettles, RecordLoss,
      SettleUnstarted, Report, CloseAttempt
<1>4. CASE RetryAdmitted(c)
  BY <1>1, <1>4 DEF RetryAdmitted
<1>5. CASE \/ BeginCall(c) \/ ReadLineage(c) \/ Succeed(c) \/ EnsureUp(c) \/ EnsureDown(c)
           \/ LockedUp(c) \/ LockedDown(c) \/ Launch(c) \/ LauncherReports(c)
           \/ FinalReadback(c)
  <2>1. CASE BeginCall(c)
    BY <2>1 DEF BeginCall
  <2>2. CASE ReadLineage(c)
    BY <2>2 DEF ReadLineage
  <2>3. CASE Succeed(c)
    BY <2>3 DEF Succeed
  <2>4. CASE EnsureUp(c) \/ EnsureDown(c)
    BY <2>4 DEF EnsureUp, EnsureDown, End, Leave
  <2>5. CASE \/ LockedUp(c) \/ LockedDown(c) \/ Launch(c) \/ LauncherReports(c)
             \/ FinalReadback(c)
    BY <2>5 DEF LockedUp, LockedDown, Launch, LauncherReports, FinalReadback, Unlock
  <2> QED
    BY <1>5, <2>1, <2>2, <2>3, <2>4, <2>5
<1>6. CASE \/ FindUp(c) \/ FindDown(c) \/ RetryRefused(c) \/ Exhausted(c) \/ Abandon(c)
           \/ NothingToClose(c) \/ Return(c) \/ StopCall(c)
  BY <1>6
  DEF FindUp, FindDown, RetryRefused, Exhausted, Abandon, NothingToClose, Return, StopCall,
      End, Leave
<1> QED
  BY <1>3, <1>4, <1>5, <1>6 DEF CallStep

-----------------------------------------------------------------------------
(* The launcher in flight.                                                 *)

\* The one launcher that has not reported is awaited by the call that holds
\* the lease, or was left behind with the lease.
Flight ==
  /\ inFlight \subseteq launched
  /\ \/ inFlight = {} /\ \A c \in Caller : ~At(c, "launched")
     \/ launcher = DeadCaller /\ \A m, n \in inFlight : m = n
     \/ \E c \in Caller : launcher = c /\ At(c, "launched") /\ inFlight = {call[c].nonce}

\* A call that comes neither from nor to its launcher, and takes no lease but a
\* free one, leaves the launcher in flight where it is.
OffFlight(c) ==
  /\ \A d \in Caller : d # c => call'[d] = call[d]
  /\ ~At(c, "launched") /\ call'[c].at # "launched"
  /\ inFlight' = inFlight /\ launched' = launched
  /\ launcher \notin {c, NoCaller} => launcher' = launcher

LEMMA OffFlightKeeps ==
  ASSUME Flight, NEW c \in Caller, OffFlight(c)
  PROVE  Flight'
<1>0. DeadCaller \notin Caller /\ NoCaller \notin Caller /\ DeadCaller # NoCaller
  BY ReadinessAssumption
<1>1. CASE inFlight = {} /\ \A d \in Caller : ~At(d, "launched")
  BY <1>1 DEF Flight, OffFlight, At
<1>2. CASE launcher = DeadCaller /\ \A m, n \in inFlight : m = n
  BY <1>0, <1>2 DEF Flight, OffFlight
<1>3. ASSUME NEW d \in Caller, launcher = d, At(d, "launched"), inFlight = {call[d].nonce}
      PROVE  Flight'
  <2>1. d # c /\ launcher' = launcher /\ call'[d] = call[d] /\ inFlight' = inFlight
    BY <1>0, <1>3 DEF OffFlight
  <2> QED
    BY <1>3, <2>1 DEF Flight, OffFlight, At
<1> QED
  BY <1>1, <1>2, <1>3 DEF Flight

\* The end of a call, and an append up to its swap.
LEMMA EndIsOff ==
  ASSUME ReadInv, NEW c \in Caller, ~At(c, "launched"), NEW answer, NEW owner,
         Leave(c, answer, owner)
  PROVE  OffFlight(c)
<1>1. call \in [Caller -> CallRecord]
  BY DEF ReadInv, ReadTypes
<1>2. call' = [call EXCEPT ![c] = Idle(answer)] /\ Idle(answer).at = "idle"
  BY DEF Leave, Idle
<1> QED
  BY <1>1, <1>2 DEF Leave, OffFlight

LEMMA AppendIsOff ==
  ASSUME ReadInv, NEW c \in Caller, ~At(c, "launched"), NEW bound \in CallRecord, NEW recs,
         NEW station, PrepareAppend(c, bound, recs, station)
  PROVE  OffFlight(c)
<1>1. call \in [Caller -> CallRecord]
  BY DEF ReadInv, ReadTypes
<1>2. ASSUME NEW answer, End(c, answer) PROVE OffFlight(c)
  BY <1>2, EndIsOff DEF End
<1>3. ASSUME NEW rec, rec.at = "commit", call' = [call EXCEPT ![c] = rec],
             UNCHANGED <<launcher, launched, inFlight>>
      PROVE  OffFlight(c)
  BY <1>1, <1>3 DEF OffFlight
<1> DEFINE rec == [bound EXCEPT !.at = "commit", !.recs = recs, !.length = Len(Journal(c)),
                                !.next = station]
<1>4. rec.at = "commit"
  BY DEF CallRecord
<1>5. \/ call' = [call EXCEPT ![c] = rec] /\ UNCHANGED <<launcher, launched, inFlight>>
      \/ \E answer \in Outcomes : End(c, answer)
  BY DEF PrepareAppend, Outcomes
<1> HIDE DEF rec
<1> QED
  BY <1>2, <1>3, <1>4, <1>5

LEMMA RecordIsOff ==
  ASSUME ReadInv, NEW c \in Caller,
         \/ Recover(c) \/ ResolveUp(c) \/ ResolveExpired(c) \/ StartAttempt(c)
         \/ LaunchSettles(c) \/ RecordLoss(c) \/ SettleUnstarted(c) \/ Report(c)
         \/ CloseAttempt(c) \/ RetryAdmitted(c)
  PROVE  OffFlight(c)
<1>1. call[c] \in CallRecord
  BY DEF ReadInv, ReadTypes
<1>2. ~At(c, "launched")
  BY DEF Recover, ResolveUp, ResolveExpired, StartAttempt, LaunchSettles, RecordLoss,
         SettleUnstarted, Report, CloseAttempt, RetryAdmitted, At
<1>3. ASSUME NEW r, NEW station, Append1(c, r, station) PROVE OffFlight(c)
  BY <1>1, <1>2, <1>3, AppendIsOff DEF Append1
<1>4. CASE RetryAdmitted(c)
  <2>1. PICK n \in Nonces :
          PrepareAppend(c, [call[c] EXCEPT !.nonce = n, !.claimed = TRUE],
                        <<Resolution(call[c].before, call[c].nonce, "retry"),
                          Start(n, call[c].nonce)>>, "ensure")
    BY <1>4 DEF RetryAdmitted
  <2>2. [call[c] EXCEPT !.nonce = n, !.claimed = TRUE] \in CallRecord
    BY <1>1 DEF CallRecord
  <2> QED
    BY <1>2, <2>1, <2>2, AppendIsOff
<1> QED
  BY <1>3, <1>4
  DEF Recover, ResolveUp, ResolveExpired, StartAttempt, LaunchSettles, RecordLoss,
      SettleUnstarted, Report, CloseAttempt

\* The steps of a call that change its station and perhaps the lease.
LEMMA MoveIsOff ==
  ASSUME ReadInv, NEW c \in Caller,
         \/ BeginCall(c) \/ ReadLineage(c) \/ Succeed(c) \/ EnsureUp(c) \/ EnsureDown(c)
         \/ LockedUp(c) \/ LockedDown(c) \/ FinalReadback(c) \/ CommitAppend(c)
         \/ CreateIntent(c)
  PROVE  OffFlight(c)
<1>1. call \in [Caller -> CallRecord] /\ call[c] \in CallRecord /\ CallInv(c)
  BY DEF ReadInv, ReadTypes
<1>2. ~At(c, "launched")
  BY DEF BeginCall, ReadLineage, Succeed, EnsureUp, EnsureDown, LockedUp, LockedDown,
         FinalReadback, CommitAppend, CreateIntent, At
<1>3. ASSUME NEW answer, End(c, answer) PROVE OffFlight(c)
  BY <1>2, <1>3, EndIsOff DEF End
<1>4. ASSUME NEW rec, call' = [call EXCEPT ![c] = rec], rec.at # "launched",
             UNCHANGED <<launched, inFlight>>, launcher \notin {c, NoCaller} => launcher' = launcher
      PROVE  OffFlight(c)
  BY <1>1, <1>2, <1>4 DEF OffFlight
<1>5. ASSUME NEW s, Proceed(c, s), s # "launched", UNCHANGED <<launched, inFlight>>,
             launcher \notin {c, NoCaller} => launcher' = launcher
      PROVE  OffFlight(c)
  <2> DEFINE rec == [call[c] EXCEPT !.at = s]
  <2>1. call' = [call EXCEPT ![c] = rec] /\ rec.at = s
    BY <1>1, <1>5 DEF Proceed, CallRecord
  <2> HIDE DEF rec
  <2> QED
    BY <1>4, <1>5, <2>1
<1>6. CASE BeginCall(c)
  <2>1. PICK n \in Nonces :
          call' = [call EXCEPT ![c] = [Idle("none") EXCEPT !.at = "read", !.nonce = n]]
    BY <1>6 DEF BeginCall
  <2> DEFINE rec == [Idle("none") EXCEPT !.at = "read", !.nonce = n]
  <2>2. rec.at = "read"
    BY DEF Idle
  <2>3. UNCHANGED <<launcher, launched, inFlight>>
    BY <1>6 DEF BeginCall
  <2> HIDE DEF rec
  <2> QED
    BY <1>4, <2>1, <2>2, <2>3 DEF rec
<1>7. CASE ReadLineage(c)
  <2>1. PICK k \in Ops :
          call' = [call EXCEPT
            ![c].op = k,
            ![c].before = ActiveNonce(durable[k]),
            ![c].at = CASE durable[k] = <<>> -> "ensure"
                        [] IsActive(durable[k]) -> "recover"
                        [] Settled(durable[k]) -> "settled"
                        [] OTHER -> "prepared"]
    BY <1>7 DEF ReadLineage
  <2>2. PICK b, s : /\ s # "launched"
                    /\ call' = [call EXCEPT ![c].op = k, ![c].before = b, ![c].at = s]
    <3> DEFINE s == CASE durable[k] = <<>> -> "ensure"
                      [] IsActive(durable[k]) -> "recover"
                      [] Settled(durable[k]) -> "settled"
                      [] OTHER -> "prepared"
    <3>1. s # "launched"
      OBVIOUS
    <3> HIDE DEF s
    <3> QED
      BY <2>1, <3>1 DEF s
  <2> DEFINE rec == [call[c] EXCEPT !.op = k, !.before = b, !.at = s]
  <2>3. call' = [call EXCEPT ![c] = rec] /\ rec.at = s
    BY <1>1, <2>2 DEF CallRecord
  <2>4. UNCHANGED <<launcher, launched, inFlight>>
    BY <1>7 DEF ReadLineage
  <2> HIDE DEF rec
  <2> QED
    BY <1>4, <2>2, <2>3, <2>4
<1>8. CASE Succeed(c)
  <2>1. PICK n \in Nonces :
          call' = [call EXCEPT ![c].at = "ensure", ![c].op = @ + 1, ![c].nonce = n,
                               ![c].before = NoNonce]
    BY <1>8 DEF Succeed
  <2> DEFINE rec == [call[c] EXCEPT !.at = "ensure", !.op = @ + 1, !.nonce = n,
                                    !.before = NoNonce]
  <2>2. call' = [call EXCEPT ![c] = rec] /\ rec.at = "ensure"
    BY <1>1, <2>1 DEF CallRecord
  <2>3. UNCHANGED <<launcher, launched, inFlight>>
    BY <1>8 DEF Succeed
  <2> HIDE DEF rec
  <2> QED
    BY <1>4, <2>2, <2>3
<1>9. CASE EnsureUp(c) \/ LockedDown(c)
  <2>1. UNCHANGED <<launcher, launched, inFlight>>
        /\ \E s \in {"ready", "launch", "intent"} : Proceed(c, s)
    BY <1>9 DEF EnsureUp, LockedDown
  <2> QED
    BY <1>5, <2>1
<1>10. CASE EnsureDown(c)
  <2>1. \/ launcher = NoCaller /\ Proceed(c, "locked") /\ UNCHANGED <<launched, inFlight>>
        \/ End(c, "unavailable")
    BY <1>10 DEF EnsureDown
  <2> QED
    BY <1>3, <1>5, <2>1
<1>11. CASE LockedUp(c) \/ FinalReadback(c)
  <2>1. /\ \E s \in {"ready", "served"} : Proceed(c, s)
        /\ UNCHANGED <<launched, inFlight>>
        /\ call[c].at \in {"locked", "final"}
    BY <1>11 DEF LockedUp, FinalReadback, Unlock, At
  <2>2. launcher = c
    BY <1>1, <2>1 DEF CallInv, Toward, At, UnderLock
  <2> QED
    BY <1>5, <2>1, <2>2
<1>12. CASE CommitAppend(c)
  <2>1. CASE ~\E answer \in Outcomes : End(c, answer)
    <3>1. /\ \A d \in Caller : d # c => call'[d] = call[d]
          /\ call'[c].at = call[c].next
          /\ UNCHANGED <<launcher, launched, inFlight>>
      BY <1>1, <1>12, <2>1 DEF CommitAppend, CallRecord, Outcomes
    <3>2. call[c].next # "launched"
      BY <1>1, <1>12 DEF CommitAppend, CallInv, Reached
    <3> QED
      BY <1>2, <3>1, <3>2 DEF OffFlight
  <2> QED
    BY <1>3, <2>1
<1>13. CASE CreateIntent(c)
  <2>1. \/ Proceed(c, "start") /\ UNCHANGED <<launcher, launched, inFlight>>
        \/ End(c, "refused")
    BY <1>13 DEF CreateIntent
  <2> QED
    BY <1>3, <1>5, <2>1
<1> QED
  BY <1>6, <1>7, <1>8, <1>9, <1>10, <1>11, <1>12, <1>13

LEMMA FlightStep ==
  ASSUME ReadInv, Flight, [ReadinessNext]_readinessVars
  PROVE  Flight'
<1>0. DeadCaller \notin Caller /\ NoCaller \notin Caller /\ DeadCaller # NoCaller
  BY ReadinessAssumption
<1>1. CASE UNCHANGED readinessVars
  BY <1>1 DEF readinessVars, Flight, At
<1>2. CASE ReadinessNext
  <2>1. PICK c \in Caller : BeginCall(c) \/ CallStep(c) \/ StopCall(c)
    BY <1>2 DEF ReadinessNext
  <2>2. /\ call \in [Caller -> CallRecord] /\ call[c] \in CallRecord
        /\ \A d \in Caller : call[d].at \in {"launch", "launched"} => launcher = d
    BY DEF ReadInv, ReadTypes, CallInv, Toward, At, UnderLock
  <2>3. CASE Launch(c)
    <3>1. /\ launcher = c /\ launcher' = c
          /\ call'[c].at = "launched" /\ call'[c].nonce = call[c].nonce
          /\ inFlight' = inFlight \cup {call[c].nonce} /\ launched' = launched \cup {call[c].nonce}
      BY <2>2, <2>3 DEF Launch, Proceed, At, CallRecord
    <3>2. inFlight = {}
      BY <1>0, <2>3, <3>1 DEF Flight, Launch, At
    <3> QED
      BY <3>1, <3>2 DEF Flight, At
  <2>4. CASE LauncherReports(c)
    <3>1. /\ launcher = c /\ launched' = launched
          /\ call'[c].at = "reported" /\ \A d \in Caller : d # c => call'[d] = call[d]
          /\ inFlight' = inFlight \ {call[c].nonce}
      BY <2>2, <2>4 DEF LauncherReports, Proceed, At, CallRecord
    <3>2. inFlight = {call[c].nonce}
      BY <1>0, <2>4, <3>1 DEF Flight, LauncherReports, At
    <3>3. \A d \in Caller : call'[d].at # "launched"
      BY <2>2, <3>1
    <3> QED
      BY <3>1, <3>2, <3>3 DEF Flight, At
  <2>5. CASE StopCall(c)
    <3>1. CASE At(c, "launched")
      <4>1. launcher = c /\ launcher' = DeadCaller /\ inFlight' = inFlight /\ launched' = launched
        BY <2>2, <2>5, <3>1 DEF StopCall, Leave, At
      <4>2. inFlight = {call[c].nonce}
        BY <1>0, <3>1, <4>1 DEF Flight
      <4> QED
        BY <4>1, <4>2 DEF Flight
    <3>2. CASE ~At(c, "launched")
      BY <2>5, <3>2, EndIsOff, OffFlightKeeps DEF StopCall
    <3> QED
      BY <3>1, <3>2
  <2>6. CASE \/ FindUp(c) \/ FindDown(c) \/ RetryRefused(c) \/ Exhausted(c) \/ Abandon(c)
             \/ NothingToClose(c) \/ Return(c)
    <3>1. ~At(c, "launched") /\ \E answer \in {"ready", "unavailable", "refused"} : End(c, answer)
      BY <2>6 DEF FindUp, FindDown, RetryRefused, Exhausted, Abandon, NothingToClose, Return, At
    <3> QED
      BY <3>1, EndIsOff, OffFlightKeeps DEF End
  <2>7. CASE \/ Recover(c) \/ ResolveUp(c) \/ ResolveExpired(c) \/ StartAttempt(c)
             \/ LaunchSettles(c) \/ RecordLoss(c) \/ SettleUnstarted(c) \/ Report(c)
             \/ CloseAttempt(c) \/ RetryAdmitted(c)
    BY <2>7, RecordIsOff, OffFlightKeeps
  <2>8. CASE \/ BeginCall(c) \/ ReadLineage(c) \/ Succeed(c) \/ EnsureUp(c) \/ EnsureDown(c)
             \/ LockedUp(c) \/ LockedDown(c) \/ FinalReadback(c) \/ CommitAppend(c)
             \/ CreateIntent(c)
    BY <2>8, MoveIsOff, OffFlightKeeps
  <2> QED
    BY <2>1, <2>3, <2>4, <2>5, <2>6, <2>7, <2>8 DEF CallStep
<1> QED
  BY <1>1, <1>2

\* Every launcher that has not reported is covered by the lease.
LEMMA FlightInvariant == ReadinessSpec => []Flight
<1>1. ReadinessInit => Flight
  BY DEF ReadinessInit, Flight, At, Idle
<1>2. ReadInv /\ Flight /\ [ReadinessNext]_readinessVars => Flight'
  BY FlightStep
<1> QED
  BY <1>1, <1>2, ReadInvariant, PTL DEF ReadinessSpec

-----------------------------------------------------------------------------
(* The theorems.                                                           *)

\* The types of journals and calls, and the launcher's lease has one holder
\* (observeLocalContainerEngineReadiness).
THEOREM ReadinessTypes == ReadinessSpec => []ReadinessTypeOK
<1>1. ReadInv /\ Flight => ReadinessTypeOK
  <2>1. SUFFICES ASSUME ReadInv, Flight PROVE ReadinessTypeOK
    OBVIOUS
  <2>2. \A k \in Ops : \A i \in 1..Len(durable[k]) : durable[k][i] \in DurableRecords
    <3> TAKE k \in Ops
    <3>1. durable[k] \in Seq(DurableRecords)
      BY <2>1 DEF ReadInv, Journals, Lawful
    <3> QED
      BY <3>1, ElementOfSeq
  <2>3. launcher \in Caller \cup {NoCaller, DeadCaller} /\ launched \subseteq Nonces
        /\ inFlight \subseteq launched /\ stops \in 0..MaxStops
    BY <2>1 DEF ReadInv, ReadTypes, Owners, Flight
  <2>4. \A c \in Caller : call[c] \in CallRecord
    BY <2>1 DEF ReadInv, ReadTypes
  <2> QED
    BY <2>2, <2>3, <2>4 DEF ReadinessTypeOK, CallRecord
<1> QED
  BY <1>1, ReadInvariant, FlightInvariant, PTL

\* Whoever stops where, with its lease settled or left behind, and whoever else
\* calls: every launch is told of by a journal written before it, no launcher
\* is started while another has not reported, even if the call that awaited
\* it is dead, one attempt at most is unresolved, a second
\* attempt follows readbacks that found the first without effect, and what
\* closes an attempt always fits (beforeDesktopLaunch,
\* observeDurableExecutionJournal, assertCumulativeLimits).
THEOREM AttemptsStaySound == ReadinessSpec => []AttemptsAreSound
<1>1. ReadInv /\ Flight => AttemptsAreSound
  <2>1. SUFFICES ASSUME ReadInv, Flight PROVE AttemptsAreSound
    OBVIOUS
  <2>2. /\ \A k \in Ops : Lawful(durable[k]) /\ Justified(durable[k])
        /\ \A k \in Ops : k > 1 /\ durable[k] # <<>> => Settled(durable[k - 1])
        /\ \A c \in Caller : CallInv(c)
    BY <2>1 DEF ReadInv, Journals
  <2>3. LaunchIsRecorded
    <3>1. \A n \in launched : \E k \in Ops : HasStart(k, n)
      BY <2>1 DEF ReadInv, Nonced
    <3>2. \A c \in Caller : call[c].at \in {"launch", "launched"} =>
            launcher = c /\ (At(c, "launch") => call[c].nonce \notin launched)
      BY <2>2 DEF CallInv, Toward, At, Unlaunched, UnderLock
    <3>3. /\ \A m, n \in inFlight : m = n
          /\ inFlight # {} =>
               launcher = DeadCaller \/ \E c \in Caller : launcher = c /\ At(c, "launched")
      BY <2>1 DEF Flight
    <3> QED
      BY <3>1, <3>2, <3>3 DEF LaunchIsRecorded, HasStart, At
  <2>4. OneFlight
    <3>1. ASSUME NEW k \in Ops PROVE Cardinality(Active(durable[k])) <= 1
      <4>0. \A i1, i2 \in Active(durable[k]) : i1 = i2
        BY <2>2 DEF Lawful
      <4>1. CASE Active(durable[k]) = {}
        <5>1. Cardinality(Active(durable[k])) = 0
          BY <4>1, FS_EmptySet
        <5> QED
          BY <5>1
      <4>2. ASSUME NEW i \in Active(durable[k]) PROVE Cardinality(Active(durable[k])) <= 1
        <5>1. Active(durable[k]) = {i}
          BY <4>0
        <5>2. Cardinality(Active(durable[k])) = 1
          BY <5>1, FS_Singleton
        <5> QED
          BY <5>2
      <4> QED
        BY <4>1, <4>2
    <3>2. \A k \in Ops : Settled(durable[k]) => ~IsActive(durable[k])
      BY <2>2 DEF Lawful
    <3> QED
      BY <2>2, <3>1, <3>2 DEF OneFlight
  <2>5. RetryIsJustified
    BY <2>2 DEF RetryIsJustified, Justified
  <2>6. ClosureFits
    BY <2>2 DEF ClosureFits, CallInv
  <2> QED
    BY <2>3, <2>4, <2>5, <2>6 DEF AttemptsAreSound
<1> QED
  BY <1>1, ReadInvariant, FlightInvariant, PTL

\* Journals only grow, and a settled one not even that: a call that lost its
\* race changes nothing (appendFsyncCas, createExclusiveFsync).
THEOREM RecordsStay == ReadinessSpec => RecordsAreKept
<1> DEFINE Kept ==
             \A k \in Ops : /\ Len(durable[k]) <= Len(durable'[k])
                            /\ SubSeq(durable'[k], 1, Len(durable[k])) = durable[k]
                            /\ Settled(durable[k]) => durable'[k] = durable[k]
<1>1. ReadInv /\ [ReadinessNext]_readinessVars => [Kept]_readinessVars
  <2>1. SUFFICES ASSUME ReadInv, ReadinessNext PROVE Kept
    OBVIOUS
  <2>2. PICK c \in Caller : BeginCall(c) \/ CallStep(c) \/ StopCall(c)
    BY <2>1 DEF ReadinessNext
  <2>3. SUFFICES ASSUME NEW k \in Ops
                 PROVE  /\ Len(durable[k]) <= Len(durable'[k])
                        /\ SubSeq(durable'[k], 1, Len(durable[k])) = durable[k]
                        /\ Settled(durable[k]) => durable'[k] = durable[k]
    OBVIOUS
  <2>4. \/ durable'[k] = durable[k]
        \/ ~Settled(durable[k]) /\ Grown(durable'[k], durable[k], call[c].nonce)
    BY <2>1, <2>2, SwapGrows, IntentGrows, OthersWriteNothing
  <2>5. durable[k] \in Seq(DurableRecords) /\ Len(durable[k]) \in Nat
    BY <2>1 DEF ReadInv, Journals, Lawful
  <2>6. durable'[k] \in Seq(DurableRecords) /\ Len(durable[k]) <= Len(durable'[k])
        /\ \A i \in 1..Len(durable[k]) : durable'[k][i] = durable[k][i]
    BY <2>4, <2>5 DEF Grown
  <2>7. SubSeq(durable'[k], 1, Len(durable[k])) = durable[k]
    BY <2>5, <2>6, GrownBegins
  <2> QED
    BY <2>4, <2>6, <2>7
<1> QED
  BY <1>1, ReadInvariant, PTL DEF ReadinessSpec, RecordsAreKept

\* The specification the run checks is that of the upgrade and that of the
\* readiness protocol at once, so what is proved of either holds of it.
THEOREM LedgersAreBoth == LedgerSpec => USpec /\ ReadinessSpec
<1>1. RecoveryInit => UInit /\ ReadinessInit
  BY DEF RecoveryInit
<1>2. [RecoveryNext]_recoveryVars => [UNext]_uvars
  BY DEF RecoveryNext, recoveryVars, InUpgrade, InReadiness
<1>3. [RecoveryNext]_recoveryVars => [ReadinessNext]_readinessVars
  BY DEF RecoveryNext, recoveryVars, InUpgrade, InReadiness
<1> QED
  BY <1>1, <1>2, <1>3, PTL DEF LedgerSpec, USpec, ReadinessSpec

\* The types of both ledgers (the upgrade's recovery ledger, the engine's
\* execution journal).
THEOREM RecoveryTypes == LedgerSpec => []RecoveryTypeOK
<1>1. UTypeOK /\ ReadinessTypeOK => RecoveryTypeOK
  BY DEF RecoveryTypeOK
<1> QED
  BY <1>1, LedgersAreBoth, UpgradeTypes, ReadinessTypes, PTL

=============================================================================
