--------------------------- MODULE UpgradeApplyProofs --------------------------
(***************************************************************************)
(* Proofs about UpgradeApply, for any number of files, effects, edits by   *)
(* somebody else, failing calls and ledger records: what a terminal on     *)
(* disk says is true, what a recovery needs is there, and an edit of       *)
(* somebody else is overwritten by a recorded effect or a restoration only *)
(* if it was made after the file was compared for it.                      *)
(*                                                                         *)
(* The heart is Track: the file the ledger expects is the one the program  *)
(* last left, or the ledger expects none, or the identity it expects is    *)
(* gone, for good, because identities are never issued twice.              *)
(***************************************************************************)
EXTENDS UpgradeApply, FiniteSetTheorems, TLAPS

-----------------------------------------------------------------------------
(* The inductive invariant.                                                *)

Snapshotting == {"start", "observed", "copied"}
Forward == {"snapshotted", "cleared", "applying", "prepared", "effected",
            "untracked", "compiling", "compiled"}
Settling == {"reporting", "diagnosing", "closing", "ended"}
Phases == Snapshotting \cup Forward \cup
            {"recording", "failed", "admitting", "restoring"} \cup Settling

Entry == Contents \X Identities

FileTypes ==
  /\ live \in [Files -> Entry] /\ ours \in [Files -> Entry]
  /\ original \in [Files -> Entry] /\ expected \in [Files -> Entry]
  /\ preimage \in [Files -> Contents]

LedgerTypes ==
  /\ records \in Nat
  /\ changed \subseteq Files /\ IsFiniteSet(changed)
  /\ todo \subseteq changed
  /\ DOMAIN open \subseteq Files
  /\ faults \in 0..MaxFaults /\ foreign \in 0..MaxForeign /\ mutations \in 0..MaxMutations

FlagTypes ==
  /\ lease \in BOOLEAN /\ unknown \in BOOLEAN /\ rollback \in BOOLEAN
  /\ diag \in BOOLEAN /\ committed \in BOOLEAN /\ commitUnknown \in BOOLEAN
  /\ uncertain \in BOOLEAN /\ retain \in BOOLEAN

ControlTypes ==
  /\ phase \in Phases
  /\ backup \in {"none", "building", "sealed", "retired"}
  /\ terminal \in {"previous", "none", "applied", "rolled-back", "recovery-required"}
  /\ settlement \in {"none", "rolled-back", "recovery-required"}

UTypes == FileTypes /\ LedgerTypes /\ FlagTypes /\ ControlTypes

\* The identity of a file is NoId exactly when there is none.
Proper(state) == \A f \in Files : (state[f][1] = "absent") = (state[f][2] = NoId)

WellFormed ==
  /\ Proper(live) /\ Proper(ours) /\ Proper(original) /\ Proper(expected)
  /\ \A f \in Files : original[f][1] # "new"
  /\ phase \in Snapshotting => \A f \in Files : live[f][1] # "new"

\* A prepared mutation writes or removes one file, or renames one; a file it
\* removes is one the ledger expects.
Single(m, state) ==
  \E f \in Files, content \in {"new", "absent"} :
     /\ m = [x \in {f} |-> content]
     /\ content = "absent" => state[f] # Absent
Rename(m, state) ==
  \E f, g \in Files :
     /\ f # g /\ state[f] # Absent /\ state[g] = Absent
     /\ m = [x \in {f, g} |-> IF x = f THEN "absent" ELSE state[f][1]]

OpenIsOne ==
  /\ IsFiniteSet(DOMAIN open) /\ Cardinality(DOMAIN open) <= 2
  /\ phase \in {"prepared", "effected"} => Single(open, expected) \/ Rename(open, expected)
  /\ phase \in (Snapshotting \cup Forward) \ {"prepared", "effected"} => open = <<>>

LedgerComplete ==
  /\ ~unknown => \A f \in Files \ (changed \cup DOMAIN open) : ours[f] = original[f]
  /\ phase \in Snapshotting => ours = original /\ changed = {}
  /\ phase \in {"untracked", "compiling", "compiled"} => unknown
  /\ phase = "restoring" => ~unknown

\* Records for the way back.
Reserve ==
  /\ records <= MaxLedgerRecords
  /\ phase \in {"prepared", "effected", "failed", "admitting"} /\ open # <<>> =>
       records + 2 + Cardinality(changed \cup DOMAIN open) <= MaxLedgerRecords
  /\ phase \in Forward \cup {"failed", "admitting"} /\ ~unknown /\ changed # {} =>
       records + 1 + Cardinality(changed) <= MaxLedgerRecords
  /\ phase = "restoring" => records + Cardinality(todo) <= MaxLedgerRecords

\* Identities issued after n edits by somebody else and m effects.
Issued(id, n, m) ==
  \/ id <= 1 + n
  \/ 1 + MaxForeign < id /\ id <= MutationId(m)
  \/ id = RestoredId

Fresher ==
  /\ \A f \in Files : Issued(expected[f][2], foreign, mutations)
  /\ \A f \in Files : Issued(original[f][2], foreign, mutations)
  /\ phase \in Snapshotting \cup (Forward \ {"compiled"}) =>
       \A f \in Files : /\ Issued(live[f][2], foreign, mutations)
                        /\ Issued(ours[f][2], foreign, mutations)
  /\ phase \in {"prepared", "untracked"} =>
       /\ mutations # 0
       /\ \A f \in Files : expected[f][2] # MutationId(mutations)

\* The identity the ledger expects is gone.
Gone(f) == expected[f] # Absent /\ live[f][2] # expected[f][2]

Track ==
  phase \in Forward \cup {"failed", "admitting", "restoring"} =>
    /\ \A f \in Files : ours[f] = expected[f] \/ expected[f] = Absent \/ Gone(f)
    /\ ~unknown =>
         \A f \in Files :
           \/ ours[f] = expected[f]
           \/ /\ f \in DOMAIN open
              /\ \/ ours[f][1] = "new"
                 \/ phase # "restoring" /\ \E g \in DOMAIN open : Gone(g)

\* The files compared for the effect that is next are those it is about, and
\* all but the ones edited since are still what the ledger expects.
Window ==
  /\ checked \subseteq Files /\ late \subseteq checked
  /\ checked # {} => phase \in {"prepared", "restoring"}
  /\ checked # {} /\ phase = "prepared" => checked = DOMAIN open
  /\ phase = "restoring" => checked \subseteq todo
  /\ \A f \in checked \ late : live[f] = expected[f]

\* What a rollback left, however it is edited afterwards.
Undone ==
  settlement = "rolled-back" =>
    \A f \in Files : \/ ours[f][1] = original[f][1]
                     \/ ours[f][1] = "new" /\ live[f] # ours[f]

Verdicts ==
  /\ settlement # "none" => phase \in Settling
  /\ phase \in {"reporting", "diagnosing"} => settlement # "none"
  /\ settlement # "none" => retain = (settlement = "recovery-required")
  /\ published \in {{}, {"applied"}, {"rolled-back"}, {"recovery-required"}}
  /\ phase \in Snapshotting \cup Forward \cup {"admitting", "restoring"} =>
       published = {} /\ ~commitUnknown
  /\ phase \in {"failed", "reporting"} => published = {} \/ commitUnknown
  /\ "rolled-back" \in published => settlement = "rolled-back"
  /\ phase = "recording" => committed
  /\ phase = "closing" => committed \/ settlement # "none"
  /\ uncertain => retain /\ phase \in {"closing", "ended"}
  /\ phase \in Forward \cup {"recording", "failed", "admitting", "restoring", "reporting",
                             "diagnosing", "closing"} => backup = "sealed"
  /\ phase = "ended" /\ (settlement = "recovery-required" \/ uncertain) =>
       backup = "sealed"
  /\ backup = "retired" => committed \/ settlement = "rolled-back"
  /\ terminal = "previous" =>
       /\ ours = original /\ changed = {}
       /\ phase \notin {"cleared", "applying", "prepared", "effected", "untracked",
                        "compiling", "compiled", "recording"}

UInv ==
  /\ UTypes /\ WellFormed /\ OpenIsOne /\ LedgerComplete /\ Reserve
  /\ Fresher /\ Track /\ Window /\ Undone /\ Verdicts

-----------------------------------------------------------------------------
(* Facts about the constants and about entries.                            *)

\* The bounds are positive numbers and identities are numbers.
LEMMA Numbers ==
  /\ MaxMutations \in Nat \ {0} /\ MaxForeign \in Nat \ {0}
  /\ MaxFaults \in Nat \ {0} /\ MaxLedgerRecords \in Nat \ {0}
  /\ RestoredId = 3 + MaxForeign + MaxMutations /\ RestoredId \in Nat
  /\ Identities = 0..RestoredId
BY BoundsAssumption DEF RestoredId, Identities

\* A file that is left is an entry, with an identity unless it is absent.
LEMMA FreshEntry ==
  ASSUME NEW c \in Contents, NEW id \in Identities, id # NoId
  PROVE  /\ Fresh(c, id) \in Entry
         /\ (Fresh(c, id)[1] = "absent") = (Fresh(c, id)[2] = NoId)
         /\ Fresh(c, id)[1] = c
         /\ c = "absent" => Fresh(c, id) = Absent
         /\ c # "absent" => Fresh(c, id) = <<c, id>>
BY Numbers DEF Fresh, Absent, Entry, Contents, NoId

\* An entry is absent when it has no identity.
LEMMA AbsentEntry ==
  ASSUME NEW e \in Entry, (e[1] = "absent") = (e[2] = NoId)
  PROVE  /\ e[1] = "absent" => e = Absent
         /\ e[2] = NoId => e = Absent
BY DEF Entry, Absent, NoId

\* Somebody's edit: one file, an identity that is new or was there before.
LEMMA EditStep ==
  ASSUME UTypes, NEW f \in Files, Edit(f)
  PROVE  /\ live' \in [Files -> Entry]
         /\ \A g \in Files : g # f => live'[g] = live[g]
         /\ live'[f][1] # "new"
         /\ \/ live'[f] = Absent
            \/ /\ live'[f][1] # "absent" /\ live'[f][2] # NoId
               /\ live'[f][2] = ForeignId(foreign + 1) \/ live'[f][2] = live[f][2]
         /\ foreign' = foreign + 1 /\ foreign < MaxForeign /\ phase # "ended"
         /\ UNCHANGED <<lease, backup, preimage, ledger, phase, todo, verdict, retain,
                        ours, checked, mutations, faults>>
         /\ late' = late \cup ({f} \cap checked)
<1>1. PICK entry \in {Absent} \cup
             ({"old", "foreign"} \X ({ForeignId(foreign + 1), live[f][2]} \ {NoId})) :
           live' = [live EXCEPT ![f] = entry]
  BY DEF Edit
<1>2. /\ foreign' = foreign + 1 /\ foreign < MaxForeign /\ phase # "ended"
      /\ UNCHANGED <<lease, backup, preimage, ledger, phase, todo, verdict, retain,
                     ours, checked, mutations, faults>>
      /\ late' = late \cup ({f} \cap checked)
  BY DEF Edit
<1>3. foreign \in Nat /\ ForeignId(foreign + 1) \in Identities /\ ForeignId(foreign + 1) # NoId
  BY <1>2, Numbers DEF UTypes, FileTypes, LedgerTypes, ForeignId, NoId
<1>4. live[f] \in Entry /\ live[f][2] \in Identities
  BY DEF UTypes, FileTypes, LedgerTypes, Entry
<1>5. \/ entry = Absent
      \/ \E content \in {"old", "foreign"},
            id \in {ForeignId(foreign + 1), live[f][2]} \ {NoId} :
               entry = <<content, id>>
  BY <1>1
<1>6. /\ entry \in Entry /\ entry[1] # "new"
      /\ \/ entry = Absent
         \/ /\ entry[1] # "absent" /\ entry[2] # NoId
            /\ entry[2] = ForeignId(foreign + 1) \/ entry[2] = live[f][2]
  <2>1. CASE entry = Absent
    BY <2>1, Numbers DEF Absent, Entry, Contents, NoId
  <2>2. ASSUME NEW content \in {"old", "foreign"},
               NEW id \in {ForeignId(foreign + 1), live[f][2]} \ {NoId},
               entry = <<content, id>>
        PROVE  /\ entry \in Entry /\ entry[1] # "new"
               /\ entry[1] # "absent" /\ entry[2] # NoId
               /\ entry[2] = ForeignId(foreign + 1) \/ entry[2] = live[f][2]
    BY <2>2, <1>3, <1>4 DEF Entry, Contents
  <2>3. QED  BY <1>5, <2>1, <2>2
<1>7. /\ live' \in [Files -> Entry] /\ live'[f] = entry
      /\ \A g \in Files : g # f => live'[g] = live[g]
  BY <1>1, <1>6 DEF UTypes, FileTypes, LedgerTypes
<1>8. QED  BY <1>2, <1>6, <1>7

-----------------------------------------------------------------------------
(* What the steps that touch a file do to it.                              *)

\* A set of two has two elements.
LEMMA PairCardinality ==
  ASSUME NEW a, NEW b, a # b
  PROVE  IsFiniteSet({a, b}) /\ Cardinality({a, b}) = 2
<1>1. IsFiniteSet({a}) /\ Cardinality({a}) = 1
  BY FS_Singleton
<1>2. {a, b} = {a} \cup {b} /\ b \notin {a}
  OBVIOUS
<1>3. IsFiniteSet({a} \cup {b}) /\ Cardinality({a} \cup {b}) = 2
  BY <1>1, <1>2, FS_AddElement
<1>4. QED  BY <1>2, <1>3

\* The identity of an effect is new to the ledger.
LEMMA EffectId ==
  ASSUME UTypes
  PROVE  /\ MutationId(mutations) \in Identities /\ MutationId(mutations) # NoId
         /\ MutationId(mutations + 1) \in Identities /\ MutationId(mutations + 1) # NoId
BY Numbers DEF UTypes, FileTypes, LedgerTypes, MutationId, NoId

\* An effect replaces or removes the file of its mutation, or moves one file to
\* a place where none was.
Outcome(f) ==
  \/ live'[f] = Absent /\ expected[f] # Absent
  \/ live'[f] = <<"new", MutationId(mutations)>>
  \/ /\ live[f] = Absent /\ expected[f] = Absent
     /\ \E g \in DOMAIN open :
          /\ live'[f] = live[g] /\ expected[g] # Absent
          /\ live'[g] = Absent

\* An effect changes the files of the open mutation and leaves the others; a
\* file it does not remove has the identity the ledger expects.
LEMMA EffectStep ==
  ASSUME UTypes, WellFormed, OpenIsOne, Effect
  PROVE  /\ DOMAIN open \subseteq Files
         /\ \A f \in DOMAIN open : live'[f] = Absent \/ live[f][2] = expected[f][2]
         /\ live' \in [Files -> Entry] /\ ours' \in [Files -> Entry]
         /\ \A f \in Files \ DOMAIN open : live'[f] = live[f] /\ ours'[f] = ours[f]
         /\ \A f \in DOMAIN open : ours'[f] = live'[f] /\ Outcome(f)
<1>1. /\ phase = "prepared" /\ \A f \in DOMAIN open : Takes(f, open[f])
      /\ live' = Written /\ ours' = Record(Written, DOMAIN open)
  BY DEF Effect
<1>2. /\ live \in [Files -> Entry] /\ ours \in [Files -> Entry]
      /\ expected \in [Files -> Entry] /\ DOMAIN open \subseteq Files
  BY DEF UTypes, FileTypes, LedgerTypes
<1>3. /\ \A f \in Files \ DOMAIN open : live'[f] = live[f] /\ ours'[f] = ours[f]
      /\ \A f \in DOMAIN open : live'[f] = Left(f) /\ ours'[f] = live'[f]
      /\ live' = [f \in Files |-> IF f \in DOMAIN open THEN Left(f) ELSE live[f]]
      /\ ours' = [f \in Files |-> IF f \in DOMAIN open THEN live'[f] ELSE ours[f]]
  BY <1>1, <1>2 DEF Written, Record
<1>4. Single(open, expected) \/ Rename(open, expected)
  BY <1>1 DEF OpenIsOne
<1>5. \A f \in DOMAIN open : Left(f) \in Entry /\ Outcome(f)
  <2>1. ASSUME NEW f \in Files, NEW content \in {"new", "absent"},
               open = [x \in {f} |-> content], content = "absent" => expected[f] # Absent
        PROVE  \A h \in DOMAIN open : Left(h) \in Entry /\ Outcome(h)
    <3>1. DOMAIN open = {f} /\ open[f] = content
      BY <2>1
    <3>2. Cardinality(DOMAIN open) # 2
      BY <3>1, FS_Singleton
    <3>3. Left(f) = Fresh(content, MutationId(mutations))
      BY <3>1, <3>2 DEF Left
    <3>4. content \in Contents
      BY DEF Contents
    <3>5. Left(f) \in Entry /\ Left(f) = IF content = "new" THEN <<"new", MutationId(mutations)>>
                                                            ELSE Absent
      BY <3>3, <3>4, EffectId, FreshEntry
    <3>6. Outcome(f)
      BY <3>1, <3>5, <1>3, <2>1 DEF Outcome
    <3>7. QED  BY <3>1, <3>5, <3>6
  <2>2. ASSUME NEW f \in Files, NEW g \in Files, f # g,
               expected[f] # Absent, expected[g] = Absent,
               open = [x \in {f, g} |-> IF x = f THEN "absent" ELSE expected[f][1]]
        PROVE  \A h \in DOMAIN open : Left(h) \in Entry /\ Outcome(h)
    <3>1. DOMAIN open = {f, g} /\ open[f] = "absent" /\ open[g] = expected[f][1]
      BY <2>2
    <3>2. Cardinality(DOMAIN open) = 2
      BY <3>1, <2>2, PairCardinality
    <3>3. expected[f][1] # "absent"
      BY <2>2, <1>2, AbsentEntry DEF WellFormed, Proper
    <3>4. (CHOOSE h \in DOMAIN open : h # g) = f
      BY <3>1, <2>2
    <3>5. Left(g) = live[f] /\ Left(g) \in Entry
      BY <3>1, <3>2, <3>3, <3>4, <1>2 DEF Left
    <3>6. Left(f) = Absent /\ Left(f) \in Entry
      BY <3>1, <3>2, Numbers DEF Left, Fresh, Absent, Entry, Contents, NoId
    <3>7. live[g] = Absent /\ expected[g] = Absent
      BY <1>1, <2>2, <3>1 DEF Takes
    <3>8. live'[g] = live[f] /\ live'[f] = Absent
      BY <1>3, <3>1, <3>5, <3>6
    <3>9. Outcome(f) /\ Outcome(g)
      BY <3>7, <3>8, <3>1, <2>2 DEF Outcome
    <3>10. QED  BY <3>1, <3>5, <3>6, <3>9
  <2>3. QED  BY <1>4, <2>1, <2>2 DEF Single, Rename
<1>6. live' \in [Files -> Entry]
  BY <1>2, <1>3, <1>5
<1>7. ours' \in [Files -> Entry]
  BY <1>2, <1>3, <1>5, <1>6
<1>8. ASSUME NEW f \in DOMAIN open
      PROVE  live'[f] = Absent \/ live[f][2] = expected[f][2]
  <2>1. CASE open[f] = "absent"
    BY <1>3, <2>1 DEF Left, Fresh
  <2>2. CASE open[f] # "absent"
    BY <1>1, <2>2 DEF Takes
  <2>3. QED  BY <2>1, <2>2
<1>9. QED  BY <1>1, <1>2, <1>3, <1>5, <1>6, <1>7, <1>8

\* A directory effect or a compilation leaves every file alone but one, which
\* it removes or writes with its own identity.
LEMMA UntrackedStep ==
  ASSUME UTypes, Untracked
  PROVE  /\ phase \in {"untracked", "compiling"}
         /\ UntrackedId \in Identities /\ UntrackedId # NoId
         /\ live' \in [Files -> Entry] /\ ours' \in [Files -> Entry]
         /\ \A f \in Files :
              \/ live'[f] = live[f] /\ ours'[f] = ours[f]
              \/ /\ ours'[f] = live'[f]
                 /\ live'[f] = Absent \/ live'[f] = <<"new", UntrackedId>>
<1>1. phase \in {"untracked", "compiling"}
  BY DEF Untracked
<1>2. UntrackedId \in Identities /\ UntrackedId # NoId
  BY EffectId DEF UntrackedId
<1>3. PICK f \in Files, content \in {"new", "absent"} :
        /\ live' \in {live, [live EXCEPT ![f] = Fresh(content, UntrackedId)]}
        /\ ours' = IF live' = live THEN ours ELSE Record(live', {f})
  BY DEF Untracked
<1>4. /\ Fresh(content, UntrackedId) \in Entry
      /\ Fresh(content, UntrackedId) = Absent \/ Fresh(content, UntrackedId) = <<"new", UntrackedId>>
  <2>1. content \in Contents
    BY DEF Contents
  <2>2. QED  BY <1>2, <2>1, FreshEntry
<1>5. live \in [Files -> Entry] /\ ours \in [Files -> Entry]
  BY DEF UTypes, FileTypes, LedgerTypes
<1>6. CASE live' = live
  BY <1>1, <1>2, <1>3, <1>5, <1>6
<1>7. CASE live' # live
  <2>1. live' = [live EXCEPT ![f] = Fresh(content, UntrackedId)]
    BY <1>3, <1>7
  <2>2. ours' = [g \in Files |-> IF g \in {f} THEN live'[g] ELSE ours[g]]
    BY <1>3, <1>7 DEF Record
  <2>3. live' \in [Files -> Entry]
    BY <2>1, <1>4, <1>5
  <2>4. ours' \in [Files -> Entry]
    BY <2>2, <2>3, <1>5
  <2>5. \A g \in Files : IF g = f THEN ours'[g] = live'[g] /\ live'[g] = Fresh(content, UntrackedId)
                                  ELSE live'[g] = live[g] /\ ours'[g] = ours[g]
    BY <2>1, <2>2, <1>5
  <2>6. QED  BY <1>1, <1>2, <1>4, <2>3, <2>4, <2>5
<1>8. QED  BY <1>6, <1>7

\* A restored file has the original content and a new identity.
LEMMA RestoreStep ==
  ASSUME UTypes, NEW f \in Files, RestoreFile(f)
  PROVE  /\ phase = "restoring" /\ f \in todo /\ f \in checked
         /\ checked' = {} /\ late' = {}
         /\ live'[f] = Absent \/ live[f][2] = expected[f][2]
         /\ live' \in [Files -> Entry] /\ ours' \in [Files -> Entry]
         /\ \A g \in Files : g # f => live'[g] = live[g] /\ ours'[g] = ours[g]
         /\ ours'[f] = live'[f] /\ live'[f] = Fresh(original[f][1], RestoredId)
         /\ live'[f][1] = original[f][1]
         /\ (live'[f][1] = "absent") = (live'[f][2] = NoId)
         /\ live'[f][2] \in {NoId, RestoredId}
         /\ \/ /\ expected' \in [Files -> Entry] /\ expected'[f] = live'[f]
               /\ \A g \in Files : g # f => expected'[g] = expected[g]
               /\ records' = records + 1 /\ todo' = todo \ {f}
               /\ UNCHANGED <<phase, settlement, retain, bounds>>
            \/ /\ FaultOccurs /\ Settle("recovery-required")
               /\ UNCHANGED <<expected, records, todo>>
         /\ UNCHANGED <<lease, backup, preimage, original, changed, unknown, rollback, open,
                        terminal, diag, committed, commitUnknown, uncertain, published>>
<1>1. /\ phase = "restoring" /\ f \in todo /\ f \in checked
      /\ checked' = {} /\ late' = {} /\ Takes(f, original[f][1])
      /\ live' = [live EXCEPT ![f] = Fresh(original[f][1], RestoredId)]
      /\ ours' = [g \in Files |-> IF g \in {f} THEN live'[g] ELSE ours[g]]
      /\ UNCHANGED <<lease, backup, preimage, original, changed, unknown, rollback, open,
                     terminal, diag, committed, commitUnknown, uncertain, published>>
  BY DEF RestoreFile, Unchecked, Record
<1>2. \/ /\ expected' = [expected EXCEPT ![f] = live'[f]]
         /\ records' = records + 1
         /\ todo' = todo \ {f}
         /\ UNCHANGED <<phase, settlement, retain, bounds>>
      \/ /\ FaultOccurs /\ Settle("recovery-required")
         /\ UNCHANGED <<expected, records, todo>>
  BY DEF RestoreFile
<1>3. /\ live \in [Files -> Entry] /\ ours \in [Files -> Entry]
      /\ expected \in [Files -> Entry] /\ original[f][1] \in Contents
  BY DEF UTypes, FileTypes, LedgerTypes, Entry
<1>4. RestoredId \in Identities /\ RestoredId # NoId
  BY Numbers DEF NoId
<1>5. live' \in [Files -> Entry] /\ live'[f] = Fresh(original[f][1], RestoredId)
  BY <1>1, <1>3, <1>4, FreshEntry
<1>6. /\ live'[f][1] = original[f][1]
      /\ (live'[f][1] = "absent") = (live'[f][2] = NoId)
      /\ live'[f][2] \in {NoId, RestoredId}
  BY <1>5, <1>3, <1>4, FreshEntry DEF Absent
<1>7. ours' \in [Files -> Entry] /\ ours'[f] = live'[f]
  BY <1>1, <1>3, <1>5
<1>8. \A g \in Files : g # f => live'[g] = live[g] /\ ours'[g] = ours[g]
  BY <1>1, <1>3
<1>9. expected' = [expected EXCEPT ![f] = live'[f]] =>
        /\ expected' \in [Files -> Entry] /\ expected'[f] = live'[f]
        /\ \A g \in Files : g # f => expected'[g] = expected[g]
  BY <1>3, <1>5
<1>10. live'[f] = Absent \/ live[f][2] = expected[f][2]
  BY <1>1, <1>5 DEF Takes, Fresh
<1>11. QED  BY <1>1, <1>2, <1>5, <1>6, <1>7, <1>8, <1>9, <1>10

\* An acknowledgment makes the ledger expect what the program left.
LEMMA AcknowledgeStep ==
  ASSUME UTypes, AcknowledgeMutation
  PROVE  /\ expected' \in [Files -> Entry]
         /\ \A f \in Files : f \in DOMAIN open => expected'[f] = ours[f]
         /\ \A f \in Files : f \notin DOMAIN open => expected'[f] = expected[f]
<1>1. expected' = [f \in Files |-> IF f \in DOMAIN open THEN ours[f] ELSE expected[f]]
  BY DEF AcknowledgeMutation
<1>2. expected \in [Files -> Entry] /\ ours \in [Files -> Entry]
  BY DEF UTypes, FileTypes, LedgerTypes
<1>3. QED  BY <1>1, <1>2

-----------------------------------------------------------------------------
(* The steps, sorted by whether they touch files and ledger.               *)

\* The phases a step that touches neither leads to.
Moves ==
  \/ phase' = phase
  \/ phase = "observed" /\ phase' = "copied"
  \/ phase = "snapshotted" /\ phase' = "cleared"
  \/ phase = "cleared" /\ phase' = "applying"
  \/ phase \in Forward /\ phase' = "failed"
  \/ phase = "compiled" /\ phase' = "recording"
  \/ phase = "failed" /\ phase' = "admitting"
  \/ phase' \in Settling

Quiet ==
  /\ UNCHANGED <<live, ours, original, expected, changed, unknown, rollback, records, open,
                 todo, mutations, foreign>>
  /\ preimage' \in {preimage, Content(live)}
  /\ faults' \in 0..MaxFaults
  /\ Moves

\* A call that throws uses up at most one failing call.
LEMMA ThrowsStep ==
  ASSUME UTypes, Throws \/ FaultOccurs \/ UNCHANGED bounds
  PROVE  mutations' = mutations /\ foreign' = foreign /\ faults' \in 0..MaxFaults
BY Numbers DEF UTypes, LedgerTypes, Throws, FaultOccurs, bounds

\* Every step is quiet or one of those that touch files or ledger.
LEMMA StepKinds ==
  ASSUME UTypes, [UNext]_uvars
  PROVE  \/ Quiet \/ SnapshotObserve \/ SnapshotSeal \/ Prepare \/ Effect
         \/ AcknowledgeMutation \/ MarkUnknown \/ Untracked \/ AdmitRecovery
         \/ (\E f \in Files : RestoreFile(f)) \/ (\E f \in Files : Edit(f))
<1>1. CASE UNCHANGED uvars
  BY <1>1 DEF UTypes, LedgerTypes, uvars, Quiet, Moves, ledger, bounds
<1>2. CASE LoseLease
  BY <1>2 DEF UTypes, LedgerTypes, LoseLease, Quiet, Moves, ledger, bounds
<1>3. CASE SnapshotCopy \/ SnapshotFails \/ ClearTerminal \/ PublishPlan
  BY <1>3, ThrowsStep
  DEF UTypes, LedgerTypes, SnapshotCopy, SnapshotFails, ClearTerminal, PublishPlan, Goto, Quiet, Moves, ledger,
      bounds, Settling
<1>4. CASE EffectRefused \/ Fails
  BY <1>4, ThrowsStep DEF EffectRefused, Fails, Goto, Quiet, Moves, ledger, bounds, Forward
<1>5. CASE PublishApplied \/ PublishUncertain \/ PublishUnknown \/ RecordArtifacts
  BY <1>5, ThrowsStep
  DEF UTypes, LedgerTypes, PublishApplied, PublishUncertain, PublishUnknown, RecordArtifacts, Goto, Quiet, Moves,
      ledger, bounds, Forward, Settling
<1>6. CASE Resolve \/ RestoreDone \/ RestoreFails
  BY <1>6, ThrowsStep
  DEF UTypes, LedgerTypes, Resolve, RestoreDone, RestoreFails, Settle, Goto, Quiet, Moves, ledger, bounds, Settling
<1>7. CASE PublishVerdict \/ NoVerdict \/ Diagnose \/ Close
  BY <1>7, ThrowsStep
  DEF UTypes, LedgerTypes, PublishVerdict, NoVerdict, Diagnose, Close, Goto, Quiet, Moves, ledger, bounds, Settling
<1>8. CASE CompareEffect \/ \E f \in Files : CompareRestore(f)
  BY <1>8 DEF UTypes, LedgerTypes, CompareEffect, CompareRestore, Compare, Quiet, Moves, ledger,
              bounds
<1>9. QED  BY <1>1, <1>2, <1>3, <1>4, <1>5, <1>6, <1>7, <1>8 DEF UNext, Program

-----------------------------------------------------------------------------
(* The invariant, conjunct by conjunct.                                    *)

\* The invariant holds at the start of an upgrade.
LEMMA InitInv == UInit => UInv
<1>1. SUFFICES ASSUME UInit PROVE UInv
  OBVIOUS
<1>2. /\ Initially \in [Files -> Entry] /\ Proper(Initially)
      /\ Content(Initially) \in [Files -> Contents]
      /\ \A f \in Files : Initially[f][1] # "new" /\ Initially[f][2] <= 1
      /\ \A f \in Files : Initially[f][2] \in Nat
  BY Numbers
  DEF Initially, Absent, Entry, Contents, NoId, OriginalId, Proper, Content
<1>3. UTypes
  <2>1. FileTypes
    BY <1>1, <1>2 DEF UInit, FileTypes
  <2>2. LedgerTypes
    BY <1>1, Numbers, FS_EmptySet DEF UInit, LedgerTypes
  <2>3. FlagTypes
    BY <1>1 DEF UInit, FlagTypes
  <2>4. ControlTypes
    BY <1>1 DEF UInit, ControlTypes, Phases, Snapshotting
  <2>5. QED  BY <2>1, <2>2, <2>3, <2>4 DEF UTypes
<1>4. WellFormed
  BY <1>1, <1>2 DEF UInit, WellFormed
<1>5. OpenIsOne
  BY <1>1, FS_EmptySet DEF UInit, OpenIsOne, Snapshotting, Forward
<1>6. LedgerComplete
  BY <1>1 DEF UInit, LedgerComplete, Snapshotting
<1>7. Reserve
  BY <1>1, Numbers, FS_EmptySet DEF UInit, Reserve, Forward
<1>8. Fresher
  BY <1>1, <1>2 DEF UInit, Fresher, Issued
<1>9. Track /\ Undone
  BY <1>1 DEF UInit, Track, Undone, Forward
<1>10. Verdicts /\ Window
  BY <1>1 DEF UInit, Verdicts, Window, Forward, Snapshotting, Settling
<1>11. QED  BY <1>3, <1>4, <1>5, <1>6, <1>7, <1>8, <1>9, <1>10 DEF UInv

\* Files keep being files.
LEMMA FileTypesStep ==
  ASSUME UInv, [UNext]_uvars
  PROVE  FileTypes'
<1>1. UTypes /\ WellFormed /\ OpenIsOne /\ FileTypes
  BY DEF UInv, UTypes
<1>2. CASE Quiet
  BY <1>1, <1>2 DEF Quiet, FileTypes, Content, Entry
<1>3. CASE SnapshotObserve \/ SnapshotSeal
  BY <1>1, <1>3 DEF SnapshotObserve, SnapshotSeal, FileTypes
<1>4. CASE Prepare
  BY <1>1, <1>4 DEF Prepare, FileTypes
<1>5. CASE Effect
  BY <1>1, <1>5, EffectStep DEF Effect, ledger, FileTypes
<1>6. CASE AcknowledgeMutation
  BY <1>1, <1>6, AcknowledgeStep DEF AcknowledgeMutation, FileTypes
<1>7. CASE MarkUnknown
  BY <1>1, <1>7 DEF MarkUnknown, FileTypes
<1>8. CASE Untracked
  BY <1>1, <1>8, UntrackedStep DEF Untracked, ledger, FileTypes
<1>9. CASE AdmitRecovery
  BY <1>1, <1>9 DEF AdmitRecovery, FileTypes
<1>10. ASSUME NEW f \in Files, RestoreFile(f) PROVE FileTypes'
  BY <1>1, <1>10, RestoreStep DEF FileTypes
<1>11. ASSUME NEW f \in Files, Edit(f) PROVE FileTypes'
  BY <1>1, <1>11, EditStep DEF ledger, FileTypes
<1>12. QED
  BY <1>1, <1>2, <1>3, <1>4, <1>5, <1>6, <1>7, <1>8, <1>9, <1>10, <1>11, StepKinds

\* So does the ledger.
LEMMA LedgerTypesStep ==
  ASSUME UInv, [UNext]_uvars
  PROVE  LedgerTypes'
<1>1. UTypes /\ LedgerTypes
  BY DEF UInv, UTypes
<1>2. CASE Quiet
  BY <1>1, <1>2 DEF Quiet, LedgerTypes
<1>3. CASE SnapshotObserve \/ SnapshotSeal
  BY <1>1, <1>3 DEF SnapshotObserve, SnapshotSeal, bounds, LedgerTypes
<1>4. CASE Prepare
  <2>1. /\ mutations' = mutations + 1 /\ mutations < MaxMutations /\ foreign' = foreign
        /\ faults' = faults /\ UNCHANGED <<changed, todo>>
    BY <1>4 DEF Prepare
  <2>2. PICK change \in UNION {[files -> {"new", "old", "foreign", "absent"}] :
                            files \in SUBSET Files} :
           \/ open' = change /\ records' = records + 1 /\ Goto("prepared")
           \/ UNCHANGED <<open, records>> /\ Goto("failed")
    BY <1>4 DEF Prepare
  <2>3. PICK files \in SUBSET Files : change \in [files -> {"new", "old", "foreign", "absent"}]
    BY <2>2
  <2>4. DOMAIN open' \subseteq Files /\ records' \in Nat
    BY <2>2, <2>3, <1>1 DEF LedgerTypes
  <2>5. mutations' \in 0..MaxMutations
    BY <2>1, <1>1, Numbers DEF LedgerTypes
  <2>6. QED  BY <2>1, <2>4, <2>5, <1>1 DEF LedgerTypes
<1>5. CASE Effect \/ Untracked
  BY <1>1, <1>5, ThrowsStep DEF Effect, Untracked, ledger, LedgerTypes
<1>6. CASE AcknowledgeMutation
  <2>1. IsFiniteSet(changed') /\ changed' \subseteq Files /\ todo \subseteq changed'
    BY <1>1, <1>6, FS_Union DEF AcknowledgeMutation, LedgerTypes, UInv, OpenIsOne
  <2>2. QED  BY <1>1, <1>6, <2>1 DEF AcknowledgeMutation, bounds, LedgerTypes
<1>7. CASE MarkUnknown
  BY <1>1, <1>7, Numbers DEF MarkUnknown, LedgerTypes
<1>8. CASE AdmitRecovery
  BY <1>1, <1>8 DEF AdmitRecovery, bounds, LedgerTypes
<1>9. ASSUME NEW f \in Files, RestoreFile(f) PROVE LedgerTypes'
  BY <1>1, <1>9, RestoreStep, ThrowsStep DEF LedgerTypes
<1>10. ASSUME NEW f \in Files, Edit(f) PROVE LedgerTypes'
  BY <1>1, <1>10, EditStep, Numbers DEF ledger, LedgerTypes
<1>11. QED
  BY <1>1, <1>2, <1>3, <1>4, <1>5, <1>6, <1>7, <1>8, <1>9, <1>10, StepKinds

\* And the flags.
LEMMA FlagTypesStep ==
  ASSUME UInv, [UNext]_uvars
  PROVE  FlagTypes'
<1>1. FlagTypes
  BY DEF UInv, UTypes
<1>2. CASE UNCHANGED uvars
  BY <1>1, <1>2 DEF uvars, ledger, verdict, FlagTypes
<1>3. CASE LoseLease \/ SnapshotObserve \/ SnapshotCopy \/ SnapshotSeal \/ SnapshotFails
  BY <1>1, <1>3
  DEF LoseLease, SnapshotObserve, SnapshotCopy, SnapshotSeal, SnapshotFails, ledger, verdict,
      FlagTypes
<1>4. CASE ClearTerminal \/ PublishPlan \/ EffectRefused \/ Fails
  BY <1>1, <1>4
  DEF ClearTerminal, PublishPlan, EffectRefused, Fails, ledger, verdict, FlagTypes
<1>5. CASE PublishApplied \/ PublishUncertain \/ PublishUnknown \/ RecordArtifacts
  BY <1>1, <1>5
  DEF PublishApplied, PublishUncertain, PublishUnknown, RecordArtifacts, ledger, verdict,
      FlagTypes
<1>6. CASE Resolve \/ RestoreDone \/ RestoreFails
  BY <1>1, <1>6
  DEF Resolve, RestoreDone, RestoreFails, Settle, ledger, verdict, FlagTypes
<1>7. CASE PublishVerdict \/ NoVerdict \/ Diagnose \/ Close
  BY <1>1, <1>7 DEF PublishVerdict, NoVerdict, Diagnose, Close, ledger, verdict, FlagTypes
<1>8. CASE Prepare \/ Effect \/ AcknowledgeMutation
  BY <1>1, <1>8 DEF Prepare, Effect, AcknowledgeMutation, ledger, verdict, FlagTypes
<1>9. CASE MarkUnknown \/ Untracked \/ AdmitRecovery
  BY <1>1, <1>9 DEF MarkUnknown, Untracked, AdmitRecovery, Settle, ledger, verdict, FlagTypes
<1>10. ASSUME NEW f \in Files, RestoreFile(f) PROVE FlagTypes'
  BY <1>1, <1>10 DEF RestoreFile, Settle, FlagTypes
<1>11. ASSUME NEW f \in Files, Edit(f) PROVE FlagTypes'
  BY <1>1, <1>11 DEF Edit, ledger, verdict, FlagTypes
<1>12. CASE CompareEffect \/ \E f \in Files : CompareRestore(f)
  BY <1>1, <1>12 DEF CompareEffect, CompareRestore, Compare, ledger, verdict, FlagTypes
<1>13. QED
  BY <1>2, <1>3, <1>4, <1>5, <1>6, <1>7, <1>8, <1>9, <1>10, <1>11, <1>12 DEF UNext, Program

\* And phase, backup, terminal and settlement.
LEMMA ControlTypesStep ==
  ASSUME UInv, [UNext]_uvars
  PROVE  ControlTypes'
<1>1. ControlTypes
  BY DEF UInv, UTypes
<1>2. CASE UNCHANGED uvars
  BY <1>1, <1>2 DEF uvars, verdict, ControlTypes
<1>3. CASE LoseLease \/ SnapshotObserve \/ SnapshotCopy \/ SnapshotSeal \/ SnapshotFails
  BY <1>1, <1>3
  DEF LoseLease, SnapshotObserve, SnapshotCopy, SnapshotSeal, SnapshotFails, Goto, verdict,
      ControlTypes, Phases, Snapshotting, Forward, Settling
<1>4. CASE ClearTerminal \/ PublishPlan \/ EffectRefused \/ Fails
  BY <1>1, <1>4
  DEF ClearTerminal, PublishPlan, EffectRefused, Fails, Goto, verdict, ControlTypes, Phases,
      Forward
<1>5. CASE PublishApplied \/ PublishUncertain \/ PublishUnknown \/ RecordArtifacts
  BY <1>1, <1>5
  DEF PublishApplied, PublishUncertain, PublishUnknown, RecordArtifacts, Goto, verdict,
      ControlTypes, Phases, Settling
<1>6. CASE Resolve \/ RestoreDone \/ RestoreFails
  BY <1>1, <1>6
  DEF Resolve, RestoreDone, RestoreFails, Settle, Goto, ControlTypes, Phases, Settling
<1>7. CASE PublishVerdict \/ NoVerdict \/ Diagnose \/ Close
  <2>1. phase = "reporting" => settlement # "none"
    BY DEF UInv, Verdicts
  <2>2. QED
    BY <1>1, <1>7, <2>1
    DEF PublishVerdict, NoVerdict, Diagnose, Close, Goto, verdict, ControlTypes, Phases, Settling
<1>8. CASE Prepare \/ Effect \/ AcknowledgeMutation
  BY <1>1, <1>8
  DEF Prepare, Effect, AcknowledgeMutation, Goto, verdict, ControlTypes, Phases, Forward
<1>9. CASE MarkUnknown \/ Untracked \/ AdmitRecovery
  BY <1>1, <1>9
  DEF MarkUnknown, Untracked, AdmitRecovery, Settle, Goto, verdict, ControlTypes, Phases,
      Forward, Settling
<1>10. ASSUME NEW f \in Files, RestoreFile(f) PROVE ControlTypes'
  BY <1>1, <1>10 DEF RestoreFile, Settle, Goto, ControlTypes, Phases, Settling
<1>11. ASSUME NEW f \in Files, Edit(f) PROVE ControlTypes'
  BY <1>1, <1>11 DEF Edit, verdict, ControlTypes
<1>12. CASE CompareEffect \/ \E f \in Files : CompareRestore(f)
  BY <1>1, <1>12 DEF CompareEffect, CompareRestore, Compare, verdict, ControlTypes
<1>13. QED
  BY <1>2, <1>3, <1>4, <1>5, <1>6, <1>7, <1>8, <1>9, <1>10, <1>11, <1>12 DEF UNext, Program

\* Identities stay with files that exist.
LEMMA WellFormedStep ==
  ASSUME UInv, [UNext]_uvars
  PROVE  WellFormed'
<1>1. UTypes /\ WellFormed /\ OpenIsOne /\ FileTypes
  BY DEF UInv, UTypes
<1>2. Absent[1] = "absent" /\ Absent[2] = NoId
  BY DEF Absent
<1>3. CASE Quiet
  BY <1>1, <1>3 DEF Quiet, Moves, WellFormed, Proper, Snapshotting, Settling
<1>4. CASE SnapshotObserve
  BY <1>1, <1>4 DEF SnapshotObserve, Goto, WellFormed, Proper, Snapshotting
<1>5. CASE SnapshotSeal
  BY <1>1, <1>5 DEF SnapshotSeal, Goto, WellFormed, Proper, Snapshotting
<1>6. CASE Prepare
  BY <1>1, <1>6 DEF Prepare, Goto, WellFormed, Proper, Snapshotting
<1>7. CASE Effect
  <2>1. UNCHANGED <<original, expected>> /\ phase' \notin Snapshotting
    BY <1>7 DEF Effect, ledger, Goto, Snapshotting
  <2>2. ASSUME NEW f \in Files
        PROVE  (live'[f][1] = "absent") = (live'[f][2] = NoId)
    <3>1. CASE f \notin DOMAIN open
      BY <1>1, <1>7, <3>1, EffectStep DEF WellFormed, Proper
    <3>2. CASE f \in DOMAIN open
      BY <1>1, <1>2, <1>7, <3>2, EffectStep, EffectId DEF Outcome, WellFormed, Proper
    <3>3. QED  BY <3>1, <3>2
  <2>3. ASSUME NEW f \in Files
        PROVE  (ours'[f][1] = "absent") = (ours'[f][2] = NoId)
    BY <1>1, <1>7, <2>2, EffectStep DEF WellFormed, Proper
  <2>4. QED  BY <1>1, <2>1, <2>2, <2>3 DEF WellFormed, Proper
<1>8. CASE AcknowledgeMutation
  <2>1. UNCHANGED <<live, ours, original>> /\ phase' \notin Snapshotting
    BY <1>8 DEF AcknowledgeMutation, Goto, Snapshotting
  <2>2. ASSUME NEW f \in Files
        PROVE  (expected'[f][1] = "absent") = (expected'[f][2] = NoId)
    BY <1>1, <1>8, AcknowledgeStep DEF WellFormed, Proper
  <2>3. QED  BY <1>1, <2>1, <2>2 DEF WellFormed, Proper
<1>9. CASE MarkUnknown
  BY <1>1, <1>9 DEF MarkUnknown, Goto, WellFormed, Proper, Snapshotting
<1>10. CASE Untracked
  <2>1. UNCHANGED <<original, expected>> /\ phase' \notin Snapshotting
    BY <1>10 DEF Untracked, ledger, Goto, Snapshotting
  <2>2. ASSUME NEW f \in Files
        PROVE  /\ (live'[f][1] = "absent") = (live'[f][2] = NoId)
               /\ (ours'[f][1] = "absent") = (ours'[f][2] = NoId)
    BY <1>1, <1>2, <1>10, UntrackedStep DEF WellFormed, Proper
  <2>3. QED  BY <1>1, <2>1, <2>2 DEF WellFormed, Proper
<1>11. CASE AdmitRecovery
  BY <1>1, <1>11 DEF AdmitRecovery, Settle, Goto, WellFormed, Proper, Snapshotting
<1>12. ASSUME NEW f \in Files, RestoreFile(f) PROVE WellFormed'
  <2>1. UNCHANGED original /\ phase' \notin Snapshotting
    BY <1>1, <1>12, RestoreStep DEF Settle, Goto, Snapshotting
  <2>2. ASSUME NEW g \in Files
        PROVE  /\ (live'[g][1] = "absent") = (live'[g][2] = NoId)
               /\ (ours'[g][1] = "absent") = (ours'[g][2] = NoId)
    BY <1>1, <1>12, RestoreStep DEF WellFormed, Proper
  <2>3. ASSUME NEW g \in Files
        PROVE  (expected'[g][1] = "absent") = (expected'[g][2] = NoId)
    BY <1>1, <1>12, RestoreStep DEF WellFormed, Proper
  <2>4. QED  BY <1>1, <2>1, <2>2, <2>3 DEF WellFormed, Proper
<1>13. ASSUME NEW f \in Files, Edit(f) PROVE WellFormed'
  <2>1. UNCHANGED <<ours, original, expected, phase>>
    BY <1>1, <1>13, EditStep DEF ledger
  <2>2. ASSUME NEW g \in Files
        PROVE  /\ (live'[g][1] = "absent") = (live'[g][2] = NoId)
               /\ live'[g][1] # "new" \/ live'[g] = live[g]
    BY <1>1, <1>2, <1>13, EditStep DEF WellFormed, Proper
  <2>3. QED  BY <1>1, <2>1, <2>2 DEF WellFormed, Proper
<1>14. QED
  BY <1>1, <1>3, <1>4, <1>5, <1>6, <1>7, <1>8, <1>9, <1>10, <1>11, <1>12, <1>13, StepKinds

\* What a step prepares: one file or a rename, of files the ledger expects as
\* they are, with room for the way back.
LEMMA PrepareStep ==
  ASSUME UInv, Prepare
  PROVE  /\ phase = "applying" /\ open = <<>>
         /\ mutations' = mutations + 1 /\ UNCHANGED <<foreign, faults>>
         /\ UNCHANGED <<live, lease, backup, preimage, original, expected, changed, unknown,
                        rollback, todo, verdict, retain, ours>>
         /\ \/ /\ phase' = "prepared" /\ records' = records + 1
               /\ Single(open', expected) \/ Rename(open', expected)
               /\ IsFiniteSet(DOMAIN open') /\ Cardinality(DOMAIN open') <= 2
               /\ records + 3 + Cardinality(changed \cup DOMAIN open') <= MaxLedgerRecords
            \/ phase' = "failed" /\ UNCHANGED <<open, records>>
<1>1. /\ phase = "applying" /\ mutations' = mutations + 1 /\ UNCHANGED <<foreign, faults>>
      /\ UNCHANGED <<live, lease, backup, preimage, original, expected, changed, unknown,
                     rollback, todo, verdict, retain, ours>>
  BY DEF Prepare
<1>2. open = <<>>
  BY <1>1 DEF UInv, OpenIsOne, Forward, Snapshotting
<1>3. PICK change :
        /\ Mutation(change)
        /\ IF /\ ~rollback /\ open = <<>> /\ Possible(change)
              /\ \A f \in DOMAIN change : live[f] = expected[f]
              /\ Fits(DOMAIN change)
             THEN open' = change /\ records' = records + 1 /\ Goto("prepared")
             ELSE UNCHANGED <<open, records>> /\ Goto("failed")
  BY DEF Prepare
<1>4. CASE phase' = "failed" /\ UNCHANGED <<open, records>>
  BY <1>1, <1>2, <1>4
<1>5. CASE ~(phase' = "failed" /\ UNCHANGED <<open, records>>)
  <2>1. /\ \A f \in DOMAIN change : live[f] = expected[f]
        /\ Fits(DOMAIN change) /\ Possible(change)
        /\ open' = change /\ records' = records + 1 /\ phase' = "prepared"
    BY <1>3, <1>5 DEF Goto
  <2>2. /\ records + 3 + Cardinality(changed \cup DOMAIN open') <= MaxLedgerRecords
        /\ \A f \in DOMAIN open' : live[f] = expected[f]
        /\ Cardinality(DOMAIN open') = 2 =>
             \A f \in DOMAIN open' : open'[f] # "absent" => live[f] = Absent
    BY <2>1 DEF Fits, Possible
  <2>3. Mutation(open')
    BY <1>3, <2>1
  <2>4. \/ \E f \in Files : open' = [x \in {f} |-> "new"]
        \/ \E f \in Files : live[f] # Absent /\ open' = [x \in {f} |-> "absent"]
        \/ \E f, g \in Files :
             /\ f # g /\ live[f] # Absent
             /\ open' = [x \in {f, g} |-> IF x = f THEN "absent" ELSE live[f][1]]
    BY <2>3, FilesAssumption DEF Mutation
  <2>5. ASSUME NEW f \in Files, NEW content \in {"new", "absent"},
               open' = [x \in {f} |-> content], content = "absent" => live[f] # Absent
        PROVE  /\ Single(open', expected)
               /\ IsFiniteSet(DOMAIN open') /\ Cardinality(DOMAIN open') <= 2
    <3>1. DOMAIN open' = {f}
      BY <2>5
    <3>2. Single(open', expected)
      BY <2>2, <2>5, <3>1 DEF Single
    <3>3. IsFiniteSet({f}) /\ Cardinality({f}) = 1
      BY FS_Singleton
    <3>4. QED  BY <3>1, <3>2, <3>3
  <2>6. ASSUME NEW f \in Files, NEW g \in Files, f # g, live[f] # Absent,
               open' = [x \in {f, g} |-> IF x = f THEN "absent" ELSE live[f][1]]
        PROVE  /\ Rename(open', expected)
               /\ IsFiniteSet(DOMAIN open') /\ Cardinality(DOMAIN open') <= 2
    <3>1. DOMAIN open' = {f, g} /\ live[f] = expected[f] /\ live[g] = expected[g]
      BY <2>2, <2>6
    <3>2. IsFiniteSet({f, g}) /\ Cardinality({f, g}) = 2
      BY <2>6, PairCardinality
    <3>3. live[f][1] # "absent"
      BY <2>6, AbsentEntry DEF UInv, UTypes, FileTypes, WellFormed, Proper
    <3>4. open'[g] = live[f][1]
      BY <2>6
    <3>5. live[g] = Absent
      BY <2>2, <3>1, <3>2, <3>3, <3>4
    <3>6. Rename(open', expected)
      BY <2>6, <3>1, <3>5 DEF Rename
    <3>7. QED  BY <3>1, <3>2, <3>6
  <2>7. /\ Single(open', expected) \/ Rename(open', expected)
        /\ IsFiniteSet(DOMAIN open') /\ Cardinality(DOMAIN open') <= 2
    <3>1. CASE \E f \in Files : open' = [x \in {f} |-> "new"]
      BY <2>5, <3>1
    <3>2. CASE \E f \in Files : live[f] # Absent /\ open' = [x \in {f} |-> "absent"]
      BY <2>5, <3>2
    <3>3. CASE \E f, g \in Files :
                 /\ f # g /\ live[f] # Absent
                 /\ open' = [x \in {f, g} |-> IF x = f THEN "absent" ELSE live[f][1]]
      BY <2>6, <3>3
    <3>4. QED  BY <2>4, <3>1, <3>2, <3>3
  <2>8. QED  BY <1>1, <1>2, <2>1, <2>2, <2>7
<1>6. QED  BY <1>4, <1>5

\* The mutation that is open stays what was prepared.
LEMMA OpenStep ==
  ASSUME UInv, [UNext]_uvars
  PROVE  OpenIsOne'
<1>1. OpenIsOne /\ UTypes
  BY DEF UInv
<1>2. CASE UNCHANGED <<open, expected>> /\ Moves
  BY <1>1, <1>2 DEF Moves, OpenIsOne, Snapshotting, Forward, Settling
<1>3. Quiet => UNCHANGED <<open, expected>> /\ Moves
  BY DEF Quiet
<1>4. CASE SnapshotObserve \/ SnapshotSeal
  BY <1>1, <1>4 DEF SnapshotObserve, SnapshotSeal, Goto, OpenIsOne, Snapshotting, Forward
<1>5. CASE Prepare
  <2>1. UNCHANGED expected /\ open = <<>>
    BY <1>5, PrepareStep
  <2>2. CASE phase' = "prepared" /\ (Single(open', expected) \/ Rename(open', expected))
    <3>1. Single(open', expected') \/ Rename(open', expected')
      BY <2>1, <2>2
    <3>2. QED  BY <1>5, <2>1, <2>2, <3>1, PrepareStep DEF OpenIsOne, Snapshotting, Forward
  <2>3. CASE phase' = "failed" /\ UNCHANGED open
    BY <1>1, <2>1, <2>3 DEF OpenIsOne, Snapshotting, Forward
  <2>4. QED  BY <1>5, <2>2, <2>3, PrepareStep
<1>6. CASE Effect
  BY <1>1, <1>6 DEF Effect, ledger, Goto, OpenIsOne, Snapshotting, Forward
<1>7. CASE AcknowledgeMutation
  <2>1. open' = <<>> /\ phase' = "applying" /\ DOMAIN open' = {}
    BY <1>7 DEF AcknowledgeMutation, Goto
  <2>2. QED  BY <2>1, FS_EmptySet DEF OpenIsOne, Snapshotting, Forward
<1>8. CASE MarkUnknown
  BY <1>1, <1>8 DEF MarkUnknown, Goto, OpenIsOne, Snapshotting, Forward
<1>9. CASE Untracked
  BY <1>1, <1>9 DEF Untracked, ledger, Goto, OpenIsOne, Snapshotting, Forward
<1>10. CASE AdmitRecovery
  BY <1>1, <1>10 DEF AdmitRecovery, Settle, Goto, OpenIsOne, Snapshotting, Forward
<1>11. ASSUME NEW f \in Files, RestoreFile(f) PROVE OpenIsOne'
  <2>1. UNCHANGED open /\ phase' \in {"restoring", "reporting"}
    BY <1>1, <1>11, RestoreStep DEF Settle, Goto
  <2>2. QED  BY <1>1, <2>1 DEF OpenIsOne, Snapshotting, Forward
<1>12. ASSUME NEW f \in Files, Edit(f) PROVE OpenIsOne'
  BY <1>1, <1>2, <1>12, EditStep DEF ledger, Moves
<1>13. QED
  BY <1>1, <1>2, <1>3, <1>4, <1>5, <1>6, <1>7, <1>8, <1>9, <1>10, <1>11, <1>12, StepKinds

\* What the ledger does not list is as it was found.
LEMMA LedgerCompleteStep ==
  ASSUME UInv, [UNext]_uvars
  PROVE  LedgerComplete'
<1>1. UTypes /\ WellFormed /\ OpenIsOne /\ LedgerComplete
  BY DEF UInv
<1>2. CASE Quiet
  BY <1>1, <1>2 DEF Quiet, Moves, LedgerComplete, Snapshotting, Settling
<1>3. CASE SnapshotObserve
  BY <1>1, <1>3 DEF SnapshotObserve, Goto, LedgerComplete, Snapshotting
<1>4. CASE SnapshotSeal
  BY <1>1, <1>4 DEF SnapshotSeal, Goto, LedgerComplete, Snapshotting
<1>5. CASE Prepare
  <2>1. /\ open = <<>> /\ UNCHANGED <<ours, original, changed, unknown>>
        /\ phase' \in {"prepared", "failed"}
    BY <1>5, PrepareStep
  <2>2. DOMAIN open = {}
    BY <2>1
  <2>3. QED  BY <1>1, <2>1, <2>2 DEF LedgerComplete, Snapshotting
<1>6. CASE Effect
  <2>1. UNCHANGED <<original, changed, unknown, open>> /\ phase' \in {"effected", "failed"}
    BY <1>6 DEF Effect, ledger, Goto
  <2>2. \A f \in Files \ DOMAIN open : ours'[f] = ours[f]
    BY <1>1, <1>6, EffectStep
  <2>3. QED  BY <1>1, <2>1, <2>2 DEF LedgerComplete, Snapshotting
<1>7. CASE AcknowledgeMutation
  <2>1. /\ changed' = changed \cup DOMAIN open /\ open' = <<>> /\ phase' = "applying"
        /\ UNCHANGED <<ours, original, unknown>>
    BY <1>7 DEF AcknowledgeMutation, Goto
  <2>2. QED  BY <1>1, <2>1 DEF LedgerComplete, Snapshotting
<1>8. CASE MarkUnknown
  <2>1. unknown' /\ phase' \in {"untracked", "compiling", "failed"}
    BY <1>8 DEF MarkUnknown, Goto
  <2>2. QED  BY <2>1 DEF LedgerComplete, Snapshotting
<1>9. CASE Untracked
  <2>1. unknown' /\ phase' \in {"applying", "compiled", "failed"}
    BY <1>1, <1>9 DEF Untracked, ledger, Goto, LedgerComplete
  <2>2. QED  BY <2>1 DEF LedgerComplete, Snapshotting
<1>10. CASE AdmitRecovery
  BY <1>1, <1>10 DEF AdmitRecovery, Admits, Settle, Goto, LedgerComplete, Snapshotting
<1>11. ASSUME NEW f \in Files, RestoreFile(f) PROVE LedgerComplete'
  <2>1. /\ phase = "restoring" /\ phase' \in {"restoring", "reporting"} /\ f \in changed
        /\ UNCHANGED <<original, changed, unknown, open>>
        /\ \A g \in Files : g # f => ours'[g] = ours[g]
    BY <1>1, <1>11, RestoreStep DEF Settle, Goto, UTypes, LedgerTypes
  <2>2. QED  BY <1>1, <2>1 DEF LedgerComplete, Snapshotting
<1>12. ASSUME NEW f \in Files, Edit(f) PROVE LedgerComplete'
  BY <1>1, <1>12, EditStep DEF ledger, LedgerComplete
<1>13. QED
  BY <1>1, <1>2, <1>3, <1>4, <1>5, <1>6, <1>7, <1>8, <1>9, <1>10, <1>11, <1>12, StepKinds

\* The way back stays reserved.
LEMMA ReserveStep ==
  ASSUME UInv, [UNext]_uvars
  PROVE  Reserve'
<1>1. UTypes /\ OpenIsOne /\ LedgerComplete /\ Reserve /\ LedgerTypes
  BY DEF UInv, UTypes
<1>2. /\ records \in Nat /\ MaxLedgerRecords \in Nat
      /\ IsFiniteSet(changed) /\ Cardinality(changed) \in Nat
      /\ IsFiniteSet(changed \cup DOMAIN open)
      /\ Cardinality(changed \cup DOMAIN open) \in Nat
      /\ Cardinality(changed) <= Cardinality(changed \cup DOMAIN open)
      /\ IsFiniteSet(todo) /\ Cardinality(todo) <= Cardinality(changed)
      /\ Cardinality(todo) \in Nat
  BY <1>1, Numbers, FS_Union, FS_Subset, FS_CardinalityType DEF LedgerTypes, OpenIsOne
<1>3. CASE Quiet
  <2>1. UNCHANGED <<changed, unknown, records, open, todo>> /\ Moves
    BY <1>3 DEF Quiet
  <2>2. phase \in Forward /\ open # <<>> => phase \in {"prepared", "effected"}
    BY <1>1 DEF OpenIsOne
  <2>3. QED
    BY <1>1, <2>1, <2>2 DEF Moves, Reserve, LedgerComplete, Snapshotting, Forward, Settling
<1>4. CASE SnapshotObserve
  BY <1>1, <1>4 DEF SnapshotObserve, Goto, Reserve, Forward
<1>5. CASE SnapshotSeal
  BY <1>1, <1>2, <1>5, Numbers
  DEF SnapshotSeal, Goto, Reserve, LedgerComplete, Snapshotting, Forward
<1>6. CASE Prepare
  <2>1. /\ phase = "applying" /\ UNCHANGED <<changed, unknown, todo>> /\ open = <<>>
        /\ \/ /\ phase' = "prepared" /\ records' = records + 1
              /\ IsFiniteSet(DOMAIN open')
              /\ records + 3 + Cardinality(changed \cup DOMAIN open') <= MaxLedgerRecords
           \/ phase' = "failed" /\ UNCHANGED <<open, records>>
    BY <1>6, PrepareStep
  <2>2. CASE phase' = "failed" /\ UNCHANGED <<open, records>>
    BY <1>1, <2>1, <2>2 DEF Reserve, Forward
  <2>3. CASE /\ phase' = "prepared" /\ records' = records + 1
             /\ IsFiniteSet(DOMAIN open')
             /\ records + 3 + Cardinality(changed \cup DOMAIN open') <= MaxLedgerRecords
    <3>1. /\ Cardinality(changed \cup DOMAIN open') \in Nat
          /\ Cardinality(changed) <= Cardinality(changed \cup DOMAIN open')
      BY <1>2, <2>3, FS_Union, FS_Subset, FS_CardinalityType
    <3>2. /\ records' + 2 + Cardinality(changed \cup DOMAIN open') <= MaxLedgerRecords
          /\ records' + 1 + Cardinality(changed) <= MaxLedgerRecords
          /\ records' <= MaxLedgerRecords
      BY <1>2, <2>3, <3>1
    <3>3. QED  BY <2>1, <2>3, <3>2 DEF Reserve, Forward
  <2>4. QED  BY <2>1, <2>2, <2>3
<1>7. CASE Effect
  BY <1>1, <1>7 DEF Effect, ledger, Goto, Reserve, Forward
<1>8. CASE AcknowledgeMutation
  <2>1. /\ phase = "effected" /\ phase' = "applying" /\ open' = <<>>
        /\ changed' = changed \cup DOMAIN open /\ records' = records + 1
    BY <1>8 DEF AcknowledgeMutation, Goto
  <2>2. open # <<>>
    <3>1. Single(open, expected) \/ Rename(open, expected)
      BY <1>1, <2>1 DEF OpenIsOne
    <3>2. DOMAIN open # {}
      BY <3>1 DEF Single, Rename
    <3>3. QED  BY <3>2
  <2>3. records + 2 + Cardinality(changed \cup DOMAIN open) <= MaxLedgerRecords
    BY <1>1, <2>1, <2>2 DEF Reserve
  <2>4. /\ records' <= MaxLedgerRecords
        /\ records' + 1 + Cardinality(changed') <= MaxLedgerRecords
    BY <1>2, <2>1, <2>3
  <2>5. QED  BY <2>1, <2>4 DEF Reserve
<1>9. CASE MarkUnknown
  <2>1. /\ phase = "applying" /\ unknown' /\ phase' \in {"untracked", "compiling", "failed"}
        /\ records' <= MaxLedgerRecords /\ UNCHANGED open
    BY <1>1, <1>2, <1>9 DEF MarkUnknown, Goto, Reserve
  <2>2. open = <<>>
    BY <1>1, <2>1 DEF OpenIsOne, Snapshotting, Forward
  <2>3. QED  BY <2>1, <2>2 DEF Reserve
<1>10. CASE Untracked
  <2>1. /\ phase \in {"untracked", "compiling"} /\ phase' \in {"applying", "compiled", "failed"}
        /\ UNCHANGED <<unknown, open, records>>
    BY <1>10 DEF Untracked, Goto, ledger
  <2>2. open = <<>> /\ unknown
    BY <1>1, <2>1 DEF OpenIsOne, LedgerComplete, Snapshotting, Forward
  <2>3. QED  BY <1>1, <2>1, <2>2 DEF Reserve
<1>11. CASE AdmitRecovery
  <2>1. /\ phase = "admitting" /\ ~unknown /\ records < MaxLedgerRecords
        /\ records' = records + 1 /\ phase' \in {"restoring", "reporting"}
        /\ todo' \subseteq changed /\ UNCHANGED <<changed, unknown, open>>
    BY <1>1, <1>11 DEF AdmitRecovery, Admits, Settle, Goto, LedgerTypes
  <2>2. Cardinality(todo') \in Nat /\ Cardinality(todo') <= Cardinality(changed)
    BY <1>2, <2>1, FS_Subset, FS_CardinalityType
  <2>3. records' + Cardinality(todo') <= MaxLedgerRecords
    <3>1. CASE changed = {}
      <4>1. todo' = {}
        BY <2>1, <3>1
      <4>2. QED  BY <1>2, <2>1, <4>1, FS_EmptySet
    <3>2. CASE changed # {}
      <4>1. records + 1 + Cardinality(changed) <= MaxLedgerRecords
        BY <1>1, <2>1, <3>2 DEF Reserve
      <4>2. QED  BY <1>2, <2>1, <2>2, <4>1
    <3>3. QED  BY <3>1, <3>2
  <2>4. records' <= MaxLedgerRecords
    BY <1>2, <2>1
  <2>5. QED  BY <2>1, <2>3, <2>4 DEF Reserve, Forward
<1>12. ASSUME NEW f \in Files, RestoreFile(f) PROVE Reserve'
  <2>1. phase = "restoring" /\ f \in todo /\ records + Cardinality(todo) <= MaxLedgerRecords
    BY <1>1, <1>12, RestoreStep DEF Reserve
  <2>2. CASE phase' = "reporting" /\ UNCHANGED <<records, todo>>
    BY <1>1, <2>2 DEF Reserve, Forward
  <2>3. CASE phase' = "restoring" /\ records' = records + 1 /\ todo' = todo \ {f}
    <3>1. Cardinality(todo') = Cardinality(todo) - 1
      BY <1>2, <2>1, <2>3, FS_RemoveElement
    <3>2. records' + Cardinality(todo') <= MaxLedgerRecords
      BY <1>2, <2>1, <2>3, <3>1
    <3>3. Cardinality(todo') \in Nat
      BY <1>2, <2>3, FS_RemoveElement, FS_CardinalityType
    <3>4. records' <= MaxLedgerRecords
      BY <1>2, <2>3, <3>2, <3>3
    <3>5. QED  BY <2>3, <3>2, <3>4 DEF Reserve, Forward
  <2>4. QED  BY <1>1, <1>12, <2>1, <2>2, <2>3, RestoreStep DEF Settle, Goto
<1>13. ASSUME NEW f \in Files, Edit(f) PROVE Reserve'
  BY <1>1, <1>13, EditStep DEF ledger, Reserve
<1>14. QED
  BY <1>1, <1>3, <1>4, <1>5, <1>6, <1>7, <1>8, <1>9, <1>10, <1>11, <1>12, <1>13, StepKinds

\* An identity that was issued stays so, and the next ones are new.
LEMMA IssuedStays ==
  ASSUME NEW id \in Nat, NEW n \in Nat, NEW m \in Nat, NEW n1 \in Nat, NEW m1 \in Nat,
         n <= n1, m <= m1, Issued(id, n, m)
  PROVE  Issued(id, n1, m1)
BY Numbers DEF Issued, MutationId

\* The next identity of either kind was not issued before.
LEMMA NextIds ==
  ASSUME NEW n \in 0..MaxForeign, NEW m \in 0..MaxMutations
  PROVE  /\ Issued(NoId, n, m) /\ Issued(RestoredId, n, m)
         /\ m # 0 => Issued(MutationId(m), n, m)
         /\ ~Issued(MutationId(m + 1), n, m)
         /\ n < MaxForeign => /\ ~Issued(ForeignId(n + 1), n, m)
                              /\ Issued(ForeignId(n + 1), n + 1, m)
BY Numbers DEF Issued, MutationId, ForeignId, NoId, RestoredId

\* The parts of the invariant on identities are about numbers.
LEMMA Ids ==
  ASSUME UTypes
  PROVE  /\ \A f \in Files : /\ live[f][2] \in Nat /\ ours[f][2] \in Nat
                             /\ original[f][2] \in Nat /\ expected[f][2] \in Nat
         /\ foreign \in Nat /\ mutations \in Nat
         /\ foreign \in 0..MaxForeign /\ mutations \in 0..MaxMutations
<1>1. \A e \in Entry : e[2] \in Nat
  BY Numbers DEF Entry
<1>2. QED  BY <1>1, Numbers DEF UTypes, FileTypes, LedgerTypes

\* What was issued stays issued over a step.
LEMMA StaysIssued ==
  ASSUME UTypes, foreign' \in {foreign, foreign + 1}, mutations' \in {mutations, mutations + 1},
         NEW id \in Nat, Issued(id, foreign, mutations)
  PROVE  Issued(id, foreign', mutations')
<1>1. /\ foreign \in Nat /\ mutations \in Nat /\ foreign' \in Nat /\ mutations' \in Nat
      /\ foreign <= foreign' /\ mutations <= mutations'
  BY Ids
<1>2. QED  BY <1>1, IssuedStays

\* Every identity in use was issued, and an effect's is not in the ledger.
LEMMA FresherStep ==
  ASSUME UInv, [UNext]_uvars
  PROVE  Fresher'
<1>1. UTypes /\ OpenIsOne /\ WellFormed /\ Fresher
  BY DEF UInv
<1>2. CASE Quiet
  BY <1>1, <1>2 DEF Quiet, Moves, Fresher, Snapshotting, Forward, Settling
<1>3. CASE SnapshotObserve
  BY <1>1, <1>3 DEF SnapshotObserve, Goto, bounds, Fresher, Snapshotting, Forward
<1>4. CASE SnapshotSeal
  BY <1>1, <1>4 DEF SnapshotSeal, Goto, bounds, Fresher, Snapshotting, Forward
<1>5. CASE Prepare
  <2>1. /\ phase = "applying" /\ mutations' = mutations + 1 /\ UNCHANGED foreign
        /\ UNCHANGED <<live, original, expected, ours>>
        /\ phase' \in {"prepared", "failed"}
    BY <1>5, PrepareStep
  <2>2. ASSUME NEW f \in Files
        PROVE  /\ Issued(expected[f][2], foreign, mutations)
               /\ Issued(original[f][2], foreign, mutations)
               /\ Issued(live[f][2], foreign, mutations)
               /\ Issued(ours[f][2], foreign, mutations)
    BY <1>1, <2>1 DEF Fresher, Snapshotting, Forward
  <2>3. ASSUME NEW f \in Files
        PROVE  /\ Issued(expected'[f][2], foreign', mutations')
               /\ Issued(original'[f][2], foreign', mutations')
               /\ Issued(live'[f][2], foreign', mutations')
               /\ Issued(ours'[f][2], foreign', mutations')
    BY <1>1, <2>1, <2>2, Ids, StaysIssued
  <2>4. ASSUME NEW f \in Files PROVE expected'[f][2] # MutationId(mutations')
    BY <1>1, <2>1, <2>2, Ids, NextIds
  <2>5. mutations' # 0
    BY <1>1, <2>1, Ids
  <2>6. QED  BY <2>3, <2>4, <2>5 DEF Fresher
<1>6. CASE Effect
  <2>1. /\ phase = "prepared" /\ phase' \in {"effected", "failed"}
        /\ UNCHANGED <<original, expected, mutations, foreign>>
    BY <1>1, <1>6, ThrowsStep DEF Effect, ledger, Goto
  <2>2. ASSUME NEW f \in Files
        PROVE  /\ Issued(expected[f][2], foreign, mutations)
               /\ Issued(original[f][2], foreign, mutations)
               /\ Issued(live[f][2], foreign, mutations)
               /\ Issued(ours[f][2], foreign, mutations)
    BY <1>1, <2>1 DEF Fresher, Snapshotting, Forward
  <2>3. Issued(MutationId(mutations), foreign, mutations)
    <3>1. mutations # 0 => Issued(MutationId(mutations), foreign, mutations)
      BY <1>1, Ids, NextIds
    <3>2. QED  BY <1>1, <2>1, <3>1 DEF Fresher
  <2>4. ASSUME NEW f \in Files
        PROVE  /\ Issued(live'[f][2], foreign, mutations)
               /\ Issued(ours'[f][2], foreign, mutations)
    <3>1. CASE f \notin DOMAIN open
      BY <1>1, <1>6, <2>2, <3>1, EffectStep
    <3>2. CASE f \in DOMAIN open
      <4>1. ours'[f] = live'[f] /\ Outcome(f)
        BY <1>1, <1>6, <3>2, EffectStep
      <4>2. CASE live'[f] = Absent
        BY <1>1, <4>1, <4>2, Ids, NextIds DEF Absent
      <4>3. CASE live'[f] = <<"new", MutationId(mutations)>>
        BY <2>3, <4>1, <4>3
      <4>4. CASE \E g \in DOMAIN open : live'[f] = live[g]
        BY <1>1, <1>6, <2>2, <4>1, <4>4, EffectStep
      <4>5. QED  BY <4>1, <4>2, <4>3, <4>4 DEF Outcome
    <3>3. QED  BY <3>1, <3>2
  <2>5. QED  BY <2>1, <2>2, <2>4 DEF Fresher
<1>7. CASE AcknowledgeMutation
  <2>1. /\ phase = "effected" /\ phase' = "applying"
        /\ UNCHANGED <<live, ours, original, mutations, foreign>>
    BY <1>7 DEF AcknowledgeMutation, Goto, bounds
  <2>2. ASSUME NEW f \in Files
        PROVE  /\ Issued(expected[f][2], foreign, mutations)
               /\ Issued(original[f][2], foreign, mutations)
               /\ Issued(live[f][2], foreign, mutations)
               /\ Issued(ours[f][2], foreign, mutations)
    BY <1>1, <2>1 DEF Fresher, Snapshotting, Forward
  <2>3. ASSUME NEW f \in Files PROVE Issued(expected'[f][2], foreign, mutations)
    BY <1>1, <1>7, <2>2, AcknowledgeStep
  <2>4. QED  BY <2>1, <2>2, <2>3 DEF Fresher
<1>8. CASE MarkUnknown
  <2>1. /\ phase = "applying" /\ phase' \in {"untracked", "compiling", "failed"}
        /\ UNCHANGED <<live, ours, original, expected, foreign>>
        /\ mutations' = mutations \/ mutations' = mutations + 1
        /\ phase' = "untracked" => mutations' = mutations + 1
    BY <1>8 DEF MarkUnknown, Goto
  <2>2. ASSUME NEW f \in Files
        PROVE  /\ Issued(expected[f][2], foreign, mutations)
               /\ Issued(original[f][2], foreign, mutations)
               /\ Issued(live[f][2], foreign, mutations)
               /\ Issued(ours[f][2], foreign, mutations)
    BY <1>1, <2>1 DEF Fresher, Snapshotting, Forward
  <2>3. ASSUME NEW f \in Files
        PROVE  /\ Issued(expected'[f][2], foreign', mutations')
               /\ Issued(original'[f][2], foreign', mutations')
               /\ Issued(live'[f][2], foreign', mutations')
               /\ Issued(ours'[f][2], foreign', mutations')
    BY <1>1, <2>1, <2>2, Ids, StaysIssued
  <2>4. ASSUME NEW f \in Files, phase' = "untracked"
        PROVE  expected'[f][2] # MutationId(mutations')
    BY <1>1, <2>1, <2>2, <2>4, Ids, NextIds
  <2>5. phase' = "untracked" => mutations' # 0
    BY <1>1, <2>1, Ids
  <2>6. QED  BY <2>1, <2>3, <2>4, <2>5 DEF Fresher
<1>9. CASE Untracked
  <2>1. /\ phase \in {"untracked", "compiling"}
        /\ phase' = (IF phase = "untracked" THEN "applying" ELSE "compiled") \/ phase' = "failed"
        /\ UNCHANGED <<original, expected, mutations, foreign>>
    BY <1>1, <1>9, ThrowsStep DEF Untracked, ledger, Goto
  <2>2. ASSUME NEW f \in Files
        PROVE  /\ Issued(expected[f][2], foreign, mutations)
               /\ Issued(original[f][2], foreign, mutations)
               /\ Issued(live[f][2], foreign, mutations)
               /\ Issued(ours[f][2], foreign, mutations)
    BY <1>1, <2>1 DEF Fresher, Snapshotting, Forward
  <2>3. ASSUME NEW f \in Files, phase = "untracked"
        PROVE  /\ Issued(live'[f][2], foreign, mutations)
               /\ Issued(ours'[f][2], foreign, mutations)
    <3>1. mutations # 0 => Issued(MutationId(mutations), foreign, mutations)
      BY <1>1, Ids, NextIds
    <3>2. UntrackedId = MutationId(mutations)
      BY <2>3 DEF UntrackedId
    <3>3. Issued(NoId, foreign, mutations)
      BY <1>1, Ids, NextIds
    <3>4. mutations # 0
      BY <1>1, <2>3 DEF Fresher
    <3>5. Absent[2] = NoId /\ <<"new", UntrackedId>>[2] = UntrackedId
      BY DEF Absent
    <3>6. QED  BY <1>1, <1>9, <2>2, <3>1, <3>2, <3>3, <3>4, <3>5, UntrackedStep
  <2>4. QED  BY <2>1, <2>2, <2>3 DEF Fresher, Snapshotting, Forward
<1>10. CASE AdmitRecovery
  BY <1>1, <1>10 DEF AdmitRecovery, Settle, Goto, bounds, Fresher, Snapshotting, Forward
<1>11. ASSUME NEW f \in Files, RestoreFile(f) PROVE Fresher'
  <2>1. /\ phase = "restoring" /\ phase' \in {"restoring", "reporting"}
        /\ UNCHANGED <<original, mutations, foreign>>
    BY <1>1, <1>11, RestoreStep DEF Settle, Goto, bounds, FaultOccurs
  <2>2. ASSUME NEW g \in Files PROVE Issued(expected'[g][2], foreign, mutations)
    <3>1. Issued(expected[g][2], foreign, mutations)
      BY <1>1 DEF Fresher
    <3>2. Issued(NoId, foreign, mutations) /\ Issued(RestoredId, foreign, mutations)
      BY <1>1, Ids, NextIds
    <3>3. QED  BY <1>1, <1>11, <3>1, <3>2, RestoreStep
  <2>3. QED  BY <1>1, <2>1, <2>2 DEF Fresher, Snapshotting, Forward
<1>12. ASSUME NEW f \in Files, Edit(f) PROVE Fresher'
  <2>1. /\ foreign' = foreign + 1 /\ foreign < MaxForeign
        /\ UNCHANGED <<original, expected, ours, mutations, phase>>
    BY <1>1, <1>12, EditStep DEF ledger
  <2>2. ASSUME NEW g \in Files
        PROVE  /\ Issued(expected'[g][2], foreign', mutations')
               /\ Issued(original'[g][2], foreign', mutations')
    BY <1>1, <2>1, Ids, IssuedStays DEF Fresher
  <2>3. ASSUME NEW g \in Files, phase \in Snapshotting \cup (Forward \ {"compiled"})
        PROVE  /\ Issued(live'[g][2], foreign', mutations')
               /\ Issued(ours'[g][2], foreign', mutations')
    <3>1. Issued(live[g][2], foreign, mutations) /\ Issued(ours[g][2], foreign, mutations)
      BY <1>1, <2>3 DEF Fresher
    <3>2. Issued(live[g][2], foreign', mutations') /\ Issued(ours'[g][2], foreign', mutations')
      BY <1>1, <2>1, <3>1, Ids, IssuedStays
    <3>3. /\ Issued(NoId, foreign, mutations)
          /\ Issued(ForeignId(foreign + 1), foreign', mutations')
      BY <1>1, <2>1, Ids, NextIds
    <3>4. Issued(NoId, foreign', mutations')
      BY <1>1, <2>1, Ids DEF NoId, Issued
    <3>5. live'[g][2] \in {NoId, ForeignId(foreign + 1), live[g][2]}
      BY <1>1, <1>12, EditStep DEF Absent
    <3>6. QED  BY <3>2, <3>3, <3>4, <3>5
  <2>4. ASSUME NEW g \in Files, phase \in {"prepared", "untracked"}
        PROVE  expected'[g][2] # MutationId(mutations')
    BY <1>1, <2>1, <2>4 DEF Fresher
  <2>5. phase \in {"prepared", "untracked"} => mutations # 0
    BY <1>1 DEF Fresher
  <2>6. QED  BY <2>1, <2>2, <2>3, <2>4, <2>5 DEF Fresher
<1>13. QED
  BY <1>1, <1>2, <1>3, <1>4, <1>5, <1>6, <1>7, <1>8, <1>9, <1>10, <1>11, <1>12, StepKinds

\* An edit does not bring back an identity that is gone.
LEMMA EditKeepsGone ==
  ASSUME UInv, NEW f \in Files, Edit(f), NEW g \in Files, Gone(g)
  PROVE  Gone(g)'
<1>1. UTypes /\ WellFormed /\ Fresher
  BY DEF UInv
<1>2. /\ UNCHANGED expected /\ foreign < MaxForeign
      /\ live'[g][2] \in {NoId, ForeignId(foreign + 1), live[g][2]}
  BY <1>1, EditStep DEF ledger, Absent
<1>3. expected[g] # Absent /\ live[g][2] # expected[g][2]
  BY DEF Gone
<1>4. expected[g][2] # NoId
  BY <1>1, <1>3, AbsentEntry DEF UTypes, FileTypes, WellFormed, Proper
<1>5. expected[g][2] # ForeignId(foreign + 1)
  BY <1>1, <1>2, Ids, NextIds DEF Fresher
<1>6. QED  BY <1>2, <1>3, <1>4, <1>5 DEF Gone

Tracked == Forward \cup {"failed", "admitting", "restoring"}

\* What the ledger expects is what the program left, or cannot come back.
LEMMA TrackStep ==
  ASSUME UInv, [UNext]_uvars
  PROVE  Track'
<1>1. UTypes /\ OpenIsOne /\ WellFormed /\ Fresher /\ Track /\ LedgerComplete
  BY DEF UInv
<1>2. CASE Quiet
  <2>1. /\ UNCHANGED <<live, ours, expected, unknown, open>>
        /\ phase' \in Tracked => \/ phase \in Tracked /\ (phase' = "restoring") = (phase = "restoring")
    BY <1>2 DEF Quiet, Moves, Tracked, Forward, Settling
  <2>2. \A f \in Files : Gone(f)' = Gone(f)
    BY <2>1 DEF Gone
  <2>3. QED  BY <1>1, <2>1, <2>2 DEF Track, Tracked, UTypes, LedgerTypes
<1>3. CASE SnapshotObserve
  BY <1>3 DEF SnapshotObserve, Goto, Track, Forward
<1>4. CASE SnapshotSeal
  <2>1. ours' = expected'
    BY <1>1, <1>4 DEF SnapshotSeal, LedgerComplete, Snapshotting
  <2>2. QED  BY <2>1 DEF Track
<1>5. CASE Prepare
  <2>1. /\ phase = "applying" /\ open = <<>> /\ UNCHANGED <<live, ours, expected, unknown>>
        /\ phase' \in {"prepared", "failed"}
    BY <1>5, PrepareStep
  <2>2. DOMAIN open = {}
    BY <2>1
  <2>3. \A f \in Files : Gone(f)' = Gone(f)
    BY <2>1 DEF Gone
  <2>4. /\ \A f \in Files : ours[f] = expected[f] \/ expected[f] = Absent \/ Gone(f)
        /\ ~unknown => \A f \in Files : ours[f] = expected[f]
    BY <1>1, <2>1, <2>2 DEF Track, Forward
  <2>5. QED  BY <2>1, <2>3, <2>4 DEF Track
<1>6. CASE Effect
  <2>1. /\ phase = "prepared" /\ phase' \in {"effected", "failed"}
        /\ UNCHANGED <<expected, unknown, open>>
    BY <1>6 DEF Effect, ledger, Goto
  <2>2. DOMAIN open \subseteq Files
    BY <1>1, <1>6, EffectStep
  <2>3. ASSUME NEW f \in DOMAIN open
        PROVE  /\ ours'[f] = expected[f] \/ expected[f] = Absent \/ Gone(f)'
               /\ ours'[f][1] = "new" \/ \E g \in DOMAIN open : Gone(g)'
    <3>1. ours'[f] = live'[f] /\ Outcome(f)
      BY <1>1, <1>6, EffectStep
    <3>2. \A g \in DOMAIN open : live'[g] = Absent /\ expected[g] # Absent => Gone(g)'
      <4>1. \A g \in DOMAIN open : expected[g] # Absent => expected[g][2] # NoId
        BY <1>1, <2>2, AbsentEntry DEF UTypes, FileTypes, WellFormed, Proper
      <4>2. QED  BY <2>1, <4>1 DEF Gone, Absent
    <3>3. CASE live'[f] = Absent /\ expected[f] # Absent
      BY <3>2, <3>3
    <3>4. CASE live'[f] = <<"new", MutationId(mutations)>>
      <4>1. expected[f][2] # MutationId(mutations)
        BY <1>1, <2>1, <2>2 DEF Fresher
      <4>2. live'[f][2] = MutationId(mutations) /\ live'[f][1] = "new"
        BY <3>4
      <4>3. expected[f] = Absent \/ Gone(f)'
        BY <2>1, <4>1, <4>2 DEF Gone
      <4>4. QED  BY <3>1, <4>2, <4>3
    <3>5. CASE /\ expected[f] = Absent
               /\ \E g \in DOMAIN open : live'[g] = Absent /\ expected[g] # Absent
      BY <3>2, <3>5
    <3>6. QED  BY <3>1, <3>3, <3>4, <3>5 DEF Outcome
  <2>4. ASSUME NEW f \in Files \ DOMAIN open
        PROVE  /\ ours'[f] = expected[f] \/ expected[f] = Absent \/ Gone(f)'
               /\ ~unknown => ours'[f] = expected[f]
    <3>1. live'[f] = live[f] /\ ours'[f] = ours[f]
      BY <1>1, <1>6, EffectStep
    <3>2. /\ ours[f] = expected[f] \/ expected[f] = Absent \/ Gone(f)
          /\ ~unknown => ours[f] = expected[f]
      BY <1>1, <2>1 DEF Track, Forward
    <3>3. Gone(f) => Gone(f)'
      BY <2>1, <3>1 DEF Gone
    <3>4. QED  BY <3>1, <3>2, <3>3
  <2>5. QED  BY <2>1, <2>2, <2>3, <2>4 DEF Track
<1>7. CASE AcknowledgeMutation
  <2>1. /\ phase = "effected" /\ UNCHANGED <<live, ours, unknown>> /\ open' = <<>>
    BY <1>7 DEF AcknowledgeMutation, Goto
  <2>2. ASSUME NEW f \in Files
        PROVE  /\ ours'[f] = expected'[f] \/ expected'[f] = Absent \/ Gone(f)'
               /\ ~unknown => ours'[f] = expected'[f]
    <3>1. CASE f \in DOMAIN open
      BY <1>1, <1>7, <2>1, <3>1, AcknowledgeStep
    <3>2. CASE f \notin DOMAIN open
      <4>1. expected'[f] = expected[f]
        BY <1>1, <1>7, <3>2, AcknowledgeStep
      <4>2. /\ ours[f] = expected[f] \/ expected[f] = Absent \/ Gone(f)
            /\ ~unknown => ours[f] = expected[f]
        BY <1>1, <2>1, <3>2 DEF Track, Forward
      <4>3. Gone(f) => Gone(f)'
        BY <2>1, <4>1 DEF Gone
      <4>4. QED  BY <2>1, <4>1, <4>2, <4>3
    <3>3. QED  BY <3>1, <3>2
  <2>3. QED  BY <2>1, <2>2 DEF Track
<1>8. CASE MarkUnknown
  <2>1. /\ phase = "applying" /\ unknown' /\ UNCHANGED <<live, ours, expected>>
    BY <1>8 DEF MarkUnknown
  <2>2. \A f \in Files : Gone(f)' = Gone(f)
    BY <2>1 DEF Gone
  <2>3. QED  BY <1>1, <2>1, <2>2 DEF Track, Forward
<1>9. CASE Untracked
  <2>1. /\ phase \in {"untracked", "compiling"} /\ UNCHANGED <<expected, unknown>>
    BY <1>1, <1>9, UntrackedStep DEF Untracked, ledger
  <2>2. unknown
    BY <1>1, <2>1 DEF LedgerComplete
  <2>3. ASSUME NEW f \in Files
        PROVE  ours'[f] = expected[f] \/ expected[f] = Absent \/ Gone(f)'
    <3>1. ours[f] = expected[f] \/ expected[f] = Absent \/ Gone(f)
      BY <1>1, <2>1 DEF Track, Forward
    <3>2. expected[f] # Absent => expected[f][2] # NoId
      BY <1>1, AbsentEntry DEF UTypes, FileTypes, WellFormed, Proper
    <3>3. expected[f][2] # UntrackedId
      <4>1. CASE phase = "untracked"
        BY <1>1, <4>1 DEF Fresher, UntrackedId
      <4>2. CASE phase = "compiling"
        <5>1. UntrackedId = MutationId(mutations + 1)
          BY <4>2 DEF UntrackedId
        <5>2. QED  BY <1>1, <5>1, Ids, NextIds DEF Fresher
      <4>3. QED  BY <2>1, <4>1, <4>2
    <3>4. \/ live'[f] = live[f] /\ ours'[f] = ours[f]
          \/ live'[f][2] \in {NoId, UntrackedId}
      BY <1>1, <1>9, UntrackedStep DEF Absent
    <3>5. CASE live'[f][2] \in {NoId, UntrackedId}
      BY <2>1, <3>2, <3>3, <3>5 DEF Gone
    <3>6. CASE live'[f] = live[f] /\ ours'[f] = ours[f]
      BY <2>1, <3>1, <3>6 DEF Gone
    <3>7. QED  BY <3>4, <3>5, <3>6
  <2>4. QED  BY <2>1, <2>2, <2>3 DEF Track
<1>10. CASE AdmitRecovery
  <2>1. /\ phase = "admitting" /\ live = expected /\ ~unknown
        /\ phase' \in {"restoring", "reporting"}
        /\ UNCHANGED <<live, ours, expected, unknown, open>>
    BY <1>10 DEF AdmitRecovery, Admits, Settle, Goto
  <2>2. \A f \in Files : ~Gone(f)
    BY <2>1 DEF Gone
  <2>3. /\ \A f \in Files : ours[f] = expected[f] \/ expected[f] = Absent
        /\ \A f \in Files : \/ ours[f] = expected[f]
                            \/ f \in DOMAIN open /\ ours[f][1] = "new"
    BY <1>1, <2>1, <2>2 DEF Track, UTypes, LedgerTypes
  <2>4. QED  BY <2>1, <2>3 DEF Track
<1>11. ASSUME NEW f \in Files, RestoreFile(f) PROVE Track'
  <2>1. CASE phase' = "reporting"
    BY <2>1 DEF Track, Forward
  <2>2. CASE /\ phase' = "restoring" /\ expected'[f] = live'[f]
             /\ \A g \in Files : g # f => expected'[g] = expected[g]
    <3>1. /\ phase = "restoring" /\ UNCHANGED <<unknown, open>>
          /\ ours'[f] = live'[f]
          /\ \A g \in Files : g # f => live'[g] = live[g] /\ ours'[g] = ours[g]
      BY <1>1, <1>11, RestoreStep
    <3>2. \A g \in Files : g # f => Gone(g)' = Gone(g)
      BY <2>2, <3>1 DEF Gone
    <3>3. QED  BY <1>1, <2>2, <3>1, <3>2 DEF Track
  <2>3. QED  BY <1>1, <1>11, <2>1, <2>2, RestoreStep DEF Settle, Goto
<1>12. ASSUME NEW f \in Files, Edit(f) PROVE Track'
  <2>1. UNCHANGED <<ours, expected, unknown, open, phase>>
    BY <1>1, <1>12, EditStep DEF ledger
  <2>2. \A g \in Files : Gone(g) => Gone(g)'
    BY <1>12, EditKeepsGone
  <2>3. DOMAIN open \subseteq Files
    BY <1>1 DEF UTypes, LedgerTypes
  <2>4. QED  BY <1>1, <2>1, <2>2, <2>3 DEF Track
<1>13. QED
  BY <1>1, <1>2, <1>3, <1>4, <1>5, <1>6, <1>7, <1>8, <1>9, <1>10, <1>11, <1>12, StepKinds

\* What was compared is what the ledger expects, unless it was edited since.
LEMMA WindowStep ==
  ASSUME UInv, [UNext]_uvars
  PROVE  Window'
<1>1. UTypes /\ Window
  BY DEF UInv
<1>2. CASE checked' = {} /\ late' = {}
  BY <1>2 DEF Window
<1>3. CASE checked = {} /\ UNCHANGED window
  BY <1>1, <1>2, <1>3 DEF Window, window
<1>4. CASE UNCHANGED <<live, expected, open, todo, phase, checked, late>>
  BY <1>1, <1>4 DEF Window
<1>5. phase \notin {"prepared", "restoring"} => checked = {}
  BY <1>1 DEF Window
<1>6. CASE UNCHANGED uvars \/ LoseLease
  BY <1>4, <1>6 DEF uvars, LoseLease, ledger, window
<1>7. CASE Effect \/ EffectRefused \/ Fails \/ RestoreFails
  BY <1>2, <1>7 DEF Effect, EffectRefused, Fails, RestoreFails, Unchecked
<1>8. CASE SnapshotObserve \/ SnapshotCopy \/ SnapshotSeal \/ SnapshotFails \/ ClearTerminal
  BY <1>3, <1>5, <1>8
  DEF SnapshotObserve, SnapshotCopy, SnapshotSeal, SnapshotFails, ClearTerminal
<1>9. CASE PublishPlan \/ Prepare \/ AcknowledgeMutation \/ MarkUnknown \/ Untracked
  BY <1>3, <1>5, <1>9 DEF PublishPlan, Prepare, AcknowledgeMutation, MarkUnknown, Untracked
<1>10. CASE PublishApplied \/ PublishUncertain \/ PublishUnknown \/ RecordArtifacts \/ Resolve
  BY <1>3, <1>5, <1>10
  DEF PublishApplied, PublishUncertain, PublishUnknown, RecordArtifacts, Resolve
<1>11. CASE AdmitRecovery \/ PublishVerdict \/ NoVerdict \/ Diagnose \/ Close
  BY <1>3, <1>5, <1>11 DEF AdmitRecovery, PublishVerdict, NoVerdict, Diagnose, Close
<1>12. CASE RestoreDone
  <2>1. phase = "restoring" /\ todo = {} /\ UNCHANGED window
    BY <1>12 DEF RestoreDone
  <2>2. checked = {}
    BY <1>1, <2>1 DEF Window
  <2>3. QED  BY <1>3, <2>1, <2>2
<1>13. CASE CompareEffect
  <2>1. /\ checked = {} /\ checked' = DOMAIN open /\ late' = late /\ phase = "prepared"
        /\ \A f \in DOMAIN open : live[f] = expected[f]
        /\ UNCHANGED <<live, expected, open, todo, phase>>
    BY <1>13 DEF CompareEffect, Compare, Unmoved, ledger
  <2>2. late' = {} /\ DOMAIN open \subseteq Files
    BY <1>1, <2>1 DEF Window, UTypes, LedgerTypes
  <2>3. QED  BY <2>1, <2>2 DEF Window
<1>14. ASSUME NEW f \in Files, CompareRestore(f) PROVE Window'
  <2>1. /\ checked = {} /\ checked' = {f} /\ late' = late /\ phase = "restoring"
        /\ f \in todo /\ live[f] = expected[f]
        /\ UNCHANGED <<live, expected, open, todo, phase>>
    BY <1>14 DEF CompareRestore, Compare, Unmoved, ledger
  <2>2. late' = {}
    BY <1>1, <2>1 DEF Window
  <2>3. QED  BY <2>1, <2>2 DEF Window
<1>15. ASSUME NEW f \in Files, RestoreFile(f) PROVE Window'
  BY <1>1, <1>2, <1>15, RestoreStep
<1>16. ASSUME NEW f \in Files, Edit(f) PROVE Window'
  <2>1. /\ UNCHANGED <<expected, open, todo, phase, checked>>
        /\ late' = late \cup ({f} \cap checked)
        /\ \A g \in Files : g # f => live'[g] = live[g]
    BY <1>1, <1>16, EditStep DEF ledger
  <2>2. ASSUME NEW g \in checked \ late' PROVE live'[g] = expected'[g]
    BY <1>1, <2>1 DEF Window
  <2>3. QED  BY <1>1, <2>1, <2>2 DEF Window
<1>17. QED
  BY <1>6, <1>7, <1>8, <1>9, <1>10, <1>11, <1>12, <1>13, <1>14, <1>15, <1>16 DEF UNext, Program

\* What a rollback left stays undone, whatever is edited later.
LEMMA UndoneStep ==
  ASSUME UInv, [UNext]_uvars
  PROVE  Undone'
<1>1. UTypes /\ WellFormed /\ Track /\ LedgerComplete /\ Undone /\ Verdicts
  BY DEF UInv
<1>2. CASE settlement' # "rolled-back"
  BY <1>2 DEF Undone
<1>3. CASE settlement' = settlement /\ UNCHANGED <<live, ours, original>>
  BY <1>1, <1>3 DEF Undone
<1>4. CASE settlement' = settlement /\ phase \notin Settling
  BY <1>1, <1>2, <1>4 DEF Verdicts
<1>5. CASE UNCHANGED uvars
  BY <1>3, <1>5 DEF uvars, verdict, ledger
<1>6. CASE LoseLease \/ SnapshotCopy \/ SnapshotFails \/ ClearTerminal \/ PublishPlan
  BY <1>3, <1>6
  DEF LoseLease, SnapshotCopy, SnapshotFails, ClearTerminal, PublishPlan, verdict, ledger
<1>7. CASE EffectRefused \/ Fails \/ PublishApplied \/ PublishUncertain \/ PublishUnknown
  BY <1>3, <1>7
  DEF EffectRefused, Fails, PublishApplied, PublishUncertain, PublishUnknown, verdict, ledger
<1>8. CASE RecordArtifacts \/ PublishVerdict \/ NoVerdict \/ Diagnose \/ Close
  BY <1>3, <1>8 DEF RecordArtifacts, PublishVerdict, NoVerdict, Diagnose, Close, verdict, ledger
<1>9. CASE Prepare \/ AcknowledgeMutation \/ MarkUnknown \/ SnapshotSeal \/ CompareEffect
  BY <1>3, <1>9
  DEF Prepare, AcknowledgeMutation, MarkUnknown, SnapshotSeal, CompareEffect, Compare, ledger,
      verdict
<1>10. CASE SnapshotObserve \/ Effect \/ Untracked
  BY <1>4, <1>10 DEF SnapshotObserve, Effect, Untracked, verdict, Settling
<1>11. CASE Resolve \/ AdmitRecovery \/ RestoreFails
  BY <1>2, <1>3, <1>11 DEF Resolve, AdmitRecovery, RestoreFails, Settle, ledger
<1>12. CASE RestoreDone
  <2>1. /\ phase = "restoring" /\ live = expected /\ Content(live) = Content(original)
        /\ UNCHANGED <<live, ours, original>>
    BY <1>12 DEF RestoreDone, ReadsBack, ledger
  <2>2. ASSUME NEW f \in Files
        PROVE  \/ ours[f][1] = original[f][1]
               \/ ours[f][1] = "new" /\ live[f] # ours[f]
    <3>1. live[f][1] = original[f][1]
      <4>1. Content(live)[f] = live[f][1] /\ Content(original)[f] = original[f][1]
        BY DEF Content
      <4>2. QED  BY <2>1, <4>1
    <3>2. original[f][1] # "new"
      BY <1>1 DEF WellFormed
    <3>3. ours[f] = expected[f] \/ ours[f][1] = "new"
      BY <1>1, <2>1 DEF Track, LedgerComplete
    <3>4. QED  BY <2>1, <3>1, <3>2, <3>3
  <2>3. QED  BY <2>1, <2>2 DEF Undone
<1>13. ASSUME NEW f \in Files, RestoreFile(f) PROVE Undone'
  <2>1. phase = "restoring" /\ settlement' \in {settlement, "recovery-required"}
    BY <1>1, <1>13, RestoreStep DEF Settle
  <2>2. QED  BY <1>2, <1>4, <2>1 DEF Settling
<1>14. ASSUME NEW f \in Files, Edit(f) PROVE Undone'
  <2>1. UNCHANGED <<ours, original, settlement>>
    BY <1>1, <1>14, EditStep DEF ledger, verdict
  <2>2. \A g \in Files : live'[g] = live[g] \/ live'[g][1] # "new"
    BY <1>1, <1>14, EditStep
  <2>3. QED  BY <1>1, <2>1, <2>2 DEF Undone
<1>15. CASE \E f \in Files : CompareRestore(f)
  BY <1>3, <1>15 DEF CompareRestore, Compare, ledger, verdict
<1>16. QED
  BY <1>5, <1>6, <1>7, <1>8, <1>9, <1>10, <1>11, <1>12, <1>13, <1>14, <1>15 DEF UNext, Program

\* One verdict, and the backup as long as it may be needed.
LEMMA VerdictsStep ==
  ASSUME UInv, [UNext]_uvars
  PROVE  Verdicts'
<1>1. Verdicts /\ ControlTypes /\ LedgerComplete /\ LedgerTypes
  BY DEF UInv, UTypes
<1>2. CASE UNCHANGED uvars
  BY <1>1, <1>2 DEF uvars, verdict, ledger, Verdicts
<1>3. CASE LoseLease \/ SnapshotCopy
  BY <1>1, <1>3
  DEF LoseLease, SnapshotCopy, verdict, ledger, Goto, Verdicts, Snapshotting, Forward, Settling
<1>4. CASE SnapshotObserve
  BY <1>1, <1>4
  DEF SnapshotObserve, verdict, Goto, Verdicts, LedgerComplete, Snapshotting, Forward, Settling
<1>5. CASE SnapshotSeal
  BY <1>1, <1>5 DEF SnapshotSeal, verdict, Goto, Verdicts, Snapshotting, Forward, Settling
<1>6. CASE SnapshotFails
  BY <1>1, <1>6
  DEF SnapshotFails, verdict, ledger, Goto, Verdicts, Snapshotting, Forward, Settling
<1>7. CASE ClearTerminal \/ PublishPlan
  BY <1>1, <1>7
  DEF ClearTerminal, PublishPlan, verdict, ledger, Goto, Verdicts, Snapshotting, Forward, Settling
<1>8. CASE EffectRefused \/ Fails
  BY <1>1, <1>8
  DEF EffectRefused, Fails, verdict, ledger, Goto, Verdicts, Snapshotting, Forward, Settling
<1>9. CASE PublishApplied
  BY <1>1, <1>9
  DEF PublishApplied, verdict, ledger, Goto, Verdicts, Snapshotting, Forward, Settling
<1>10. CASE PublishUncertain
  BY <1>1, <1>10
  DEF PublishUncertain, verdict, ledger, Goto, Verdicts, Snapshotting, Forward, Settling
<1>11. CASE PublishUnknown
  BY <1>1, <1>11
  DEF PublishUnknown, verdict, ledger, Goto, Verdicts, Snapshotting, Forward, Settling
<1>12. CASE RecordArtifacts
  BY <1>1, <1>12
  DEF RecordArtifacts, verdict, ledger, Goto, Verdicts, Snapshotting, Forward, Settling
<1>13. CASE Resolve
  BY <1>1, <1>13
  DEF Resolve, Settle, verdict, ledger, Goto, Verdicts, Snapshotting, Forward, Settling
<1>14. CASE RestoreDone \/ RestoreFails \/ (AdmitRecovery /\ ~BackupIsOriginal)
  <2>1. /\ phase \in {"admitting", "restoring"} /\ phase' = "reporting"
        /\ settlement' \in {"rolled-back", "recovery-required"}
        /\ retain' = (settlement' = "recovery-required")
        /\ UNCHANGED <<backup, original, ours, changed, terminal, committed, commitUnknown,
                       uncertain, published>>
    BY <1>14
    DEF RestoreDone, RestoreFails, RestoreRefused, AdmitRecovery, Settle, ledger, Goto
  <2>2. QED  BY <1>1, <2>1 DEF Verdicts, Snapshotting, Forward, Settling
<1>15. CASE PublishVerdict
  BY <1>1, <1>15
  DEF PublishVerdict, verdict, ledger, Goto, Verdicts, ControlTypes, Snapshotting, Forward,
      Settling
<1>16. CASE NoVerdict \/ Diagnose
  BY <1>1, <1>16
  DEF NoVerdict, Diagnose, verdict, ledger, Goto, Verdicts, Snapshotting, Forward, Settling
<1>17. CASE Close
  BY <1>1, <1>17
  DEF Close, verdict, ledger, Goto, Verdicts, ControlTypes, Snapshotting, Forward, Settling
<1>18. CASE Prepare
  BY <1>1, <1>18 DEF Prepare, verdict, Goto, Verdicts, Snapshotting, Forward, Settling
<1>19. CASE Effect \/ Untracked
  BY <1>1, <1>19
  DEF Effect, Untracked, verdict, ledger, Goto, Verdicts, Snapshotting, Forward, Settling
<1>20. CASE AcknowledgeMutation \/ MarkUnknown
  BY <1>1, <1>20
  DEF AcknowledgeMutation, MarkUnknown, verdict, Goto, Verdicts, Snapshotting, Forward, Settling
<1>21. CASE AdmitRecovery /\ BackupIsOriginal
  BY <1>1, <1>21 DEF AdmitRecovery, verdict, Goto, Verdicts, Snapshotting, Forward, Settling
<1>22. ASSUME NEW f \in Files, RestoreFile(f) PROVE Verdicts'
  <2>1. /\ phase = "restoring" /\ changed # {}
        /\ UNCHANGED <<backup, original, changed, terminal, committed, commitUnknown,
                       uncertain, published>>
        /\ \/ UNCHANGED <<phase, settlement, retain>>
           \/ /\ phase' = "reporting" /\ settlement' = "recovery-required" /\ retain' = TRUE
    BY <1>1, <1>22 DEF RestoreFile, Settle, Goto, LedgerTypes
  <2>2. QED  BY <1>1, <2>1 DEF Verdicts, Snapshotting, Forward, Settling
<1>23. ASSUME NEW f \in Files, Edit(f) PROVE Verdicts'
  BY <1>1, <1>23 DEF Edit, verdict, ledger, Verdicts
<1>24. CASE CompareEffect \/ \E f \in Files : CompareRestore(f)
  <2>1. UNCHANGED <<backup, ours, original, changed, phase, terminal, committed, commitUnknown,
                    uncertain, settlement, published, retain>>
    BY <1>24 DEF CompareEffect, CompareRestore, Compare, verdict, ledger
  <2>2. QED  BY <1>1, <2>1 DEF Verdicts
<1>25. QED
  BY <1>2, <1>3, <1>4, <1>5, <1>6, <1>7, <1>8, <1>9, <1>10, <1>11, <1>12, <1>13, <1>14, <1>15,
     <1>16, <1>17, <1>18, <1>19, <1>20, <1>21, <1>22, <1>23, <1>24
  DEF UNext, Program

-----------------------------------------------------------------------------
(* The theorems.                                                           *)

\* The invariant holds in every reachable state.
LEMMA Inductive == USpec => []UInv
<1>1. UInv /\ [UNext]_uvars => UInv'
  <2>1. SUFFICES ASSUME UInv, [UNext]_uvars PROVE UInv'
    OBVIOUS
  <2>2. UTypes'
    BY <2>1, FileTypesStep, LedgerTypesStep, FlagTypesStep, ControlTypesStep DEF UTypes
  <2>3. WellFormed' /\ OpenIsOne' /\ LedgerComplete' /\ Reserve'
    BY <2>1, WellFormedStep, OpenStep, LedgerCompleteStep, ReserveStep
  <2>4. Fresher' /\ Track' /\ Window' /\ Undone' /\ Verdicts'
    BY <2>1, FresherStep, TrackStep, WindowStep, UndoneStep, VerdictsStep
  <2>5. QED  BY <2>2, <2>3, <2>4 DEF UInv
<1>2. QED  BY <1>1, InitInv, PTL DEF USpec

\* The types, and at most one mutation is open, none between two effects
\* (the state of an upgrade's lifecycle and of its recovery ledger).
THEOREM UpgradeTypes == USpec => []UTypeOK
<1>1. UInv => UTypeOK
  <2>1. SUFFICES ASSUME UInv PROVE UTypeOK
    OBVIOUS
  <2>2. FileTypes /\ LedgerTypes /\ FlagTypes /\ ControlTypes /\ OpenIsOne
    BY <2>1 DEF UInv, UTypes
  <2>3. {live, ours, original, expected} \subseteq [Files -> Contents \X Identities]
    BY <2>2 DEF FileTypes, Entry
  <2>4. {lease, unknown, rollback, diag, committed, commitUnknown, uncertain, retain}
          \subseteq BOOLEAN
    BY <2>2 DEF FlagTypes
  <2>5. phase = "applying" => open = <<>>
    BY <2>2 DEF OpenIsOne, Snapshotting, Forward
  <2>6. checked \subseteq Files /\ late \subseteq checked
    BY <2>1 DEF UInv, Window
  <2>7. QED  BY <2>2, <2>3, <2>4, <2>5, <2>6
             DEF UTypeOK, FileTypes, LedgerTypes, ControlTypes, OpenIsOne
<1>2. QED  BY <1>1, Inductive, PTL

\* A published verdict is true: a terminal that says rolled-back means no file
\* still holds what the upgrade wrote, there is one verdict, and the terminal
\* of an earlier upgrade is gone before this one changes a file
\* (publishUpgradeApplyFailureArtifacts, clearing of the terminal).
THEOREM TerminalsAreTrue == USpec => []TerminalIsTrue
<1>1. UInv => TerminalIsTrue
  <2>1. SUFFICES ASSUME UInv PROVE TerminalIsTrue
    OBVIOUS
  <2>2. Undone /\ Verdicts
    BY <2>1 DEF UInv
  <2>3. settlement = "rolled-back" => Restored
    BY <2>2 DEF Undone, Restored
  <2>4. RolledBackIsRestored
    BY <2>2, <2>3 DEF RolledBackIsRestored, Verdicts
  <2>5. OneVerdict
    <3>1. /\ Cardinality({}) = 0
          /\ Cardinality({"applied"}) = 1 /\ Cardinality({"rolled-back"}) = 1
          /\ Cardinality({"recovery-required"}) = 1
      BY FS_EmptySet, FS_Singleton
    <3>2. published \in {{}, {"applied"}, {"rolled-back"}, {"recovery-required"}}
      BY <2>2 DEF Verdicts
    <3>3. QED  BY <3>1, <3>2 DEF OneVerdict
  <2>6. NoStaleTerminal
    BY <2>2 DEF NoStaleTerminal, Restored, Verdicts
  <2>7. QED  BY <2>4, <2>5, <2>6 DEF TerminalIsTrue
<1>2. QED  BY <1>1, Inductive, PTL

\* Until the upgrade is applied or undone its recovery can be done: the ledger
\* lists every file it changed and has room for the way back, and the backup
\* is kept (admitFileRecordBudget, settlement of the backup).
THEOREM RecoveryStaysPossible == USpec => []RecoveryIsPossible
<1>1. UInv => RecoveryIsPossible
  <2>1. SUFFICES ASSUME UInv PROVE RecoveryIsPossible
    OBVIOUS
  <2>2. UTypes /\ LedgerComplete /\ Reserve /\ Undone /\ Verdicts
    BY <2>1 DEF UInv
  <2>3. LedgerIsComplete
    <3>1. open = <<>> => DOMAIN open = {}
      OBVIOUS
    <3>2. QED  BY <2>2, <3>1 DEF LedgerIsComplete, LedgerComplete
  <2>4. ReverseFits
    BY <2>2 DEF ReverseFits, Reserve
  <2>5. BackupCoversLoss
    BY <2>2 DEF BackupCoversLoss, Restored, Undone, Verdicts
  <2>6. RecoveryHasBackup
    BY <2>2 DEF RecoveryHasBackup, Verdicts
  <2>7. QED  BY <2>3, <2>4, <2>5, <2>6 DEF RecoveryIsPossible
<1>2. QED  BY <1>1, Inductive, PTL

\* Neither a recorded effect nor a restoration overwrites an edit somebody
\* else made before the file was compared for it; one made after that is lost
\* only if it changed the compared file itself, or the file is removed or
\* renamed (the comparison and the exchange by identity of rewriteExact, the
\* unlink by name of removeExact).
THEOREM EditsStay == USpec => EditsArePreserved
<1> DEFINE Lost(f) == f \in late /\ (live'[f] = Absent \/ live[f][2] = expected[f][2])
           Kept(f) == \/ live[f] = ours[f]
                      \/ live[f] = Absent /\ expected[f] = Absent
                      \/ Lost(f)
<1>1. ASSUME UInv, [UNext]_uvars, foreign' = foreign, phase \in {"prepared", "restoring"},
             NEW f \in Files, live'[f] # live[f]
      PROVE  Kept(f)
  <2>1. UTypes /\ WellFormed /\ OpenIsOne /\ Track /\ Window
    BY <1>1 DEF UInv
  <2>2. live[f] = expected[f] => Kept(f)
    BY <1>1, <2>1 DEF Track, Gone, Forward
  <2>3. ASSUME f \in checked, live'[f] = Absent \/ live[f][2] = expected[f][2]
        PROVE  Kept(f)
    <3>1. CASE f \in late
      BY <2>3, <3>1
    <3>2. CASE f \notin late
      BY <2>1, <2>2, <2>3, <3>2 DEF Window
    <3>3. QED  BY <3>1, <3>2
  <2>4. CASE Effect
    <3>1. checked # {} /\ phase = "prepared"
      BY <2>4 DEF Effect
    <3>2. checked = DOMAIN open
      BY <2>1, <3>1 DEF Window
    <3>3. f \in DOMAIN open /\ (live'[f] = Absent \/ live[f][2] = expected[f][2])
      BY <1>1, <2>1, <2>4, EffectStep
    <3>4. QED  BY <2>3, <3>2, <3>3
  <2>5. ASSUME NEW g \in Files, RestoreFile(g)
        PROVE  Kept(f)
    <3>1. f = g /\ g \in checked /\ (live'[g] = Absent \/ live[g][2] = expected[g][2])
      BY <1>1, <2>1, <2>5, RestoreStep
    <3>2. QED  BY <2>3, <3>1
  <2>6. ASSUME NEW g \in Files, Edit(g) PROVE FALSE
    BY <1>1, <2>1, <2>6, EditStep, Ids
  <2>7. ~Quiet /\ ~Prepare /\ ~AcknowledgeMutation /\ ~MarkUnknown /\ ~AdmitRecovery
    BY <1>1 DEF Quiet, Prepare, AcknowledgeMutation, MarkUnknown, AdmitRecovery
  <2>8. ~SnapshotObserve /\ ~SnapshotSeal /\ ~Untracked
    BY <1>1 DEF SnapshotObserve, SnapshotSeal, Untracked
  <2>9. QED  BY <1>1, <2>1, <2>4, <2>5, <2>6, <2>7, <2>8, StepKinds
<1>2. UInv /\ [UNext]_uvars =>
        [foreign' = foreign /\ phase \in {"prepared", "restoring"} =>
           \A f \in Files : live'[f] # live[f] =>
             \/ live[f] = ours[f]
             \/ live[f] = Absent /\ expected[f] = Absent
             \/ f \in late /\ (live'[f] = Absent \/ live[f][2] = expected[f][2])]_uvars
  BY <1>1
<1>3. QED  BY <1>2, Inductive, PTL DEF USpec, EditsArePreserved
=============================================================================
