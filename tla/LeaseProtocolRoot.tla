--------------------------- MODULE LeaseProtocolRoot ---------------------------
(***************************************************************************)
(* ensureProtocolRoot: sessions that find no ledger, or one that an        *)
(* interrupted session left half made, create the root, the holders        *)
(* directory and the protocol marker.  The marker is published by linking  *)
(* a candidate of holders/ to protocol.json, so until the candidate is     *)
(* removed the marker has two names; a session that meets such an alias    *)
(* removes it.  Nothing locks the directory: every file-system call is one *)
(* step, and a session may stop between two of them.                       *)
(***************************************************************************)
EXTENDS Naturals, FiniteSets

CONSTANTS Session,    \* calls of acquire; a session stands for its candidate's inode
          None,       \* no inode
          MaxCrashes  \* bound on the sessions that stop half way

ASSUME NoneAssumption == None \notin Session
ASSUME CrashAssumption == MaxCrashes \in Nat

VARIABLES
  root,       \* the protocol root exists
  holders,    \* the holders directory exists
  candidates, \* the candidates in holders/
  marker,     \* the inode protocol.json names, or None
  stage,
  listed,     \* listed[s]: the names s read from holders/
  alias,      \* alias[s]: the name s found for the marker's inode
  alone,      \* history: no other session was under way with s
  crashes

tree == <<root, holders, candidates, marker>>
rootVars == <<tree, stage, listed, alias, alone, crashes>>

Ended == {"idle", "done", "failed", "crashed"}
Stages == Ended \cup {"start", "rooted", "ready", "candidate", "linked", "inspect",
                     "list", "stat", "recheck", "unlink", "final"}

PInit ==
  /\ root = FALSE /\ holders = FALSE /\ candidates = {} /\ marker = None
  /\ stage = [s \in Session |-> "idle"]
  /\ listed = [s \in Session |-> {}]
  /\ alias = [s \in Session |-> None]
  /\ alone = [s \in Session |-> FALSE]
  /\ crashes = 0

-----------------------------------------------------------------------------
Reach(s, step) == stage' = [stage EXCEPT ![s] = step]

\* The number of names of the marker's inode.
Links == IF marker \in candidates THEN 2 ELSE 1

Start(s) ==
  /\ stage[s] = "idle"
  /\ Reach(s, "start")
  /\ LET under == {t \in Session : stage[t] \notin Ended}
     IN  alone' = [t \in Session |-> IF t = s THEN under = {} ELSE alone[t] /\ t \notin under]
  /\ UNCHANGED <<tree, listed, alias, crashes>>

\* Mutant: the holders directory is taken to come with the root.
MakeRootOnly(s) ==
  /\ stage[s] = "start"
  /\ root' = TRUE
  /\ Reach(s, "ready")
  /\ UNCHANGED <<holders, candidates, marker, listed, alias, alone, crashes>>

\* mkdir of the root; one that exists is taken.
MakeRoot(s) ==
  /\ stage[s] = "start"
  /\ root' = TRUE
  /\ Reach(s, "rooted")
  /\ UNCHANGED <<holders, candidates, marker, listed, alias, alone, crashes>>

MakeHolders(s) ==
  /\ stage[s] = "rooted"
  /\ holders' = TRUE
  /\ Reach(s, "ready")
  /\ UNCHANGED <<root, candidates, marker, listed, alias, alone, crashes>>

\* createImmutableCandidate.
CreateCandidate(s) ==
  /\ stage[s] = "ready"
  /\ candidates' = candidates \cup {s}
  /\ Reach(s, "candidate")
  /\ UNCHANGED <<root, holders, marker, listed, alias, alone, crashes>>

\* link without replacement: an existing marker is left alone.
LinkMarker(s) ==
  /\ stage[s] = "candidate"
  /\ marker' = IF marker = None THEN s ELSE marker
  /\ Reach(s, "linked")
  /\ UNCHANGED <<root, holders, candidates, listed, alias, alone, crashes>>

\* removeImmutableCandidate: a candidate that another session has already
\* removed as an alias is reported as unknown durability.
RemoveCandidate(s) ==
  /\ stage[s] = "linked"
  /\ candidates' = candidates \ {s}
  /\ Reach(s, IF s \in candidates THEN "inspect" ELSE "failed")
  /\ UNCHANGED <<root, holders, marker, listed, alias, alone, crashes>>

-----------------------------------------------------------------------------
(* convergeProtocolMarkerAlias.                                            *)

\* Mutant: a marker with two names is accepted.
InspectAccepts(s) ==
  /\ stage[s] = "inspect"
  /\ Reach(s, "done")
  /\ UNCHANGED <<tree, listed, alias, alone, crashes>>

\* Mutant: a marker with two names is refused.
InspectRefuses(s) ==
  /\ stage[s] = "inspect"
  /\ Reach(s, IF Links = 1 THEN "done" ELSE "failed")
  /\ UNCHANGED <<tree, listed, alias, alone, crashes>>

\* The marker's metadata: one name, and it is verified.
Inspect(s) ==
  /\ stage[s] = "inspect"
  /\ Reach(s, IF Links = 1 THEN "done" ELSE "list")
  /\ UNCHANGED <<tree, listed, alias, alone, crashes>>

\* sameIdentityEntries: the names are read first,
ListHolders(s) ==
  /\ stage[s] = "list"
  /\ listed' = [listed EXCEPT ![s] = candidates]
  /\ Reach(s, "stat")
  /\ UNCHANGED <<tree, alias, alone, crashes>>

\* then each is inspected; a name that has gone is a changed topology.
StatHolders(s) ==
  /\ stage[s] = "stat"
  /\ IF listed[s] \subseteq candidates /\ marker \in listed[s]
       THEN alias' = [alias EXCEPT ![s] = marker] /\ Reach(s, "recheck")
       ELSE Reach(s, "failed") /\ UNCHANGED alias
  /\ UNCHANGED <<tree, listed, alone, crashes>>

\* Marker and alias are inspected once more before the removal.
Recheck(s) ==
  /\ stage[s] = "recheck"
  /\ Reach(s, IF alias[s] \in candidates THEN "unlink" ELSE "failed")
  /\ UNCHANGED <<tree, listed, alias, alone, crashes>>

\* Mutant: a removed alias is reported and the call given up.
UnlinkAliasGivesUp(s) ==
  /\ stage[s] = "unlink"
  /\ candidates' = candidates \ {alias[s]}
  /\ Reach(s, "failed")
  /\ UNCHANGED <<root, holders, marker, listed, alias, alone, crashes>>

UnlinkAlias(s) ==
  /\ stage[s] = "unlink"
  /\ candidates' = candidates \ {alias[s]}
  /\ Reach(s, IF alias[s] \in candidates THEN "final" ELSE "failed")
  /\ UNCHANGED <<root, holders, marker, listed, alias, alone, crashes>>

FinalMarker(s) ==
  /\ stage[s] = "final"
  /\ Reach(s, IF Links = 1 THEN "done" ELSE "failed")
  /\ UNCHANGED <<tree, listed, alias, alone, crashes>>

\* The process stops.
Crash(s) ==
  /\ stage[s] \notin Ended
  /\ crashes < MaxCrashes
  /\ crashes' = crashes + 1
  /\ Reach(s, "crashed")
  /\ UNCHANGED <<tree, listed, alias, alone>>

-----------------------------------------------------------------------------
SessionStep(s) ==
  \/ MakeRoot(s) \/ MakeHolders(s) \/ CreateCandidate(s) \/ LinkMarker(s)
  \/ RemoveCandidate(s) \/ Inspect(s) \/ ListHolders(s) \/ StatHolders(s)
  \/ Recheck(s) \/ UnlinkAlias(s) \/ FinalMarker(s)

PNext == \E s \in Session : Start(s) \/ SessionStep(s) \/ Crash(s)

PSpec == PInit /\ [][PNext]_rootVars

-----------------------------------------------------------------------------
\* The types; a directory exists before what is in it.
PTypeOK ==
  /\ root \in BOOLEAN /\ holders \in BOOLEAN
  /\ candidates \subseteq Session /\ marker \in Session \cup {None}
  /\ stage \in [Session -> Stages]
  /\ listed \in [Session -> SUBSET Session]
  /\ alias \in [Session -> Session \cup {None}]
  /\ alone \in [Session -> BOOLEAN] /\ crashes \in 0..MaxCrashes
  /\ candidates # {} => holders
  /\ holders => root

\* A session that returns has left the marker with one name, and nobody gives
\* it a second one later: withControlPlaneQuiesced asks for exactly that
\* (nlink 1) on every quiesced section.
ReadyIsCanonical == \A s \in Session : stage[s] = "done" => marker # None /\ Links = 1

\* What interrupted sessions left never blocks: a session that runs with no
\* other one under way succeeds.
UndisturbedSucceeds == \A s \in Session : stage[s] = "failed" => ~alone[s]

\* Contention never defeats everyone: when the sessions have all ended and
\* none was interrupted, one of them has succeeded.
ContentionHasAWinner ==
  /\ crashes = 0
  /\ \A s \in Session : stage[s] \in Ended
  /\ \E s \in Session : stage[s] # "idle"
  => \E s \in Session : stage[s] = "done"
=============================================================================
