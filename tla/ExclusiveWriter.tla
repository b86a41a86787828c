-------------------------- MODULE ExclusiveWriter --------------------------
(***************************************************************************)
(* What the workspace write lease promises: at any time at most one writer *)
(* has authority over the workspace, authority only ever passes through    *)
(* nobody having it, and effects happen inside it.                         *)
(***************************************************************************)
CONSTANTS Writer, NoWriter

VARIABLES
  authority,  \* the writer that may change the workspace, or NoWriter
  effecting   \* the writers inside an effect

Init == authority = NoWriter /\ effecting = {}

Grant(w) ==
  /\ authority = NoWriter
  /\ authority' = w
  /\ UNCHANGED effecting

Begin(w) ==
  /\ authority = w
  /\ effecting' = effecting \cup {w}
  /\ UNCHANGED authority

\* The effect is done, or its writer stopped in the middle of it.
End(w) ==
  /\ w \in effecting
  /\ effecting' = effecting \ {w}
  /\ UNCHANGED authority

Relinquish(w) ==
  /\ authority = w
  /\ w \notin effecting
  /\ authority' = NoWriter
  /\ UNCHANGED effecting

Next == \E w \in Writer : Grant(w) \/ Begin(w) \/ End(w) \/ Relinquish(w)

Spec == Init /\ [][Next]_<<authority, effecting>>
=============================================================================
