----------------------------- MODULE AtomicJournal -----------------------------
(***************************************************************************)
(* What a journal file promises its callers: one value that every call     *)
(* changes at most once, in one step, and only from the value the call     *)
(* expects.  A call that answers TRUE has made its change; one that        *)
(* answers FALSE has not, except that a create which answers FALSE only    *)
(* says that the file exists.  An error leaves it open.                    *)
(***************************************************************************)
CONSTANTS Session,  \* callers, each with one call; also the value it writes
          None,     \* no file, no session
          Initial   \* what an existing file holds

VARIABLES value, op, want, applied, reply

avars == <<value, op, want, applied, reply>>

Operations == {"cas", "create", "mutate", "delete", "remove", "retire", "probe"}

AInit ==
  /\ value \in {None, Initial}
  /\ op = [s \in Session |-> "none"]
  /\ want = [s \in Session |-> None]
  /\ applied = {}
  /\ reply = [s \in Session |-> "none"]

\* A caller has read the journal and calls; the value may change before the
\* call takes effect.
ACall(s) ==
  /\ op[s] = "none"
  /\ op'[s] \in Operations
  /\ op' = [op EXCEPT ![s] = op'[s]]
  /\ want' = [want EXCEPT ![s] = value]
  /\ UNCHANGED <<value, applied, reply>>

\* The value the call of s expects is there.
Expected(s) ==
  CASE op[s] = "cas" -> value = want[s]
    [] op[s] = "create" -> value = None
    [] op[s] = "mutate" -> TRUE
    [] op[s] \in {"delete", "retire"} -> value = want[s] /\ value # None
    [] op[s] = "remove" -> value # None
    [] OTHER -> FALSE

Result(s) == IF op[s] \in {"cas", "create", "mutate"} THEN s ELSE None

AApply(s) ==
  /\ op[s] # "none" /\ reply[s] = "none" /\ s \notin applied
  /\ Expected(s)
  /\ value' = Result(s)
  /\ applied' = applied \cup {s}
  /\ UNCHANGED <<op, want, reply>>

AReply(s) ==
  /\ op[s] # "none" /\ reply[s] = "none"
  /\ \E answer \in {"true", "false", "error"} :
       /\ answer = "true" => s \in applied \/ op[s] \in {"mutate", "probe"}
       /\ answer = "false" => s \notin applied \/ op[s] = "create"
       /\ reply' = [reply EXCEPT ![s] = answer]
  /\ UNCHANGED <<value, op, want, applied>>

ANext == \E s \in Session : ACall(s) \/ AApply(s) \/ AReply(s)

ASpec == AInit /\ [][ANext]_avars
=============================================================================
