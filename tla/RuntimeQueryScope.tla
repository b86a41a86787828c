--------------------------- MODULE RuntimeQueryScope ---------------------------
(***************************************************************************)
(* createRuntimeQueryScope: a bounded set of queries in flight, and a      *)
(* close that drains them.  prepare runs synchronously inside run, so      *)
(* while it is on the stack nothing else happens except what it calls      *)
(* itself: run again, or close.                                            *)
(***************************************************************************)
EXTENDS Naturals, Sequences, FiniteSets

CONSTANTS Queries,  \* calls of run
          Maximum   \* maximumPendingQueries

ASSUME MaximumAssumption == Maximum \in Nat \ {0}
ASSUME QueriesAssumption == IsFiniteSet(Queries)

VARIABLES
  accepting,
  tickets,   \* the tickets that are reserved
  stack,     \* queries whose prepare is running, innermost first
  query,     \* query[q]: how far the call is
  closed,    \* "open", "draining" or "resolved": the promise of close
  awaited    \* the tickets that promise waits for

scopeVars == <<accepting, tickets, stack, query, closed, awaited>>

QInit ==
  /\ accepting = TRUE
  /\ tickets = {} /\ stack = <<>> /\ awaited = {}
  /\ query = [q \in Queries |-> "idle"]
  /\ closed = "open"

-----------------------------------------------------------------------------
Becomes(q, s) == query' = [query EXCEPT ![q] = s]

\* run refuses a closed scope, and one whose capacity is used up.
Refuse(q) ==
  /\ query[q] = "idle"
  /\ ~accepting \/ Cardinality(tickets) >= Maximum
  /\ Becomes(q, "rejected")
  /\ UNCHANGED <<accepting, tickets, stack, closed, awaited>>

\* Mutant: the capacity is off by one.
ReserveOver(q) ==
  /\ query[q] = "idle"
  /\ accepting /\ Cardinality(tickets) <= Maximum
  /\ tickets' = tickets \cup {q}
  /\ stack' = <<q>> \o stack
  /\ Becomes(q, "preparing")
  /\ UNCHANGED <<accepting, closed, awaited>>

\* run reserves its ticket before it calls prepare.
Reserve(q) ==
  /\ query[q] = "idle"
  /\ accepting /\ Cardinality(tickets) < Maximum
  /\ tickets' = tickets \cup {q}
  /\ stack' = <<q>> \o stack
  /\ Becomes(q, "preparing")
  /\ UNCHANGED <<accepting, closed, awaited>>

\* Mutant: a close during prepare is not noticed.
PreparedUnchecked(q) ==
  /\ stack # <<>> /\ q = Head(stack)
  /\ stack' = Tail(stack)
  /\ Becomes(q, "executing")
  /\ UNCHANGED <<accepting, tickets, closed, awaited>>

\* prepare returned and the scope is still accepting: execution is queued.
Prepared(q) ==
  /\ stack # <<>> /\ q = Head(stack)
  /\ stack' = Tail(stack)
  /\ accepting
  /\ Becomes(q, "executing")
  /\ UNCHANGED <<accepting, tickets, closed, awaited>>

\* Mutant: a failed capture keeps its ticket.
NotPreparedLeaks(q) ==
  /\ stack # <<>> /\ q = Head(stack)
  /\ stack' = Tail(stack)
  /\ Becomes(q, "rejected")
  /\ UNCHANGED <<accepting, tickets, closed, awaited>>

\* prepare threw, or closed the scope: the ticket is released.
NotPrepared(q) ==
  /\ stack # <<>> /\ q = Head(stack)
  /\ stack' = Tail(stack)
  /\ Becomes(q, "rejected")
  /\ tickets' = tickets \ {q}
  /\ UNCHANGED <<accepting, closed, awaited>>

\* The execution settles, with a result or an error, and gives its ticket back.
Finish(q) ==
  /\ stack = <<>>
  /\ query[q] = "executing"
  /\ Becomes(q, "settled")
  /\ tickets' = tickets \ {q}
  /\ UNCHANGED <<accepting, stack, closed, awaited>>

-----------------------------------------------------------------------------
\* close, at any time, from inside a prepare too.  The first call captures the
\* tickets; later calls return the same promise.
Close ==
  /\ accepting' = FALSE
  /\ IF closed = "open"
       THEN closed' = "draining" /\ awaited' = tickets
       ELSE UNCHANGED <<closed, awaited>>
  /\ UNCHANGED <<tickets, stack, query>>

\* Mutant: the first ticket that settles is enough.
ResolveFirst ==
  /\ closed = "draining" /\ stack = <<>>
  /\ awaited = {} \/ \E q \in awaited : q \notin tickets
  /\ closed' = "resolved"
  /\ UNCHANGED <<accepting, tickets, stack, query, awaited>>

\* Mutant: a released ticket leaves the set but is never settled.
ResolveUnsettled ==
  /\ closed = "draining" /\ stack = <<>>
  /\ awaited = {}
  /\ closed' = "resolved"
  /\ UNCHANGED <<accepting, tickets, stack, query, awaited>>

\* Every captured ticket has settled.
Resolve ==
  /\ closed = "draining" /\ stack = <<>>
  /\ awaited \cap tickets = {}
  /\ closed' = "resolved"
  /\ UNCHANGED <<accepting, tickets, stack, query, awaited>>

Capture(q) == Prepared(q) \/ NotPrepared(q)

QNext ==
  \/ \E q \in Queries : Refuse(q) \/ Reserve(q) \/ Capture(q) \/ Finish(q)
  \/ Close
  \/ Resolve

QSpec == QInit /\ [][QNext]_scopeVars

\* prepare returns or throws, accepted executions settle, and the promise of
\* close is resolved when its tickets are.
QFairSpec ==
  /\ QSpec
  /\ WF_scopeVars(Resolve)
  /\ \A q \in Queries : WF_scopeVars(Capture(q)) /\ WF_scopeVars(Finish(q))

-----------------------------------------------------------------------------
\* The types; a ticket is held exactly while its query is in flight.
QTypeOK ==
  /\ accepting \in BOOLEAN
  /\ tickets \subseteq Queries /\ awaited \subseteq Queries
  /\ stack \in Seq(Queries)
  /\ query \in [Queries -> {"idle", "preparing", "executing", "settled", "rejected"}]
  /\ closed \in {"open", "draining", "resolved"}
  /\ tickets = {q \in Queries : query[q] \in {"preparing", "executing"}}

\* No more queries are prepared and executed together than the scope admits,
\* also when a prepare calls run again.
CapacityHolds ==
  Cardinality({q \in Queries : query[q] \in {"preparing", "executing"}}) <= Maximum

\* When the promise of close has resolved nothing is in flight any more: what
\* the runtime releases afterwards is used by no query.
CloseDrains ==
  closed = "resolved" => \A q \in Queries : query[q] \notin {"preparing", "executing"}

\* A query whose capture closed the scope, or ran into its closing, is never
\* executed.
NoExecutionAfterClose ==
  [][\A q \in Queries :
       query[q] # "executing" /\ query'[q] = "executing" => closed = "open"]_scopeVars

\* close was called and has not resolved.
CloseIsPending == closed \notin {"open", "resolved"}
=============================================================================
