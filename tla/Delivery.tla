------------------------------ MODULE Delivery ------------------------------
(***************************************************************************)
(* What a task promises about the base branch, whatever the planner, the   *)
(* implementer and the reviewers do: nodes are landed one at a time, each  *)
(* after all it depends on; only an approved candidate lands; what is      *)
(* known to have landed is never planned away; the task is delivered when  *)
(* all it requires is known to have landed.  (src/README.md,               *)
(* docs/TASK_GRAPH.md "Execution flow".)  The sequential loop implements   *)
(* AloneSpec, the loop with batches Spec.                                  *)
(***************************************************************************)
EXTENDS Naturals

CONSTANT Nodes

VARIABLES
    required,   \* the nodes that must land: those of the graph, but the skipped ones
    deps,       \* what each node depends on
    landed,     \* the nodes merged into the base branch
    candidates, \* the nodes whose work is approved and not yet known to have landed
    delivered

vars == <<required, deps, landed, candidates, delivered>>

Init ==
    /\ required = {} /\ landed = {} /\ candidates = {}
    /\ deps = [n \in Nodes |-> {}]
    /\ delivered = FALSE

\* The graph is planned, or planned anew around what is known to have landed.
\* A candidate may be planned away, but is not made to wait for more.
Plan ==
    /\ ~delivered
    /\ required' \in SUBSET Nodes /\ landed \ candidates \subseteq required'
    /\ deps' \in [Nodes -> SUBSET Nodes]
    /\ \A n \in landed \ candidates : deps'[n] = deps[n]
    /\ \A n \in candidates : deps'[n] \subseteq deps[n]
    /\ UNCHANGED <<landed, candidates, delivered>>

Approve(n) ==
    /\ ~delivered
    /\ n \in required \ landed /\ deps[n] \subseteq landed
    /\ candidates' = candidates \cup {n}
    /\ UNCHANGED <<required, deps, landed, delivered>>

\* A candidate has to be reworked: possible only while it has not landed.
Withdraw(n) ==
    /\ n \in candidates \ landed
    /\ candidates' = candidates \ {n}
    /\ UNCHANGED <<required, deps, landed, delivered>>

Land(n) ==
    /\ n \in candidates
    /\ landed' = landed \cup {n}
    /\ UNCHANGED <<required, deps, candidates, delivered>>

\* The task is delivered when all it requires is known to have landed, what
\* was planned away and has landed all the same included.
Record(n) ==
    /\ n \in candidates \cap landed
    /\ candidates' = candidates \ {n}
    /\ required' = required \cup {n}
    /\ delivered' = (required' \subseteq landed \ candidates')
    /\ UNCHANGED <<deps, landed>>

Step(n) == Approve(n) \/ Withdraw(n) \/ Land(n) \/ Record(n)

\* With batches there may be several candidates, also while the graph is
\* planned anew.
Next == Plan \/ \E n \in Nodes : Step(n)

Spec == Init /\ [][Next]_vars

\* One node after the other: the plan changes only where nothing is approved.
AloneNext == (candidates = {} /\ Plan) \/ \E n \in Nodes : candidates \subseteq {n} /\ Step(n)

AloneSpec == Init /\ [][AloneNext]_vars
=============================================================================
