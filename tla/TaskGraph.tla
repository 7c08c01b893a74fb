----------------------------- MODULE TaskGraph -----------------------------
(***************************************************************************)
(* The task graph of a task (cc_loop/task_graph.py) as a value, and the    *)
(* operations the orchestrator applies to it.  A graph is a record:        *)
(*   nodes    the ids that are present; {} is "task_graph is None"         *)
(*   status   the GraphNodeStatus of each id                               *)
(*   deps     the ids each node depends on, known or not                   *)
(*   retries  retry_count                                                  *)
(*   allow    allow_merge_without_tests of the node: None is "inherit"     *)
(*   manual   requires_manual_review of the node                           *)
(* Ids are numbered in the order of graph.nodes, so "in graph order" is    *)
(* the order of the numbers.  The fields of an absent id are those of      *)
(* EmptyGraph.  Titles, prompts, timestamps, current_node_id and provider  *)
(* names decide nothing the properties speak of and are left out.          *)
(***************************************************************************)
EXTENDS Naturals, FiniteSets

CONSTANT MaxNodes        \* bound: no graph holds more node ids than this

ASSUME MaxNodesAssumption == MaxNodes \in Nat \ {0}

Nodes == 1..MaxNodes

NodeStatus == {"pending", "running", "passed", "rejected", "failed", "blocked", "skipped"}

TerminalFailure == {"failed", "blocked"}

Allowance == {"inherit", "allow", "forbid"}

Graph == [nodes   : SUBSET Nodes,
          status  : [Nodes -> NodeStatus],
          deps    : [Nodes -> SUBSET Nodes],
          retries : [Nodes -> Nat],
          allow   : [Nodes -> Allowance],
          manual  : [Nodes -> BOOLEAN]]

EmptyGraph == [nodes   |-> {},
               status  |-> [n \in Nodes |-> "pending"],
               deps    |-> [n \in Nodes |-> {}],
               retries |-> [n \in Nodes |-> 0],
               allow   |-> [n \in Nodes |-> "inherit"],
               manual  |-> [n \in Nodes |-> FALSE]]

SetStatus(g, n, s) == [g EXCEPT !.status[n] = s]

----------------------------------------------------------------------------
(* Which nodes can run. *)

UnknownDeps(g, n) == g.deps[n] \ g.nodes

HasTerminalDependencyFailure(g, n) ==
    \E d \in g.deps[n] \cap g.nodes : g.status[d] \in TerminalFailure

\* Mutant: a dependency only must not have failed.
DependenciesNotFailed(g, n) ==
    UnknownDeps(g, n) = {} /\ ~HasTerminalDependencyFailure(g, n)

DependenciesPassed(g, n) ==
    /\ UnknownDeps(g, n) = {}
    /\ \A d \in g.deps[n] : g.status[d] = "passed"

IsRunnableStatus(g, n, maxRetries) ==
    \/ g.status[n] = "pending"
    \/ g.status[n] = "rejected" /\ g.retries[n] < maxRetries

\* The nodes next_runnable_nodes would return without its limit.  A node that
\* the scan blocks was pending and not passed, so blocking it neither makes
\* nor unmakes a runnable node: the set depends on g alone.
Runnable(g, maxRetries, exclude) ==
    {n \in g.nodes \ exclude : /\ DependenciesPassed(g, n)
                               /\ IsRunnableStatus(g, n, maxRetries)}

\* The scan goes on while it has found fewer than limit runnable nodes.
Scanned(g, n, maxRetries, limit, exclude) ==
    Cardinality({m \in Runnable(g, maxRetries, exclude) : m < n}) < limit

NextRunnableNodes(g, maxRetries, limit, exclude) ==
    {n \in Runnable(g, maxRetries, exclude) : Scanned(g, n, maxRetries, limit, exclude)}

\* The pending nodes the same scan marks blocked: one whose dependency was
\* blocked earlier in the scan is blocked by it too.
BlockedByScan(g, maxRetries, limit, exclude) ==
    LET blocks(n, before) ==
            /\ n \in g.nodes \ exclude
            /\ g.status[n] = "pending"
            /\ Scanned(g, n, maxRetries, limit, exclude)
            /\ \/ UnknownDeps(g, n) # {}
               \/ HasTerminalDependencyFailure(g, n)
               \/ g.deps[n] \cap before # {}
        upTo[n \in 0..MaxNodes] ==
            IF n = 0 THEN {}
            ELSE upTo[n-1] \cup (IF blocks(n, upTo[n-1]) THEN {n} ELSE {})
    IN  {n \in g.nodes : g.status[n] = "pending" /\ n \in upTo[MaxNodes]}

\* The graph after next_runnable_nodes has scanned it.
AfterScan(g, maxRetries, limit, exclude) ==
    [g EXCEPT !.status = [n \in Nodes |->
        IF n \in BlockedByScan(g, maxRetries, limit, exclude) THEN "blocked" ELSE g.status[n]]]

----------------------------------------------------------------------------
(* What the orchestrator records in it. *)

\* graph_from_planner_json: every node pending, then one whose dependencies
\* are not all known is blocked; choosing current_node_id scans it once.
PlannedGraph(g) ==
    LET known == [g EXCEPT !.status = [n \in Nodes |->
                     IF n \in g.nodes /\ UnknownDeps(g, n) # {} THEN "blocked" ELSE "pending"]]
    IN  AfterScan(known, 2, 1, {})

\* Mutant: retry_count counts down.
MarkRejectedCountingDown(g, n) ==
    [g EXCEPT !.status[n] = "rejected", !.retries[n] = @ - 1]

MarkRejected(g, n) ==
    [g EXCEPT !.status[n] = "rejected", !.retries[n] = @ + 1]

\* Mutant: complete when nothing is left to run.
GraphExhausted(g) ==
    g.nodes # {} /\ \A n \in g.nodes : g.status[n] \notin {"pending", "running"}

GraphComplete(g) ==
    /\ g.nodes # {}
    /\ \A n \in g.nodes : g.status[n] \in {"passed", "skipped"}

\* Mutant: a node that says nothing weakens the policy too.
AllowsUnlessForbidden(g, n, taskAllows, allowWeakening) ==
    g.allow[n] # "forbid" /\ (allowWeakening \/ taskAllows)

\* effective_node_policy: a node may allow a merge without tests only where
\* the task already does, or lets its nodes weaken the policy.
AllowsMergeWithoutTests(g, n, taskAllows, allowWeakening) ==
    CASE g.allow[n] = "inherit" -> taskAllows
      [] g.allow[n] = "forbid"  -> FALSE
      [] g.allow[n] = "allow"   -> allowWeakening \/ taskAllows
=============================================================================
