----------------------------- MODULE GraphPatch -----------------------------
(***************************************************************************)
(* The planner's graph patches (cc_loop/graph_patch.py): a patch is a      *)
(* sequence of operations, all validated against the graph as it was       *)
(* before the patch, then applied in order.                                *)
(***************************************************************************)
EXTENDS TaskGraph, Sequences

Policy == [allow : Allowance, manual : BOOLEAN]

\* The operations a patch may hold; update_node is reduced to the policy
\* fields it may set, its texts and provider names being left out.
PatchOp ==
         [op : {"add_node"}, node : Nodes, deps : SUBSET Nodes, policy : Policy]
    \cup [op : {"update_node"}, node : Nodes, policy : Policy]
    \cup [op : {"add_dependency", "remove_dependency"}, node : Nodes, dep : Nodes]
    \cup [op : {"skip_node", "unblock_node"}, node : Nodes]

\* What can be reached from node start along dependencies.
Reach(deps, start) ==
    LET within[k \in 0..MaxNodes] ==
            IF k = 0 THEN {start}
            ELSE within[k-1] \cup UNION {deps[n] : n \in within[k-1]}
    IN  within[MaxNodes]

\* _would_create_cycle adds the edge to its copy of the dependencies, then
\* looks for a path from to_id to from_id in that copy.
WouldCreateCycle(g, from, to) ==
    from \in Reach([g.deps EXCEPT ![to] = @ \cup {from}], to)

\* Mutants: what was done with a passed node may be undone, all of it, or only
\* what it depended on.
OpNamesKnownNode(g, o) ==
    IF o.op = "add_node" THEN o.node \notin g.nodes ELSE o.node \in g.nodes

OpRemovesAnyDependency(g, o) ==
    o.op = "remove_dependency" /\ o.node \in g.nodes

\* validate_patch finds nothing wrong with the operation.
OpValid(g, o) ==
    LET known     == o.node \in g.nodes
        notPassed == known /\ g.status[o.node] # "passed"
    IN  CASE o.op = "add_node"          -> ~known
          [] o.op = "update_node"       -> known
          [] o.op = "remove_dependency" -> notPassed
          [] o.op = "add_dependency"    -> /\ notPassed
                                           /\ o.dep \in g.nodes \ {o.node}
                                           /\ ~WouldCreateCycle(g, o.dep, o.node)
          [] o.op = "skip_node"         -> notPassed
          [] o.op = "unblock_node"      -> /\ known
                                           /\ g.status[o.node] = "blocked"
                                           /\ ~HasTerminalDependencyFailure(g, o.node)

PatchValid(g, patch) == \A i \in DOMAIN patch : OpValid(g, patch[i])

ApplyOp(g, o) ==
    CASE o.op = "add_node"          -> [g EXCEPT !.nodes = @ \cup {o.node},
                                                 !.deps[o.node] = o.deps,
                                                 !.allow[o.node] = o.policy.allow,
                                                 !.manual[o.node] = o.policy.manual]
      [] o.op = "update_node"       -> [g EXCEPT !.allow[o.node] = o.policy.allow,
                                                 !.manual[o.node] = o.policy.manual]
      [] o.op = "add_dependency"    -> [g EXCEPT !.deps[o.node] = @ \cup {o.dep}]
      [] o.op = "remove_dependency" -> [g EXCEPT !.deps[o.node] = @ \ {o.dep}]
      [] o.op = "skip_node"         -> SetStatus(g, o.node, "skipped")
      [] o.op = "unblock_node"      -> SetStatus(g, o.node, "pending")

\* apply_patch on a valid patch.
ApplyPatch(g, patch) ==
    LET after[i \in 0..Len(patch)] ==
            IF i = 0 THEN g ELSE ApplyOp(after[i-1], patch[i])
    IN  after[Len(patch)]
=============================================================================
