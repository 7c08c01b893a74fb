---------------------------- MODULE MCAutoLoop ----------------------------
(* Instances of AutoLoop for TLC: the graphs and the patches a planner may *)
(* produce in them.                                                        *)
EXTENDS AutoLoop

Plain(nodes, deps) ==
    [EmptyGraph EXCEPT !.nodes = nodes, !.deps = [n \in Nodes |-> IF n \in nodes THEN deps[n] ELSE {}]]

Chain == Plain(Nodes, [n \in Nodes |-> IF n = 1 THEN {} ELSE {n-1}])

Fork == Plain(Nodes, [n \in Nodes |-> IF n = 1 THEN {} ELSE {1}])

\* The shapes that matter on three ids: a chain, a fork, a join, a cycle behind
\* a first node, and a second node that waits for an id no node has.
MCShapes ==
    {Chain,
     Fork,
     Plain(Nodes, [n \in Nodes |-> IF n = 3 THEN {1, 2} ELSE {}]),
     Plain(Nodes, [n \in Nodes |-> IF n = 1 THEN {} ELSE {5 - n}]),
     Plain({1, 2}, [n \in Nodes |-> IF n = 2 THEN {3} ELSE {}])}

\* The same with policies: every node may be merged without tests, but in the
\* fork, where the task does not allow it for one, and one is left to a person.
Policed(g) == [g EXCEPT !.allow = [n \in Nodes |-> "allow"]]

MCPolicedShapes ==
    {Policed(g) : g \in MCShapes \ {Fork}}
    \cup {[Policed(Fork) EXCEPT !.allow[2] = "inherit", !.manual[3] = TRUE]}

MCChain == {Chain}

\* A chain that MaxIterations = 2 is enough for, and one it is not.
MCChains == {Chain, Plain({1, 2}, [n \in Nodes |-> IF n = 2 THEN {1} ELSE {}])}

MCSplit == {Chain, Plain(Nodes, [n \in Nodes |-> {}])}

\* Every patch of one operation that the planner may send, with one policy for
\* a new node and one for an old.
MCPatches ==
    {<<>>} \cup {<<o>> : o \in [op : {"add_dependency", "remove_dependency"}, node : Nodes, dep : Nodes]
                          \cup [op : {"skip_node", "unblock_node"}, node : Nodes]
                          \cup [op : {"add_node"}, node : {MaxNodes}, deps : SUBSET Nodes,
                                policy : {[allow |-> "allow", manual |-> FALSE]}]
                          \cup [op : {"update_node"}, node : {2}, policy : {[allow |-> "forbid", manual |-> FALSE]}]}

MCNoPatches == {}
=============================================================================
