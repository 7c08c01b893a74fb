--------------------------- MODULE MCParallelLoop ---------------------------
(* Instances of ParallelLoop for TLC: the graphs a planner may produce.    *)
EXTENDS ParallelLoop

Plain(nodes, deps) ==
    [EmptyGraph EXCEPT !.nodes = nodes, !.deps = [n \in Nodes |-> IF n \in nodes THEN deps[n] ELSE {}]]

\* A first node, after which the others are a batch.
MCFork == Plain(Nodes, [n \in Nodes |-> IF n = 1 THEN {} ELSE {1}])

MCForks == {MCFork}

\* One node, a batch of two, and a last node that waits for one of them and is
\* reviewed by hand.
MCBatches ==
    {[Plain(Nodes, [n \in Nodes |-> IF n = 4 THEN {3} ELSE {}]) EXCEPT !.manual[4] = TRUE]}

\* Shapes in which the batches differ: the rest at once, a chain, a fork, a join.
MCShapes ==
    {MCFork,
     Plain(Nodes, [n \in Nodes |-> {}]),
     Plain(Nodes, [n \in Nodes |-> IF n = 1 THEN {} ELSE {n-1}]),
     Plain(Nodes, [n \in Nodes |-> IF n = 3 THEN {1, 2} ELSE {}])}

MCNoPatches == {}
=============================================================================
