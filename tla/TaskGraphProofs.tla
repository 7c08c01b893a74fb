--------------------------- MODULE TaskGraphProofs ---------------------------
(***************************************************************************)
(* What the operations of TaskGraph and GraphPatch return, for graphs of   *)
(* any size and patches of any length: the lemmas AutoLoopProofs rests on. *)
(***************************************************************************)
EXTENDS GraphPatch, FiniteSetTheorems, TLAPS

\* Induction over the naturals for a set: a least number left out of it would
\* give a minimal element of a set of intervals.
LEMMA SetInduction ==
    ASSUME NEW S, 0 \in S, \A n \in Nat : n \in S => n+1 \in S
    PROVE  Nat \subseteq S
<1> DEFINE Missed == {0..n : n \in Nat \ S}
<1>1. SUFFICES ASSUME Missed # {} PROVE FALSE
  OBVIOUS
<1>2. Missed \subseteq FiniteSubsetsOf(Nat)
  <2>1. SUFFICES ASSUME NEW n \in Nat PROVE 0..n \in FiniteSubsetsOf(Nat)
    OBVIOUS
  <2>2. 0..n \in SUBSET Nat
    OBVIOUS
  <2>3. IsFiniteSet(0..n)
    BY FS_Interval
  <2> QED
    BY <2>2, <2>3 DEF FiniteSubsetsOf
<1>3. PICK least \in Missed : \A i \in Missed : ~(<<i, least>> \in StrictSubsetOrdering(Nat))
  <2> HIDE DEF Missed
  <2> QED
    BY <1>1, <1>2, FS_StrictSubsetOrderingWellFounded, WFMin
<1>4. PICK n \in Nat \ S : least = 0..n
  OBVIOUS
<1>5. n-1 \in Nat /\ n-1 \notin S
  BY (n-1)+1 = n
<1>6. <<0..(n-1), 0..n>> \in StrictSubsetOrdering(Nat)
  <2>1. 0..(n-1) \subseteq 0..n /\ n \in 0..n /\ n \notin 0..(n-1)
    BY <1>5
  <2>2. 0..n \subseteq Nat
    OBVIOUS
  <2> QED
    BY <2>1, <2>2 DEF StrictSubsetOrdering
<1> QED
  BY <1>3, <1>4, <1>5, <1>6

\* The fields of the ids that no node has.
LEMMA EmptyGraphType == EmptyGraph \in Graph
<1>1. [n \in Nodes |-> "pending"] \in [Nodes -> NodeStatus]
  BY DEF NodeStatus
<1>2. [n \in Nodes |-> {}] \in [Nodes -> SUBSET Nodes]
  OBVIOUS
<1>3. [n \in Nodes |-> 0] \in [Nodes -> Nat]
  OBVIOUS
<1>4. [n \in Nodes |-> "inherit"] \in [Nodes -> Allowance]
  BY DEF Allowance
<1>5. [n \in Nodes |-> FALSE] \in [Nodes -> BOOLEAN]
  OBVIOUS
<1> QED
  BY <1>1, <1>2, <1>3, <1>4, <1>5 DEF EmptyGraph, Graph

\* Giving one node another status (set_node_status) keeps a graph a graph.
LEMMA SetStatusType ==
    ASSUME NEW g \in Graph, NEW n, NEW s \in NodeStatus
    PROVE  SetStatus(g, n, s) \in Graph /\ SetStatus(g, n, s).nodes = g.nodes
<1>1. [g.status EXCEPT ![n] = s] \in [Nodes -> NodeStatus]
  BY DEF Graph
<1> QED
  BY <1>1 DEF SetStatus, Graph

\* A rejection (mark_graph_node_rejected) keeps a graph a graph.
LEMMA MarkRejectedType ==
    ASSUME NEW g \in Graph, NEW n \in Nodes
    PROVE  MarkRejected(g, n) \in Graph /\ MarkRejected(g, n).nodes = g.nodes
<1> DEFINE status == [g.status EXCEPT ![n] = "rejected"]
           retries == [g.retries EXCEPT ![n] = g.retries[n] + 1]
<1>1. status \in [Nodes -> NodeStatus]
  BY DEF Graph, NodeStatus
<1>2. retries \in [Nodes -> Nat]
  <2>1. g.retries \in [Nodes -> Nat]
    BY DEF Graph
  <2> QED
    BY <2>1
<1>3. MarkRejected(g, n) = [[g EXCEPT !.status = status] EXCEPT !.retries = retries]
  BY DEF MarkRejected
<1> HIDE DEF status, retries
<1> QED
  BY <1>1, <1>2, <1>3 DEF Graph

\* So does a scan, which only blocks nodes.
LEMMA AfterScanType ==
    ASSUME NEW g \in Graph, NEW maxRetries, NEW limit, NEW exclude
    PROVE  /\ AfterScan(g, maxRetries, limit, exclude) \in Graph
           /\ AfterScan(g, maxRetries, limit, exclude).nodes = g.nodes
<1> DEFINE blocked == BlockedByScan(g, maxRetries, limit, exclude)
<1> HIDE DEF blocked
<1>1. [n \in Nodes |-> IF n \in blocked THEN "blocked" ELSE g.status[n]] \in [Nodes -> NodeStatus]
  BY DEF Graph, NodeStatus
<1> QED
  BY <1>1 DEF AfterScan, Graph, blocked

\* The graph stored from a plan has the nodes that were planned.
LEMMA PlannedGraphType ==
    ASSUME NEW g \in Graph
    PROVE  PlannedGraph(g) \in Graph /\ PlannedGraph(g).nodes = g.nodes
<1> DEFINE known == [g EXCEPT !.status = [n \in Nodes |->
                        IF n \in g.nodes /\ UnknownDeps(g, n) # {} THEN "blocked" ELSE "pending"]]
<1>1. known \in Graph /\ known.nodes = g.nodes
  BY DEF Graph, NodeStatus
<1>2. AfterScan(known, 2, 1, {}) \in Graph /\ AfterScan(known, 2, 1, {}).nodes = g.nodes
  <2> HIDE DEF known
  <2> QED
    BY <1>1, AfterScanType
<1> QED
  BY <1>2 DEF PlannedGraph

\* The scan of next_runnable_nodes returns nodes of the graph only.
LEMMA NextRunnableNodesType ==
    ASSUME NEW g \in Graph, NEW maxRetries, NEW limit, NEW exclude
    PROVE  NextRunnableNodes(g, maxRetries, limit, exclude) \subseteq g.nodes
BY DEF NextRunnableNodes, Runnable

\* One operation of a patch leaves a graph, and loses no node.
LEMMA ApplyOpType ==
    ASSUME NEW g \in Graph, NEW o \in PatchOp
    PROVE  ApplyOp(g, o) \in Graph /\ g.nodes \subseteq ApplyOp(g, o).nodes
<1>1. CASE o.op = "add_node"
  <2>1. o.node \in Nodes /\ o.deps \in SUBSET Nodes /\ o.policy \in Policy
    BY <1>1 DEF PatchOp
  <2> QED
    BY <1>1, <2>1 DEF ApplyOp, Graph, Policy
<1>2. CASE o.op = "update_node"
  <2>1. o.node \in Nodes /\ o.policy \in Policy
    BY <1>2 DEF PatchOp
  <2> QED
    BY <1>2, <2>1 DEF ApplyOp, Graph, Policy
<1>3. CASE o.op = "add_dependency"
  <2>1. o.node \in Nodes /\ o.dep \in Nodes
    BY <1>3 DEF PatchOp
  <2> QED
    BY <1>3, <2>1 DEF ApplyOp, Graph
<1>4. CASE o.op = "remove_dependency"
  <2>1. o.node \in Nodes /\ o.dep \in Nodes
    BY <1>4 DEF PatchOp
  <2> QED
    BY <1>4, <2>1 DEF ApplyOp, Graph
<1>5. CASE o.op = "skip_node"
  <2>1. o.node \in Nodes
    BY <1>5 DEF PatchOp
  <2> QED
    BY <1>5, <2>1, SetStatusType DEF ApplyOp, NodeStatus
<1>6. CASE o.op = "unblock_node"
  <2>1. o.node \in Nodes
    BY <1>6 DEF PatchOp
  <2> QED
    BY <1>6, <2>1, SetStatusType DEF ApplyOp, NodeStatus
<1> QED
  BY <1>1, <1>2, <1>3, <1>4, <1>5, <1>6 DEF PatchOp

\* f is the function that starts with x and goes on by the functions of step.
Iterated(f, L, x, step) == f[0] = x /\ \A i \in 1..L : f[i] = step[i][f[i-1]]

\* A recursive function of L steps, each a function on S, exists.  (Every
\* recursive definition here has to be shown to define something: the prover
\* takes f[i \in D] == e for a CHOOSE.)
LEMMA Iterates ==
    ASSUME NEW L \in Nat, NEW S, NEW x \in S, NEW step \in [1..L -> [S -> S]]
    PROVE  \E f \in [0..L -> S] : Iterated(f, L, x, step)
<1> DEFINE Steps(f, k) == f[0] = x /\ \A i \in 1..k : f[i] = step[i][f[i-1]]
           T == {k \in Nat : k <= L => \E f \in [0..k -> S] : Steps(f, k)}
<1>1. 0 \in T
  <2>1. [i \in 0..0 |-> x] \in [0..0 -> S] /\ Steps([i \in 0..0 |-> x], 0)
    OBVIOUS
  <2> QED
    BY <2>1
<1>2. ASSUME NEW k \in Nat, k \in T PROVE k+1 \in T
  <2>1. SUFFICES ASSUME k+1 <= L PROVE \E f \in [0..(k+1) -> S] : Steps(f, k+1)
    OBVIOUS
  <2>2. PICK f \in [0..k -> S] : Steps(f, k)
    BY <1>2, <2>1
  <2> DEFINE h == [i \in 0..(k+1) |-> IF i = k+1 THEN step[k+1][f[k]] ELSE f[i]]
  <2>3. step[k+1][f[k]] \in S
    BY <2>1, <2>2
  <2>4. h \in [0..(k+1) -> S]
    BY <2>2, <2>3
  <2>5. h[0] = x
    BY <2>2
  <2>6. ASSUME NEW i \in 1..(k+1) PROVE h[i] = step[i][h[i-1]]
    <3>1. i-1 \in 0..k /\ h[i-1] = f[i-1]
      OBVIOUS
    <3>2. CASE i = k+1
      BY <3>1, <3>2
    <3>3. CASE i \in 1..k
      BY <3>1, <3>3, <2>2
    <3> QED
      BY <3>2, <3>3
  <2> HIDE DEF h
  <2> QED
    BY <2>4, <2>5, <2>6
<1>3. L \in T
  <2> HIDE DEF T
  <2> QED
    BY <1>1, <1>2, SetInduction
<1> QED
  BY <1>3 DEF Iterated

\* The graphs a patch goes through.
LEMMA ApplyPatchSteps ==
    ASSUME NEW g \in Graph, NEW patch \in Seq(PatchOp)
    PROVE  \E after \in [0..Len(patch) -> Graph] :
              /\ after[0] = g
              /\ \A i \in 1..Len(patch) : after[i] = ApplyOp(after[i-1], patch[i])
              /\ ApplyPatch(g, patch) = after[Len(patch)]
<1> DEFINE L == Len(patch)
           step == [i \in 1..L |-> [h \in Graph |-> ApplyOp(h, patch[i])]]
           Whole(f) == f = [i \in 0..L |-> IF i = 0 THEN g ELSE ApplyOp(f[i-1], patch[i])]
           after == CHOOSE f : Whole(f)
           T == {k \in Nat : k <= L => after[k] \in Graph}
<1>1. L \in Nat /\ \A i \in 1..L : patch[i] \in PatchOp
  OBVIOUS
<1>2. step \in [1..L -> [Graph -> Graph]]
  BY <1>1, ApplyOpType
<1>3. PICK f \in [0..L -> Graph] : f[0] = g /\ \A i \in 1..L : f[i] = step[i][f[i-1]]
  <2> HIDE DEF step, L
  <2>1. \E f \in [0..L -> Graph] : Iterated(f, L, g, step)
    BY <1>1, <1>2, Iterates
  <2> QED
    BY <2>1 DEF Iterated
<1>4. \A i \in 1..L : f[i] = ApplyOp(f[i-1], patch[i])
  <2> SUFFICES ASSUME NEW i \in 1..L PROVE f[i] = ApplyOp(f[i-1], patch[i])
    OBVIOUS
  <2>1. f[i-1] \in Graph
    BY <1>1, <1>3
  <2> QED
    BY <1>3, <2>1
<1>5. Whole(f)
  <2>1. f = [i \in 0..L |-> f[i]]
    BY <1>3
  <2>2. ASSUME NEW i \in 0..L PROVE f[i] = IF i = 0 THEN g ELSE ApplyOp(f[i-1], patch[i])
    BY <1>1, <1>3, <1>4
  <2> QED
    BY <2>1, <2>2
<1>6. Whole(after)
  <2> HIDE DEF Whole
  <2> QED
    BY <1>5
<1>7. after[0] = g /\ \A i \in 1..L : after[i] = ApplyOp(after[i-1], patch[i])
  <2> HIDE DEF after
  <2> QED
    BY <1>1, <1>6
<1>8. ApplyPatch(g, patch) = after[L]
  BY DEF ApplyPatch, after
<1>9. after = [i \in 0..L |-> after[i]]
  <2> HIDE DEF after
  <2> QED
    BY <1>6
<1> HIDE DEF after
<1>10. 0 \in T
  BY <1>7
<1>11. ASSUME NEW k \in Nat, k \in T PROVE k+1 \in T
  <2>1. SUFFICES ASSUME k+1 <= L PROVE after[k+1] \in Graph
    OBVIOUS
  <2>2. after[k] \in Graph /\ patch[k+1] \in PatchOp
    BY <1>1, <1>11, <2>1
  <2>3. after[k+1] = ApplyOp(after[k], patch[k+1])
    BY <1>1, <1>7, <2>1
  <2> QED
    BY <2>2, <2>3, ApplyOpType
<1>12. Nat \subseteq T
  <2> HIDE DEF T
  <2> QED
    BY <1>10, <1>11, SetInduction
<1>13. after \in [0..L -> Graph]
  BY <1>1, <1>9, <1>12
<1> QED
  BY <1>7, <1>8, <1>13

\* What every operation of a patch keeps of the graph it started from, the
\* patch as a whole keeps.
LEMMA ApplyPatchKeeps ==
    ASSUME NEW g \in Graph, NEW patch \in Seq(PatchOp),
           NEW Kept, g \in Kept,
           \A h \in Graph \cap Kept : \A i \in 1..Len(patch) : ApplyOp(h, patch[i]) \in Kept
    PROVE  ApplyPatch(g, patch) \in Graph \cap Kept
<1> DEFINE L == Len(patch)
<1>1. PICK after \in [0..L -> Graph] :
          /\ after[0] = g
          /\ \A i \in 1..L : after[i] = ApplyOp(after[i-1], patch[i])
          /\ ApplyPatch(g, patch) = after[L]
  BY ApplyPatchSteps
<1> DEFINE T == {k \in Nat : k <= L => after[k] \in Kept}
<1>2. L \in Nat
  OBVIOUS
<1>3. 0 \in T
  BY <1>1
<1>4. ASSUME NEW k \in Nat, k \in T PROVE k+1 \in T
  <2>1. SUFFICES ASSUME k+1 <= L PROVE after[k+1] \in Kept
    OBVIOUS
  <2>2. after[k] \in Graph \cap Kept /\ k+1 \in 1..L
    BY <1>1, <1>2, <1>4, <2>1
  <2>3. after[k+1] = ApplyOp(after[k], patch[k+1])
    BY <1>1, <2>2
  <2> QED
    BY <2>2, <2>3
<1>5. L \in T
  <2> HIDE DEF T
  <2> QED
    BY <1>2, <1>3, <1>4, SetInduction
<1> QED
  BY <1>1, <1>2, <1>5

\* A patch of any length leaves a graph, and loses no node.
LEMMA ApplyPatchType ==
    ASSUME NEW g \in Graph, NEW patch \in Seq(PatchOp)
    PROVE  ApplyPatch(g, patch) \in Graph /\ g.nodes \subseteq ApplyPatch(g, patch).nodes
<1> DEFINE Kept == {h \in Graph : g.nodes \subseteq h.nodes}
<1>1. g \in Kept
  OBVIOUS
<1>2. \A h \in Graph \cap Kept : \A i \in 1..Len(patch) : ApplyOp(h, patch[i]) \in Kept
  BY ApplyOpType
<1>3. ApplyPatch(g, patch) \in Graph \cap Kept
  <2> HIDE DEF Kept
  <2> QED
    BY <1>1, <1>2, ApplyPatchKeeps
<1> QED
  BY <1>3

----------------------------------------------------------------------------
(* What the operations leave alone, and what a runnable node has.          *)

\* A status is that of one node, and nothing else.
LEMMA SetStatusKeeps ==
    ASSUME NEW g \in Graph, NEW n \in Nodes, NEW s
    PROVE  LET h == SetStatus(g, n, s)
           IN  /\ h.deps = g.deps /\ h.nodes = g.nodes
               /\ h.allow = g.allow /\ h.manual = g.manual
               /\ \A m \in Nodes : h.status[m] = IF m = n THEN s ELSE g.status[m]
BY DEF SetStatus, Graph

\* A rejection counts a retry, and is otherwise a status of one node.
LEMMA MarkRejectedKeeps ==
    ASSUME NEW g \in Graph, NEW n \in Nodes
    PROVE  LET h == MarkRejected(g, n)
           IN  /\ h.deps = g.deps /\ h.nodes = g.nodes
               /\ \A m \in Nodes : h.status[m] = IF m = n THEN "rejected" ELSE g.status[m]
BY DEF MarkRejected, Graph

\* A scan turns pending nodes into blocked ones and changes nothing else.
LEMMA AfterScanKeeps ==
    ASSUME NEW g \in Graph, NEW maxRetries, NEW limit, NEW exclude
    PROVE  LET h == AfterScan(g, maxRetries, limit, exclude)
           IN  /\ h.deps = g.deps
               /\ \A n \in Nodes :
                    \/ h.status[n] = g.status[n]
                    \/ g.status[n] = "pending" /\ h.status[n] = "blocked"
<1> DEFINE blocked == BlockedByScan(g, maxRetries, limit, exclude)
           status == [n \in Nodes |-> IF n \in blocked THEN "blocked" ELSE g.status[n]]
<1>1. \A n \in blocked : g.status[n] = "pending"
  BY DEF BlockedByScan
<1> HIDE DEF blocked
<1>2. \A n \in Nodes : \/ status[n] = g.status[n]
                       \/ g.status[n] = "pending" /\ status[n] = "blocked"
  BY <1>1
<1>3. AfterScan(g, maxRetries, limit, exclude) = [g EXCEPT !.status = status]
  BY DEF AfterScan, blocked
<1> HIDE DEF status
<1> QED
  BY <1>2, <1>3 DEF Graph

\* What is planned has not run: every node is pending or blocked.
LEMMA PlannedGraphKeeps ==
    ASSUME NEW g \in Graph
    PROVE  \A n \in Nodes : PlannedGraph(g).status[n] \in {"pending", "blocked"}
<1> DEFINE known == [g EXCEPT !.status = [n \in Nodes |->
                        IF n \in g.nodes /\ UnknownDeps(g, n) # {} THEN "blocked" ELSE "pending"]]
<1>1. known \in Graph /\ \A n \in Nodes : known.status[n] \in {"pending", "blocked"}
  BY DEF Graph, NodeStatus
<1>2. PlannedGraph(g) = AfterScan(known, 2, 1, {})
  BY DEF PlannedGraph
<1> HIDE DEF known
<1>3. \A n \in Nodes : \/ PlannedGraph(g).status[n] = known.status[n]
                       \/ PlannedGraph(g).status[n] = "blocked"
  BY <1>1, <1>2, AfterScanKeeps
<1> QED
  BY <1>1, <1>3

\* A node the scan returns is waiting to run, and all it depends on has passed.
LEMMA NextRunnableNodesReady ==
    ASSUME NEW g \in Graph, NEW maxRetries, NEW limit, NEW exclude,
           NEW n \in NextRunnableNodes(g, maxRetries, limit, exclude)
    PROVE  /\ n \in g.nodes /\ n \in Nodes
           /\ g.status[n] \in {"pending", "rejected"}
           /\ g.deps[n] \subseteq g.nodes /\ g.deps[n] \subseteq Nodes
           /\ \A d \in g.deps[n] : g.status[d] = "passed"
<1>1. n \in g.nodes /\ DependenciesPassed(g, n) /\ IsRunnableStatus(g, n, maxRetries)
  BY DEF NextRunnableNodes, Runnable
<1>2. n \in Nodes
  BY <1>1 DEF Graph
<1> QED
  BY <1>1, <1>2 DEF DependenciesPassed, UnknownDeps, IsRunnableStatus, Graph

\* The search for a path finds the edge that is to be tested, for it is in the
\* graph already: no dependency can be added to a node.
LEMMA AddDependencyRefused ==
    ASSUME NEW g \in Graph, NEW from \in Nodes, NEW to \in Nodes
    PROVE  WouldCreateCycle(g, from, to)
<1> DEFINE deps == [g.deps EXCEPT ![to] = @ \cup {from}]
           step == [i \in 1..MaxNodes |-> [X \in SUBSET Nodes |-> X \cup UNION {deps[n] : n \in X}]]
           Whole(f) == f = [k \in 0..MaxNodes |->
                              IF k = 0 THEN {to} ELSE f[k-1] \cup UNION {deps[n] : n \in f[k-1]}]
           within == CHOOSE f : Whole(f)
           T == {k \in Nat : k + 1 <= MaxNodes => from \in within[k+1]}
<1>1. deps \in [Nodes -> SUBSET Nodes] /\ from \in deps[to]
  BY DEF Graph
<1>2. MaxNodes \in Nat /\ 1 <= MaxNodes
  BY MaxNodesAssumption
<1>3. Reach(deps, to) = within[MaxNodes]
  BY DEF Reach
<1>4. WouldCreateCycle(g, from, to) <=> from \in Reach(deps, to)
  BY DEF WouldCreateCycle
<1> HIDE DEF deps
<1>5. step \in [1..MaxNodes -> [SUBSET Nodes -> SUBSET Nodes]]
  <2> SUFFICES ASSUME NEW X \in SUBSET Nodes PROVE X \cup UNION {deps[n] : n \in X} \in SUBSET Nodes
    OBVIOUS
  <2> QED
    BY <1>1
<1>6. PICK f \in [0..MaxNodes -> SUBSET Nodes] :
          f[0] = {to} /\ \A i \in 1..MaxNodes : f[i] = step[i][f[i-1]]
  <2>1. {to} \in SUBSET Nodes
    OBVIOUS
  <2> HIDE DEF step
  <2>2. \E f \in [0..MaxNodes -> SUBSET Nodes] : Iterated(f, MaxNodes, {to}, step)
    BY <1>2, <1>5, <2>1, Iterates
  <2> QED
    BY <2>2 DEF Iterated
<1>7. Whole(f)
  <2>1. ASSUME NEW i \in 1..MaxNodes PROVE f[i] = f[i-1] \cup UNION {deps[n] : n \in f[i-1]}
    <3>1. f[i-1] \in SUBSET Nodes
      BY <1>2, <1>6
    <3> QED
      BY <1>6, <3>1
  <2>2. f = [i \in 0..MaxNodes |-> f[i]]
    BY <1>6
  <2>3. ASSUME NEW i \in 0..MaxNodes
        PROVE  f[i] = IF i = 0 THEN {to} ELSE f[i-1] \cup UNION {deps[n] : n \in f[i-1]}
    BY <1>2, <1>6, <2>1
  <2> QED
    BY <2>2, <2>3
<1>8. Whole(within)
  <2> HIDE DEF Whole
  <2> QED
    BY <1>7
<1>9. /\ within[0] = {to}
      /\ \A i \in 1..MaxNodes : within[i] = within[i-1] \cup UNION {deps[n] : n \in within[i-1]}
  <2> HIDE DEF within
  <2> QED
    BY <1>2, <1>8
<1> HIDE DEF within
<1>10. 0 \in T
  BY <1>1, <1>2, <1>9
<1>11. ASSUME NEW k \in Nat, k \in T PROVE k+1 \in T
  <2>1. SUFFICES ASSUME k+2 <= MaxNodes PROVE from \in within[k+2]
    OBVIOUS
  <2>2. k+2 \in 1..MaxNodes /\ (k+2)-1 = k+1 /\ from \in within[k+1]
    BY <1>2, <1>11, <2>1
  <2> QED
    BY <1>9, <2>2
<1>12. Nat \subseteq T
  <2> HIDE DEF T
  <2> QED
    BY <1>10, <1>11, SetInduction
<1>13. MaxNodes-1 \in T
  BY <1>2, <1>12
<1> QED
  BY <1>2, <1>3, <1>4, <1>13

\* A valid patch neither makes nor unmakes a passed node, takes nothing away
\* from what a passed node depends on, and gives no node that was there a
\* further dependency.
LEMMA PatchKeepsPassed ==
    ASSUME NEW g \in Graph, NEW patch \in Seq(PatchOp), PatchValid(g, patch)
    PROVE  LET h == ApplyPatch(g, patch)
           IN  /\ \A n \in Nodes : h.status[n] = "passed" <=> g.status[n] = "passed"
               /\ \A n \in g.nodes :
                    /\ h.deps[n] \subseteq g.deps[n]
                    /\ g.status[n] = "passed" => h.deps[n] = g.deps[n]
<1> DEFINE Keeps(h) ==
              /\ \A n \in Nodes : h.status[n] = "passed" <=> g.status[n] = "passed"
              /\ \A n \in g.nodes :
                   /\ h.deps[n] \subseteq g.deps[n]
                   /\ g.status[n] = "passed" => h.deps[n] = g.deps[n]
           Kept == {h \in Graph : Keeps(h)}
<1>1. g \in Kept
  OBVIOUS
<1>2. ASSUME NEW h \in Graph \cap Kept, NEW i \in 1..Len(patch) PROVE ApplyOp(h, patch[i]) \in Kept
  <2> DEFINE o == patch[i]
             after == ApplyOp(h, o)
  <2>1. o \in PatchOp /\ OpValid(g, o)
    BY DEF PatchValid
  <2>2. after \in Graph
    BY <2>1, ApplyOpType
  <2>a. h \in Graph /\ Keeps(h) /\ g.nodes \subseteq Nodes
    BY DEF Graph
  <2>b. SUFFICES Keeps(after)
    BY <2>2
  <2> HIDE DEF o, after, Kept
  <2>3. CASE o.op = "add_node"
    <3>1. o.node \in Nodes /\ o.node \notin g.nodes
      BY <2>1, <2>3 DEF PatchOp, OpValid
    <3>2. after.status = h.status /\ \A n \in g.nodes : after.deps[n] = h.deps[n]
      BY <2>a, <2>3, <3>1 DEF after, ApplyOp, Graph
    <3> QED
      BY <2>a, <3>2
  <2>4. CASE o.op = "update_node"
    <3>1. after.status = h.status /\ after.deps = h.deps
      BY <2>a, <2>4 DEF after, ApplyOp, Graph
    <3> QED
      BY <2>a, <3>1
  <2>5. CASE o.op = "add_dependency"
    <3>1. o.node \in Nodes /\ o.dep \in Nodes
      BY <2>1, <2>5 DEF PatchOp
    <3> QED
      BY <2>1, <2>5, <3>1, AddDependencyRefused DEF OpValid
  <2>6. CASE o.op = "remove_dependency"
    <3>1. o.node \in Nodes /\ g.status[o.node] # "passed"
      BY <2>1, <2>6 DEF PatchOp, OpValid
    <3>2. after.status = h.status /\ after.deps = [h.deps EXCEPT ![o.node] = @ \ {o.dep}]
      BY <2>a, <2>6 DEF after, ApplyOp, Graph
    <3>3. \A n \in Nodes : /\ after.deps[n] \subseteq h.deps[n]
                           /\ n # o.node => after.deps[n] = h.deps[n]
      BY <2>a, <3>1, <3>2 DEF Graph
    <3>4. g.nodes \subseteq Nodes
      BY DEF Graph
    <3> QED
      BY <2>a, <3>1, <3>2, <3>3, <3>4
  <2>7. CASE o.op = "skip_node"
    <3>1. o.node \in Nodes /\ g.status[o.node] # "passed"
      BY <2>1, <2>7 DEF PatchOp, OpValid
    <3>2. after.deps = h.deps /\ after.status = [h.status EXCEPT ![o.node] = "skipped"]
      BY <2>a, <2>7 DEF after, ApplyOp, SetStatus, Graph
    <3>3. \A n \in Nodes : after.status[n] = "passed" <=> h.status[n] = "passed"
      BY <2>a, <3>1, <3>2 DEF Graph
    <3> QED
      BY <2>a, <3>2, <3>3
  <2>8. CASE o.op = "unblock_node"
    <3>1. o.node \in Nodes /\ g.status[o.node] # "passed"
      BY <2>1, <2>8 DEF PatchOp, OpValid
    <3>2. after.deps = h.deps /\ after.status = [h.status EXCEPT ![o.node] = "pending"]
      BY <2>a, <2>8 DEF after, ApplyOp, SetStatus, Graph
    <3>3. \A n \in Nodes : after.status[n] = "passed" <=> h.status[n] = "passed"
      BY <2>a, <3>1, <3>2 DEF Graph
    <3> QED
      BY <2>a, <3>2, <3>3
  <2> QED
    BY <2>1, <2>3, <2>4, <2>5, <2>6, <2>7, <2>8 DEF PatchOp
<1>3. ApplyPatch(g, patch) \in Graph \cap Kept
  <2> HIDE DEF Kept
  <2> QED
    BY <1>1, <1>2, ApplyPatchKeeps
<1> QED
  BY <1>3

\* A node with one of these statuses is not taken up again: no scan returns
\* it, and no patch makes it pending.
Taken == {"running", "passed", "failed", "skipped"}

\* A patch unblocks blocked nodes only, and leaves or skips all others.
LEMMA PatchKeepsTaken ==
    ASSUME NEW g \in Graph, NEW patch \in Seq(PatchOp), PatchValid(g, patch)
    PROVE  \A n \in Nodes : g.status[n] \in Taken => ApplyPatch(g, patch).status[n] \in Taken
<1> DEFINE Keeps(h) == \A n \in Nodes : g.status[n] \in Taken => h.status[n] \in Taken
           Kept == {h \in Graph : Keeps(h)}
<1>1. g \in Kept
  OBVIOUS
<1>2. ASSUME NEW h \in Graph \cap Kept, NEW i \in 1..Len(patch) PROVE ApplyOp(h, patch[i]) \in Kept
  <2> DEFINE o == patch[i]
             after == ApplyOp(h, o)
  <2>1. o \in PatchOp /\ OpValid(g, o)
    BY DEF PatchValid
  <2>2. after \in Graph
    BY <2>1, ApplyOpType
  <2>a. h \in Graph /\ Keeps(h)
    OBVIOUS
  <2>b. SUFFICES Keeps(after)
    BY <2>2
  <2> HIDE DEF o, after, Kept
  <2>3. CASE o.op \in {"add_node", "update_node", "add_dependency", "remove_dependency"}
    <3>1. after.status = h.status
      BY <2>a, <2>3 DEF after, ApplyOp, Graph
    <3> QED
      BY <2>a, <3>1
  <2>4. CASE o.op = "skip_node"
    <3>1. after.status = [h.status EXCEPT ![o.node] = "skipped"]
      BY <2>a, <2>4 DEF after, ApplyOp, SetStatus, Graph
    <3> QED
      BY <2>a, <3>1 DEF Taken, Graph
  <2>5. CASE o.op = "unblock_node"
    <3>1. o.node \in Nodes /\ g.status[o.node] \notin Taken
      BY <2>1, <2>5 DEF PatchOp, OpValid, Taken
    <3>2. after.status = [h.status EXCEPT ![o.node] = "pending"]
      BY <2>a, <2>5 DEF after, ApplyOp, SetStatus, Graph
    <3> QED
      BY <2>a, <3>1, <3>2 DEF Graph
  <2> QED
    BY <2>1, <2>3, <2>4, <2>5 DEF PatchOp
<1>3. ApplyPatch(g, patch) \in Graph \cap Kept
  <2> HIDE DEF Kept
  <2> QED
    BY <1>1, <1>2, ApplyPatchKeeps
<1> QED
  BY <1>3
=============================================================================
