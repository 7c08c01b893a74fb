------------------------ MODULE ParallelLoopProofs ------------------------
(***************************************************************************)
(* Theorems about ParallelLoop, for every configuration, every number of   *)
(* threads, and any number of kills and restarts.  Where no batch is under *)
(* way the loop is AutoLoop's, and so are the lemmas about its steps.      *)
(***************************************************************************)
EXTENDS ParallelLoop, HistoryProofs, SequenceTheorems

----------------------------------------------------------------------------
(* Sets of node ids, and how many of them a batch takes. *)

\* A set of numbers up to N that is not empty has a greatest one.
LEMMA Greatest ==
    ASSUME NEW N \in Nat, NEW S, S \subseteq 1..N, S # {}
    PROVE  \E m \in S : \A n \in S : n <= m
<1> DEFINE P(k) == \A T \in SUBSET (1..k) : T # {} => \E m \in T : \A n \in T : n <= m
           K == {k \in Nat : P(k)}
<1>1. P(0)
  <2>1. 1..0 = {}
    OBVIOUS
  <2> QED
    BY <2>1
<1>2. ASSUME NEW k \in Nat, P(k) PROVE P(k+1)
  <2> SUFFICES ASSUME NEW T \in SUBSET (1..k+1), T # {}
               PROVE  \E m \in T : \A n \in T : n <= m
    OBVIOUS
  <2>1. CASE k+1 \in T
    BY <2>1
  <2>2. CASE k+1 \notin T
    <3>1. T \in SUBSET (1..k)
      BY <2>2
    <3> QED
      BY <1>2, <3>1
  <2> QED
    BY <2>1, <2>2
<1>3. 0 \in K /\ \A k \in Nat : k \in K => k+1 \in K
  <2> HIDE DEF P
  <2> QED
    BY <1>1, <1>2
<1>4. N \in K
  <2> HIDE DEF K
  <2> QED
    BY <1>3, SetInduction
<1>5. P(N)
  BY <1>4
<1> QED
  BY <1>5

\* A set of node ids is finite.
LEMMA SomeNodesFinite ==
    ASSUME NEW S, S \subseteq Nodes
    PROVE  IsFiniteSet(S) /\ Cardinality(S) \in Nat
<1>1. MaxNodes \in Int /\ 1 \in Int
  BY MaxNodesAssumption
<1>2. IsFiniteSet(Nodes)
  BY <1>1, FS_Interval DEF Nodes
<1>3. IsFiniteSet(S)
  BY <1>2, FS_Subset
<1> QED
  BY <1>3, FS_CardinalityType

\* A scan returns no more nodes than its limit.
LEMMA ScanWithinLimit ==
    ASSUME NEW g \in Graph, NEW maxRetries, NEW limit \in Nat, NEW exclude
    PROVE  /\ IsFiniteSet(NextRunnableNodes(g, maxRetries, limit, exclude))
           /\ Cardinality(NextRunnableNodes(g, maxRetries, limit, exclude)) <= limit
<1> DEFINE R == Runnable(g, maxRetries, exclude)
           D == NextRunnableNodes(g, maxRetries, limit, exclude)
           Before(n) == {m \in R : m < n}
<1>1. R \subseteq 1..MaxNodes /\ D \subseteq R /\ MaxNodes \in Nat
  BY MaxNodesAssumption DEF Runnable, NextRunnableNodes, Graph, Nodes
<1>2. IsFiniteSet(R) /\ IsFiniteSet(D)
  <2> HIDE DEF R, D
  <2> QED
    BY <1>1, SomeNodesFinite DEF Nodes
<1>3. \A n \in D : Cardinality(Before(n)) < limit
  BY DEF NextRunnableNodes, Scanned
<1> HIDE DEF R, D
<1>4. CASE D = {}
  BY <1>4, <1>2, FS_EmptySet DEF D
<1>5. CASE D # {}
  <2>1. PICK last \in D : \A n \in D : n <= last
    <3>1. D \subseteq 1..MaxNodes
      BY <1>1
    <3> QED
      BY <3>1, <1>5, <1>1, Greatest
  <2>2. IsFiniteSet(Before(last)) /\ Cardinality(Before(last)) \in Nat
    <3>1. Before(last) \subseteq Nodes
      BY <1>1 DEF Nodes
    <3> QED
      BY <3>1, SomeNodesFinite
  <2>3. D \subseteq Before(last) \cup {last}
    BY <2>1, <1>1
  <2>4. /\ IsFiniteSet(Before(last) \cup {last})
        /\ Cardinality(Before(last) \cup {last}) = Cardinality(Before(last)) + 1
    <3>1. last \notin Before(last)
      <4>1. last \in Nat
        BY <1>1
      <4> QED
        BY <4>1
    <3> HIDE DEF Before
    <3> QED
      BY <2>2, <3>1, FS_AddElement
  <2>5. Cardinality(D) <= Cardinality(Before(last)) + 1 /\ Cardinality(D) \in Nat
    BY <2>3, <2>4, <1>2, FS_Subset, FS_CardinalityType
  <2>6. Cardinality(Before(last)) < limit
    BY <2>1, <1>3
  <2>7. \A c, b \in Nat : c <= b + 1 /\ b < limit => c <= limit
    OBVIOUS
  <2>8. Cardinality(D) <= limit
    BY <2>2, <2>5, <2>6, <2>7
  <2> QED
    BY <2>8, <1>2 DEF D
<1> QED
  BY <1>4, <1>5

\* What the number of running nodes leaves of the limit.
LEMMA LimitType ==
    ASSUME running \in [Nodes -> Nat]
    PROVE  /\ IsFiniteSet(Running) /\ Cardinality(Running) \in Nat
           /\ Limit \in Nat
           /\ Limit # 0 => Cardinality(Running) + Limit = MaxParallel
<1>1. IsFiniteSet(Running) /\ Cardinality(Running) \in Nat
  BY SomeNodesFinite DEF Running
<1>2. MaxParallel \in Nat
  BY ParallelAssumption
<1>3. Limit = IF Cardinality(Running) < MaxParallel THEN MaxParallel - Cardinality(Running) ELSE 0
  BY DEF Limit
<1> QED
  BY <1>1, <1>2, <1>3

\* The places of a batch are the numbers up to its size, each taken once.
LEMMA PlaceIsBijection ==
    ASSUME Discovered \subseteq Nodes
    PROVE  LET size == Cardinality(Discovered)
           IN  /\ size \in Nat
               /\ \A n \in Discovered : Place(n) \in 1..size
               /\ \A m, n \in Discovered : Place(m) = Place(n) => m = n
               /\ \A k \in 1..size : \E n \in Discovered : Place(n) = k
<1> DEFINE D == Discovered
           size == Cardinality(D)
           UpTo(n) == {m \in D : m <= n}
           place == [n \in D |-> Place(n)]
<1>1. IsFiniteSet(D) /\ size \in Nat /\ D \subseteq Nat
  <2>1. D \subseteq Nat
    BY DEF Nodes
  <2> QED
    BY <2>1, SomeNodesFinite
<1>2. \A n \in D : Place(n) = Cardinality(UpTo(n))
  BY DEF Place
<1> HIDE DEF D
<1>3. ASSUME NEW n \in D
      PROVE  IsFiniteSet(UpTo(n)) /\ Cardinality(UpTo(n)) \in 1..size
  <2>1. UpTo(n) \subseteq D /\ n \in UpTo(n)
    BY <1>1
  <2>2. IsFiniteSet(UpTo(n)) /\ Cardinality(UpTo(n)) \in Nat /\ Cardinality(UpTo(n)) <= size
    BY <1>1, <2>1, FS_Subset, FS_CardinalityType
  <2>3. Cardinality(UpTo(n)) # 0
    BY <2>1, <2>2, FS_EmptySet
  <2> HIDE DEF UpTo, size
  <2> QED
    BY <2>2, <2>3, <1>1
<1>4. ASSUME NEW m \in D, NEW n \in D, m < n
      PROVE  Cardinality(UpTo(m)) # Cardinality(UpTo(n))
  <2>1. m \in Nat /\ n \in Nat
    BY <1>1
  <2>2. UpTo(m) \subseteq UpTo(n) /\ n \in UpTo(n) /\ n \notin UpTo(m)
    <3>1. \A k \in Nat : k <= m => k <= n
      BY <1>4, <2>1
    <3>2. n <= n /\ ~(n <= m)
      BY <1>4, <2>1
    <3> QED
      BY <3>1, <3>2, <1>1
  <2>3. IsFiniteSet(UpTo(n))
    BY <1>3
  <2>4. \A A, B : IsFiniteSet(B) /\ A \subseteq B /\ A # B => Cardinality(A) # Cardinality(B)
    BY FS_Subset
  <2> HIDE DEF UpTo
  <2> QED
    BY <2>2, <2>3, <2>4
<1>5. \A m, n \in D : Place(m) = Place(n) => m = n
  <2> SUFFICES ASSUME NEW m \in D, NEW n \in D, m # n PROVE Place(m) # Place(n)
    OBVIOUS
  <2>1. m < n \/ n < m
    BY <1>1
  <2> HIDE DEF UpTo
  <2> QED
    BY <2>1, <1>2, <1>4
<1>6. \A n \in D : Place(n) \in 1..size
  <2> HIDE DEF UpTo, size
  <2> QED
    BY <1>2, <1>3
<1>7. place \in Injection(D, 1..size)
  BY <1>5, <1>6 DEF Injection, IsInjective
<1>8. IsFiniteSet(1..size) /\ Cardinality(1..size) = size
  <2> HIDE DEF size
  <2>1. size \in Int /\ 1 \in Int
    BY <1>1
  <2>2. IsFiniteSet(1..size) /\ Cardinality(1..size) = IF 1 > size THEN 0 ELSE size-1+1
    BY <2>1, FS_Interval
  <2> QED
    BY <1>1, <2>2
<1>9. place \in Surjection(D, 1..size)
  <2> HIDE DEF place
  <2> QED
    BY <1>7, <1>8, FS_Injection
<1>10. \A k \in 1..size : \E n \in D : Place(n) = k
  BY <1>9 DEF Surjection
<1> QED
  BY <1>1, <1>5, <1>6, <1>10 DEF D

----------------------------------------------------------------------------
(* The invariant: what the threads, the registry and the queue rely on.    *)

Batching == {"batch", "drain", "drainMerged"}

\* Threads exist in a batch only; the one that works holds the lock, and its
\* copy is what state.json holds.
Pool ==
    /\ pc # "batch" => \A n \in Nodes : worker[n] = Idle
    /\ \A n \in Nodes : worker[n].stage \in Working => worker[n].state = Saved
    /\ \A m, n \in Nodes : worker[m].stage \in Working /\ worker[n].stage \in Working => m = n

\* What is registered is an attempt of its node.
Registered ==
    /\ Cardinality(Running) <= MaxParallel
    /\ \A n \in Nodes : running[n] # 0 =>
        running[n] \in 1..Len(past)+1 /\ History[running[n]].node = n
    /\ \A n \in Nodes : worker[n].stage # "idle" => running[n] # 0
    /\ att.iter = 0 => \A n \in Nodes : running[n] = 0

\* The main thread does not wait for more of the queue than there is, and what
\* it has merged is an attempt.
Drains ==
    /\ pc \in {"drain", "drainMerged"} => pending <= Len(queue)
    /\ pc = "drainMerged" => pending > 0 /\ Found # 0

ParInv == ParTypeOK /\ NodeChosen /\ Replans /\ Pool /\ Registered /\ Drains

----------------------------------------------------------------------------
(* Copies of the state, and what saving one does.                          *)

\* The history, and state.json as one value.
LEMMA SavedFacts ==
    ASSUME ParTypeOK
    PROVE  /\ History \in Seq(Attempt) /\ Len(History) = Len(past) + 1 /\ Len(past) \in Nat
           /\ DOMAIN History = 1..Len(past)+1
           /\ History[Len(past)+1] = att /\ \A i \in 1..Len(past) : History[i] = past[i]
           /\ \A i \in 1..Len(past)+1 : History[i] \in Attempt
           /\ Saved.status = status /\ Saved.iteration = iteration /\ Saved.graph = graph
           /\ Saved.history = History /\ Saved.running = running /\ Saved.queue = queue
           /\ graph \in Graph /\ running \in [Nodes -> Nat] /\ queue \in Seq(Nodes)
           /\ iteration \in Nat
<1>1. past \in Seq(Attempt) /\ att \in Attempt /\ Saved \in Copies
  BY DEF ParTypeOK
<1>2. /\ Saved.status = status /\ Saved.iteration = iteration /\ Saved.graph = graph
      /\ Saved.history = History /\ Saved.running = running /\ Saved.queue = queue
  BY DEF Saved, History
<1>3. /\ graph \in Graph /\ running \in [Nodes -> Nat] /\ queue \in Seq(Nodes)
      /\ iteration \in Nat
  BY <1>1, <1>2 DEF Copies
<1>4. /\ History \in Seq(Attempt) /\ Len(History) = Len(past) + 1 /\ Len(past) \in Nat
      /\ DOMAIN History = 1..Len(past)+1
      /\ History[Len(past)+1] = att /\ \A i \in 1..Len(past) : History[i] = past[i]
      /\ \A i \in 1..Len(past)+1 : History[i] \in Attempt
  BY <1>1 DEF History
<1> QED
  BY <1>2, <1>3, <1>4

\* After a save state.json holds what was saved.
LEMMA SaveStores ==
    ASSUME NEW s \in Copies, s.history # <<>>, Save(s)
    PROVE  /\ Saved' = s /\ History' = s.history
           /\ past' \in Seq(Attempt) /\ att' \in Attempt
           /\ Len(past') + 1 = Len(s.history) /\ Len(past') \in Nat
           /\ att' = s.history[Len(s.history)]
           /\ status' = s.status /\ iteration' = s.iteration /\ graph' = s.graph
           /\ running' = s.running /\ queue' = s.queue
<1> DEFINE h == s.history
<1>1. h \in Seq(Attempt) /\ h # <<>>
  BY DEF Copies
<1>2. past' = SubSeq(h, 1, Len(h) - 1) /\ att' = h[Len(h)]
  BY DEF Save
<1>s. /\ status' = s.status /\ iteration' = s.iteration /\ graph' = s.graph
      /\ running' = s.running /\ queue' = s.queue
  BY DEF Save
<1>r. s = [status |-> s.status, iteration |-> s.iteration, graph |-> s.graph,
           history |-> h, running |-> s.running, queue |-> s.queue]
  BY DEF Copies
<1> HIDE DEF h
<1>3. Len(h) \in Nat /\ Len(h) > 0
  BY <1>1
<1>4. /\ past' \in Seq(Attempt) /\ att' \in Attempt /\ Len(past') = Len(h) - 1
      /\ \A i \in 1..Len(h)-1 : past'[i] = h[i]
  <2> DEFINE k == Len(h) - 1
  <2>1. k \in Int /\ 1 \in Int /\ k \in Nat /\ \A i \in 1..k : h[i] \in Attempt
    BY <1>1, <1>3
  <2>2. past' = SubSeq(h, 1, k)
    BY <1>2
  <2> HIDE DEF k
  <2>3. /\ past' \in Seq(Attempt) /\ Len(past') = IF 1 <= k THEN k-1+1 ELSE 0
        /\ \A i \in 1..k-1+1 : past'[i] = h[1+i-1]
    BY <2>1, <2>2, SubSeqProperties
  <2>4. Len(past') = k /\ \A i \in 1..k : past'[i] = h[i]
    BY <2>1, <2>3
  <2>5. att' \in Attempt
    BY <1>1, <1>2, <1>3
  <2> QED
    BY <2>3, <2>4, <2>5 DEF k
<1>5. Append(past', att') = h
  <2> DEFINE t == Append(past', att')
  <2>1. t \in Seq(Attempt) /\ Len(t) = Len(h) /\ \A i \in 1..Len(t) : t[i] = h[i]
    BY <1>2, <1>3, <1>4
  <2> HIDE DEF t
  <2>2. t = h
    BY <2>1, <1>1, SeqEqual
  <2> QED
    BY <2>2 DEF t
<1>6. Saved' = s /\ History' = h
  BY <1>5, <1>s, <1>r DEF Saved, History
<1> QED
  BY <1>2, <1>3, <1>4, <1>6, <1>s DEF h

\* A state a batch may save: it has the attempts that are saved now, with their
\* nodes, and no replan is under way in it.
Tidy(s) ==
    /\ s \in Copies /\ s.graph.nodes = graph.nodes
    /\ Len(s.history) = Len(past) + 1
    /\ \A i \in 1..Len(past)+1 :
        s.history[i].node = History[i].node /\ s.history[i].iter = History[i].iter
    /\ s.status # "replanning" /\ s.history[Len(past)+1].phase # "replanning"

\* What is saved in a batch is such a state.
LEMMA SavedIsTidy ==
    ASSUME ParTypeOK, Replans, pc \in Batching
    PROVE  Tidy(Saved)
<1>1. status # "replanning" /\ att.phase # "replanning"
  BY DEF Replans, Batching
<1> QED
  BY <1>1, SavedFacts DEF Tidy, ParTypeOK

\* A save of one keeps the history's nodes and the loop out of a replan.
LEMMA TidySave ==
    ASSUME ParInv, pc \in Batching, pc' \in Batching, NEW s, Tidy(s), Save(s)
    PROVE  /\ Saved' = s /\ Saved' \in Copies /\ past' \in Seq(Attempt) /\ att' \in Attempt
           /\ Len(past') = Len(past)
           /\ \A i \in 1..Len(past)+1 : History'[i].node = History[i].node
           /\ att'.iter = att.iter
           /\ NodeChosen' /\ Replans'
           /\ status' = s.status /\ graph' = s.graph /\ running' = s.running /\ queue' = s.queue
<1>1. s \in Copies /\ s.history # <<>> /\ Len(past) \in Nat
  <2>1. ParTypeOK
    BY DEF ParInv
  <2> QED
    BY <2>1, SavedFacts DEF Tidy
<1>2. /\ Saved' = s /\ History' = s.history
      /\ past' \in Seq(Attempt) /\ att' \in Attempt
      /\ Len(past') + 1 = Len(s.history) /\ Len(past') \in Nat
      /\ att' = s.history[Len(s.history)]
      /\ status' = s.status /\ graph' = s.graph
      /\ running' = s.running /\ queue' = s.queue
  BY <1>1, SaveStores
<1>3. /\ Len(past') = Len(past)
      /\ \A i \in 1..Len(past)+1 : History'[i].node = History[i].node
      /\ att'.node = att.node /\ att'.iter = att.iter
  <2>1. History[Len(past)+1] = att
    BY SavedFacts DEF ParInv
  <2> QED
    BY <1>1, <1>2, <2>1 DEF Tidy
<1>4. att.node \in graph.nodes /\ att.node # 0
  BY DEF ParInv, NodeChosen, Batching
<1>5. NodeChosen'
  BY <1>2, <1>3, <1>4 DEF NodeChosen, Tidy
<1>6. Replans'
  <2>1. status' # "replanning" /\ att'.phase # "replanning"
    BY <1>1, <1>2 DEF Tidy
  <2> QED
    BY <2>1 DEF Replans, Batching
<1> QED
  BY <1>1, <1>2, <1>3, <1>5, <1>6

----------------------------------------------------------------------------
(* What a thread works on, and what it saves of it.                        *)

\* The thread that works has the state as its copy, with its attempt in it.
LEMMA OwnFacts ==
    ASSUME ParInv, NEW n \in Nodes, worker[n].stage \in Working
    PROVE  /\ worker[n].state = Saved /\ pc = "batch"
           /\ Index(n) \in 1..Len(past)+1 /\ Own(n) = History[Index(n)]
           /\ Own(n) \in Attempt /\ Own(n).node = n
<1>1. worker[n].state = Saved /\ pc = "batch" /\ running[n] # 0
  <2>1. worker[n].stage # "idle"
    BY DEF Working
  <2>2. Idle.stage = "idle"
    BY DEF Idle
  <2> QED
    BY <2>1, <2>2 DEF ParInv, Pool, Registered
<1>2. running[n] \in 1..Len(past)+1 /\ History[running[n]].node = n
  BY <1>1 DEF ParInv, Registered
<1>3. ParTypeOK
  BY DEF ParInv
<1> QED
  BY <1>1, <1>2, <1>3, SavedFacts DEF Index, Own

\* What a thread may make of its attempt.
Proper(n, a) ==
    /\ a \in Attempt /\ a.node = n /\ a.iter = Own(n).iter
    /\ a.phase # "replanning" \/ a.phase = Own(n).phase

\* Fields it sets.
LEMMA ProperUpdates ==
    ASSUME NEW n, NEW a, Proper(n, a)
    PROVE  /\ \A phase \in Phases \ {"replanning"} : Proper(n, [a EXCEPT !.phase = phase])
           /\ \A end \in {"none", "ok", "error"} : Proper(n, [a EXCEPT !.exit = end])
           /\ \A test \in {"none", "skipped"} \cup TestEnds : Proper(n, [a EXCEPT !.test = test])
           /\ \A d \in Decisions : Proper(n, [a EXCEPT !.decision = d])
           /\ \A ftype \in {"none", "patch_not_captured", "other"} :
                  Proper(n, [a EXCEPT !.ftype = ftype])
<1> DEFINE phase0 == Own(n).phase
           iter0 == Own(n).iter
           Good(b) == /\ b \in Attempt /\ b.node = n /\ b.iter = iter0
                      /\ b.phase # "replanning" \/ b.phase = phase0
<1>2. \A b : Proper(n, b) <=> Good(b)
  BY DEF Proper
<1>1. Good(a)
  BY <1>2
<1> HIDE DEF phase0, iter0
<1>3. \A phase \in Phases \ {"replanning"} : Proper(n, [a EXCEPT !.phase = phase])
  BY <1>1, <1>2 DEF Attempt
<1>4. \A end \in {"none", "ok", "error"} : Proper(n, [a EXCEPT !.exit = end])
  BY <1>1, <1>2 DEF Attempt
<1>5. \A test \in {"none", "skipped"} \cup TestEnds : Proper(n, [a EXCEPT !.test = test])
  BY <1>1, <1>2 DEF Attempt
<1>6. \A d \in Decisions : Proper(n, [a EXCEPT !.decision = d])
  BY <1>1, <1>2 DEF Attempt
<1>7. \A ftype \in {"none", "patch_not_captured", "other"} : Proper(n, [a EXCEPT !.ftype = ftype])
  BY <1>1, <1>2 DEF Attempt
<1> QED
  BY <1>3, <1>4, <1>5, <1>6, <1>7

\* Its attempt may be changed so.
LEMMA WithOwnTidy ==
    ASSUME ParInv, NEW n \in Nodes, worker[n].stage \in Working, NEW a, Proper(n, a)
    PROVE  /\ Tidy(WithOwn(n, a))
           /\ WithOwn(n, a).running = running /\ WithOwn(n, a).queue = queue
           /\ WithOwn(n, a).graph = graph /\ WithOwn(n, a).status = status
           /\ \A i \in 1..Len(past)+1 :
                  WithOwn(n, a).history[i] = IF i = running[n] THEN a ELSE History[i]
<1> DEFINE h == [History EXCEPT ![Index(n)] = a]
           s == WithOwn(n, a)
<1>1. /\ ParTypeOK /\ Replans /\ worker[n].state = Saved /\ pc = "batch"
      /\ Index(n) \in 1..Len(past)+1 /\ History[Index(n)].node = n
  BY OwnFacts DEF ParInv
<1>a. a \in Attempt /\ a.node = n /\ a.iter = History[Index(n)].iter
  BY OwnFacts DEF Proper
<1>p. Index(n) = Len(past)+1 => a.phase # "replanning"
  <2>1. Index(n) = Len(past)+1 => Own(n) = att
    BY OwnFacts, SavedFacts, <1>1
  <2>2. att.phase # "replanning"
    BY <1>1 DEF Replans
  <2> QED
    BY <2>1, <2>2 DEF Proper
<1>2. Tidy(Saved) /\ Saved \in Copies
  BY <1>1, SavedIsTidy DEF Batching, ParTypeOK
<1>3. /\ History \in Seq(Attempt) /\ Len(History) = Len(past) + 1 /\ Len(past) \in Nat
      /\ Saved.history = History
  BY <1>1, SavedFacts
<1>4. /\ h \in Seq(Attempt) /\ Len(h) = Len(past) + 1
      /\ \A i \in 1..Len(past)+1 : h[i] = IF i = Index(n) THEN a ELSE History[i]
  BY <1>1, <1>3, <1>a, ExceptSeq
<1>5. s = [Saved EXCEPT !.history = h]
  BY <1>1, <1>3 DEF WithOwn, Saved
<1>6. /\ s \in Copies /\ s.history = h
      /\ s.status = Saved.status /\ s.graph = Saved.graph
      /\ s.running = Saved.running /\ s.queue = Saved.queue
  <2> HIDE DEF h, s
  <2> QED
    BY <1>2, <1>4, <1>5 DEF Copies
<1>7. /\ Saved.running = running /\ Saved.queue = queue /\ Saved.graph = graph
      /\ Saved.status = status
  BY <1>1, SavedFacts
<1>8. Tidy(s)
  <2> HIDE DEF h, s
  <2> QED
    BY <1>1, <1>2, <1>3, <1>4, <1>6, <1>a, <1>p DEF Tidy
<1>9. Index(n) = running[n]
  BY <1>1, <1>7 DEF Index
<1> HIDE DEF h
<1> QED
  BY <1>4, <1>6, <1>7, <1>8, <1>9

\* A failure of any attempt leaves such a state.
LEMMA FailedTidy ==
    ASSUME ParTypeOK, NEW s, Tidy(s), NEW i \in 1..Len(past)+1
    PROVE  /\ Tidy(Failed(s, i))
           /\ Failed(s, i).running = s.running /\ Failed(s, i).queue = s.queue
           /\ Failed(s, i).status = "failed" /\ Failed(s, i).graph.deps = s.graph.deps
           /\ \A m \in Nodes : \/ Failed(s, i).graph.status[m] = s.graph.status[m]
                               \/ m = s.history[i].node /\ Failed(s, i).graph.status[m] = "failed"
           /\ \A j \in 1..Len(past)+1 :
                  Failed(s, i).history[j] =
                      IF j = i THEN [s.history[i] EXCEPT !.phase = "failed"] ELSE s.history[j]
<1> DEFINE h == [s.history EXCEPT ![i] = [s.history[i] EXCEPT !.phase = "failed"]]
           node == s.history[i].node
           g == IF node \in s.graph.nodes THEN SetStatus(s.graph, node, "failed") ELSE s.graph
           f == Failed(s, i)
<1>1. s \in Copies /\ s.history \in Seq(Attempt) /\ s.graph \in Graph
      /\ Len(s.history) = Len(past) + 1 /\ Len(past) \in Nat
  BY SavedFacts DEF Tidy, Copies
<1>2. s.history[i] \in Attempt
  BY <1>1
<1>3. /\ [s.history[i] EXCEPT !.phase = "failed"] \in Attempt
      /\ [s.history[i] EXCEPT !.phase = "failed"].node = s.history[i].node
      /\ [s.history[i] EXCEPT !.phase = "failed"].iter = s.history[i].iter
      /\ [s.history[i] EXCEPT !.phase = "failed"].phase = "failed"
  BY <1>2 DEF Attempt, Phases
<1>4. /\ h \in Seq(Attempt) /\ Len(h) = Len(past) + 1
      /\ \A j \in 1..Len(past)+1 : h[j].node = s.history[j].node /\ h[j].iter = s.history[j].iter
      /\ \A j \in 1..Len(past)+1 : h[j].phase \in {"failed", s.history[j].phase}
      /\ \A j \in 1..Len(past)+1 :
             h[j] = IF j = i THEN [s.history[i] EXCEPT !.phase = "failed"] ELSE s.history[j]
  <2> DEFINE a == [s.history[i] EXCEPT !.phase = "failed"]
  <2>1. /\ a \in Attempt /\ a.node = s.history[i].node /\ a.iter = s.history[i].iter
        /\ a.phase = "failed"
    BY <1>3
  <2> HIDE DEF a
  <2>2. /\ [s.history EXCEPT ![i] = a] \in Seq(Attempt)
        /\ Len([s.history EXCEPT ![i] = a]) = Len(s.history)
        /\ \A j \in 1..Len(s.history) :
              [s.history EXCEPT ![i] = a][j] = IF j = i THEN a ELSE s.history[j]
    BY <1>1, <2>1, ExceptSeq
  <2>3. h = [s.history EXCEPT ![i] = a]
    BY DEF a
  <2> HIDE DEF h
  <2>4. \A j \in 1..Len(past)+1 : h[j] = IF j = i THEN a ELSE s.history[j]
    BY <1>1, <2>2, <2>3
  <2>5. \A j \in 1..Len(past)+1 : h[j] = IF j = i THEN [s.history[i] EXCEPT !.phase = "failed"]
                                  ELSE s.history[j]
    BY <2>4 DEF a
  <2> QED
    BY <1>1, <2>1, <2>2, <2>3, <2>5
<1>5. g \in Graph /\ g.nodes = s.graph.nodes
  BY <1>1, SetStatusType DEF NodeStatus
<1>g. /\ g.deps = s.graph.deps
      /\ \A m \in Nodes : \/ g.status[m] = s.graph.status[m]
                          \/ m = node /\ g.status[m] = "failed"
  <2>1. CASE node \in s.graph.nodes
    <3>1. node \in Nodes
      BY <1>1, <2>1 DEF Graph
    <3> QED
      BY <1>1, <2>1, <3>1, SetStatusKeeps
  <2>2. CASE node \notin s.graph.nodes
    BY <2>2
  <2> QED
    BY <2>1, <2>2
<1>6. f = [status |-> "failed", iteration |-> s.iteration, graph |-> g, history |-> h,
           running |-> s.running, queue |-> s.queue]
  <2>1. s = [status |-> s.status, iteration |-> s.iteration, graph |-> s.graph,
             history |-> s.history, running |-> s.running, queue |-> s.queue]
    BY <1>1 DEF Copies
  <2>2. f = [s EXCEPT !.history = [s.history EXCEPT ![i] = [s.history[i] EXCEPT !.phase = "failed"]],
                      !.status = "failed", !.graph = g]
    BY DEF Failed
  <2> HIDE DEF f, g, node
  <2> QED
    BY <2>1, <2>2
<1>7. f \in Copies
  <2> HIDE DEF g, h, f
  <2> QED
    BY <1>1, <1>4, <1>5, <1>6 DEF Copies
<1>8. Tidy(f)
  <2> HIDE DEF g, h
  <2>1. /\ f.graph = g /\ f.history = h /\ f.status = "failed"
    BY <1>6
  <2> HIDE DEF f
  <2>2. h[Len(past)+1].phase # "replanning"
    BY <1>1, <1>4 DEF Tidy
  <2> QED
    BY <1>1, <1>4, <1>5, <1>7, <2>1, <2>2 DEF Tidy
<1>9. /\ f.graph = g /\ f.history = h /\ f.status = "failed"
      /\ f.running = s.running /\ f.queue = s.queue
  <2> HIDE DEF g, h, f
  <2> QED
    BY <1>6
<1> HIDE DEF g, h
<1> QED
  BY <1>4, <1>8, <1>9, <1>g

----------------------------------------------------------------------------
(* A step of a thread: it saves its copy, or its result and ends.          *)

Thread == [stage : {"idle", "todo"} \cup Working \cup Results, state : Copies, wrote : Contents]

\* A copy of nothing is a copy.
LEMMA IdleType == Idle \in Thread /\ Idle.stage = "idle" /\ Idle.stage \notin Working
<1>1. EmptyGraph \in Graph
  BY EmptyGraphType
<1>2. <<>> \in Seq(Attempt) /\ <<>> \in Seq(Nodes) /\ [n \in Nodes |-> 0] \in [Nodes -> Nat]
  OBVIOUS
<1>3. NoCopy \in Copies
  BY <1>1, <1>2 DEF NoCopy, Copies
<1> QED
  BY <1>3 DEF Idle, Thread, Contents, Working

\* What a step of the thread for n, which saves s, may change.
Works(n, s) ==
    /\ pc = "batch" /\ worker[n].stage # "idle"
    /\ \A m \in Nodes \ {n} : worker[m].stage \notin Working
    /\ Tidy(s) /\ s.running = running /\ s.queue = queue /\ Save(s)
    /\ \E t \in Thread :
        /\ worker' = [worker EXCEPT ![n] = t]
        /\ t.stage \in Working \cup Results
        /\ t.stage \in Working => t.state = s
    /\ content' \in Contents /\ fresh' \subseteq {"test", "review"} /\ calls' \in Nat
    /\ UNCHANGED <<base, merges, pc, mem, starts, pending>>

\* Such a step leaves the pool and the registry in order.
LEMMA WorksKeeps ==
    ASSUME ParInv, NEW n \in Nodes, NEW s, Works(n, s)
    PROVE  ParInv'
<1>1. /\ pc = "batch" /\ pc' = "batch" /\ worker[n].stage # "idle"
      /\ \A m \in Nodes \ {n} : worker[m].stage \notin Working
      /\ Tidy(s) /\ s.running = running /\ s.queue = queue /\ Save(s)
      /\ content' \in Contents /\ fresh' \subseteq {"test", "review"} /\ calls' \in Nat
      /\ UNCHANGED <<base, merges, mem, starts, pending>>
  BY DEF Works
<1>2. PICK t \in Thread : /\ worker' = [worker EXCEPT ![n] = t]
                          /\ t.stage \in Working \cup Results
                          /\ t.stage \in Working => t.state = s
  BY DEF Works
<1>3. worker \in [Nodes -> Thread] /\ ParTypeOK /\ Pool /\ Registered
  BY DEF ParInv, ParTypeOK, Thread
<1>4. /\ Saved' = s /\ Saved' \in Copies /\ past' \in Seq(Attempt) /\ att' \in Attempt
      /\ Len(past') = Len(past)
      /\ \A i \in 1..Len(past)+1 : History'[i].node = History[i].node
      /\ att'.iter = att.iter /\ NodeChosen' /\ Replans'
      /\ running' = running
  BY <1>1, TidySave DEF Batching
<1>5. ParTypeOK'
  <2>1. worker' \in [Nodes -> Thread]
    BY <1>2, <1>3
  <2> QED
    BY <1>1, <1>3, <1>4, <2>1 DEF ParTypeOK, Thread
<1>6. \A m \in Nodes : worker'[m] = IF m = n THEN t ELSE worker[m]
  BY <1>2, <1>3
<1>7. Pool'
  BY <1>1, <1>2, <1>4, <1>6 DEF Pool
<1>8. Registered'
  <2>1. Running' = Running
    BY <1>4 DEF Running
  <2> QED
    BY <1>1, <1>3, <1>4, <1>6, <2>1 DEF Registered
<1>9. Drains'
  BY <1>1 DEF Drains
<1> QED
  BY <1>4, <1>5, <1>7, <1>8, <1>9 DEF ParInv

\* A thread that saves and goes on to another stage.
LEMMA AdvanceWorks ==
    ASSUME ParInv, NEW n \in Nodes, pc = "batch", worker[n].stage # "idle",
           \A m \in Nodes \ {n} : worker[m].stage \notin Working,
           NEW stage \in Working, NEW s, Tidy(s), s.running = running, s.queue = queue,
           Advance(n, stage, s),
           content' \in Contents, fresh' \subseteq {"test", "review"}, calls' \in Nat,
           UNCHANGED <<base, merges>>
    PROVE  Works(n, s) /\ worker'[n].stage = stage
<1> DEFINE t == [stage |-> stage, state |-> s, wrote |-> worker[n].wrote]
<1>1. worker \in [Nodes -> Thread] /\ s \in Copies
  BY DEF ParInv, ParTypeOK, Thread, Tidy
<1>2. t \in Thread /\ t.stage = stage /\ t.state = s
  BY <1>1 DEF Thread
<1>3. worker' = [worker EXCEPT ![n] = t]
  <2> DEFINE w == [worker EXCEPT ![n] = [worker[n] EXCEPT !.stage = stage]]
  <2>1. worker' = [w EXCEPT ![n] = [w[n] EXCEPT !.state = s]]
    BY DEF Advance
  <2>2. worker[n] \in Thread /\ w[n] = [worker[n] EXCEPT !.stage = stage]
    BY <1>1
  <2>3. [w[n] EXCEPT !.state = s] = t
    BY <2>2 DEF Thread
  <2> HIDE DEF t
  <2>4. worker' = [w EXCEPT ![n] = t]
    BY <2>1, <2>3
  <2> QED
    BY <1>1, <2>4
<1> HIDE DEF t
<1>4. worker'[n].stage = stage
  BY <1>1, <1>2, <1>3
<1> QED
  BY <1>2, <1>3, <1>4 DEF Works, Advance

\* A thread that saves and ends.
LEMMA FinishWorks ==
    ASSUME ParInv, NEW n \in Nodes, pc = "batch", worker[n].stage # "idle",
           \A m \in Nodes \ {n} : worker[m].stage \notin Working,
           NEW result \in Results, NEW s, Tidy(s), s.running = running, s.queue = queue,
           Finish(n, result, s),
           content' \in Contents, fresh' \subseteq {"test", "review"}, calls' \in Nat,
           UNCHANGED <<base, merges>>
    PROVE  Works(n, s) /\ worker'[n].stage = result
<1> DEFINE t == [Idle EXCEPT !.stage = result]
<1>1. t \in Thread /\ t.stage = result /\ result \notin Working
  BY IdleType DEF Thread, Results, Working
<1>2. worker' = [worker EXCEPT ![n] = t]
  BY DEF Finish
<1> HIDE DEF t
<1>3. worker \in [Nodes -> Thread]
  BY DEF ParInv, ParTypeOK, Thread
<1>4. worker'[n].stage = result
  BY <1>1, <1>2, <1>3
<1> QED
  BY <1>1, <1>2, <1>4 DEF Works, Finish

\* A thread in its stages: what it has, and what it may save.
LEMMA WorkingFacts ==
    ASSUME ParInv, NEW n \in Nodes, worker[n].stage \in Working
    PROVE  /\ pc = "batch" /\ worker[n].stage # "idle" /\ Proper(n, Own(n))
           /\ \A m \in Nodes \ {n} : worker[m].stage \notin Working
           /\ \A a : Proper(n, a) =>
                  LET s == WithOwn(n, a)
                  IN  Tidy(s) /\ s.running = running /\ s.queue = queue
           /\ Tidy(worker[n].state)
           /\ worker[n].state.running = running /\ worker[n].state.queue = queue
           /\ content \in Contents /\ fresh \subseteq {"test", "review"} /\ calls \in Nat
<1>1. /\ pc = "batch" /\ worker[n].state = Saved
      /\ Own(n) \in Attempt /\ Own(n).node = n
  BY OwnFacts
<1>2. worker[n].stage # "idle"
  BY DEF Working
<1>3. \A m \in Nodes \ {n} : worker[m].stage \notin Working
  BY DEF ParInv, Pool
<1>4. /\ Tidy(Saved) /\ Saved.running = running /\ Saved.queue = queue
  BY <1>1, SavedIsTidy, SavedFacts DEF ParInv, Batching
<1>5. /\ content \in Contents /\ fresh \subseteq {"test", "review"} /\ calls \in Nat
  BY DEF ParInv, ParTypeOK
<1> QED
  BY <1>1, <1>2, <1>3, <1>4, <1>5, WithOwnTidy DEF Proper

----------------------------------------------------------------------------
(* What a step of a thread makes of the attempts and of the graph.         *)

\* The attempt was approved.
IsSettled(a) == a.phase \in {"approved", "merged"}

\* The stages a thread reaches with an implementer that succeeded.
Implemented == {"test", "testRun", "review", "reviewRun"}

\* A thread changes its own attempt, which keeps its base commit and has a
\* verdict only when the thread ends with one, and the status of its own node;
\* a timeout marks the last attempt, and the node of that, as failed too.
Turns(n, s) ==
    LET a  == History[running[n]]
        b  == s.history[running[n]]
        to == worker'[n].stage
    IN  /\ \A i \in 1..Len(past)+1 : i # running[n] =>
            \/ s.history[i] = History[i]
            \/ /\ i = Len(past)+1 /\ worker[n].stage = "implTimedOut"
               /\ s.history[i] = [History[i] EXCEPT !.phase = "failed"]
        /\ b.base = a.base /\ b.mergeErr = a.mergeErr
        /\ \/ /\ to \in Working \cup {"raised"}
              /\ b.decision = a.decision /\ (IsSettled(b) => IsSettled(a))
           \/ /\ to = "approved" /\ worker[n].stage = "reviewRun"
              /\ b.decision = "approve" /\ b.phase = "approved"
              /\ b.exit = a.exit /\ b.ftype = "none"
           \/ /\ to = "ended" /\ worker[n].stage = "reviewRun"
              /\ b.decision \notin {"none", "approve"} /\ b.phase = "rejected"
        /\ worker[n].stage \in Working \cup {"todo"}
        /\ to \in Implemented =>
            b.exit = "ok" \/ (worker[n].stage \in Implemented /\ b.exit = a.exit)
        /\ s.graph.deps = graph.deps
        /\ \A m \in Nodes :
            \/ s.graph.status[m] = graph.status[m]
            \/ m \in {n, att.node} /\ s.graph.status[m] \in {"running", "failed"}
        /\ worker[n].stage = "todo" => s.graph.status[n] = "running"
        /\ s.status \in {status, "running", "failed"}

\* What a thread makes of its attempt without a verdict.
Unjudged(n, a) ==
    /\ Proper(n, a)
    /\ a.base = Own(n).base /\ a.mergeErr = Own(n).mergeErr
    /\ a.decision = Own(n).decision /\ (IsSettled(a) => IsSettled(Own(n)))

\* Fields it sets.
LEMMA UnjudgedUpdates ==
    ASSUME NEW n, NEW a, Unjudged(n, a)
    PROVE  /\ \A phase \in {"worktree_created", "executing", "testing", "reviewing"} :
                  LET b == [a EXCEPT !.phase = phase]
                  IN  Unjudged(n, b) /\ b.exit = a.exit
           /\ \A end \in {"ok", "error"} :
                  LET b == [a EXCEPT !.exit = end]
                  IN  Unjudged(n, b) /\ b.exit = end
           /\ \A test \in {"none", "skipped"} \cup TestEnds :
                  LET b == [a EXCEPT !.test = test]
                  IN  Unjudged(n, b) /\ b.exit = a.exit
           /\ \A ftype \in {"none", "patch_not_captured", "other"} :
                  LET b == [a EXCEPT !.ftype = ftype]
                  IN  Unjudged(n, b) /\ b.exit = a.exit
<1>1. /\ Proper(n, a) /\ a \in Attempt /\ Unjudged(n, a)
  BY DEF Unjudged, Proper
<1>2. {"worktree_created", "executing", "testing", "reviewing"} \subseteq Phases \ {"replanning"}
  BY DEF Phases
<1>3. \A phase \in {"worktree_created", "executing", "testing", "reviewing"} :
          LET b == [a EXCEPT !.phase = phase]
          IN  Unjudged(n, b) /\ b.exit = a.exit
  <2> TAKE phase \in {"worktree_created", "executing", "testing", "reviewing"}
  <2> DEFINE b == [a EXCEPT !.phase = phase]
  <2>1. Proper(n, b)
    BY <1>1, <1>2, ProperUpdates
  <2>2. /\ b.base = a.base /\ b.mergeErr = a.mergeErr /\ b.decision = a.decision
        /\ b.phase = phase /\ b.exit = a.exit
    BY <1>1 DEF Attempt
  <2> HIDE DEF b
  <2>3. Unjudged(n, b) /\ b.exit = a.exit
    BY <1>1, <2>1, <2>2 DEF Unjudged, IsSettled
  <2> QED
    BY <2>3 DEF b
<1>4. \A end \in {"ok", "error"} :
          LET b == [a EXCEPT !.exit = end]
          IN  Unjudged(n, b) /\ b.exit = end
  <2> TAKE end \in {"ok", "error"}
  <2> DEFINE b == [a EXCEPT !.exit = end]
  <2>1. Proper(n, b)
    BY <1>1, ProperUpdates
  <2>2. /\ b.base = a.base /\ b.mergeErr = a.mergeErr /\ b.decision = a.decision
        /\ b.phase = a.phase /\ b.exit = end
    BY <1>1 DEF Attempt
  <2> HIDE DEF b
  <2>3. Unjudged(n, b) /\ b.exit = end
    BY <1>1, <2>1, <2>2 DEF Unjudged, IsSettled
  <2> QED
    BY <2>3 DEF b
<1>5. \A test \in {"none", "skipped"} \cup TestEnds :
          LET b == [a EXCEPT !.test = test]
          IN  Unjudged(n, b) /\ b.exit = a.exit
  <2> TAKE test \in {"none", "skipped"} \cup TestEnds
  <2> DEFINE b == [a EXCEPT !.test = test]
  <2>1. Proper(n, b)
    BY <1>1, ProperUpdates
  <2>2. /\ b.base = a.base /\ b.mergeErr = a.mergeErr /\ b.decision = a.decision
        /\ b.phase = a.phase /\ b.exit = a.exit
    BY <1>1 DEF Attempt
  <2> HIDE DEF b
  <2>3. Unjudged(n, b) /\ b.exit = a.exit
    BY <1>1, <2>1, <2>2 DEF Unjudged, IsSettled
  <2> QED
    BY <2>3 DEF b
<1>6. \A ftype \in {"none", "patch_not_captured", "other"} :
          LET b == [a EXCEPT !.ftype = ftype]
          IN  Unjudged(n, b) /\ b.exit = a.exit
  <2> TAKE ftype \in {"none", "patch_not_captured", "other"}
  <2> DEFINE b == [a EXCEPT !.ftype = ftype]
  <2>1. Proper(n, b)
    BY <1>1, ProperUpdates
  <2>2. /\ b.base = a.base /\ b.mergeErr = a.mergeErr /\ b.decision = a.decision
        /\ b.phase = a.phase /\ b.exit = a.exit
    BY <1>1 DEF Attempt
  <2> HIDE DEF b
  <2>3. Unjudged(n, b) /\ b.exit = a.exit
    BY <1>1, <2>1, <2>2 DEF Unjudged, IsSettled
  <2> QED
    BY <2>3 DEF b
<1> QED
  BY <1>3, <1>4, <1>5, <1>6

\* What a thread that works has of its attempt, and in its copy.
LEMMA OwnUnjudged ==
    ASSUME ParInv, NEW n \in Nodes, worker[n].stage \in Working
    PROVE  /\ Unjudged(n, Own(n)) /\ Own(n) = History[running[n]]
           /\ Index(n) = running[n] /\ running[n] \in 1..Len(past)+1
           /\ worker[n].state = Saved /\ Tidy(Saved)
           /\ Saved.running = running /\ Saved.queue = queue /\ Saved.graph = graph
           /\ Saved.status = status /\ Saved.history = History
<1>1. /\ worker[n].state = Saved /\ Index(n) \in 1..Len(past)+1 /\ Own(n) = History[Index(n)]
      /\ Proper(n, Own(n)) /\ Tidy(worker[n].state)
  BY OwnFacts, WorkingFacts
<1>2. /\ Saved.running = running /\ Saved.queue = queue /\ Saved.graph = graph
      /\ Saved.status = status /\ Saved.history = History
  BY SavedFacts DEF ParInv
<1>3. Index(n) = running[n]
  BY <1>1, <1>2 DEF Index
<1> QED
  BY <1>1, <1>2, <1>3 DEF Unjudged

\* A thread that goes on.
LEMMA AdvanceTurns ==
    ASSUME ParInv, NEW n \in Nodes, worker[n].stage \in Working, NEW a, Unjudged(n, a),
           NEW stage \in Working, Advance(n, stage, WithOwn(n, a)),
           stage \in Implemented =>
               a.exit = "ok" \/ (worker[n].stage \in Implemented /\ a.exit = Own(n).exit),
           content' \in Contents, fresh' \subseteq {"test", "review"}, calls' \in Nat,
           UNCHANGED <<base, merges>>
    PROVE  \E s : Works(n, s) /\ Turns(n, s)
<1> DEFINE s == WithOwn(n, a)
<1>1. /\ Proper(n, a) /\ pc = "batch" /\ worker[n].stage # "idle" /\ worker[n].stage # "todo"
      /\ \A m \in Nodes \ {n} : worker[m].stage \notin Working
  BY WorkingFacts DEF Unjudged, Working
<1>2. /\ Tidy(s) /\ s.running = running /\ s.queue = queue
      /\ s.graph = graph /\ s.status = status
      /\ \A i \in 1..Len(past)+1 : s.history[i] = IF i = running[n] THEN a ELSE History[i]
  BY <1>1, WithOwnTidy
<1>3. Own(n) = History[running[n]] /\ running[n] \in 1..Len(past)+1
  BY OwnUnjudged
<1> HIDE DEF s
<1>4. Works(n, s) /\ worker'[n].stage = stage
  BY <1>1, <1>2, AdvanceWorks DEF s
<1>5. Turns(n, s)
  BY <1>1, <1>2, <1>3, <1>4 DEF Turns, Unjudged
<1> QED
  BY <1>4, <1>5

\* A thread that fails: what it marks as failed is its attempt, or the last.
LEMMA RaiseTurns ==
    ASSUME ParInv, NEW n \in Nodes, worker[n].stage \in Working, NEW a, Unjudged(n, a),
           NEW i \in 1..Len(past)+1,
           i = running[n] \/ (i = Len(past)+1 /\ worker[n].stage = "implTimedOut"),
           NEW t, t = WithOwn(n, a) \/ (t = Saved /\ a = Own(n)),
           Finish(n, "raised", Failed(t, i)), UNCHANGED world
    PROVE  \E s : Works(n, s) /\ Turns(n, s)
<1> DEFINE s == Failed(t, i)
<1>1. /\ Proper(n, a) /\ pc = "batch" /\ worker[n].stage # "idle" /\ worker[n].stage # "todo"
      /\ \A m \in Nodes \ {n} : worker[m].stage \notin Working
      /\ content \in Contents /\ fresh \subseteq {"test", "review"} /\ calls \in Nat
  BY WorkingFacts DEF Unjudged, Working
<1>2. /\ Own(n) = History[running[n]] /\ running[n] \in 1..Len(past)+1 /\ Own(n).node = n
      /\ ParTypeOK
  BY OwnUnjudged, OwnFacts DEF ParInv
<1>3. /\ Tidy(t) /\ t.running = running /\ t.queue = queue
      /\ t.graph = graph /\ t.status = status
      /\ \A j \in 1..Len(past)+1 : t.history[j] = IF j = running[n] THEN a ELSE History[j]
  <2>1. CASE t = WithOwn(n, a)
    BY <1>1, <2>1, WithOwnTidy
  <2>2. CASE t = Saved /\ a = Own(n)
    BY <1>2, <2>2, OwnUnjudged
  <2> QED
    BY <2>1, <2>2
<1>4. /\ Tidy(s) /\ s.running = running /\ s.queue = queue /\ s.status = "failed"
      /\ s.graph.deps = graph.deps
      /\ \A m \in Nodes : \/ s.graph.status[m] = graph.status[m]
                          \/ m = t.history[i].node /\ s.graph.status[m] = "failed"
      /\ \A j \in 1..Len(past)+1 :
             s.history[j] = IF j = i THEN [t.history[i] EXCEPT !.phase = "failed"] ELSE t.history[j]
  BY <1>2, <1>3, FailedTidy
<1> HIDE DEF s
<1>5. "raised" \in Results /\ "raised" \notin Implemented
  BY DEF Results, Implemented
<1>6. Works(n, s) /\ worker'[n].stage = "raised"
  BY <1>1, <1>4, <1>5, FinishWorks DEF s, world
<1>7. t.history[i].node \in {n, att.node}
  BY <1>2, <1>3, SavedFacts DEF Tidy
<1>8. /\ s.history[running[n]] \in {a, [a EXCEPT !.phase = "failed"]}
      /\ \A j \in 1..Len(past)+1 : j # running[n] =>
            \/ s.history[j] = History[j]
            \/ j = i /\ s.history[j] = [History[j] EXCEPT !.phase = "failed"]
  BY <1>2, <1>3, <1>4
<1>9. LET b == s.history[running[n]]
      IN  /\ b.base = a.base /\ b.mergeErr = a.mergeErr /\ b.decision = a.decision
          /\ IsSettled(b) => IsSettled(a)
  <2> DEFINE b == [a EXCEPT !.phase = "failed"]
  <2>1. a \in Attempt
    BY <1>1 DEF Proper
  <2>2. /\ b.base = a.base /\ b.mergeErr = a.mergeErr /\ b.decision = a.decision
        /\ b.phase = "failed"
    BY <2>1 DEF Attempt
  <2> HIDE DEF b
  <2>3. s.history[running[n]] \in {a, b}
    BY <1>8 DEF b
  <2> QED
    BY <2>2, <2>3 DEF IsSettled
<1>10. Turns(n, s)
  BY <1>1, <1>2, <1>4, <1>5, <1>6, <1>7, <1>8, <1>9 DEF Turns, Unjudged
<1> QED
  BY <1>6, <1>10

\* A thread that ends with a verdict of the reviewer.
LEMMA VerdictTurns ==
    ASSUME ParInv, NEW n \in Nodes, worker[n].stage = "reviewRun", NEW d \in Decisions,
           NEW result,
           NEW a,
           \/ /\ d = "approve" /\ result = "approved"
              /\ a = [Own(n) EXCEPT !.decision = d, !.phase = "approved", !.ftype = "none"]
           \/ /\ d # "approve" /\ result = "ended"
              /\ a = [Own(n) EXCEPT !.decision = d, !.phase = "rejected"],
           Finish(n, result, WithOwn(n, a)),
           fresh' \subseteq {"test", "review"}, UNCHANGED <<content, base, calls, merges>>
    PROVE  \E s : Works(n, s) /\ Turns(n, s)
<1> DEFINE s == WithOwn(n, a)
<1>1. "reviewRun" \in Working /\ result \in Results /\ result \notin Implemented
  BY DEF Working, Results, Implemented
<1>2. /\ Proper(n, Own(n)) /\ pc = "batch" /\ worker[n].stage # "idle" /\ worker[n].stage # "todo"
      /\ \A m \in Nodes \ {n} : worker[m].stage \notin Working
      /\ content \in Contents /\ fresh \subseteq {"test", "review"} /\ calls \in Nat
  BY <1>1, WorkingFacts
<1>3. /\ Own(n) = History[running[n]] /\ running[n] \in 1..Len(past)+1 /\ Own(n) \in Attempt
  BY <1>1, OwnUnjudged, OwnFacts
<1>4. Proper(n, a)
  <2> DEFINE b == [Own(n) EXCEPT !.decision = d]
             c == [b EXCEPT !.phase = "approved"]
  <2> HIDE DEF b, c
  <2>0. Proper(n, b)
    BY <1>2, ProperUpdates DEF b
  <2>1. Proper(n, b) /\ b \in Attempt
    BY <2>0 DEF Proper
  <2> USE DEF b, c
  <2>2. a = [c EXCEPT !.ftype = "none"] \/ a = [b EXCEPT !.phase = "rejected"]
    BY <1>3 DEF Attempt
  <2> HIDE DEF b
  <2>3. Proper(n, c) /\ Proper(n, [b EXCEPT !.phase = "rejected"])
    BY <2>1, ProperUpdates DEF Phases
  <2> HIDE DEF c
  <2>4. Proper(n, [c EXCEPT !.ftype = "none"])
    BY <2>3, ProperUpdates
  <2> QED
    BY <2>2, <2>3, <2>4
<1>5. /\ a.base = Own(n).base /\ a.mergeErr = Own(n).mergeErr /\ a.decision = d
      /\ a.exit = Own(n).exit
      /\ d = "approve" => a.phase = "approved" /\ a.ftype = "none"
      /\ d # "approve" => a.phase = "rejected"
  BY <1>3 DEF Attempt
<1>6. /\ Tidy(s) /\ s.running = running /\ s.queue = queue
      /\ s.graph = graph /\ s.status = status
      /\ \A i \in 1..Len(past)+1 : s.history[i] = IF i = running[n] THEN a ELSE History[i]
  BY <1>1, <1>4, WithOwnTidy
<1> HIDE DEF s
<1>7. Works(n, s) /\ worker'[n].stage = result
  BY <1>1, <1>2, <1>6, FinishWorks DEF s
<1>8. d # "none"
  BY DEF Decisions, Stops
<1>9. Turns(n, s)
  BY <1>1, <1>2, <1>3, <1>5, <1>6, <1>7, <1>8 DEF Turns
<1> QED
  BY <1>7, <1>9

\* Every step of a thread is a step of that kind.
LEMMA WorkerStepWorks ==
    ASSUME ParInv, NEW n \in Nodes, WorkerStep(n)
    PROVE  \E s : Works(n, s) /\ Turns(n, s)
<1>p. /\ {"setup", "impl", "implRun", "implFailed", "implTimedOut", "test", "testRun",
          "review", "reviewRun"} \subseteq Working
      /\ "setup" \notin Implemented /\ "impl" \notin Implemented
      /\ "implRun" \notin Implemented /\ "implFailed" \notin Implemented
      /\ "implTimedOut" \notin Implemented
      /\ {"test", "testRun", "review", "reviewRun"} \subseteq Implemented
  BY DEF Working, Implemented
<1>u. /\ content \in Contents /\ fresh \subseteq {"test", "review"} /\ calls \in Nat
      /\ UNCHANGED world => /\ content' = content /\ fresh' = fresh /\ calls' = calls
                            /\ UNCHANGED <<base, merges>>
  BY DEF world, ParInv, ParTypeOK
<1>i. worker[n].stage \in Working =>
          /\ Unjudged(n, Own(n)) /\ Own(n) \in Attempt
          /\ Index(n) = running[n] /\ running[n] \in 1..Len(past)+1
          /\ worker[n].state = Saved
  BY OwnUnjudged, OwnFacts
<1>1. CASE WorkerBegins(n)
  <2>1. /\ pc = "batch" /\ worker[n].stage = "todo" /\ Advance(n, "setup", NodeBegun(Saved, n))
        /\ \A m \in Nodes : worker[m].stage \notin Working
        /\ UNCHANGED world
    BY <1>1 DEF WorkerBegins, At, LockFree
  <2>2. /\ Tidy(Saved) /\ Saved \in Copies /\ Saved.running = running /\ Saved.queue = queue
        /\ Saved.history = History /\ Saved.graph = graph
    BY <2>1, SavedIsTidy, SavedFacts DEF ParInv, Batching, ParTypeOK
  <2> DEFINE s == NodeBegun(Saved, n)
             g == SetStatus(Saved.graph, n, "running")
  <2>3. g \in Graph /\ g.nodes = Saved.graph.nodes
    BY <2>2, SetStatusType DEF Copies, NodeStatus
  <2>a. g.deps = graph.deps /\ \A m \in Nodes : g.status[m] = IF m = n THEN "running" ELSE graph.status[m]
    BY <2>2, SetStatusKeeps DEF Copies
  <2>4. s = [Saved EXCEPT !.status = "running", !.graph = g]
    BY DEF NodeBegun
  <2>5. /\ s \in Copies /\ s.graph = g /\ s.status = "running" /\ s.history = Saved.history
        /\ s.running = Saved.running /\ s.queue = Saved.queue
    <3> HIDE DEF s, g
    <3> QED
      BY <2>2, <2>3, <2>4 DEF Copies
  <2>6. Tidy(s)
    <3> HIDE DEF s, g
    <3> QED
      BY <2>2, <2>3, <2>5 DEF Tidy
  <2>7. Advance(n, "setup", s) /\ "setup" \in Working /\ worker[n].stage # "idle"
    BY <2>1, <1>p
  <2> HIDE DEF s, g
  <2>8. Works(n, s) /\ worker'[n].stage = "setup"
    BY <2>1, <2>2, <2>5, <2>6, <2>7, <1>u, AdvanceWorks
  <2>9. Turns(n, s)
    BY <2>1, <2>2, <2>5, <2>8, <2>a, <1>p DEF Turns
  <2> QED
    BY <2>8, <2>9
<1>2. CASE WorkerSetup(n)
  <2>1. /\ worker[n].stage = "setup" /\ UNCHANGED world
        /\ Advance(n, "impl", WithOwn(n, [Own(n) EXCEPT !.phase = "worktree_created"]))
    BY <1>2 DEF WorkerSetup, At
  <2>2. Unjudged(n, [Own(n) EXCEPT !.phase = "worktree_created"])
    <3>1. Unjudged(n, Own(n))
      BY <2>1, <1>i, <1>p
    <3> QED
      BY <3>1, UnjudgedUpdates
  <2> QED
    BY <2>1, <2>2, <1>u, <1>p, AdvanceTurns
<1>3. CASE WorkerSetupFails(n)
  <2>1. /\ worker[n].stage = "setup" /\ UNCHANGED world
        /\ Finish(n, "raised", Failed(worker[n].state, Index(n)))
    BY <1>3 DEF WorkerSetupFails, At
  <2> QED
    BY <2>1, <1>i, <1>p, RaiseTurns
<1>4. CASE WorkerImplements(n)
  <2> DEFINE a == [Own(n) EXCEPT !.phase = "executing"]
             s == WithOwn(n, a)
  <2>1. PICK w \in Writes :
            /\ worker' = [worker EXCEPT ![n] = [stage |-> "implRun", state |-> s, wrote |-> w]]
            /\ Save(s)
            /\ content' = IF IsLast(n) THEN w ELSE content
    BY <1>4 DEF WorkerImplements
  <2>2. /\ pc = "batch" /\ worker[n].stage = "impl"
        /\ fresh' = (IF IsLast(n) THEN {} ELSE fresh) /\ calls' = (IF IsLast(n) THEN calls+1 ELSE calls)
        /\ UNCHANGED <<base, merges, pc, mem, starts, pending>>
    BY <1>4 DEF WorkerImplements, At
  <2>3. Unjudged(n, a) /\ Proper(n, a)
    <3> HIDE DEF a, s
    <3>1. Unjudged(n, Own(n))
      BY <2>2, <1>i, <1>p
    <3>2. \A phase \in {"worktree_created", "executing", "testing", "reviewing"} :
              Unjudged(n, [Own(n) EXCEPT !.phase = phase])
      BY <3>1, UnjudgedUpdates
    <3>3. Unjudged(n, a)
      BY <3>2 DEF a
    <3> QED
      BY <3>3 DEF Unjudged
  <2>4. /\ Tidy(s) /\ s.running = running /\ s.queue = queue
        /\ s.graph = graph /\ s.status = status
        /\ \A i \in 1..Len(past)+1 : s.history[i] = IF i = running[n] THEN a ELSE History[i]
    BY <2>2, <2>3, <1>p, WithOwnTidy
  <2>5. /\ \A m \in Nodes \ {n} : worker[m].stage \notin Working
        /\ worker[n].stage # "idle" /\ worker \in [Nodes -> Thread]
    BY <2>2, <1>p, WorkingFacts DEF ParInv, ParTypeOK, Thread
  <2> DEFINE t == [stage |-> "implRun", state |-> s, wrote |-> w]
  <2>6. w \in Contents
    BY OutcomeAssumption
  <2>0. /\ worker' = [worker EXCEPT ![n] = t] /\ Save(s)
    BY <2>1
  <2> HIDE DEF s, a
  <2>7. t \in Thread /\ t.stage = "implRun" /\ t.state = s
    BY <2>4, <2>6, <1>p DEF Thread, Tidy
  <2>9. content' \in Contents /\ fresh' \subseteq {"test", "review"} /\ calls' \in Nat
    <3>1. content' \in {w, content} /\ fresh' \in {{}, fresh} /\ calls' \in {calls+1, calls}
      BY <2>1, <2>2
    <3>2. content' \in Contents
      BY <1>u, <2>6, <3>1
    <3>3. fresh' \subseteq {"test", "review"}
      BY <1>u, <3>1
    <3>4. calls' \in Nat
      BY <1>u, <3>1
    <3> QED
      BY <3>2, <3>3, <3>4
  <2> HIDE DEF t
  <2>10. Works(n, s)
    BY <2>0, <2>2, <2>4, <2>5, <2>7, <2>9, <1>p DEF Works
  <2>11. worker'[n].stage = "implRun"
    BY <2>0, <2>5, <2>7
  <2>12. Own(n) = History[running[n]] /\ running[n] \in 1..Len(past)+1
    BY <2>2, <1>p, OwnUnjudged
  <2>13. Turns(n, s)
    BY <2>2, <2>3, <2>4, <2>11, <2>12, <1>p DEF Turns, Unjudged
  <2> QED
    BY <2>10, <2>13
<1>5. CASE WorkerImplEnds(n)
  <2>1. PICK end \in WorkerImplementer :
          Advance(n, CASE end = "ok" -> "test" [] end = "error" -> "implFailed" [] OTHER -> "implTimedOut",
            WithOwn(n, [Own(n) EXCEPT
                !.exit  = IF end = "ok" THEN "ok" ELSE "error",
                !.ftype = IF end = "ok" /\ worker[n].wrote = "untracked"
                          THEN "patch_not_captured" ELSE @]))
    BY <1>5 DEF WorkerImplEnds
  <2>2. worker[n].stage = "implRun" /\ UNCHANGED world
    BY <1>5 DEF WorkerImplEnds, At
  <2> DEFINE stage == CASE end = "ok" -> "test" [] end = "error" -> "implFailed" [] OTHER -> "implTimedOut"
             exit  == IF end = "ok" THEN "ok" ELSE "error"
             ftype == IF end = "ok" /\ worker[n].wrote = "untracked"
                      THEN "patch_not_captured" ELSE Own(n).ftype
             b == [Own(n) EXCEPT !.exit = exit]
             a == [b EXCEPT !.ftype = ftype]
  <2>3. stage \in Working /\ (stage \in Implemented => exit = "ok")
    BY <1>p
  <2>4. Own(n) \in Attempt /\ Unjudged(n, Own(n))
    BY <2>2, <1>i, <1>p
  <2>5. exit \in {"ok", "error"} /\ ftype \in {"none", "patch_not_captured", "other"}
    BY <2>4 DEF Attempt
  <2>6. a = [Own(n) EXCEPT
                !.exit  = IF end = "ok" THEN "ok" ELSE "error",
                !.ftype = IF end = "ok" /\ worker[n].wrote = "untracked"
                          THEN "patch_not_captured" ELSE @]
    BY <2>4 DEF Attempt
  <2>7. Advance(n, stage, WithOwn(n, a))
    <3> HIDE DEF a
    <3> QED
      BY <2>1, <2>6
  <2> HIDE DEF stage, exit, ftype, a, b
  <2>8. Unjudged(n, b) /\ b.exit = exit
    <3>1. \A e \in {"ok", "error"} :
              LET c == [Own(n) EXCEPT !.exit = e]
              IN  Unjudged(n, c) /\ c.exit = e
      BY <2>4, UnjudgedUpdates
    <3> QED
      BY <2>5, <3>1 DEF b
  <2>9. Unjudged(n, a) /\ a.exit = exit
    <3>1. \A f \in {"none", "patch_not_captured", "other"} :
              LET c == [b EXCEPT !.ftype = f]
              IN  Unjudged(n, c) /\ c.exit = b.exit
      BY <2>8, UnjudgedUpdates
    <3> QED
      BY <2>5, <2>8, <3>1 DEF a
  <2> QED
    BY <2>2, <2>3, <2>7, <2>9, <1>u, <1>p, AdvanceTurns
<1>6. CASE WorkerImplFails(n)
  <2> DEFINE a == [Own(n) EXCEPT !.ftype = "other"]
             t == WithOwn(n, a)
  <2>1. /\ worker[n].stage \in {"implFailed", "implTimedOut"} /\ UNCHANGED world
        /\ \/ Finish(n, "raised", Failed(t, Index(n)))
           \/ worker[n].stage = "implTimedOut" /\ Finish(n, "raised", Failed(t, Len(t.history)))
    BY <1>6 DEF WorkerImplFails, At
  <2>2. Unjudged(n, a)
    <3>1. Unjudged(n, Own(n))
      BY <2>1, <1>i, <1>p
    <3> QED
      BY <3>1, UnjudgedUpdates
  <2>3. Tidy(t)
    BY <2>1, <2>2, <1>p, WithOwnTidy DEF Unjudged
  <2> HIDE DEF t
  <2>4. Len(past)+1 \in 1..Len(past)+1 /\ Len(t.history) = Len(past)+1
    BY <2>3, SavedFacts DEF Tidy, ParInv
  <2>5. CASE Finish(n, "raised", Failed(t, Index(n)))
    BY <2>1, <2>2, <2>5, <1>i, <1>p, RaiseTurns DEF t
  <2>6. CASE worker[n].stage = "implTimedOut" /\ Finish(n, "raised", Failed(t, Len(t.history)))
    BY <2>1, <2>2, <2>4, <2>6, <1>p, RaiseTurns DEF t
  <2> QED
    BY <2>1, <2>5, <2>6
<1>7. CASE WorkerTests(n)
  <2>1. /\ worker[n].stage = "test" /\ UNCHANGED world
        /\ Advance(n, "testRun", WithOwn(n, [Own(n) EXCEPT !.phase = "testing"]))
    BY <1>7 DEF WorkerTests, At
  <2> DEFINE a == [Own(n) EXCEPT !.phase = "testing"]
  <2>2. Unjudged(n, a) /\ a.exit = Own(n).exit
    <3>1. Unjudged(n, Own(n))
      BY <2>1, <1>i, <1>p
    <3> QED
      BY <3>1, UnjudgedUpdates
  <2> HIDE DEF a
  <2> QED
    BY <2>1, <2>2, <1>u, <1>p, AdvanceTurns DEF a
<1>8. CASE WorkerTestEnds(n)
  <2>1. PICK result \in (IF HasTestCommand THEN Tests ELSE {"skipped"}) :
            Advance(n, "review", WithOwn(n, [Own(n) EXCEPT !.test = result]))
    BY <1>8 DEF WorkerTestEnds
  <2>2. /\ worker[n].stage = "testRun" /\ fresh' = (IF IsLast(n) THEN fresh \cup {"test"} ELSE fresh)
        /\ UNCHANGED <<content, base, calls, merges>>
    BY <1>8 DEF WorkerTestEnds, At
  <2>4. result \in {"none", "skipped"} \cup TestEnds
    BY OutcomeAssumption
  <2> DEFINE a == [Own(n) EXCEPT !.test = result]
  <2>5. Unjudged(n, a) /\ a.exit = Own(n).exit
    <3> HIDE DEF a
    <3>1. Unjudged(n, Own(n))
      BY <2>2, <1>i, <1>p
    <3>2. \A test \in {"none", "skipped"} \cup TestEnds :
              LET b == [Own(n) EXCEPT !.test = test]
              IN  Unjudged(n, b) /\ b.exit = Own(n).exit
      BY <3>1, UnjudgedUpdates
    <3> QED
      BY <2>4, <3>2 DEF a
  <2>6. content' \in Contents /\ fresh' \subseteq {"test", "review"} /\ calls' \in Nat
    BY <2>2, <1>u
  <2> HIDE DEF a
  <2> QED
    BY <2>1, <2>2, <2>5, <2>6, <1>p, AdvanceTurns DEF a
<1>9. CASE WorkerReviews(n)
  <2>1. /\ worker[n].stage = "review" /\ UNCHANGED world
        /\ Advance(n, "reviewRun", WithOwn(n, [Own(n) EXCEPT !.phase = "reviewing"]))
    BY <1>9 DEF WorkerReviews, At
  <2> DEFINE a == [Own(n) EXCEPT !.phase = "reviewing"]
  <2>2. Unjudged(n, a) /\ a.exit = Own(n).exit
    <3>1. Unjudged(n, Own(n))
      BY <2>1, <1>i, <1>p
    <3> QED
      BY <3>1, UnjudgedUpdates
  <2> HIDE DEF a
  <2> QED
    BY <2>1, <2>2, <1>u, <1>p, AdvanceTurns DEF a
<1>10. CASE WorkerReviewEnds(n)
  <2>1. PICK d \in Decisions :
            IF d = "approve"
            THEN Finish(n, "approved",
                    WithOwn(n, [Own(n) EXCEPT !.decision = d, !.phase = "approved", !.ftype = "none"]))
            ELSE Finish(n, "ended", WithOwn(n, [Own(n) EXCEPT !.decision = d, !.phase = "rejected"]))
    BY <1>10 DEF WorkerReviewEnds
  <2>2. /\ worker[n].stage = "reviewRun"
        /\ fresh' = (IF IsLast(n) THEN fresh \cup {"review"} ELSE fresh)
        /\ UNCHANGED <<content, base, calls, merges>>
    BY <1>10 DEF WorkerReviewEnds, At
  <2>3. fresh' \subseteq {"test", "review"}
    BY <2>2, <1>u
  <2> QED
    BY <2>1, <2>2, <2>3, VerdictTurns
<1>11. CASE WorkerReviewFails(n)
  <2>1. PICK kind \in Reviewer \cap Faults :
            Finish(n, "raised",
                Failed(WithOwn(n, [Own(n) EXCEPT !.ftype = IF kind = "refused" THEN @ ELSE "other"]),
                       Index(n)))
    BY <1>11 DEF WorkerReviewFails
  <2>2. worker[n].stage = "reviewRun" /\ UNCHANGED world
    BY <1>11 DEF WorkerReviewFails, At
  <2> DEFINE ftype == IF kind = "refused" THEN Own(n).ftype ELSE "other"
             a == [Own(n) EXCEPT !.ftype = ftype]
  <2>3. Own(n) \in Attempt /\ Unjudged(n, Own(n))
    BY <2>2, <1>i, <1>p
  <2>4. ftype \in {"none", "patch_not_captured", "other"}
    BY <2>3 DEF Attempt
  <2>5. a = [Own(n) EXCEPT !.ftype = IF kind = "refused" THEN @ ELSE "other"]
    OBVIOUS
  <2> HIDE DEF ftype
  <2>6. Unjudged(n, a)
    BY <2>3, <2>4, UnjudgedUpdates
  <2> HIDE DEF a
  <2> QED
    BY <2>1, <2>2, <2>5, <2>6, <1>i, <1>p, RaiseTurns
<1> QED
  BY <1>1, <1>2, <1>3, <1>4, <1>5, <1>6, <1>7, <1>8, <1>9, <1>10, <1>11 DEF WorkerStep

----------------------------------------------------------------------------
(* The main thread. *)

\* What taking the result of n changes: it is no longer registered, its thread
\* is gone, and if it was approved it is in the queue.
Takes(n) ==
    /\ pc = "batch" /\ worker[n].stage \in Results
    /\ pc' = "batch" \/ (pc' = "drain" /\ \A m \in Nodes : worker'[m] = Idle)
    /\ History' = History /\ Len(past') = Len(past) /\ att' = att
    /\ status' = status /\ base' = base
    /\ graph'.nodes = graph.nodes /\ graph'.deps = graph.deps
    /\ \A m \in Nodes : \/ graph'.status[m] = graph.status[m]
                        \/ m = n /\ worker[n].stage = "raised" /\ graph'.status[m] = "failed"
    /\ \A m \in Nodes : running'[m] = IF m = n THEN 0 ELSE running[m]
    /\ \A m \in Nodes : worker'[m] = IF m = n THEN Idle ELSE worker[m]
    /\ \/ queue' = queue
       \/ /\ worker[n].stage = "approved" /\ queue' = Append(queue, n)
          /\ \A k \in DOMAIN queue : queue[k] # n

\* It leaves the pool and the registry in order.
LEMMA TakeResultKeeps ==
    ASSUME ParInv, NEW n \in Nodes, TakeResult(n)
    PROVE  ParInv' /\ Takes(n)
<1> DEFINE result == worker[n].stage
           popped == [Saved EXCEPT !.running[n] = 0]
           s == CASE result = "approved" -> Enqueued(popped, n)
                  [] result = "raised"   -> [popped EXCEPT !.graph = SetStatus(@, n, "failed")]
                  [] result = "ended"    -> popped
           free == [running EXCEPT ![n] = 0]
<1>1. /\ pc = "batch" /\ result \in Results /\ \A m \in Nodes : worker[m].stage \notin Working
      /\ Save(s)
      /\ worker' = [worker EXCEPT ![n] = Idle]
      /\ UNCHANGED world /\ starts' = starts
  BY DEF TakeResult, LockFree
<1>2. \/ (\A m \in Nodes : worker'[m] = Idle) /\ Goto("drain") /\ pending' = Len(s.queue)
      \/ UNCHANGED <<pc, mem, pending>>
  BY DEF TakeResult
<1>3. ParTypeOK /\ Pool /\ Registered /\ worker \in [Nodes -> Thread]
  BY DEF ParInv, ParTypeOK, Thread
<1>4. /\ Tidy(Saved) /\ Saved \in Copies /\ Saved.running = running
      /\ Saved.queue = queue /\ Saved.graph = graph
      /\ Saved.status = status /\ Saved.history = History
      /\ graph \in Graph /\ running \in [Nodes -> Nat] /\ queue \in Seq(Nodes)
  BY <1>1, <1>3, SavedIsTidy, SavedFacts DEF ParInv, Batching, ParTypeOK
<1>5. free \in [Nodes -> Nat] /\ \A m \in Nodes : free[m] = IF m = n THEN 0 ELSE running[m]
  BY <1>4
<1>6. popped = [Saved EXCEPT !.running = free]
  BY <1>4
<1>7. /\ popped \in Copies /\ popped.running = free /\ popped.queue = queue /\ popped.graph = graph
      /\ popped.status = Saved.status /\ popped.history = Saved.history
  <2> HIDE DEF popped, free
  <2> QED
    BY <1>4, <1>5, <1>6 DEF Copies
<1>8. Tidy(popped)
  <2> HIDE DEF popped, free
  <2> QED
    BY <1>4, <1>7 DEF Tidy
<1>9. /\ Tidy(s) /\ s.running = free
      /\ s.status = status /\ s.history = History /\ s.graph.deps = graph.deps
      /\ \A m \in Nodes : \/ s.graph.status[m] = graph.status[m]
                          \/ m = n /\ result = "raised" /\ s.graph.status[m] = "failed"
      /\ \/ s.queue = queue
         \/ /\ result = "approved" /\ s.queue = Append(queue, n)
            /\ \A k \in DOMAIN queue : queue[k] # n
  <2> HIDE DEF popped, free
  <2>1. CASE result = "approved"
    <3>1. s = Enqueued(popped, n)
      BY <2>1
    <3>2. \/ s = popped
          \/ /\ s = [popped EXCEPT !.queue = Append(queue, n)]
             /\ \A k \in DOMAIN queue : queue[k] # n
      BY <3>1, <1>7 DEF Enqueued
    <3>3. Append(queue, n) \in Seq(Nodes)
      BY <1>4
    <3>4. ASSUME s = [popped EXCEPT !.queue = Append(queue, n)]
          PROVE  /\ s \in Copies /\ s.running = free /\ s.graph = graph
                 /\ s.status = popped.status /\ s.history = popped.history
                 /\ s.queue = Append(queue, n)
      <4> DEFINE q == Append(queue, n)
      <4> HIDE DEF q, s
      <4> QED
        BY <1>7, <3>3, <3>4 DEF Copies, q
    <3> HIDE DEF s
    <3>5. CASE s = popped
      BY <3>5, <1>4, <1>7, <1>8
    <3>6. CASE /\ s = [popped EXCEPT !.queue = Append(queue, n)]
               /\ \A k \in DOMAIN queue : queue[k] # n
      <4>1. Tidy(s)
        BY <3>4, <3>6, <1>7, <1>8 DEF Tidy
      <4> QED
        BY <2>1, <3>4, <3>6, <4>1, <1>4, <1>7
    <3> QED
      BY <3>2, <3>5, <3>6
  <2>2. CASE result = "raised"
    <3> DEFINE g == SetStatus(graph, n, "failed")
    <3>1. g \in Graph /\ g.nodes = graph.nodes
      BY <1>4, SetStatusType DEF NodeStatus
    <3>0. /\ g.deps = graph.deps
          /\ \A m \in Nodes : g.status[m] = IF m = n THEN "failed" ELSE graph.status[m]
      BY <1>4, SetStatusKeeps
    <3>2. s = [popped EXCEPT !.graph = g]
      BY <2>2, <1>7
    <3> HIDE DEF g, s
    <3>3. /\ s \in Copies /\ s.running = free /\ s.graph = g
          /\ s.status = popped.status /\ s.history = popped.history /\ s.queue = queue
      BY <1>7, <3>1, <3>2 DEF Copies
    <3>4. Tidy(s)
      BY <1>7, <1>8, <3>1, <3>3 DEF Tidy
    <3> QED
      BY <2>2, <1>4, <1>7, <3>0, <3>3, <3>4
  <2>3. CASE result = "ended"
    BY <2>3, <1>4, <1>7, <1>8
  <2> QED
    BY <1>1, <2>1, <2>2, <2>3 DEF Results
<1> HIDE DEF s, popped
<1>10. pc' \in Batching
  BY <1>1, <1>2 DEF Goto, Batching
<1>11. /\ Saved' = s /\ Saved' \in Copies /\ past' \in Seq(Attempt) /\ att' \in Attempt
       /\ Len(past') = Len(past)
       /\ \A i \in 1..Len(past)+1 : History'[i].node = History[i].node
       /\ att'.iter = att.iter /\ NodeChosen' /\ Replans'
       /\ running' = free /\ queue' = s.queue
  BY <1>1, <1>9, <1>10, TidySave DEF Batching
<1>12. \A m \in Nodes : worker'[m] = IF m = n THEN Idle ELSE worker[m]
  BY <1>1, <1>3
<1>13. ParTypeOK'
  <2>1. worker' \in [Nodes -> Thread]
    BY <1>1, <1>3, IdleType
  <2>2. pending' \in Nat /\ mem' \in MemType
    <3>1. s.queue \in Seq(Nodes)
      BY <1>9 DEF Tidy, Copies
    <3>2. pending \in Nat /\ mem \in MemType
      BY <1>3 DEF ParTypeOK
    <3> QED
      BY <1>2, <3>1, <3>2, NoMemType DEF Goto
  <2> QED
    BY <1>1, <1>3, <1>10, <1>11, <2>1, <2>2 DEF ParTypeOK, Thread, Batching, world
<1>14. Pool'
  <2>1. \A m \in Nodes : worker'[m].stage \notin Working
    BY <1>1, <1>12, IdleType
  <2>2. pc' # "batch" => \A m \in Nodes : worker'[m] = Idle
    BY <1>1, <1>2
  <2> QED
    BY <2>1, <2>2 DEF Pool
<1>15. Registered'
  <2>1. Cardinality(Running') <= MaxParallel
    <3>1. Running' \subseteq Running /\ Running \subseteq Nodes
      BY <1>5, <1>11 DEF Running
    <3>2. IsFiniteSet(Running) /\ Cardinality(Running) \in Nat
      BY <3>1, SomeNodesFinite
    <3>3. Cardinality(Running') <= Cardinality(Running) /\ Cardinality(Running') \in Nat
      BY <3>1, <3>2, FS_Subset, FS_CardinalityType
    <3>4. Cardinality(Running) <= MaxParallel /\ MaxParallel \in Nat
      BY <1>3, ParallelAssumption DEF Registered
    <3> QED
      BY <3>2, <3>3, <3>4
  <2>2. \A m \in Nodes : running'[m] # 0 =>
            running'[m] \in 1..Len(past')+1 /\ History'[running'[m]].node = m
    BY <1>3, <1>5, <1>11 DEF Registered
  <2>3. \A m \in Nodes : worker'[m].stage # "idle" => running'[m] # 0
    BY <1>3, <1>5, <1>11, <1>12, IdleType DEF Registered
  <2>4. att'.iter = 0 => \A m \in Nodes : running'[m] = 0
    BY <1>3, <1>5, <1>11 DEF Registered
  <2> QED
    BY <2>1, <2>2, <2>3, <2>4 DEF Registered
<1>16. Drains'
  <2>1. s.queue \in Seq(Nodes)
    BY <1>9 DEF Tidy, Copies
  <2> QED
    BY <1>1, <1>2, <1>11, <2>1 DEF Drains, Goto
<1>17. Takes(n)
  <2>1. s \in Copies /\ s.history # <<>> /\ Len(s.history) = Len(past) + 1 /\ s.graph.nodes = graph.nodes
    <3>1. Len(past) \in Nat
      BY <1>3, SavedFacts
    <3> QED
      BY <1>9, <3>1 DEF Tidy
  <2>2. /\ History' = s.history /\ att' = s.history[Len(s.history)]
        /\ status' = s.status /\ graph' = s.graph
    BY <1>1, <2>1, SaveStores
  <2>3. att' = att
    BY <1>3, <1>9, <2>1, <2>2, SavedFacts
  <2>4. pc' = "batch" \/ (pc' = "drain" /\ \A m \in Nodes : worker'[m] = Idle)
    BY <1>1, <1>2 DEF Goto
  <2>5. base' = base
    BY <1>1 DEF world
  <2> QED
    BY <1>1, <1>5, <1>9, <1>11, <1>12, <2>1, <2>2, <2>3, <2>4, <2>5 DEF Takes
<1> QED
  BY <1>11, <1>13, <1>14, <1>15, <1>16, <1>17 DEF ParInv

\* What find_attempt_for_node finds is an attempt of the node it looks for.
LEMMA FoundFacts ==
    ASSUME ParTypeOK, Registered, queue # <<>>, Found # 0
    PROVE  /\ Found \in 1..Len(past)+1 /\ Entry = History[Found] /\ Entry \in Attempt
           /\ Head(queue) \in Nodes /\ Entry.node = Head(queue)
           /\ running[Head(queue)] # 0 => Found = running[Head(queue)]
           /\ running[Head(queue)] = 0 =>
                /\ Entry.phase \in {"approved", "merged"}
                /\ \A i \in 1..Len(past)+1 :
                     History[i].node = Entry.node /\ History[i].phase \in {"approved", "merged"}
                         => i <= Found
<1> DEFINE n == Head(queue)
           settled == {i \in DOMAIN History :
                          History[i].node = n /\ History[i].phase \in {"approved", "merged"}}
<1>1. /\ DOMAIN History = 1..Len(past)+1 /\ Len(past) \in Nat
      /\ \A i \in 1..Len(past)+1 : History[i] \in Attempt
      /\ queue \in Seq(Nodes)
  BY SavedFacts
<1>2. n \in Nodes
  BY <1>1
<1>3. Entry = History[Found]
  BY DEF Entry, History
<1>4. Found = IF running[n] # 0 THEN running[n]
              ELSE IF settled = {} THEN 0
              ELSE CHOOSE i \in settled : \A j \in settled : j <= i
  BY DEF Found, FindAttemptForNode, History
<1>5. CASE running[n] # 0
  <2>1. Found = running[n]
    BY <1>4, <1>5
  <2>2. Found \in 1..Len(past)+1 /\ History[Found].node = n
    BY <1>2, <1>5, <2>1 DEF Registered
  <2> QED
    BY <1>1, <1>2, <1>3, <1>5, <2>1, <2>2
<1>6. CASE running[n] = 0
  <2>1. settled # {} /\ settled \subseteq 1..Len(past)+1
    BY <1>1, <1>4, <1>6
  <2>2. \E m \in settled : \A j \in settled : j <= m
    <3> HIDE DEF settled
    <3>1. Len(past)+1 \in Nat
      BY <1>1
    <3> QED
      BY <2>1, <3>1, Greatest
  <2>3. Found \in settled /\ \A j \in settled : j <= Found
    <3> HIDE DEF settled
    <3> QED
      BY <1>4, <1>6, <2>1, <2>2
  <2> QED
    BY <1>1, <1>2, <1>3, <1>6, <2>1, <2>3
<1> QED
  BY <1>5, <1>6

\* What taking an entry off the queue, and saving what became of it, changes.
Stores(a, g, st) ==
    /\ Len(past') = Len(past) /\ att' = History'[Len(past)+1]
    /\ \A i \in 1..Len(past)+1 : History'[i] = IF i = Found THEN a ELSE History[i]
    /\ status' = st /\ graph' = g /\ running' = running /\ queue' = Tail(queue)
    /\ worker' = worker /\ pc' = "drain"

\* It leaves the pool and the registry in order.
LEMMA FinalizedKeeps ==
    ASSUME ParInv, pc \in {"drain", "drainMerged"}, pending > 0, Found # 0,
           NEW a \in Attempt, a.node = Entry.node, a.iter = Entry.iter,
           a.phase = Entry.phase \/ a.phase # "replanning",
           NEW g \in Graph, g.nodes = graph.nodes, NEW st \in {"stopped", "done"},
           Finalized(a, g, st),
           content' \in Contents, base' \subseteq Nodes, UNCHANGED <<fresh, calls, merges>>
    PROVE  ParInv' /\ Stores(a, g, st)
<1> DEFINE h == [History EXCEPT ![Found] = a]
           s == [Saved EXCEPT !.history[Found] = a, !.graph = g, !.status = st, !.queue = Tail(@)]
<1>1. ParTypeOK /\ Replans /\ Pool /\ Registered /\ Drains
  BY DEF ParInv
<1>2. /\ Tidy(Saved) /\ Saved \in Copies /\ Saved.history = History /\ Saved.queue = queue
      /\ Saved.running = running
      /\ History \in Seq(Attempt) /\ Len(History) = Len(past)+1 /\ Len(past) \in Nat
      /\ History[Len(past)+1] = att /\ queue \in Seq(Nodes)
  BY <1>1, SavedIsTidy, SavedFacts DEF Batching, ParTypeOK
<1>3. queue # <<>>
  <2>1. pending <= Len(queue) /\ pending \in Nat
    BY <1>1 DEF Drains, ParTypeOK
  <2> QED
    BY <2>1
<1>4. Found \in 1..Len(past)+1 /\ Entry = History[Found]
  BY <1>1, <1>3, FoundFacts
<1>5. /\ h \in Seq(Attempt) /\ Len(h) = Len(past)+1
      /\ \A i \in 1..Len(past)+1 : h[i] = IF i = Found THEN a ELSE History[i]
  BY <1>2, <1>4, ExceptSeq
<1>6. Tail(queue) \in Seq(Nodes) /\ Len(Tail(queue)) = Len(queue) - 1
  BY <1>2, <1>3, HeadTailProperties
<1>7. s = [[[[Saved EXCEPT !.history = h] EXCEPT !.graph = g] EXCEPT !.status = st]
              EXCEPT !.queue = Tail(queue)]
  <2>1. Saved.history = History /\ Saved.queue = queue
    BY <1>2
  <2> QED
    BY <2>1 DEF Saved
<1> DEFINE q == Tail(queue)
<1> HIDE DEF h, s, q
<1>8. /\ s \in Copies /\ s.history = h /\ s.graph = g /\ s.status = st /\ s.queue = q
      /\ s.running = running
  <2>1. q \in Seq(Nodes)
    BY <1>6 DEF q
  <2>2. s = [[[[Saved EXCEPT !.history = h] EXCEPT !.graph = g] EXCEPT !.status = st]
              EXCEPT !.queue = q]
    BY <1>7 DEF q
  <2> QED
    BY <1>2, <1>5, <2>1, <2>2 DEF Copies
<1>9. Tidy(s)
  <2>1. Found = Len(past)+1 => a.phase # "replanning"
    BY <1>1, <1>2, <1>4 DEF Replans
  <2>2. \A i \in 1..Len(past)+1 : h[i].node = History[i].node /\ h[i].iter = History[i].iter
    BY <1>4, <1>5
  <2>3. Len(past)+1 \in 1..Len(past)+1
    BY <1>2
  <2>4. att.phase # "replanning"
    BY <1>1 DEF Replans
  <2>5. h[Len(past)+1].phase # "replanning"
    BY <1>2, <1>5, <2>1, <2>3, <2>4
  <2>6. s.graph.nodes = graph.nodes /\ s.status # "replanning"
    BY <1>8
  <2> QED
    BY <1>5, <1>8, <2>2, <2>5, <2>6 DEF Tidy
<1>10. Save(s) /\ pending' = Len(queue) - 1 /\ Goto("drain") /\ UNCHANGED <<starts, worker>>
  BY DEF Finalized, s
<1>11. /\ Saved' = s /\ Saved' \in Copies /\ past' \in Seq(Attempt) /\ att' \in Attempt
       /\ Len(past') = Len(past)
       /\ \A i \in 1..Len(past)+1 : History'[i].node = History[i].node
       /\ att'.iter = att.iter /\ NodeChosen' /\ Replans'
       /\ running' = running /\ queue' = q
  <2>1. pc \in Batching /\ pc' \in Batching
    BY <1>10 DEF Batching, Goto
  <2> QED
    BY <1>8, <1>9, <1>10, <2>1, TidySave
<1>12. ParTypeOK'
  <2>1. pc' \in PCs \cup {"batch", "drain", "drainMerged"} /\ mem' \in MemType
    BY <1>10, NoMemType DEF Goto
  <2>2. Len(queue) - 1 \in Nat
    BY <1>2, <1>3
  <2> QED
    BY <1>1, <1>10, <1>11, <2>1, <2>2 DEF ParTypeOK
<1>13. Pool'
  <2>1. \A n \in Nodes : worker[n] = Idle
    BY <1>1 DEF Pool
  <2>2. \A n \in Nodes : worker'[n] = Idle /\ worker'[n].stage \notin Working
    BY <1>10, <2>1, IdleType
  <2> QED
    BY <2>2 DEF Pool
<1>14. Registered'
  <2>1. Running' = Running
    BY <1>11 DEF Running
  <2> QED
    BY <1>1, <1>10, <1>11, <2>1 DEF Registered
<1>15. Drains'
  <2>1. pc' = "drain" /\ pending' = Len(queue) - 1 /\ Len(queue') = Len(queue) - 1
    BY <1>6, <1>10, <1>11 DEF Goto, q
  <2>2. pending' <= Len(queue')
    BY <2>1, <1>2
  <2> QED
    BY <2>1, <2>2 DEF Drains
<1>16. Stores(a, g, st)
  <2>1. s.history # <<>> /\ Len(s.history) = Len(past) + 1
    BY <1>2, <1>5, <1>8
  <2>2. /\ History' = s.history /\ att' = s.history[Len(s.history)]
        /\ status' = st /\ graph' = g
    BY <1>8, <1>10, <2>1, SaveStores
  <2> QED
    BY <1>5, <1>8, <1>10, <1>11, <2>1, <2>2 DEF Stores, Goto, q
<1> QED
  BY <1>11, <1>12, <1>13, <1>14, <1>15, <1>16 DEF ParInv

\* A step of the main thread that leaves state.json, the threads and what it
\* has in memory of the queue as they are.
LEMMA QuietKeeps ==
    ASSUME ParInv, UNCHANGED <<disk, batchDisk, worker, starts, fresh, calls, merges>>,
           content' \in Contents, base' \subseteq Nodes, pending' \in Nat, mem' \in MemType,
           pc' \in {"loop", "off"} \cup Batching,
           pc' = "batch" => pc = "batch",
           pc # "batch" \/ pc' = "batch" \/ \A n \in Nodes : worker[n] = Idle,
           pc' \in Batching => pc \in Batching,
           Drains'
    PROVE  ParInv'
<1>1. ParTypeOK /\ NodeChosen /\ Replans /\ Pool /\ Registered
  BY DEF ParInv
<1>2. /\ status' = status /\ iteration' = iteration /\ graph' = graph /\ past' = past /\ att' = att
      /\ running' = running /\ queue' = queue /\ worker' = worker
      /\ starts' = starts /\ fresh' = fresh /\ calls' = calls /\ merges' = merges
  BY DEF disk, batchDisk
<1>3. Saved' = Saved /\ History' = History /\ Running' = Running
  BY <1>2 DEF Saved, History, Running
<1>4. ParTypeOK'
  <2>1. pc' \in PCs \cup {"batch", "drain", "drainMerged"}
    BY DEF PCs, Batching
  <2> QED
    BY <1>1, <1>2, <1>3, <2>1 DEF ParTypeOK
<1>5. Pool'
  BY <1>1, <1>2, <1>3 DEF Pool
<1>6. Registered'
  BY <1>1, <1>2, <1>3 DEF Registered
<1>7. NodeChosen'
  BY <1>1, <1>2 DEF NodeChosen, Batching
<1>8. Replans'
  BY <1>1, <1>2 DEF Replans, Batching
<1> QED
  BY <1>4, <1>5, <1>6, <1>7, <1>8 DEF ParInv

\* What the main thread does with the queue.
LEMMA DrainKeeps ==
    ASSUME ParInv,
           \/ DrainSkips \/ DrainHolds \/ DrainMerges \/ DrainRecords \/ DrainMergeFails \/ DrainEnds
    PROVE  ParInv'
<1>a. ParTypeOK /\ Registered /\ Drains /\ Pool
  BY DEF ParInv
<1>b. /\ content \in Contents /\ base \subseteq Nodes /\ pending \in Nat /\ mem \in MemType
      /\ graph \in Graph /\ queue \in Seq(Nodes)
  BY <1>a, SavedFacts DEF ParTypeOK
<1>c. /\ UNCHANGED world => content' = content /\ base' = base /\ UNCHANGED <<fresh, calls, merges>>
      /\ DrainCommits => content' \in Contents
  BY <1>b DEF world, DrainCommits, Contents
<1>e. ASSUME pc \in {"drain", "drainMerged"}, pending > 0, Found # 0
      PROVE  Entry \in Attempt /\ Entry.node \in Nodes
  <2>1. queue # <<>>
    <3>1. pending <= Len(queue)
      BY <1>a, <1>e DEF Drains
    <3> QED
      BY <1>b, <1>e, <3>1
  <2> QED
    BY <1>a, <1>e, <2>1, FoundFacts
<1>1. CASE DrainSkips
  <2>1. /\ pc = "drain" /\ pending > 0 /\ pending' = Len(queue) - 1
        /\ UNCHANGED <<vars, batchDisk, worker>>
    BY <1>1 DEF DrainSkips, Draining
  <2>2. /\ pc' = pc /\ mem' = mem /\ content' = content /\ base' = base /\ queue' = queue
        /\ UNCHANGED <<disk, batchDisk, worker, starts, fresh, calls, merges>>
    BY <2>1 DEF vars, world, batchDisk
  <2>3. pending' \in Nat /\ pending' <= Len(queue)
    BY <1>a, <1>b, <2>1 DEF Drains
  <2>4. Drains'
    BY <2>1, <2>2, <2>3 DEF Drains
  <2>5. pc \in Batching /\ pc # "batch"
    BY <2>1 DEF Batching
  <2> QED
    BY <1>b, <2>2, <2>3, <2>4, <2>5, QuietKeeps
<1>2. CASE DrainHolds
  <2> DEFINE a == IF MergeBlockedByTestGate(Entry) THEN [Entry EXCEPT !.ftype = "other"] ELSE Entry
  <2>1. /\ pc = "drain" /\ pending > 0 /\ Found # 0 /\ UNCHANGED world
        /\ Finalized(a, graph, "stopped")
    BY <1>2 DEF DrainHolds, Draining
  <2>2. a \in Attempt /\ a.node = Entry.node /\ a.iter = Entry.iter /\ a.phase = Entry.phase
    BY <1>e, <2>1 DEF Attempt
  <2> HIDE DEF a
  <2> QED
    BY <1>b, <1>c, <2>1, <2>2, FinalizedKeeps
<1>3. CASE DrainMerges
  <2>1. /\ pc = "drain" /\ pending > 0 /\ Found # 0 /\ DrainCommits /\ Goto("drainMerged")
        /\ base' = base \cup {Entry.node}
        /\ UNCHANGED <<disk, batchDisk, worker, pending, fresh, calls, merges, starts>>
    BY <1>3 DEF DrainMerges, Draining
  <2>2. base' \subseteq Nodes
    BY <1>b, <1>e, <2>1
  <2>3. pc' = "drainMerged" /\ mem' \in MemType
    BY <2>1, NoMemType DEF Goto
  <2>4. Found' = Found /\ queue' = queue /\ pending' = pending
    BY <2>1 DEF disk, batchDisk, Found, FindAttemptForNode
  <2>5. Drains'
    BY <1>a, <2>1, <2>3, <2>4 DEF Drains
  <2>6. pc \in Batching /\ pc' \in Batching
    BY <2>1, <2>3 DEF Batching
  <2> QED
    BY <1>b, <1>c, <2>1, <2>2, <2>3, <2>4, <2>5, <2>6, QuietKeeps
<1>4. CASE DrainRecords
  <2> DEFINE g == SetStatus(graph, Entry.node, "passed")
             a == [Entry EXCEPT !.mergeErr = "none", !.phase = "merged", !.ftype = "none"]
             st == IF GraphComplete(g) THEN "done" ELSE "stopped"
  <2>1. /\ pc = "drainMerged" /\ pending > 0 /\ Found # 0 /\ UNCHANGED world
        /\ Finalized(a, g, st)
    BY <1>4, <1>a DEF DrainRecords, Drains
  <2>2. a \in Attempt /\ a.node = Entry.node /\ a.iter = Entry.iter /\ a.phase = "merged"
    BY <1>e, <2>1 DEF Attempt, Phases
  <2>3. g \in Graph /\ g.nodes = graph.nodes
    BY <1>b, SetStatusType DEF NodeStatus
  <2>4. st \in {"stopped", "done"}
    OBVIOUS
  <2> HIDE DEF a, g, st
  <2> QED
    BY <1>b, <1>c, <2>1, <2>2, <2>3, <2>4, FinalizedKeeps
<1>5. CASE DrainMergeFails
  <2>1. /\ pc = "drain" /\ pending > 0 /\ Found # 0 /\ DrainCommits
        /\ UNCHANGED <<base, fresh, calls, merges>>
    BY <1>5 DEF DrainMergeFails, Draining
  <2>2. PICK err \in MergeErrs :
            Finalized([Entry EXCEPT !.mergeErr = err, !.ftype = "other"], graph, "stopped")
    BY <1>5 DEF DrainMergeFails
  <2> DEFINE a == [Entry EXCEPT !.mergeErr = err, !.ftype = "other"]
  <2>3. a \in Attempt /\ a.node = Entry.node /\ a.iter = Entry.iter /\ a.phase = Entry.phase
    BY <1>e, <2>1 DEF Attempt
  <2>4. Finalized(a, graph, "stopped")
    BY <2>2
  <2> HIDE DEF a
  <2> QED
    BY <1>b, <1>c, <2>1, <2>3, <2>4, FinalizedKeeps
<1>6. CASE DrainEnds
  <2>1. /\ pc = "drain" /\ Goto("loop")
        /\ UNCHANGED <<disk, world, starts, batchDisk, worker, pending>>
    BY <1>6 DEF DrainEnds
  <2>2. pc' = "loop" /\ mem' \in MemType
    BY <2>1, NoMemType DEF Goto
  <2>3. Drains' /\ pc' \notin Batching
    BY <2>2 DEF Drains, Batching
  <2> QED
    BY <1>b, <1>c, <2>1, <2>2, <2>3, QuietKeeps
<1> QED
  BY <1>1, <1>2, <1>3, <1>4, <1>5, <1>6

----------------------------------------------------------------------------
(* The start of a batch. *)

\* Where an iteration may begin.
LEMMA RunFacts ==
    ASSUME Replans, Dispatch("run")
    PROVE  /\ pc = "loop" /\ status # "replanning"
           /\ att.iter = 0 \/ (status = "stopped" /\ att.phase = "merged")
<1>1. pc = "loop" /\ DecideAutoStep.step = "run"
  BY DEF Dispatch
<1>2. status # "replanning"
  <2>1. status = "replanning" => \E step \in {"terminal", "replan"} : \E why :
                                     DecideAutoStep = Go(step, why)
    BY DEF DecideAutoStep
  <2> QED
    BY <1>1, <2>1 DEF Go
<1> QED
  BY <1>1, <1>2, DecideRun

\* The nodes of a batch: they are in the graph, not registered yet, and there
\* is a limit left for all of them.
LEMMA DiscoveredFacts ==
    ASSUME ParInv
    PROVE  /\ Discovered \subseteq graph.nodes /\ Discovered \subseteq Nodes
           /\ Discovered \cap Running = {}
           /\ Cardinality(Running \cup Discovered) <= MaxParallel
           /\ DiscoveredGraph \in Graph /\ DiscoveredGraph.nodes = graph.nodes
<1>1. /\ graph \in Graph /\ running \in [Nodes -> Nat] /\ Cardinality(Running) <= MaxParallel
  BY SavedFacts DEF ParInv, Registered
<1>2. /\ IsFiniteSet(Running) /\ Cardinality(Running) \in Nat /\ Limit \in Nat
      /\ Limit # 0 => Cardinality(Running) + Limit = MaxParallel
  BY <1>1, LimitType
<1>3. IsFiniteSet(Discovered) /\ Cardinality(Discovered) <= Limit
  BY <1>1, <1>2, ScanWithinLimit DEF Discovered
<1>4. Discovered \subseteq graph.nodes
  BY <1>1, NextRunnableNodesType DEF Discovered
<1>5. Discovered \subseteq Nodes
  BY <1>1, <1>4 DEF Graph
<1>6. Discovered \cap Running = {}
  BY DEF Discovered, NextRunnableNodes, Runnable
<1>7. Cardinality(Discovered) \in Nat
  BY <1>3, FS_CardinalityType
<1>8. Cardinality(Running \cup Discovered) <= MaxParallel
  <2>1. Cardinality(Running \cup Discovered)
            = Cardinality(Running) + Cardinality(Discovered) - Cardinality(Running \cap Discovered)
    BY <1>2, <1>3, FS_Union
  <2>2. Cardinality(Running \cap Discovered) = 0
    BY <1>6, FS_EmptySet
  <2>3. MaxParallel \in Nat
    BY ParallelAssumption
  <2>4. CASE Limit = 0
    BY <1>1, <1>2, <1>3, <1>7, <2>1, <2>2, <2>3, <2>4
  <2>5. CASE Limit # 0
    BY <1>2, <1>3, <1>7, <2>1, <2>2, <2>3, <2>5
  <2> QED
    BY <2>4, <2>5
<1>9. DiscoveredGraph \in Graph /\ DiscoveredGraph.nodes = graph.nodes
  BY <1>1, AfterScanType DEF DiscoveredGraph
<1> QED
  BY <1>4, <1>5, <1>6, <1>8, <1>9

\* What the start of a batch does to the state.
Begins ==
    LET L == Len(past) + 1
        K == Len(past') + 1
    IN  /\ K \in Nat /\ K > L /\ pc' = "batch" /\ att' = History'[K]
        /\ \A i \in 1..L : History'[i] = History[i]
        /\ \A i \in 1..K : i > L =>
            LET a == History'[i]
            IN  /\ a.node \in Discovered /\ running'[a.node] = i
                /\ a.phase = "planning" /\ a.decision = "none" /\ a.mergeErr = "none"
                /\ a.iter # 0 /\ a.base = base
        /\ \A n \in Nodes :
            IF n \in Discovered
            THEN /\ running'[n] \in 1..K /\ running'[n] > L
                 /\ worker'[n].stage = "todo"
            ELSE running'[n] = running[n] /\ worker'[n].stage = "idle"
        /\ status' = status /\ graph' = DiscoveredGraph /\ queue' = queue /\ base' = base

\* A batch registers an attempt for each of its nodes, and no more attempts
\* than there is room for.
LEMMA BatchStartKeeps ==
    ASSUME ParInv, BatchStart
    PROVE  ParInv' /\ Begins
<1> DEFINE D == Discovered
           size == Cardinality(D)
           node(k) == CHOOSE n \in D : Place(n) = k
           begun == [k \in 1..size |-> BeginAttempt(iteration + k, 0, node(k))]
           registry == [n \in Nodes |-> IF n \in D THEN Len(past) + 1 + Place(n) ELSE running[n]]
           s == [Saved EXCEPT
                    !.iteration = @ + size,
                    !.graph = DiscoveredGraph,
                    !.history = @ \o begun,
                    !.running = [n \in Nodes |->
                        IF n \in D THEN Len(past) + 1 + Place(n) ELSE @[n]]]
           todo == [Idle EXCEPT !.stage = "todo"]
<1>1. /\ Dispatch("run") /\ D # {} /\ Save(s)
      /\ worker' = [n \in Nodes |-> IF n \in D THEN todo ELSE Idle]
      /\ NewWorktree /\ Goto("batch") /\ UNCHANGED <<starts, pending>>
  BY DEF BatchStart
<1>2. ParTypeOK /\ Replans /\ Pool /\ Registered
  BY DEF ParInv
<1>3. /\ D \subseteq graph.nodes /\ D \subseteq Nodes /\ D \cap Running = {}
      /\ Cardinality(Running \cup D) <= MaxParallel
      /\ DiscoveredGraph \in Graph /\ DiscoveredGraph.nodes = graph.nodes
  BY DiscoveredFacts
<1>4. /\ size \in Nat
      /\ \A n \in D : Place(n) \in 1..size
      /\ \A m, n \in D : Place(m) = Place(n) => m = n
      /\ \A k \in 1..size : \E n \in D : Place(n) = k
  BY <1>3, PlaceIsBijection
<1>5. size # 0
  BY <1>1, <1>4
<1> HIDE DEF D
<1>6. /\ \A k \in 1..size : node(k) \in D /\ Place(node(k)) = k
      /\ \A n \in D : node(Place(n)) = n
  <2>1. \A k \in 1..size : node(k) \in D /\ Place(node(k)) = k
    BY <1>4
  <2> HIDE DEF node, size
  <2> QED
    BY <1>4, <2>1
<1> HIDE DEF node, size
<1>7. /\ Saved \in Copies /\ Saved.history = History /\ Saved.running = running
      /\ Saved.queue = queue /\ Saved.status = status /\ Saved.iteration = iteration
      /\ iteration \in Nat /\ running \in [Nodes -> Nat]
      /\ History \in Seq(Attempt) /\ Len(History) = Len(past) + 1 /\ Len(past) \in Nat
      /\ base \subseteq Nodes
  BY <1>2, SavedFacts DEF ParTypeOK
<1>8. /\ begun \in Seq(Attempt) /\ Len(begun) = size
      /\ \A k \in 1..size : /\ begun[k] \in Attempt /\ begun[k].node = node(k)
                            /\ begun[k].iter # 0 /\ begun[k].phase = "planning"
                            /\ begun[k].decision = "none" /\ begun[k].mergeErr = "none"
                            /\ begun[k].base = base
  <2>1. ASSUME NEW k \in 1..size
        PROVE  LET a == BeginAttempt(iteration + k, 0, node(k))
               IN  /\ a \in Attempt /\ a.node = node(k) /\ a.iter # 0 /\ a.phase = "planning"
                   /\ a.decision = "none" /\ a.mergeErr = "none" /\ a.base = base
    <3>1. node(k) \in 0..MaxNodes /\ iteration + k \in Nat /\ iteration + k # 0
      <4>1. node(k) \in 1..MaxNodes
        BY <1>3, <1>6 DEF Nodes
      <4>2. node(k) \in 0..MaxNodes
        BY <4>1, MaxNodesAssumption
      <4>3. iteration \in Nat /\ k \in Nat /\ k # 0
        BY <1>4, <1>7
      <4> HIDE DEF node
      <4> QED
        BY <4>2, <4>3
    <3>2. BeginAttempt(iteration + k, 0, node(k)) \in Attempt
      BY <1>7, <3>1, BeginAttemptType
    <3>3. LET a == BeginAttempt(iteration + k, 0, node(k))
          IN  /\ a.node = node(k) /\ a.iter = iteration + k
              /\ a.phase = IF iteration + k = 0 THEN "preflight" ELSE "planning"
              /\ a.decision = "none" /\ a.mergeErr = "none" /\ a.base = base
      BY DEF BeginAttempt
    <3> QED
      BY <3>1, <3>2, <3>3
  <2>2. \A k \in 1..size : begun[k] = BeginAttempt(iteration + k, 0, node(k))
    OBVIOUS
  <2>3. begun \in Seq(Attempt) /\ Len(begun) = size
    BY <1>4, <2>1
  <2> HIDE DEF begun
  <2> QED
    BY <2>1, <2>2, <2>3
<1> DEFINE h == History \o begun
<1>9. registry \in [Nodes -> Nat] /\ \A n \in Nodes :
          registry[n] = IF n \in D THEN Len(past) + 1 + Place(n) ELSE running[n]
  BY <1>4, <1>7
<1>10. s = [[[[Saved EXCEPT !.iteration = iteration + size] EXCEPT !.graph = DiscoveredGraph]
                 EXCEPT !.history = h] EXCEPT !.running = registry]
  BY <1>7 DEF Saved
<1> HIDE DEF begun, registry, s
<1>11. /\ h \in Seq(Attempt) /\ Len(h) = Len(past) + 1 + size
       /\ \A i \in 1..Len(past)+1 : h[i] = History[i]
       /\ \A k \in 1..size : h[Len(past)+1+k] = begun[k]
  <2>1. /\ h \in Seq(Attempt) /\ Len(h) = Len(History) + Len(begun)
        /\ \A i \in 1..Len(History) + Len(begun) :
               h[i] = IF i <= Len(History) THEN History[i] ELSE begun[i - Len(History)]
    <3>1. History \in Seq(Attempt) /\ begun \in Seq(Attempt)
      BY <1>7, <1>8
    <3> QED
      BY <3>1, ConcatProperties
  <2> DEFINE l == Len(past)
  <2>2. /\ Len(History) = l + 1 /\ Len(begun) = size /\ l \in Nat /\ size \in Nat
    BY <1>4, <1>7, <1>8
  <2> HIDE DEF h, l
  <2>3. \A i \in 1..l+1 : h[i] = History[i]
    BY <2>1, <2>2
  <2>4. \A k \in 1..size : h[l+1+k] = begun[k]
    <3> SUFFICES ASSUME NEW k \in 1..size PROVE h[l+1+k] = begun[k]
      OBVIOUS
    <3> DEFINE i == l+1+k
    <3>1. i \in 1..l+1+size /\ ~(i <= l+1) /\ i - (l+1) = k
      BY <2>2
    <3> HIDE DEF i
    <3>2. i \in 1..Len(History) + Len(begun) /\ ~(i <= Len(History)) /\ i - Len(History) = k
      BY <2>2, <3>1
    <3>3. h[i] = begun[k]
      BY <2>1, <3>2
    <3> QED
      BY <3>3 DEF i
  <2> QED
    BY <2>1, <2>2, <2>3, <2>4 DEF l
<1> HIDE DEF h
<1>12. /\ s \in Copies /\ s.history = h /\ s.graph = DiscoveredGraph /\ s.running = registry
       /\ s.status = status /\ s.queue = queue
  <2>1. iteration + size \in Nat
    BY <1>4, <1>7
  <2> QED
    BY <1>3, <1>7, <1>9, <1>10, <1>11, <2>1 DEF Copies
<1>13. s.history # <<>>
  BY <1>4, <1>7, <1>11, <1>12
<1>14. /\ Saved' = s /\ History' = h /\ past' \in Seq(Attempt) /\ att' \in Attempt
       /\ Len(past') + 1 = Len(h) /\ Len(past') \in Nat /\ att' = h[Len(h)]
       /\ status' = status /\ graph' = DiscoveredGraph /\ running' = registry /\ queue' = queue
  BY <1>1, <1>12, <1>13, SaveStores
<1>15. att'.node \in D /\ att'.iter # 0 /\ att'.phase # "replanning"
  <2>1. size \in 1..size
    BY <1>4, <1>5
  <2>2. att' = begun[size]
    BY <1>11, <1>14, <2>1
  <2> QED
    BY <1>6, <1>8, <2>1, <2>2
<1>16. todo \in Thread /\ todo.stage = "todo" /\ "todo" \notin Working
  BY IdleType DEF Thread, Working
<1> HIDE DEF todo
<1>17. pc' = "batch" /\ mem' \in MemType
  BY <1>1, NoMemType DEF Goto
<1>18. ParTypeOK'
  <2>1. worker' \in [Nodes -> Thread]
    BY <1>1, <1>16, IdleType
  <2>2. /\ content' \in Contents /\ base' = base /\ fresh' = {}
        /\ calls' = 0 /\ merges' = 0 /\ starts' = starts /\ pending' = pending
    BY <1>1 DEF NewWorktree, Contents
  <2>3. base \subseteq Nodes /\ starts \in Nat /\ pending \in Nat
    BY <1>2 DEF ParTypeOK
  <2>4. Saved' \in Copies
    BY <1>12, <1>14
  <2> QED
    BY <1>14, <1>17, <2>1, <2>2, <2>3, <2>4 DEF ParTypeOK, Thread
<1>19. NodeChosen'
  <2>1. att'.node \in Nodes /\ att'.node \in graph.nodes
    BY <1>3, <1>15
  <2>2. graph'.nodes = graph.nodes
    BY <1>3, <1>14
  <2>3. 0 \notin Nodes
    BY DEF Nodes
  <2>4. att'.node # 0 /\ att'.node \in graph'.nodes
    BY <2>1, <2>2, <2>3
  <2> QED
    BY <2>4 DEF NodeChosen
<1>20. Replans'
  <2>1. status # "replanning"
    BY <1>1, <1>2, RunFacts
  <2> QED
    BY <1>14, <1>15, <1>17, <2>1 DEF Replans
<1>21. \A n \in Nodes : worker'[n].stage = IF n \in D THEN "todo" ELSE "idle"
  BY <1>1, <1>16, IdleType
<1>22. Pool'
  BY <1>16, <1>17, <1>21, IdleType DEF Pool
<1>23. Registered'
  <2>1. Running' = Running \cup D
    BY <1>3, <1>4, <1>7, <1>9, <1>14 DEF Running
  <2>2. ASSUME NEW n \in Nodes, running'[n] # 0
        PROVE  running'[n] \in 1..Len(past')+1 /\ History'[running'[n]].node = n
    <3>1. CASE n \in D
      <4>1. running'[n] = Len(past) + 1 + Place(n) /\ Place(n) \in 1..size
        BY <1>4, <1>9, <1>14, <3>1
      <4>2. h[Len(past)+1+Place(n)].node = n
        BY <1>6, <1>8, <1>11, <4>1, <3>1
      <4>3. Len(past)+1+Place(n) \in 1..Len(h)
        BY <1>4, <1>7, <1>11, <4>1
      <4> QED
        BY <1>14, <4>1, <4>2, <4>3
    <3>2. CASE n \notin D
      <4>1. running'[n] = running[n] /\ running[n] \in 1..Len(past)+1
            /\ History[running[n]].node = n
        BY <1>2, <1>9, <1>14, <2>2, <3>2 DEF Registered
      <4>2. h[running[n]].node = n /\ running[n] \in 1..Len(h)
        BY <1>4, <1>7, <1>11, <4>1
      <4> QED
        BY <1>14, <4>1, <4>2
    <3> QED
      BY <3>1, <3>2
  <2>3. \A n \in Nodes : worker'[n].stage # "idle" => running'[n] # 0
    BY <1>4, <1>7, <1>9, <1>14, <1>21
  <2> QED
    BY <1>3, <1>15, <2>1, <2>2, <2>3 DEF Registered
<1>24. Drains'
  BY <1>17 DEF Drains
<1>25. Begins
  <2> DEFINE L == Len(past) + 1
             K == Len(past') + 1
  <2>1. /\ L \in Nat /\ K = L + size /\ size \in Nat /\ size # 0 /\ Len(h) = K
    BY <1>4, <1>5, <1>7, <1>11, <1>14
  <2>2. /\ att' = History'[K] /\ \A i \in 1..L : History'[i] = History[i]
        /\ \A k \in 1..size : History'[L+k] = begun[k]
    BY <1>11, <1>14, <2>1
  <2>3. /\ base' = base /\ status' = status /\ graph' = DiscoveredGraph /\ queue' = queue
        /\ \A n \in Nodes : running'[n] = IF n \in D THEN L + Place(n) ELSE running[n]
    BY <1>1, <1>9, <1>14 DEF NewWorktree
  <2> HIDE DEF L, K
  <2>4. ASSUME NEW i \in 1..K, i > L
        PROVE  LET a == History'[i]
               IN  /\ a.node \in D /\ running'[a.node] = i
                   /\ a.phase = "planning" /\ a.decision = "none" /\ a.mergeErr = "none"
                   /\ a.iter # 0 /\ a.base = base
    <3> DEFINE k == i - L
    <3>1. k \in 1..size /\ L + k = i
      BY <2>1, <2>4
    <3> HIDE DEF k
    <3>2. History'[i] = begun[k] /\ begun[k].node = node(k) /\ node(k) \in D /\ Place(node(k)) = k
      BY <1>6, <1>8, <2>2, <3>1
    <3>3. running'[node(k)] = i
      BY <1>3, <2>3, <3>1, <3>2
    <3> QED
      BY <1>8, <3>1, <3>2, <3>3
  <2>5. \A n \in D : running'[n] \in 1..K /\ running'[n] > L
    <3> SUFFICES ASSUME NEW n \in D PROVE running'[n] \in 1..K /\ running'[n] > L
      OBVIOUS
    <3>1. running'[n] = L + Place(n) /\ Place(n) \in 1..size
      BY <1>3, <1>4, <2>3
    <3> QED
      BY <2>1, <3>1
  <2>6. K \in Nat /\ K > L
    BY <2>1
  <2> QED
    BY <1>17, <1>21, <2>2, <2>3, <2>4, <2>5, <2>6 DEF Begins, L, K, D
<1> QED
  BY <1>18, <1>19, <1>20, <1>22, <1>23, <1>24, <1>25 DEF ParInv

----------------------------------------------------------------------------
(* The steps of the loop that belong to no batch: those of AutoLoop, with  *)
(* the registry and the queue left alone.                                  *)

\* Where there is no batch, AutoLoop's invariant holds.
LEMMA ParTypeFacts ==
    ASSUME ParInv
    PROVE  /\ pc \in PCs => TypeInv
           /\ running \in [Nodes -> Nat] /\ queue \in Seq(Nodes) /\ pending \in Nat
           /\ worker \in [Nodes -> Thread]
           /\ pc \in PCs => pc \notin Batching /\ \A n \in Nodes : worker[n] = Idle
<1>1. ParTypeOK /\ NodeChosen /\ Replans /\ Pool
  BY DEF ParInv
<1>2. /\ status \in {"initialized", "running", "stopped", "failed", "done", "replanning"}
      /\ iteration \in Nat /\ graph \in Graph
      /\ running \in [Nodes -> Nat] /\ queue \in Seq(Nodes)
  BY <1>1 DEF ParTypeOK, Copies, Saved
<1>3. pc \in PCs => TypeOK
  BY <1>1, <1>2 DEF ParTypeOK, TypeOK
<1>4. pc \in PCs => pc \notin Batching /\ pc # "batch"
  BY DEF PCs, Batching
<1>5. worker \in [Nodes -> Thread] /\ pending \in Nat
  BY <1>1 DEF ParTypeOK, Thread
<1> QED
  BY <1>1, <1>2, <1>3, <1>4, <1>5 DEF TypeInv, Pool

\* The registered attempts stay where they are, whatever is appended.
LEMMA AloneRegistered ==
    ASSUME ParInv, past' \in Seq(Attempt), att' \in Attempt,
           UNCHANGED <<running, worker>>,
           \/ past' = past /\ (att.node # 0 => att'.node = att.node) /\ att'.iter = att.iter
           \/ past' = Append(past, att) /\ att'.iter # 0
           \/ past' = past /\ att.iter = 0
    PROVE  Registered'
<1>1. ParTypeOK /\ Registered
  BY DEF ParInv
<1>2. /\ Len(past) \in Nat /\ History[Len(past)+1] = att
      /\ \A i \in 1..Len(past) : History[i] = past[i]
      /\ past \in Seq(Attempt) /\ att \in Attempt
  BY <1>1, SavedFacts DEF ParTypeOK
<1>3. Running' = Running /\ running' = running /\ worker' = worker
  BY DEF Running
<1>4. \A n \in Nodes : running[n] # 0 =>
          running[n] \in 1..Len(past')+1 /\ History'[running[n]].node = n
  <2> SUFFICES ASSUME NEW n \in Nodes, running[n] # 0
               PROVE  running[n] \in 1..Len(past')+1 /\ History'[running[n]].node = n
    OBVIOUS
  <2>1. running[n] \in 1..Len(past)+1 /\ History[running[n]].node = n
    BY <1>1 DEF Registered
  <2>2. History' = Append(past', att')
    BY DEF History
  <2>3. CASE past' = past /\ (att.node # 0 => att'.node = att.node)
    <3>1. CASE running[n] = Len(past) + 1
      <4>1. att.node = n /\ n # 0
        BY <1>2, <2>1, <3>1 DEF Nodes
      <4> QED
        BY <1>2, <2>1, <2>2, <2>3, <3>1, <4>1
    <3>2. CASE running[n] # Len(past) + 1
      <4>1. running[n] \in 1..Len(past)
        BY <1>2, <2>1, <3>2
      <4>2. History'[running[n]] = past[running[n]]
        BY <1>2, <2>2, <2>3, <4>1
      <4> QED
        BY <1>2, <2>1, <2>3, <4>1, <4>2
    <3> QED
      BY <3>1, <3>2
  <2>4. CASE past' = Append(past, att)
    <3>1. Len(past') = Len(past) + 1 /\ past' = History
      BY <1>2, <2>4 DEF History
    <3>2. History'[running[n]] = History[running[n]]
      BY <1>2, <2>1, <2>2, <3>1
    <3> QED
      BY <1>2, <2>1, <3>1, <3>2
  <2>5. CASE att.iter = 0
    BY <1>1, <2>5 DEF Registered
  <2> QED
    BY <2>3, <2>4, <2>5
<1>5. att'.iter = 0 => \A n \in Nodes : running[n] = 0
  BY <1>1 DEF Registered
<1> QED
  BY <1>1, <1>3, <1>4, <1>5 DEF Registered

\* Outside of a batch a step that keeps AutoLoop's types, and leaves what is
\* registered in place, keeps the invariant.
LEMMA AloneKept ==
    ASSUME ParInv, pc \in PCs, Alone, TypeOK', NodeChosen', Replans', Registered'
    PROVE  ParInv'
<1>1. /\ running' = running /\ queue' = queue /\ worker' = worker /\ pending' = pending
  BY DEF Alone, batchDisk
<1>2. /\ running' \in [Nodes -> Nat] /\ queue' \in Seq(Nodes) /\ pending' \in Nat
      /\ worker' \in [Nodes -> Thread]
      /\ \A n \in Nodes : worker'[n] = Idle
  BY <1>1, ParTypeFacts
<1>3. ParTypeOK'
  <2> DEFINE h == Append(past', att')
  <2>1. h \in Seq(Attempt)
    BY DEF TypeOK
  <2>2. Saved' = [status |-> status', iteration |-> iteration', graph |-> graph',
                  history |-> h, running |-> running', queue |-> queue']
    BY DEF Saved
  <2> HIDE DEF h
  <2>3. Saved' \in Copies
    BY <1>2, <2>1, <2>2 DEF Copies, TypeOK
  <2> QED
    BY <1>2, <2>3 DEF ParTypeOK, TypeOK, Thread
<1>4. Pool'
  BY <1>2, IdleType DEF Pool
<1>5. Drains'
  BY DEF TypeOK, PCs, Drains
<1> QED
  BY <1>3, <1>4, <1>5 DEF ParInv

\* A step of the sequential loop, or of the operator beside it.
LEMMA AloneKeeps ==
    ASSUME ParInv, pc \in PCs, [Next]_vars, Alone
    PROVE  ParInv'
<1>1. TypeInv
  BY ParTypeFacts
<1>2. TypeOK' /\ NodeChosen' /\ Replans'
  BY <1>1, NextTypeOK, NextNodeChosen, NextReplans
<1>3. past' \in Seq(Attempt) /\ att' \in Attempt /\ att \in Attempt /\ iteration \in Nat
  BY <1>1, <1>2 DEF TypeOK, TypeInv
<1>4. UNCHANGED <<running, worker>>
  BY DEF Alone, batchDisk
<1>5. Settled \/ AutoRun \/ ResumeRetry \/ MergeRecorded \/ AutoRepair
  BY <1>1, NextSettled
<1>6. Registered'
  <2>1. CASE Settled
    BY <1>3, <1>4, <2>1, AloneRegistered DEF Settled
  <2>2. CASE AutoRun
    <3>1. att'.iter = iteration + 1 /\ past' = IF att.iter = 0 THEN past ELSE Append(past, att)
      BY <2>2 DEF AutoRun, AutoRunOn, BeginAttempt
    <3>2. att'.iter # 0
      BY <1>3, <3>1
    <3> QED
      BY <1>3, <1>4, <3>1, <3>2, AloneRegistered
  <2>3. CASE ResumeRetry
    <3>1. att'.iter = att.iter /\ past' = Append(past, att)
      BY <2>3 DEF ResumeRetry, BeginAttempt
    <3>2. att.iter # 0
      BY <2>3, DecideFirst DEF ResumeRetry, Dispatch
    <3> QED
      BY <1>3, <1>4, <3>1, <3>2, AloneRegistered
  <2>4. CASE MergeRecorded
    <3>1. att'.iter = att.iter /\ att'.node = att.node /\ past' = past
      BY <1>3, <2>4 DEF MergeRecorded, Attempt
    <3> QED
      BY <1>3, <1>4, <3>1, AloneRegistered
  <2>5. CASE AutoRepair
    <3>1. att'.iter = att.iter /\ att'.node = att.node /\ past' = past
      BY <1>3, <2>5 DEF AutoRepair, IncrementRecoveryCounter, Attempt
    <3> QED
      BY <1>3, <1>4, <3>1, AloneRegistered
  <2> QED
    BY <1>5, <2>1, <2>2, <2>3, <2>4, <2>5
<1> QED
  BY <1>2, <1>6, AloneKept

\* An iteration of one node, on the graph the discovery has scanned.
LEMMA RunAloneKeeps ==
    ASSUME ParInv, RunAlone
    PROVE  ParInv'
<1>1. AutoRunOn(DiscoveredGraph) /\ Alone
  BY DEF RunAlone, Alone
<1>2. pc = "loop" /\ status # "replanning"
  BY <1>1, RunFacts DEF AutoRunOn, ParInv
<1>3. TypeInv /\ pc \in PCs
  BY <1>2, ParTypeFacts DEF PCs
<1>4. DiscoveredGraph \in Graph
  BY DiscoveredFacts
<1>5. /\ iteration' = iteration + 1 /\ past' = IF att.iter = 0 THEN past ELSE Append(past, att)
      /\ att' = BeginAttempt(iteration + 1, 0, 0)
      /\ status' = "running" /\ graph' = DiscoveredGraph /\ pc' = "plan" /\ mem' = NoMem
      /\ content' = "clean" /\ fresh' = {} /\ calls' = 0 /\ merges' = 0
      /\ base' = base /\ starts' = starts
  BY <1>1 DEF AutoRunOn, NewWorktree, Goto
<1>6. /\ iteration + 1 \in Nat /\ iteration + 1 # 0 /\ base \subseteq Nodes
      /\ past \in Seq(Attempt) /\ att \in Attempt /\ starts \in Nat
  BY <1>3 DEF TypeInv, TypeOK
<1>7. att' \in Attempt /\ past' \in Seq(Attempt)
  <2>1. 0 \in 0..MaxNodes /\ 0 \in Nat
    BY MaxNodesAssumption
  <2>2. att' \in Attempt
    BY <1>5, <1>6, <2>1, BeginAttemptType
  <2> QED
    BY <1>5, <1>6, <2>2
<1>8. att'.node = 0 /\ att'.iter # 0 /\ att'.phase = "planning" /\ Blank(att')
  BY <1>5, <1>6 DEF BeginAttempt, Blank
<1>9. TypeOK'
  BY <1>4, <1>5, <1>6, <1>7, NoMemType DEF TypeOK, Contents, PCs
<1>10. NodeChosen' /\ Replans'
  BY <1>5, <1>8 DEF NodeChosen, Replans
<1>11. Registered'
  BY <1>1, <1>5, <1>7, <1>8, AloneRegistered DEF Alone, batchDisk
<1> QED
  BY <1>1, <1>3, <1>9, <1>10, <1>11, AloneKept

\* No step of the sequential loop is taken in a batch.
LEMMA SequentialAlone ==
    ASSUME DispatchStep \/ PhaseStep \/ AutoRunRefused \/ Start \/ ImplWrite
    PROVE  pc \in PCs
<1>1. CASE DispatchStep \/ AutoRunRefused \/ Start \/ ImplWrite
  BY <1>1 DEF DispatchStep, Reconcile, AutoDone, AutoTerminal, ResumeRetry, ResumeFinalize,
              ResumeFrom, ResumeRefused, AutoRepair, AutoReplan, SoftReset, HandleFailure,
              AutoRunRefused, Dispatch, Start, ImplWrite, PCs
<1>2. CASE PhaseStep
  <2>1. PhaseStep =>
          pc \in {"plan", "impl", "implRun", "implFailed", "stopPatch", "test", "testRun", "review",
                  "reviewRun", "finalize", "merged", "repair", "repairRun", "replan"}
    BY DEF PhaseStep, PlannerPlans, PlannerFails, NodeSetup, NoRunnableNode, SetupFails,
           ImplStart, ImplAlreadyDone, ImplAlreadyFailed, ImplEnd, ImplFailed, StopForPatch,
           TestStart, TestEnd, TestAlreadyDone, ReviewStart, ReviewEnd, ReviewFails,
           ReviewAlreadyDone, FinalizeStop, FinalizeReject, FinalizeHold, MergeInGit,
           MergeRecorded, MergeFails, RepairSkipped, RepairReset, RepairStart, ReplanApplied,
           ReplanFails
  <2> QED
    BY <1>2, <2>1 DEF PCs
<1> QED
  BY <1>1, <1>2

\* A kill leaves what is saved, and takes the threads with it.
LEMMA CrashKeeps ==
    ASSUME ParInv, ParCrash
    PROVE  ParInv'
<1>1. /\ pc' = "off" /\ mem' = NoMem /\ UNCHANGED <<disk, world, starts, batchDisk>>
      /\ worker' = [n \in Nodes |-> Idle] /\ pending' = 0
  BY DEF ParCrash, Crash, Goto
<1>2. /\ status' = status /\ iteration' = iteration /\ graph' = graph /\ past' = past /\ att' = att
      /\ content' = content /\ base' = base /\ fresh' = fresh /\ calls' = calls /\ merges' = merges
      /\ running' = running /\ queue' = queue /\ starts' = starts
  BY <1>1 DEF disk, world, batchDisk
<1>3. Saved' = Saved /\ History' = History /\ Running' = Running
  BY <1>2 DEF Saved, History, Running
<1>4. \A n \in Nodes : worker'[n] = Idle
  BY <1>1
<1>5. ParTypeOK'
  <2>1. worker' \in [Nodes -> Thread]
    BY <1>1, IdleType
  <2> QED
    BY <1>1, <1>2, <1>3, <2>1, NoMemType DEF ParInv, ParTypeOK, Thread, PCs
<1>6. NodeChosen' /\ Replans'
  BY <1>1, <1>2 DEF ParInv, NodeChosen, Replans
<1>7. Pool' /\ Drains'
  BY <1>1, <1>4, IdleType DEF Pool, Drains
<1>8. Registered'
  BY <1>2, <1>3, <1>4, IdleType DEF ParInv, Registered
<1> QED
  BY <1>5, <1>6, <1>7, <1>8 DEF ParInv

\* The operator's commit changes nothing but the worktree.
LEMMA OperatorKeeps ==
    ASSUME ParInv, ParOperatorCommits
    PROVE  ParInv'
<1>1. /\ OperatorCommits /\ Alone /\ content' = "patch"
      /\ UNCHANGED <<disk, base, fresh, calls, merges, pc, mem, starts>>
      /\ UNCHANGED <<batchDisk, worker, pending>>
  BY DEF ParOperatorCommits, OperatorCommits, Alone
<1>2. CASE pc \in PCs
  BY <1>1, <1>2, AloneKeeps DEF Next
<1>3. CASE pc \notin PCs
  <2>1. ParTypeOK /\ Drains
    BY DEF ParInv
  <2>2. /\ pc \in Batching /\ base \subseteq Nodes /\ pending \in Nat /\ mem \in MemType
    BY <1>3, <2>1 DEF ParTypeOK, Batching
  <2>3. content' \in Contents
    BY <1>1 DEF Contents
  <2>4. Found' = Found /\ queue' = queue
    BY <1>1 DEF disk, batchDisk, Found, FindAttemptForNode
  <2>5. Drains'
    BY <1>1, <2>1, <2>4 DEF Drains
  <2> QED
    BY <1>1, <2>2, <2>3, <2>5, QuietKeeps
<1> QED
  BY <1>2, <1>3

----------------------------------------------------------------------------
(* The theorems. *)

\* A new task satisfies the invariant.
LEMMA InitPar == ParInit => ParInv
<1> SUFFICES ASSUME ParInit PROVE ParInv
  OBVIOUS
<1>1. /\ Init /\ running = [n \in Nodes |-> 0] /\ queue = <<>>
      /\ worker = [n \in Nodes |-> Idle] /\ pending = 0
  BY DEF ParInit
<1>2. TypeInv /\ pc = "off"
  BY <1>1, InitTypeInv DEF Init
<1>3. ParTypeOK
  <2>1. worker \in [Nodes -> Thread] /\ running \in [Nodes -> Nat] /\ queue \in Seq(Nodes)
    BY <1>1, IdleType
  <2> DEFINE h == Append(past, att)
  <2>2. h \in Seq(Attempt)
    BY <1>2 DEF TypeInv, TypeOK
  <2>3. Saved = [status |-> status, iteration |-> iteration, graph |-> graph,
                 history |-> h, running |-> running, queue |-> queue]
    BY DEF Saved
  <2> HIDE DEF h
  <2>4. Saved \in Copies
    BY <1>2, <2>1, <2>2, <2>3 DEF Copies, TypeInv, TypeOK
  <2> QED
    BY <1>1, <1>2, <2>1, <2>4 DEF ParTypeOK, TypeInv, TypeOK, Thread
<1>4. Pool /\ Drains
  BY <1>1, <1>2, IdleType DEF Pool, Drains
<1>5. Registered
  <2>1. Running = {}
    BY <1>1 DEF Running
  <2>2. Cardinality(Running) <= MaxParallel
    BY <2>1, FS_EmptySet, ParallelAssumption
  <2> QED
    BY <1>1, <2>2, IdleType DEF Registered
<1> QED
  BY <1>2, <1>3, <1>4, <1>5 DEF ParInv, TypeInv

\* Every step keeps it.
LEMMA NextPar == ParInv /\ [ParNext]_parVars => ParInv'
<1> SUFFICES ASSUME ParInv, [ParNext]_parVars PROVE ParInv'
  OBVIOUS
<1>1. CASE BatchStart
  BY <1>1, BatchStartKeeps
<1>2. ASSUME NEW n \in Nodes, WorkerStep(n) PROVE ParInv'
  BY <1>2, WorkerStepWorks, WorksKeeps
<1>3. ASSUME NEW n \in Nodes, TakeResult(n) PROVE ParInv'
  BY <1>3, TakeResultKeeps
<1>4. CASE DrainSkips \/ DrainHolds \/ DrainMerges \/ DrainRecords \/ DrainMergeFails \/ DrainEnds
  BY <1>4, DrainKeeps
<1>5. CASE BatchStep
  BY <1>5, <1>1, <1>2, <1>3, <1>4 DEF BatchStep
<1>6. CASE RunAlone
  BY <1>6, RunAloneKeeps
<1>7. CASE (DispatchStep \/ PhaseStep \/ AutoRunRefused \/ Start \/ ImplWrite) /\ Alone
  <2>1. Next
    BY <1>7 DEF Next, RunnerStep, LoopStep
  <2> QED
    BY <1>7, <2>1, SequentialAlone, AloneKeeps
<1>8. CASE ParCrash
  BY <1>8, CrashKeeps
<1>9. CASE ParOperatorCommits
  BY <1>9, OperatorKeeps
<1>10. CASE UNCHANGED parVars
  <2>1. /\ UNCHANGED <<disk, batchDisk, worker, starts, fresh, calls, merges>>
        /\ content' = content /\ base' = base /\ pending' = pending /\ mem' = mem /\ pc' = pc
        /\ UNCHANGED vars /\ Alone
    BY <1>10 DEF parVars, vars, world, Alone
  <2>2. CASE pc \in PCs
    BY <2>1, <2>2, AloneKeeps
  <2>3. CASE pc \notin PCs
    <3>1. ParTypeOK /\ Drains
      BY DEF ParInv
    <3>2. /\ pc \in Batching /\ base \subseteq Nodes /\ pending \in Nat /\ mem \in MemType
          /\ content \in Contents
      BY <2>3, <3>1 DEF ParTypeOK, Batching
    <3>3. Found' = Found /\ queue' = queue
      BY <2>1 DEF disk, batchDisk, Found, FindAttemptForNode
    <3>4. Drains'
      BY <2>1, <3>1, <3>3 DEF Drains
    <3> QED
      BY <2>1, <3>2, <3>4, QuietKeeps
  <2> QED
    BY <2>2, <2>3
<1>11. RunAloneRefused => AutoRunRefused /\ Alone
  BY DEF RunAloneRefused, Alone
<1> QED
  BY <1>5, <1>6, <1>7, <1>8, <1>9, <1>10, <1>11 DEF ParNext, ParRunnerStep

\* What the threads, the registry and the queue rely on is always so.
LEMMA ParInvariant == ParSpec => []ParInv
BY InitPar, NextPar, PTL DEF ParSpec

\* The variables keep their types, the copies the threads work on included,
\* whatever is planned, answered, saved, killed and restarted, and in whatever
\* order the threads take their turns.
THEOREM ParTypeCorrect == ParSpec => []ParTypeOK
<1>1. ParInv => ParTypeOK
  BY DEF ParInv
<1> QED
  BY ParInvariant, <1>1, PTL

\* Never more attempts than max_parallel_nodes are registered, those a killed
\* batch has left behind included, and what a thread works on is the attempt
\* that is registered for its node.
THEOREM LimitIsRespected == ParSpec => []WithinMaxParallel
<1>1. ParInv => WithinMaxParallel
  <2> SUFFICES ASSUME ParInv PROVE WithinMaxParallel
    OBVIOUS
  <2>1. DOMAIN History = 1..Len(past)+1
    BY SavedFacts DEF ParInv
  <2> QED
    BY <2>1 DEF ParInv, Registered, WithinMaxParallel
<1> QED
  BY ParInvariant, <1>1, PTL

----------------------------------------------------------------------------
(* What batches make of the attempts, the graph and the base branch. *)

\* An approved attempt that a worker's timeout marked as failed: the loop stops
\* on it.
Overtaken ==
    /\ att.phase = "failed" /\ att.decision = "approve" /\ att.mergeErr = "none"
    /\ att.ftype # "patch_not_captured" /\ att.iter # 0 /\ att.node # 0

\* Outside of a batch the last attempt is as AutoLoop leaves it, or overtaken.
Verdicts ==
    pc \notin Batching =>
        \/ Approval
        \/ Overtaken /\ status \notin {"done", "replanning"} /\ pc \in {"off", "loop"}

\* In a batch it is one of AutoLoop's at any moment the batch may be killed.
InBatch ==
    pc \in Batching =>
        /\ att.iter # 0 /\ graph.status[att.node] # "skipped"
        /\ att.decision = "approve" =>
            /\ att.phase \in {"approved", "merged"} \/ Overtaken
            /\ att.ftype # "patch_not_captured"
        /\ att.phase = "merged" =>
            /\ att.decision = "approve" /\ att.exit = "ok" /\ att.mergeErr = "none"
            /\ status \in {"stopped", "done"} /\ pc # "batch"
        /\ att.mergeErr # "none" => Candidate /\ status = "stopped" /\ pc # "batch"
        /\ status = "done" => att.phase = "merged"
        /\ pc = "batch" => att.node \notin base
        /\ pc = "drainMerged" => Head(queue) \in base

\* What the merge queue relies on.
Sound(a) ==
    /\ a.decision = "approve" /\ a.exit = "ok"
    /\ a.node \in graph.nodes /\ graph.deps[a.node] \subseteq a.base /\ a.base \subseteq base

\* Approved attempts are sound, and their nodes are not taken up again.
Settles ==
    \A i \in 1..Len(past)+1 : IsSettled(History[i]) =>
        /\ i # Len(past)+1 \/ pc \in Batching => Sound(History[i])
        /\ i # Len(past)+1 =>
            /\ graph.status[History[i].node] \in Taken
            /\ History[i].phase = "merged" => graph.status[History[i].node] = "passed"

\* The attempts that are approved, or may still be.
Counts(i) ==
    \/ IsSettled(History[i]) \/ i = Len(past)+1
    \/ \E n \in Nodes : worker[n].stage # "idle" /\ running[n] = i

\* No two of them are for one node.
Unique ==
    \A i, j \in 1..Len(past)+1 :
        Counts(i) /\ Counts(j) /\ History[i].node = History[j].node => i = j

\* The queue holds a node once, when its thread is gone, and not after its merge.
Queued ==
    /\ \A j, k \in DOMAIN queue : queue[j] = queue[k] => j = k
    /\ \A k \in DOMAIN queue :
        /\ queue[k] \in graph.nodes /\ running[queue[k]] = 0
        /\ queue[k] = att.node \/ graph.status[queue[k]] \in Taken
        /\ queue[k] = att.node /\ pc \in Batching => att.mergeErr = "none" /\ att.phase # "merged"

\* A thread works on an attempt without a verdict, on a base it can build on.
Labors ==
    \A n \in Nodes : worker[n].stage # "idle" =>
        LET a == History[running[n]]
        IN  /\ n \in graph.nodes /\ graph.status[n] \notin {"passed", "skipped"}
            /\ graph.deps[n] \subseteq a.base /\ a.base \subseteq base
            /\ worker[n].stage # "todo" => graph.status[n] \in {"running", "failed"}
            /\ worker[n].stage \in Working \cup {"todo"} => a.decision = "none" /\ ~IsSettled(a)
            /\ worker[n].stage \in Implemented => a.exit = "ok"

\* What is in the base branch has passed, or waits for its merge to be recorded.
Covered ==
    \A n \in base :
        \/ graph.status[n] = "passed"
        \/ \E i \in 1..Len(past)+1 : History[i].node = n /\ Approved(History[i])

BatchInv ==
    /\ ParInv /\ Grounded /\ Verdicts /\ InBatch
    /\ Settles /\ Unique /\ Queued /\ Labors /\ Covered

\* A thread's step.
LEMMA WorkKeepsBatch ==
    ASSUME BatchInv, NEW n \in Nodes, NEW s, Works(n, s), Turns(n, s)
    PROVE  BatchInv'
<1> DEFINE L == Len(past) + 1
           r == running[n]
           a == History[r]
           b == History'[r]
           to == worker'[n].stage
<1>1. /\ pc = "batch" /\ pc' = "batch" /\ worker[n].stage # "idle" /\ base' = base
      /\ Tidy(s) /\ s.running = running /\ s.queue = queue /\ Save(s)
  BY DEF Works
<1>2. PICK t \in Thread : /\ worker' = [worker EXCEPT ![n] = t]
                          /\ t.stage \in Working \cup Results
  BY DEF Works
<1>3. /\ ParInv /\ Grounded /\ InBatch /\ Settles /\ Unique /\ Queued /\ Labors /\ Covered
      /\ ParTypeOK /\ Registered /\ NodeChosen
  BY DEF BatchInv, ParInv
<1>4. ParInv'
  BY <1>3, WorksKeeps
<1>5. /\ History \in Seq(Attempt) /\ Len(past) \in Nat /\ History[L] = att
      /\ \A i \in 1..L : History[i] \in Attempt
      /\ graph \in Graph /\ running \in [Nodes -> Nat] /\ worker \in [Nodes -> Thread]
  BY <1>3, SavedFacts DEF ParTypeOK, Thread
<1>6. /\ Saved' = s /\ Len(past') = Len(past)
      /\ \A i \in 1..L : History'[i].node = History[i].node
      /\ att'.iter = att.iter
      /\ status' = s.status /\ graph' = s.graph /\ running' = running /\ queue' = queue
  BY <1>1, <1>3, TidySave DEF Batching
<1>7. History' = s.history /\ att' = History'[L] /\ graph'.nodes = graph.nodes
  <2>1. s \in Copies /\ s.history # <<>> /\ Len(s.history) = L /\ s.graph.nodes = graph.nodes
    BY <1>1, <1>5 DEF Tidy
  <2>2. History' = s.history /\ att' = s.history[Len(s.history)]
    BY <1>1, <2>1, SaveStores
  <2> QED
    BY <1>6, <2>1, <2>2
<1>8. \A m \in Nodes : worker'[m] = IF m = n THEN t ELSE worker[m]
  BY <1>2, <1>5
<1>9. /\ r \in 1..L /\ a.node = n
      /\ \A m \in Nodes \ {n} : worker[m].stage # "idle" => running[m] \in 1..L /\ running[m] # r
                                                            /\ History[running[m]].node = m
  BY <1>1, <1>3, <1>5 DEF Registered
<1>10. /\ att.iter # 0 /\ graph.status[att.node] # "skipped" /\ att.phase # "merged"
       /\ att.mergeErr = "none" /\ status # "done" /\ att.node \notin base
       /\ att.decision = "approve" =>
            /\ att.phase \in {"approved", "merged"} \/ Overtaken
            /\ att.ftype # "patch_not_captured"
       /\ att.node # 0 /\ att.node \in graph.nodes /\ att.node \in Nodes
       /\ graph.status[att.node] # "passed"
  <2>1. pc \in Batching
    BY <1>1 DEF Batching
  <2>2. att.node # 0 /\ att.node \in graph.nodes /\ att.node \in Nodes
    BY <1>1, <1>3, <1>5 DEF NodeChosen, Graph
  <2> QED
    BY <1>1, <1>3, <2>1, <2>2 DEF InBatch, Grounded
<1>11. /\ n \in graph.nodes /\ graph.status[n] \notin {"passed", "skipped"}
       /\ graph.deps[n] \subseteq a.base /\ a.base \subseteq base
       /\ worker[n].stage # "todo" => graph.status[n] \in {"running", "failed"}
       /\ worker[n].stage \in Working \cup {"todo"} => a.decision = "none" /\ ~IsSettled(a)
       /\ worker[n].stage \in Implemented => a.exit = "ok"
  BY <1>1, <1>3 DEF Labors
<1> HIDE DEF L
<1>12. /\ \A i \in 1..L : i # r =>
            \/ History'[i] = History[i]
            \/ i = L /\ History'[i] = [History[i] EXCEPT !.phase = "failed"]
       /\ b.base = a.base /\ b.mergeErr = a.mergeErr
       /\ \/ /\ to \in Working \cup {"raised"}
             /\ b.decision = a.decision /\ (IsSettled(b) => IsSettled(a))
          \/ /\ to = "approved" /\ worker[n].stage = "reviewRun"
             /\ b.decision = "approve" /\ b.phase = "approved"
             /\ b.exit = a.exit /\ b.ftype = "none"
          \/ /\ to = "ended"
             /\ b.decision \notin {"none", "approve"} /\ b.phase = "rejected"
       /\ worker[n].stage \in Working \cup {"todo"}
       /\ to \in Implemented =>
           b.exit = "ok" \/ (worker[n].stage \in Implemented /\ b.exit = a.exit)
       /\ graph'.deps = graph.deps
       /\ \A m \in Nodes :
           \/ graph'.status[m] = graph.status[m]
           \/ m \in {n, att.node} /\ graph'.status[m] \in {"running", "failed"}
       /\ worker[n].stage = "todo" => graph'.status[n] = "running"
       /\ status' \in {status, "running", "failed"}
  BY <1>6, <1>7 DEF Turns, L
<1>13. /\ a.decision = "none" /\ ~IsSettled(a)
       /\ b.node = n /\ b.phase # "merged"
       /\ IsSettled(b) => /\ b.decision = "approve" /\ b.phase = "approved" /\ b.exit = "ok"
                          /\ b.ftype = "none" /\ worker[n].stage # "todo"
       /\ b.decision = "approve" => b.phase = "approved" /\ b.ftype = "none"
       /\ to \in Working => b.decision = "none" /\ ~IsSettled(b)
       /\ to \in Implemented => b.exit = "ok"
  <2>1. "reviewRun" \in Implemented /\ "approved" \notin Working /\ "ended" \notin Working
        /\ "approved" \notin Implemented
    BY DEF Implemented, Working
  <2>2. b.node = n
    BY <1>6, <1>9
  <2>3. a.decision = "none" /\ ~IsSettled(a)
    BY <1>11, <1>12
  <2> HIDE DEF a, b, to
  <2> QED
    BY <1>11, <1>12, <2>1, <2>2, <2>3 DEF IsSettled
<1>14. /\ graph'.status[n] \in {"running", "failed"}
       /\ \A m \in Nodes : /\ graph.status[m] \in Taken => graph'.status[m] \in Taken
                           /\ graph'.status[m] = "passed" <=> graph.status[m] = "passed"
                           /\ graph'.status[m] = "skipped" => graph.status[m] = "skipped"
  BY <1>10, <1>11, <1>12 DEF Taken
<1>15. \/ att' = att /\ r # L
       \/ att' = [att EXCEPT !.phase = "failed"] /\ r # L
       \/ r = L /\ att' = b
  <2>1. L \in 1..L
    BY <1>5 DEF L
  <2> QED
    BY <1>5, <1>7, <1>12, <2>1
<1>16. /\ att'.node = att.node /\ att'.base = att.base /\ att'.mergeErr = "none"
       /\ att'.phase # "merged"
       /\ IsSettled(att') => /\ att'.decision = "approve"
                             /\ r = L \/ att' = att
       /\ att'.decision = "approve" =>
            /\ att'.phase \in {"approved", "merged"} \/ Overtaken'
            /\ att'.ftype # "patch_not_captured"
       /\ att \in Attempt
  <2> DEFINE f == [att EXCEPT !.phase = "failed"]
  <2>1. /\ att \in Attempt
        /\ f.node = att.node /\ f.base = att.base /\ f.mergeErr = att.mergeErr
        /\ f.phase = "failed" /\ f.decision = att.decision /\ f.ftype = att.ftype
        /\ f.iter = att.iter
    BY <1>3 DEF ParTypeOK, Attempt
  <2>2. CASE r # L /\ att' = att
    <3>1. L \in 1..L /\ pc \in Batching
      BY <1>1, <1>5 DEF L, Batching
    <3>2. IsSettled(att) => Sound(att)
      BY <1>3, <1>5, <3>1 DEF Settles, L
    <3> QED
      BY <1>10, <2>1, <2>2, <3>2 DEF Overtaken, Sound
  <2>3. CASE r # L /\ att' = f
    <3> HIDE DEF f
    <3> QED
      BY <1>10, <2>1, <2>3 DEF Overtaken, IsSettled
  <2>4. CASE r = L /\ att' = b
    <3>1. a = att
      BY <1>5, <2>4
    <3> HIDE DEF a, b
    <3> QED
      BY <1>9, <1>10, <1>12, <1>13, <3>1, <2>1, <2>4 DEF IsSettled
  <2> QED
    BY <1>15, <2>2, <2>3, <2>4
<1>h. \A i \in 1..L : i # r =>
          \/ History'[i] = History[i]
          \/ i = L /\ History'[i] = [History[i] EXCEPT !.phase = "failed"]
  BY <1>12
<1> HIDE DEF a, b, to
<1>17. Len(past')+1 = L /\ (\A m \in graph.nodes : m \in Nodes) /\ pc \in Batching /\ pc' \in Batching
  BY <1>1, <1>5, <1>6 DEF L, Batching, Graph
<1>18. Grounded'
  <2>1. \A m \in Nodes : graph'.status[m] = "passed" => m \in base' /\ graph'.deps[m] \subseteq base'
    BY <1>1, <1>3, <1>12, <1>14 DEF Grounded
  <2>2. /\ graph'.status[att.node] # "passed" /\ graph'.status[att.node] # "skipped"
        /\ graph'.deps[att.node] \subseteq att.base
    BY <1>3, <1>10, <1>12, <1>14 DEF Grounded
  <2>3. status' # "done"
    BY <1>10, <1>12
  <2> QED
    BY <1>1, <1>3, <1>7, <1>10, <1>16, <2>1, <2>2, <2>3 DEF Grounded
<1>19. Verdicts' /\ InBatch'
  <2>1. status' # "done" /\ graph'.status[att.node] # "skipped"
    BY <1>10, <1>12, <1>14
  <2> QED
    BY <1>1, <1>6, <1>10, <1>16, <1>17, <2>1 DEF Verdicts, InBatch
<1>20. \A c : Sound(c) => Sound(c)'
  BY <1>1, <1>7, <1>12 DEF Sound
<1>21. Settles'
  <2> SUFFICES ASSUME NEW i \in 1..L, IsSettled(History'[i])
               PROVE  /\ Sound(History[i])'
                      /\ i # L => /\ graph'.status[History'[i].node] \in Taken
                                  /\ History'[i].phase = "merged"
                                        => graph'.status[History'[i].node] = "passed"
    BY <1>17 DEF Settles
  <2>1. CASE i = r
    <3>1. /\ History'[i] = b /\ a.base = b.base /\ worker[n].stage # "todo"
          /\ b.decision = "approve" /\ b.phase = "approved" /\ b.exit = "ok" /\ b.node = n
      BY <1>12, <1>13, <2>1 DEF b
    <3> QED
      BY <1>1, <1>7, <1>11, <1>12, <1>14, <3>1 DEF Sound, Taken
  <2>2. CASE i # r
    <3>1. History'[i] = History[i] \/ (i = L /\ History'[i] = [History[i] EXCEPT !.phase = "failed"])
      BY <1>h, <2>2
    <3>2. History'[i] = History[i]
      <4>1. [History[i] EXCEPT !.phase = "failed"].phase = "failed"
        BY <1>5 DEF L, Attempt
      <4> QED
        BY <3>1, <4>1 DEF IsSettled
    <3>3. Sound(History[i])
      BY <1>3, <1>17, <3>2 DEF Settles, L
    <3>4. History[i].node \in Nodes
      BY <1>17, <3>3 DEF Sound
    <3>5. i # L => /\ graph.status[History[i].node] \in Taken
                   /\ History[i].phase = "merged" => graph.status[History[i].node] = "passed"
      BY <1>3, <3>2 DEF Settles, L
    <3> QED
      BY <1>14, <1>20, <3>2, <3>3, <3>4, <3>5
  <2> QED
    BY <2>1, <2>2
<1>22. \A i \in 1..L : Counts(i)' => Counts(i)
  <2> SUFFICES ASSUME NEW i \in 1..L, Counts(i)' PROVE Counts(i)
    OBVIOUS
  <2>1. CASE i = L
    BY <2>1 DEF Counts, L
  <2>2. CASE i = r
    BY <1>1, <2>2 DEF Counts
  <2>3. CASE i # L /\ i # r
    <3>1. History'[i] = History[i]
      BY <1>12, <2>3
    <3>2. \A m \in Nodes : worker'[m].stage # "idle" => worker[m].stage # "idle"
      BY <1>1, <1>8
    <3> QED
      BY <1>6, <1>17, <2>3, <3>1, <3>2 DEF Counts
  <2> QED
    BY <2>1, <2>2, <2>3
<1>23. Unique'
  BY <1>3, <1>6, <1>17, <1>22 DEF Unique, L
<1>24. Queued'
  <2>1. /\ \A j, k \in DOMAIN queue : queue[j] = queue[k] => j = k
        /\ \A k \in DOMAIN queue :
             /\ queue[k] \in graph.nodes /\ running[queue[k]] = 0
             /\ queue[k] = att.node \/ graph.status[queue[k]] \in Taken
    BY <1>3 DEF Queued
  <2> QED
    BY <1>6, <1>7, <1>14, <1>16, <1>17, <2>1 DEF Queued
<1>25. Labors'
  <2> SUFFICES ASSUME NEW m \in Nodes, worker'[m].stage # "idle"
               PROVE  LET c == History'[running[m]]
                      IN  /\ m \in graph.nodes /\ graph'.status[m] \notin {"passed", "skipped"}
                          /\ graph.deps[m] \subseteq c.base /\ c.base \subseteq base
                          /\ worker'[m].stage # "todo" => graph'.status[m] \in {"running", "failed"}
                          /\ worker'[m].stage \in Working \cup {"todo"}
                                => c.decision = "none" /\ ~IsSettled(c)
                          /\ worker'[m].stage \in Implemented => c.exit = "ok"
    BY <1>1, <1>6, <1>7, <1>12 DEF Labors
  <2>1. CASE m = n
    <3>1. to = t.stage /\ History'[running[m]] = b /\ worker'[m].stage = to
      BY <1>8, <2>1 DEF to, b, r
    <3>2. to \in Working \cup Results
      BY <1>2, <3>1
    <3>3. "todo" \notin Working \cup Results
      BY DEF Working, Results
    <3> QED
      BY <1>11, <1>12, <1>13, <1>14, <2>1, <3>1, <3>2, <3>3
  <2>2. CASE m # n
    <3> DEFINE c0 == History[running[m]]
               c == History'[running[m]]
    <3>1. worker'[m] = worker[m] /\ worker[m].stage # "idle"
      BY <1>8, <2>2
    <3>2. running[m] \in 1..L /\ running[m] # r /\ c0 \in Attempt
      BY <1>5, <1>9, <2>2, <3>1 DEF L
    <3>3. /\ m \in graph.nodes /\ graph.status[m] \notin {"passed", "skipped"}
          /\ graph.deps[m] \subseteq c0.base /\ c0.base \subseteq base
          /\ worker[m].stage # "todo" => graph.status[m] \in {"running", "failed"}
          /\ worker[m].stage \in Working \cup {"todo"} => c0.decision = "none" /\ ~IsSettled(c0)
          /\ worker[m].stage \in Implemented => c0.exit = "ok"
      BY <1>3, <3>1 DEF Labors
    <3>4. c = c0 \/ c = [c0 EXCEPT !.phase = "failed"]
      BY <1>12, <3>2
    <3> HIDE DEF c0
    <3>5. /\ c.base = c0.base /\ c.decision = c0.decision /\ c.exit = c0.exit
          /\ IsSettled(c) => IsSettled(c0)
      BY <3>2, <3>4 DEF Attempt, IsSettled
    <3>6. graph'.status[m] = graph.status[m] \/ graph'.status[m] \in {"running", "failed"}
      BY <1>12
    <3> HIDE DEF c
    <3>7. /\ m \in graph.nodes /\ graph'.status[m] \notin {"passed", "skipped"}
          /\ graph.deps[m] \subseteq c.base /\ c.base \subseteq base
          /\ worker'[m].stage # "todo" => graph'.status[m] \in {"running", "failed"}
          /\ worker'[m].stage \in Working \cup {"todo"} => c.decision = "none" /\ ~IsSettled(c)
          /\ worker'[m].stage \in Implemented => c.exit = "ok"
      BY <3>1, <3>3, <3>5, <3>6
    <3> QED
      BY <3>7 DEF c
  <2> QED
    BY <2>1, <2>2
<1>26. Covered'
  <2> SUFFICES ASSUME NEW m \in base
               PROVE  \/ graph'.status[m] = "passed"
                      \/ \E i \in 1..L : History'[i].node = m /\ Approved(History'[i])
    BY <1>1, <1>17 DEF Covered
  <2>1. m \in Nodes
    BY <1>3, <1>17 DEF Grounded
  <2>2. CASE graph.status[m] = "passed"
    BY <1>14, <2>1, <2>2
  <2>3. CASE graph.status[m] # "passed"
    <3>1. PICK i \in 1..L : History[i].node = m /\ Approved(History[i])
      BY <1>3, <2>3 DEF Covered, L
    <3>2. i # r
      BY <1>13, <3>1 DEF a, Approved
    <3>3. i # L
      BY <1>5, <1>10, <3>1
    <3>4. History'[i] = History[i]
      BY <1>12, <3>2, <3>3
    <3> QED
      BY <3>1, <3>4
  <2> QED
    BY <2>2, <2>3
<1> QED
  BY <1>4, <1>18, <1>19, <1>21, <1>23, <1>24, <1>25, <1>26 DEF BatchInv

\* The main thread takes a result.
LEMMA TakeKeepsBatch ==
    ASSUME BatchInv, NEW n \in Nodes, TakeResult(n)
    PROVE  BatchInv'
<1> DEFINE L == Len(past) + 1
<1>1. ParInv' /\ Takes(n)
  BY TakeResultKeeps DEF BatchInv
<1>2. /\ ParInv /\ Grounded /\ InBatch /\ Settles /\ Unique /\ Queued /\ Labors /\ Covered
      /\ ParTypeOK /\ Registered /\ NodeChosen
  BY DEF BatchInv, ParInv
<1>3. /\ Len(past) \in Nat /\ History[L] = att /\ graph \in Graph /\ queue \in Seq(Nodes)
      /\ graph.nodes \subseteq Nodes
  BY <1>2, SavedFacts DEF Graph
<1>4. /\ pc = "batch" /\ worker[n].stage \in Results
      /\ pc' = "batch" \/ (pc' = "drain" /\ \A m \in Nodes : worker'[m] = Idle)
      /\ History' = History /\ Len(past') = Len(past) /\ att' = att
      /\ status' = status /\ base' = base
      /\ graph'.nodes = graph.nodes /\ graph'.deps = graph.deps
  BY <1>1 DEF Takes
<1>5. /\ \A m \in Nodes : \/ graph'.status[m] = graph.status[m]
                          \/ m = n /\ graph'.status[m] = "failed"
      /\ \A m \in Nodes : running'[m] = IF m = n THEN 0 ELSE running[m]
      /\ \A m \in Nodes : worker'[m] = IF m = n THEN Idle ELSE worker[m]
      /\ \/ queue' = queue
         \/ /\ worker[n].stage = "approved" /\ queue' = Append(queue, n)
            /\ \A k \in DOMAIN queue : queue[k] # n
  BY <1>1 DEF Takes
<1>6. pc \in Batching /\ pc' \in Batching /\ pc' # "merged" /\ pc' # "drainMerged"
  BY <1>4 DEF Batching
<1>7. /\ worker[n].stage # "idle" /\ worker[n].stage # "todo"
      /\ n \in graph.nodes /\ graph.status[n] \in {"running", "failed"}
  <2>1. worker[n].stage # "idle" /\ worker[n].stage # "todo"
    BY <1>4 DEF Results
  <2> QED
    BY <1>2, <2>1 DEF Labors
<1>8. /\ \A m \in Nodes : /\ graph.status[m] \in Taken => graph'.status[m] \in Taken
                          /\ graph'.status[m] = "passed" <=> graph.status[m] = "passed"
                          /\ graph'.status[m] = "skipped" <=> graph.status[m] = "skipped"
      /\ graph'.status[n] \in Taken
  BY <1>5, <1>7 DEF Taken
<1>9. /\ att.node \in Nodes /\ att.node # 0 /\ att.mergeErr = "none" /\ att.phase # "merged"
      /\ status # "done"
  <2>1. att.mergeErr = "none" /\ att.phase # "merged"
    BY <1>2, <1>4, <1>6 DEF InBatch
  <2> QED
    BY <1>2, <1>3, <1>4, <1>6, <2>1 DEF NodeChosen, InBatch
<1>10. Grounded'
  <2>1. \A m \in Nodes : graph'.status[m] = "passed" => m \in base' /\ graph'.deps[m] \subseteq base'
    BY <1>2, <1>4, <1>8 DEF Grounded
  <2> QED
    BY <1>2, <1>4, <1>6, <1>8, <1>9, <2>1 DEF Grounded
<1>11. Verdicts' /\ InBatch'
  <2>1. Overtaken' <=> Overtaken
    BY <1>4 DEF Overtaken
  <2>2. graph'.status[att.node] # "skipped"
    BY <1>2, <1>6, <1>8, <1>9 DEF InBatch
  <2> QED
    BY <1>2, <1>4, <1>6, <1>9, <2>1, <2>2 DEF Verdicts, InBatch, Candidate
<1>13. Settles'
  <2> SUFFICES ASSUME NEW i \in 1..L, IsSettled(History[i])
               PROVE  /\ Sound(History[i])'
                      /\ i # L => /\ graph'.status[History[i].node] \in Taken
                                  /\ History[i].phase = "merged"
                                        => graph'.status[History[i].node] = "passed"
    BY <1>4 DEF Settles
  <2>1. Sound(History[i])
    BY <1>2, <1>6 DEF Settles
  <2>2. i # L => /\ graph.status[History[i].node] \in Taken
                 /\ History[i].phase = "merged" => graph.status[History[i].node] = "passed"
    BY <1>2 DEF Settles
  <2>3. History[i].node \in Nodes
    BY <1>3, <2>1 DEF Sound
  <2>4. Sound(History[i])'
    BY <1>4, <2>1 DEF Sound
  <2> QED
    BY <1>8, <2>2, <2>3, <2>4
<1>14. Unique'
  <2>1. \A i \in 1..L : Counts(i)' => Counts(i)
    BY <1>4, <1>5, IdleType DEF Counts
  <2> QED
    BY <1>2, <1>4, <2>1 DEF Unique
<1>15. Queued'
  <2>1. ASSUME NEW m, m \in graph.nodes, running[m] = 0, m = att.node \/ graph.status[m] \in Taken
        PROVE  /\ m \in graph'.nodes /\ running'[m] = 0
               /\ m = att'.node \/ graph'.status[m] \in Taken
               /\ m = att'.node /\ pc' \in Batching => att'.mergeErr = "none" /\ att'.phase # "merged"
    BY <1>3, <1>4, <1>5, <1>8, <1>9, <2>1
  <2>2. /\ \A j, k \in DOMAIN queue : queue[j] = queue[k] => j = k
        /\ \A k \in DOMAIN queue :
             /\ queue[k] \in graph.nodes /\ running[queue[k]] = 0
             /\ queue[k] = att.node \/ graph.status[queue[k]] \in Taken
    BY <1>2 DEF Queued
  <2>3. CASE queue' = queue
    BY <2>1, <2>2, <2>3 DEF Queued
  <2>4. CASE queue' = Append(queue, n) /\ \A k \in DOMAIN queue : queue[k] # n
    <3>1. /\ n \in graph'.nodes /\ running'[n] = 0
          /\ n = att'.node \/ graph'.status[n] \in Taken
          /\ n = att'.node /\ pc' \in Batching => att'.mergeErr = "none" /\ att'.phase # "merged"
      BY <1>4, <1>5, <1>7, <1>8, <1>9
    <3>2. /\ DOMAIN queue' = DOMAIN queue \cup {Len(queue) + 1}
          /\ \A k \in DOMAIN queue : queue'[k] = queue[k]
          /\ queue'[Len(queue) + 1] = n /\ Len(queue) + 1 \notin DOMAIN queue
      BY <1>3, <2>4
    <3>3. \A j, k \in DOMAIN queue' : queue'[j] = queue'[k] => j = k
      BY <2>2, <2>4, <3>2
    <3>4. \A k \in DOMAIN queue' :
              \/ queue'[k] = n
              \/ k \in DOMAIN queue /\ queue'[k] = queue[k]
      BY <3>2
    <3> QED
      BY <2>1, <2>2, <3>1, <3>3, <3>4 DEF Queued
  <2> QED
    BY <1>5, <2>3, <2>4
<1>16. Labors'
  <2>1. \A m \in Nodes : worker'[m].stage # "idle" =>
            m # n /\ worker'[m] = worker[m] /\ running'[m] = running[m]
            /\ graph'.status[m] = graph.status[m]
    BY <1>5, IdleType
  <2> QED
    BY <1>2, <1>4, <2>1 DEF Labors
<1>17. Covered'
  <2>1. base \subseteq Nodes
    BY <1>2, <1>3 DEF Grounded
  <2> QED
    BY <1>2, <1>4, <1>8, <2>1 DEF Covered
<1> QED
  BY <1>1, <1>10, <1>11, <1>13, <1>14, <1>15, <1>16, <1>17 DEF BatchInv

----------------------------------------------------------------------------
(* The merge queue. *)

\* The entry at the head of the queue is an approved attempt of its node, the
\* only one; when it is the last attempt, it is not merged yet.
LEMMA EntryFacts ==
    ASSUME BatchInv, pc \in {"drain", "drainMerged"}, pending > 0, Found # 0
    PROVE  /\ Found \in 1..Len(past)+1 /\ Entry = History[Found] /\ Entry \in Attempt
           /\ IsSettled(Entry) /\ Sound(Entry)
           /\ queue # <<>> /\ Entry.node = Head(queue) /\ Entry.node \in Nodes
           /\ Entry.node = att.node <=> Found = Len(past) + 1
           /\ Found = Len(past) + 1 =>
                Entry = att /\ att.mergeErr = "none" /\ att.phase = "approved"
           /\ Found # Len(past) + 1 =>
                /\ graph.status[Entry.node] \in Taken
                /\ Entry.phase = "merged" => graph.status[Entry.node] = "passed"
<1> DEFINE L == Len(past) + 1
<1>1. /\ ParTypeOK /\ Registered /\ Drains /\ Settles /\ Unique /\ Queued
      /\ pc \in Batching
  BY DEF BatchInv, ParInv, Batching
<1>2. /\ Len(past) \in Nat /\ History[L] = att /\ queue \in Seq(Nodes) /\ pending \in Nat
      /\ DOMAIN History = 1..L
  BY <1>1, SavedFacts DEF ParTypeOK
<1>3. queue # <<>>
  <2>1. pending <= Len(queue)
    BY <1>1 DEF Drains
  <2> QED
    BY <1>2, <2>1
<1>4. Head(queue) = queue[1] /\ 1 \in DOMAIN queue
  BY <1>2, <1>3
<1>5. /\ running[Head(queue)] = 0
      /\ Head(queue) = att.node => att.mergeErr = "none" /\ att.phase # "merged"
  BY <1>1, <1>4 DEF Queued
<1>6. /\ Found \in 1..L /\ Entry = History[Found] /\ Entry \in Attempt
      /\ Head(queue) \in Nodes /\ Entry.node = Head(queue)
      /\ Entry.phase \in {"approved", "merged"}
  BY <1>1, <1>3, <1>5, FoundFacts
<1>7. IsSettled(Entry) /\ Sound(Entry)
  BY <1>1, <1>6 DEF IsSettled, Settles
<1>8. Found # L => /\ graph.status[Entry.node] \in Taken
                   /\ Entry.phase = "merged" => graph.status[Entry.node] = "passed"
  BY <1>1, <1>6, <1>7 DEF Settles
<1>9. Entry.node = att.node <=> Found = L
  <2>1. L \in 1..L /\ Counts(L) /\ Counts(Found)
    BY <1>2, <1>6, <1>7 DEF Counts
  <2> QED
    BY <1>1, <1>2, <1>6, <2>1 DEF Unique
<1>10. Found = L => Entry = att /\ att.mergeErr = "none" /\ att.phase = "approved"
  BY <1>2, <1>5, <1>6, <1>9
<1> QED
  BY <1>3, <1>6, <1>7, <1>8, <1>9, <1>10

\* An approved attempt stays approved, or is merged.
Upholds ==
    \A i \in 1..Len(past)+1 :
        Approved(History[i]) => Approved(History'[i]) \/ History'[i].phase = "merged"

\* What becomes of an entry: it stays approved, with or without a merge error,
\* or it is merged and its node has passed.
LEMMA FinalizedKeepsBatch ==
    ASSUME BatchInv, pc \in {"drain", "drainMerged"}, pending > 0, Found # 0,
           NEW a \in Attempt, a.node = Entry.node, a.iter = Entry.iter, a.base = Entry.base,
           a.exit = Entry.exit, a.decision = Entry.decision, IsSettled(a),
           a.ftype \in {"none", "other", Entry.ftype},
           NEW g \in Graph, g.nodes = graph.nodes, g.deps = graph.deps,
           \A m \in Nodes : \/ g.status[m] = graph.status[m]
                            \/ /\ m = Entry.node /\ g.status[m] = "passed"
                               /\ a.phase = "merged" /\ Entry.node \in base,
           a.phase = "merged" => /\ g.status[Entry.node] = "passed"
                                 /\ Found = Len(past) + 1 => a.mergeErr = "none",
           a.mergeErr = "conflict" /\ Found = Len(past) + 1 => Entry.node \notin base,
           NEW st \in {"stopped", "done"}, st = "done" => GraphComplete(g),
           Found = Len(past) + 1 /\ a.mergeErr # "none" => st = "stopped",
           Finalized(a, g, st),
           content' \in Contents, UNCHANGED <<base, fresh, calls, merges>>
    PROVE  BatchInv' /\ Upholds
<1> DEFINE L == Len(past) + 1
<1>1. /\ ParInv /\ Grounded /\ InBatch /\ Settles /\ Unique /\ Queued /\ Labors /\ Covered
      /\ ParTypeOK /\ Registered /\ NodeChosen /\ Pool /\ pc \in Batching /\ pc # "batch"
  BY DEF BatchInv, ParInv, Batching
<1>2. /\ Len(past) \in Nat /\ History[L] = att /\ graph \in Graph /\ queue \in Seq(Nodes)
      /\ graph.nodes \subseteq Nodes /\ L \in 1..L /\ att \in Attempt
  BY <1>1, SavedFacts DEF Graph
<1>3. /\ Found \in 1..L /\ Entry = History[Found] /\ Entry \in Attempt
      /\ IsSettled(Entry) /\ Sound(Entry)
      /\ queue # <<>> /\ Entry.node = Head(queue) /\ Entry.node \in Nodes
      /\ Entry.node = att.node <=> Found = L
      /\ Found = L => Entry = att /\ att.mergeErr = "none" /\ att.phase = "approved"
      /\ Found # L => /\ graph.status[Entry.node] \in Taken
                      /\ Entry.phase = "merged" => graph.status[Entry.node] = "passed"
  BY EntryFacts
<1>4. ParInv' /\ Stores(a, g, st)
  <2>1. a.phase # "replanning" /\ base' \subseteq Nodes
    BY <1>1, <1>2 DEF IsSettled, Grounded
  <2> QED
    BY <1>1, <2>1, FinalizedKeeps
<1>5. /\ Len(past') = Len(past) /\ att' = History'[L]
      /\ \A i \in 1..L : History'[i] = IF i = Found THEN a ELSE History[i]
      /\ status' = st /\ graph' = g /\ running' = running /\ queue' = Tail(queue)
      /\ worker' = worker /\ pc' = "drain" /\ base' = base
  BY <1>4 DEF Stores
<1>6. /\ Found = L => att' = a
      /\ Found # L => att' = att
  BY <1>2, <1>5
<1>7. /\ pc' \in Batching /\ pc' # "batch" /\ pc' # "merged" /\ pc' # "drainMerged"
      /\ \A m \in Nodes : worker[m] = Idle
  BY <1>1, <1>5 DEF Batching, Pool
<1> HIDE DEF L
<1>8. /\ att.node # 0 /\ att.node \in Nodes /\ att.node \in graph.nodes /\ att.iter # 0
      /\ graph.status[att.node] # "skipped"
  BY <1>1, <1>2 DEF NodeChosen, InBatch
<1>9. /\ att'.node = att.node /\ att'.base = att.base /\ att'.iter = att.iter
  BY <1>3, <1>6
<1>10. \A m \in Nodes : /\ graph.status[m] \in Taken => g.status[m] \in Taken
                        /\ graph.status[m] = "passed" => g.status[m] = "passed"
                        /\ g.status[m] = "skipped" => graph.status[m] = "skipped"
  BY DEF Taken
<1>11. g.status[att.node] = "passed" <=> att'.phase = "merged"
  <2>1. graph.status[att.node] = "passed" <=> att.phase = "merged"
    BY <1>1, <1>8 DEF Grounded
  <2>2. CASE Found = L
    <3>1. graph.status[att.node] # "passed" /\ Entry.node = att.node
      BY <1>3, <2>1, <2>2
    <3> QED
      BY <1>6, <1>8, <2>2, <3>1
  <2>3. CASE Found # L
    BY <1>3, <1>6, <1>8, <2>1, <2>3
  <2> QED
    BY <2>2, <2>3
<1>12. Grounded'
  <2>1. ASSUME NEW m \in Nodes, g.status[m] = "passed" PROVE m \in base /\ g.deps[m] \subseteq base
    <3>1. CASE graph.status[m] = "passed"
      BY <1>1, <3>1 DEF Grounded
    <3>2. CASE graph.status[m] # "passed"
      BY <1>3, <2>1, <3>2 DEF Sound
    <3> QED
      BY <3>1, <3>2
  <2>2. base \subseteq g.nodes /\ att.base \subseteq base /\ g.deps[att.node] \subseteq att.base
    BY <1>1, <1>8 DEF Grounded
  <2>3. g.status[att.node] # "skipped"
    BY <1>8, <1>10
  <2>4. att'.mergeErr = "conflict" => att.node \notin base
    BY <1>1, <1>3, <1>6 DEF Grounded, L
  <2> QED
    BY <1>5, <1>7, <1>8, <1>9, <1>11, <2>1, <2>2, <2>3, <2>4 DEF Grounded
<1>13. st = "done" => att'.phase = "merged"
  <2>1. st = "done" => g.status[att.node] \in {"passed", "skipped"}
    BY <1>8 DEF GraphComplete
  <2> QED
    BY <1>8, <1>10, <1>11, <2>1
<1>14. Verdicts' /\ InBatch'
  <2>1. g.status[att.node] # "skipped"
    BY <1>8, <1>10
  <2>2. CASE Found = L
    <3>1. /\ att' = a /\ a.phase \in {"approved", "merged"} /\ a.decision = "approve" /\ a.exit = "ok"
      BY <1>3, <1>6, <2>2 DEF IsSettled, Sound
    <3>2. a.ftype # "patch_not_captured"
      BY <1>1, <1>3, <2>2, <3>1 DEF InBatch
    <3>3. a.phase = "merged" => a.mergeErr = "none"
      BY <2>2 DEF L
    <3>4. a.mergeErr # "none" => a.phase = "approved" /\ st = "stopped"
      BY <2>2, <3>1, <3>3 DEF L
    <3> QED
      BY <1>5, <1>7, <1>8, <1>9, <1>13, <2>1, <3>1, <3>2, <3>3, <3>4 DEF Verdicts, InBatch, Candidate
  <2>3. CASE Found # L
    <3>1. att' = att
      BY <1>6, <2>3
    <3>2. att.mergeErr # "none" => Candidate
      BY <1>1 DEF InBatch
    <3>3. att.mergeErr # "none" => st = "stopped"
      BY <1>13, <3>1, <3>2 DEF Candidate
    <3>4. Overtaken' <=> Overtaken
      BY <3>1 DEF Overtaken
    <3>5. Candidate' <=> Candidate
      BY <3>1 DEF Candidate
    <3> QED
      BY <1>1, <1>5, <1>7, <1>13, <2>1, <3>1, <3>2, <3>3, <3>4, <3>5 DEF Verdicts, InBatch
  <2> QED
    BY <2>2, <2>3
<1>15. Settles'
  <2> SUFFICES ASSUME NEW i \in 1..L, IsSettled(History'[i])
               PROVE  /\ Sound(History[i])'
                      /\ i # L => /\ g.status[History'[i].node] \in Taken
                                  /\ History'[i].phase = "merged"
                                        => g.status[History'[i].node] = "passed"
    BY <1>5 DEF Settles, L
  <2>1. CASE i = Found
    <3>1. History'[i] = a
      BY <1>5, <2>1 DEF L
    <3>2. Sound(History[i])'
      BY <1>3, <1>5, <3>1 DEF Sound
    <3> QED
      BY <1>3, <1>10, <2>1, <3>1, <3>2
  <2>2. CASE i # Found
    <3>1. History'[i] = History[i]
      BY <1>5, <2>2 DEF L
    <3>2. Sound(History[i])
      BY <1>1, <3>1 DEF Settles, L
    <3>3. i # L => /\ graph.status[History[i].node] \in Taken
                   /\ History[i].phase = "merged" => graph.status[History[i].node] = "passed"
      BY <1>1, <3>1 DEF Settles, L
    <3>4. History[i].node \in Nodes /\ Sound(History[i])'
      BY <1>2, <1>5, <3>1, <3>2 DEF Sound
    <3> QED
      BY <1>10, <3>1, <3>3, <3>4
  <2> QED
    BY <2>1, <2>2
<1>16. Unique'
  <2>1. \A i \in 1..L : Counts(i)' => Counts(i)
    <3> SUFFICES ASSUME NEW i \in 1..L, Counts(i)' PROVE Counts(i)
      OBVIOUS
    <3>1. CASE i = Found
      BY <1>3, <3>1 DEF Counts
    <3>2. CASE i # Found
      <4>1. History'[i] = History[i]
        BY <1>5, <3>2 DEF L
      <4> QED
        BY <1>5, <4>1 DEF Counts
    <3> QED
      BY <3>1, <3>2
  <2>2. \A i \in 1..L : History'[i].node = History[i].node
    BY <1>3, <1>5 DEF L
  <2> QED
    BY <1>1, <1>5, <2>1, <2>2 DEF Unique, L
<1>17. Queued'
  <2>1. /\ Tail(queue) \in Seq(Nodes) /\ Len(queue) \in Nat
        /\ \A k \in DOMAIN Tail(queue) : /\ k+1 \in DOMAIN queue /\ Tail(queue)[k] = queue[k+1]
                                         /\ queue[k+1] # Head(queue)
    <3>1. /\ Tail(queue) \in Seq(Nodes) /\ Len(queue) \in Nat /\ Len(Tail(queue)) = Len(queue) - 1
          /\ \A k \in 1..Len(Tail(queue)) : Tail(queue)[k] = queue[k+1]
      BY <1>2, <1>3
    <3>2. DOMAIN Tail(queue) = 1..Len(Tail(queue)) /\ DOMAIN queue = 1..Len(queue)
      BY <1>2, <3>1
    <3>3. \A k \in DOMAIN Tail(queue) : k+1 \in DOMAIN queue /\ k \in Nat /\ k+1 # 1
      BY <3>1, <3>2
    <3>4. 1 \in DOMAIN queue /\ Head(queue) = queue[1]
      BY <1>2, <1>3
    <3> QED
      BY <1>1, <3>1, <3>2, <3>3, <3>4 DEF Queued
  <2>2. ASSUME NEW j \in DOMAIN queue', NEW k \in DOMAIN queue', queue'[j] = queue'[k] PROVE j = k
    <3>1. j+1 = k+1 /\ j \in 1..Len(Tail(queue)) /\ k \in 1..Len(Tail(queue)) /\ Len(Tail(queue)) \in Nat
      BY <1>1, <1>5, <2>1, <2>2 DEF Queued
    <3> QED
      BY <3>1
  <2>3. ASSUME NEW k \in DOMAIN queue'
        PROVE  /\ queue'[k] \in g.nodes /\ running[queue'[k]] = 0
               /\ queue'[k] = att.node \/ g.status[queue'[k]] \in Taken
               /\ queue'[k] = att.node => att'.mergeErr = "none" /\ att'.phase # "merged"
    <3> DEFINE m == queue'[k]
    <3>1. k+1 \in DOMAIN queue /\ m = queue[k+1] /\ m # Entry.node
      BY <1>3, <1>5, <2>1, <2>3
    <3>2. /\ m \in graph.nodes /\ running[m] = 0
          /\ m = att.node \/ graph.status[m] \in Taken
          /\ m = att.node => att.mergeErr = "none" /\ att.phase # "merged"
      BY <1>1, <3>1 DEF Queued
    <3>3. m = att.node => att' = att
      BY <1>3, <1>6, <3>1
    <3> HIDE DEF m
    <3>4. m \in Nodes
      BY <1>2, <3>2
    <3>5. /\ m \in g.nodes /\ running[m] = 0
          /\ m = att.node \/ g.status[m] \in Taken
          /\ m = att.node => att'.mergeErr = "none" /\ att'.phase # "merged"
      BY <1>10, <3>2, <3>3, <3>4
    <3> QED
      BY <3>5 DEF m
  <2> QED
    BY <1>5, <1>9, <2>2, <2>3 DEF Queued
<1>18. Labors'
  BY <1>5, <1>7, IdleType DEF Labors
<1>19. Covered'
  <2> SUFFICES ASSUME NEW m \in base
               PROVE  \/ g.status[m] = "passed"
                      \/ \E i \in 1..L : History'[i].node = m /\ Approved(History'[i])
    BY <1>5 DEF Covered, L
  <2>1. m \in Nodes
    BY <1>1, <1>2 DEF Grounded
  <2>2. CASE graph.status[m] = "passed"
    BY <1>10, <2>1, <2>2
  <2>3. CASE graph.status[m] # "passed"
    <3>1. PICK i \in 1..L : History[i].node = m /\ Approved(History[i])
      BY <1>1, <2>3 DEF Covered, L
    <3>2. CASE i = Found
      <4>1. History'[i] = a /\ a.node = m /\ a.decision = "approve"
        BY <1>3, <1>5, <3>1, <3>2 DEF L, Approved
      <4>2. a.phase = "approved" \/ g.status[m] = "passed"
        BY <4>1 DEF IsSettled
      <4> QED
        BY <4>1, <4>2 DEF Approved
    <3>3. CASE i # Found
      BY <1>5, <3>1, <3>3 DEF L
    <3> QED
      BY <3>2, <3>3
  <2> QED
    BY <2>2, <2>3
<1>20. Upholds
  BY <1>3, <1>5 DEF Upholds, Approved, IsSettled, L
<1> QED
  BY <1>4, <1>12, <1>14, <1>15, <1>16, <1>17, <1>18, <1>19, <1>20 DEF BatchInv

\* What only the memory of the batch notices: the drain skips an entry or
\* comes to its end, or a kill ends the batch.
LEMMA RestKeepsBatch ==
    ASSUME BatchInv, ParInv', pc \in Batching, UNCHANGED <<disk, batchDisk, base>>,
           \A m \in Nodes : worker'[m] \in {worker[m], Idle},
           pc' = pc \/ pc' \in {"off", "loop"}
    PROVE  BatchInv'
<1> DEFINE L == Len(past) + 1
<1>1. /\ Grounded /\ InBatch /\ Settles /\ Unique /\ Queued /\ Labors /\ Covered /\ ParInv
  BY DEF BatchInv
<1>2. /\ status' = status /\ graph' = graph /\ past' = past /\ att' = att /\ base' = base
      /\ running' = running /\ queue' = queue /\ History' = History
  BY DEF disk, batchDisk, History
<1>3. pc' # "merged" /\ (pc' \in Batching => pc' = pc)
  BY DEF Batching
<1>4. Grounded'
  BY <1>1, <1>2, <1>3 DEF Grounded
<1>5. InBatch'
  <2>1. Candidate' <=> Candidate
    BY <1>2 DEF Candidate
  <2>2. Overtaken' <=> Overtaken
    BY <1>2 DEF Overtaken
  <2> QED
    BY <1>1, <1>2, <1>3, <2>1, <2>2 DEF InBatch
<1>6. Verdicts'
  <2> SUFFICES ASSUME pc' \in {"off", "loop"}
               PROVE  Approval' \/ (Overtaken' /\ status' \notin {"done", "replanning"})
    BY <1>3 DEF Verdicts
  <2>1. CASE Overtaken
    <3>1. status' # "replanning"
      BY <1>2, <2>1 DEF ParInv, Replans, Overtaken
    <3>2. status' # "done"
      BY <1>1, <1>2, <2>1 DEF InBatch, Overtaken
    <3>3. Overtaken'
      BY <1>2, <2>1 DEF Overtaken
    <3> QED
      BY <3>1, <3>2, <3>3
  <2>2. CASE ~Overtaken
    <3>1. att.mergeErr # "none" => Candidate /\ status = "stopped"
      BY <1>1 DEF InBatch
    <3>2. /\ att.iter # 0
          /\ att.decision = "approve" => att.phase \in {"approved", "merged"}
          /\ att.phase = "merged" => /\ att.decision = "approve" /\ att.exit = "ok"
                                     /\ att.mergeErr = "none" /\ status \in {"stopped", "done"}
          /\ status = "done" => att.phase = "merged"
      BY <1>1, <2>2 DEF InBatch
    <3>3. pc' # "merged"
      OBVIOUS
    <3>4. Candidate' <=> Candidate
      BY <1>2 DEF Candidate
    <3> QED
      BY <1>2, <3>1, <3>2, <3>3, <3>4 DEF Approval
  <2> QED
    BY <2>1, <2>2
<1>7. Settles'
  <2>1. \A i \in 1..L : Sound(History[i])' <=> Sound(History[i])
    BY <1>2 DEF Sound
  <2> QED
    BY <1>1, <1>2, <1>3, <2>1 DEF Settles
<1>8. \A m \in Nodes : worker'[m].stage # "idle" => worker'[m] = worker[m]
  BY IdleType
<1>9. Unique'
  <2>1. \A i \in 1..L : Counts(i)' => Counts(i)
    BY <1>2, <1>8 DEF Counts
  <2> QED
    BY <1>1, <1>2, <2>1 DEF Unique
<1>10. Queued'
  BY <1>1, <1>2, <1>3 DEF Queued
<1>11. Labors'
  BY <1>1, <1>2, <1>8 DEF Labors
<1>12. Covered'
  BY <1>1, <1>2 DEF Covered
<1> QED
  BY <1>4, <1>5, <1>6, <1>7, <1>9, <1>10, <1>11, <1>12 DEF BatchInv

\* The merge in git: its node is in the base branch before the save.
LEMMA DrainMergesKeepsBatch ==
    ASSUME BatchInv, ParInv', DrainMerges
    PROVE  BatchInv'
<1> DEFINE L == Len(past) + 1
<1>1. /\ ParInv /\ Grounded /\ InBatch /\ Settles /\ Unique /\ Queued /\ Labors /\ Covered
      /\ ParTypeOK /\ NodeChosen
  BY DEF BatchInv, ParInv
<1>2. /\ pc = "drain" /\ pending > 0 /\ Found # 0 /\ pc' = "drainMerged"
      /\ base' = base \cup {Entry.node}
  BY DEF DrainMerges, Draining, Goto
<1>3. /\ status' = status /\ graph' = graph /\ past' = past /\ att' = att
      /\ running' = running /\ queue' = queue /\ History' = History /\ worker' = worker
  BY DEF DrainMerges, disk, batchDisk, History
<1>4. /\ Found \in 1..L /\ Entry = History[Found]
      /\ IsSettled(Entry) /\ Sound(Entry)
      /\ Entry.node = Head(queue) /\ Entry.node \in Nodes
      /\ Entry.node = att.node <=> Found = L
      /\ Found = L => Entry = att /\ att.mergeErr = "none" /\ att.phase = "approved"
      /\ Found # L => (Entry.phase = "merged" => graph.status[Entry.node] = "passed")
  BY <1>2, EntryFacts
<1>5. pc \in Batching /\ pc' \in Batching /\ pc' # "batch" /\ pc # "batch"
  BY <1>2 DEF Batching
<1> HIDE DEF L
<1>6. att.mergeErr # "none" => att.node \notin {Entry.node}
  BY <1>4
<1>7. att.node # 0
  BY <1>1, <1>5 DEF InBatch, NodeChosen, Blank, Batching
<1>8. Grounded'
  <2>1. Entry.node \in graph.nodes
    BY <1>4 DEF Sound
  <2> QED
    BY <1>1, <1>2, <1>3, <1>6, <1>7, <2>1 DEF Grounded
<1>9. InBatch'
  <2>1. Candidate' <=> Candidate
    BY <1>3 DEF Candidate
  <2>2. Overtaken' <=> Overtaken
    BY <1>3 DEF Overtaken
  <2>3. Head(queue) \in base'
    BY <1>2, <1>4
  <2> QED
    BY <1>1, <1>3, <1>5, <2>1, <2>2, <2>3 DEF InBatch
<1>10. Verdicts'
  BY <1>5 DEF Verdicts
<1>11. Settles'
  <2>1. \A i \in 1..L : Sound(History[i]) => Sound(History[i])'
    BY <1>2, <1>3 DEF Sound
  <2> QED
    BY <1>1, <1>3, <1>5, <2>1 DEF Settles, L
<1>12. Unique'
  BY <1>1, <1>3 DEF Unique, Counts
<1>13. Queued'
  BY <1>1, <1>3, <1>5 DEF Queued
<1>14. Labors'
  <2>1. base \subseteq base'
    BY <1>2
  <2> QED
    BY <1>1, <1>3, <2>1 DEF Labors
<1>15. Covered'
  <2>1. \/ graph.status[Entry.node] = "passed"
        \/ History[Found].node = Entry.node /\ Approved(History[Found])
    BY <1>4 DEF Approved, IsSettled, Sound
  <2> QED
    BY <1>1, <1>2, <1>3, <1>4, <2>1 DEF Covered, L
<1> QED
  BY <1>8, <1>9, <1>10, <1>11, <1>12, <1>13, <1>14, <1>15 DEF BatchInv

\* The steps of the merge queue.
LEMMA DrainKeepsBatch ==
    ASSUME BatchInv,
           \/ DrainSkips \/ DrainHolds \/ DrainMerges \/ DrainRecords \/ DrainMergeFails \/ DrainEnds
    PROVE  BatchInv' /\ Upholds
<1> DEFINE L == Len(past) + 1
<1>a. ParInv /\ ParInv' /\ ParTypeOK /\ Drains /\ InBatch /\ Grounded
  BY DrainKeeps DEF BatchInv, ParInv
<1>b. /\ content \in Contents /\ graph \in Graph
  BY <1>a, SavedFacts DEF ParTypeOK
<1>c. /\ UNCHANGED world => content' \in Contents /\ UNCHANGED <<base, fresh, calls, merges>>
      /\ DrainCommits => content' \in Contents
  BY <1>b DEF world, DrainCommits, Contents
<1>e. ASSUME pc \in {"drain", "drainMerged"}, pending > 0, Found # 0
      PROVE  /\ Entry \in Attempt /\ IsSettled(Entry) /\ Sound(Entry)
             /\ Entry.node = Head(queue) /\ Entry.node \in Nodes
             /\ Found = L => Entry = att /\ att.mergeErr = "none" /\ att.phase = "approved"
             /\ Found # L => (Entry.phase = "merged" => graph.status[Entry.node] = "passed")
  BY <1>e, EntryFacts
<1> HIDE DEF L
<1>f. History' = History => Upholds
  BY DEF Upholds
<1>1. CASE DrainSkips
  <2>1. /\ pc = "drain" /\ UNCHANGED <<vars, batchDisk, worker>>
    BY <1>1 DEF DrainSkips, Draining
  <2>2. pc' = pc /\ UNCHANGED <<disk, batchDisk, base>> /\ pc \in Batching
    BY <2>1 DEF vars, world, Batching
  <2>3. History' = History
    BY <2>2 DEF disk, History
  <2> QED
    BY <1>a, <1>f, <2>1, <2>2, <2>3, RestKeepsBatch
<1>2. CASE DrainHolds
  <2> DEFINE a == IF MergeBlockedByTestGate(Entry) THEN [Entry EXCEPT !.ftype = "other"] ELSE Entry
  <2>1. /\ pc = "drain" /\ pending > 0 /\ Found # 0 /\ UNCHANGED world
        /\ Finalized(a, graph, "stopped")
    BY <1>2 DEF DrainHolds, Draining
  <2>2. /\ a \in Attempt /\ a.node = Entry.node /\ a.iter = Entry.iter /\ a.phase = Entry.phase
        /\ a.base = Entry.base /\ a.exit = Entry.exit /\ a.decision = Entry.decision
        /\ a.mergeErr = Entry.mergeErr /\ a.ftype \in {"other", Entry.ftype}
    BY <1>e, <2>1 DEF Attempt
  <2> HIDE DEF a
  <2>3. IsSettled(a)
    BY <1>e, <2>1, <2>2 DEF IsSettled
  <2>4. a.phase = "merged" => /\ graph.status[Entry.node] = "passed"
                              /\ Found = L => a.mergeErr = "none"
    BY <1>e, <2>1, <2>2
  <2>5. Found = L => a.mergeErr = "none"
    BY <1>e, <2>1, <2>2
  <2>6. a.ftype \in {"none", "other", Entry.ftype}
    BY <2>2
  <2> QED
    BY <1>b, <1>c, <2>1, <2>2, <2>3, <2>4, <2>5, <2>6, FinalizedKeepsBatch DEF L
<1>3. CASE DrainMerges
  <2>1. History' = History
    BY <1>3 DEF DrainMerges, disk, History
  <2> QED
    BY <1>3, <1>a, <1>f, <2>1, DrainMergesKeepsBatch
<1>4. CASE DrainRecords
  <2> DEFINE g == SetStatus(graph, Entry.node, "passed")
             a == [Entry EXCEPT !.mergeErr = "none", !.phase = "merged", !.ftype = "none"]
             st == IF GraphComplete(g) THEN "done" ELSE "stopped"
  <2>1. /\ pc = "drainMerged" /\ pending > 0 /\ Found # 0 /\ UNCHANGED world
        /\ Finalized(a, g, st)
    BY <1>4, <1>a DEF DrainRecords, Drains
  <2>2. /\ a \in Attempt /\ a.node = Entry.node /\ a.iter = Entry.iter /\ a.phase = "merged"
        /\ a.base = Entry.base /\ a.exit = Entry.exit /\ a.decision = Entry.decision
        /\ a.mergeErr = "none" /\ a.ftype = "none"
    BY <1>e, <2>1 DEF Attempt, Phases, MergeErrs
  <2>3. /\ g \in Graph /\ g.nodes = graph.nodes /\ g.deps = graph.deps
        /\ \A m \in Nodes : g.status[m] = IF m = Entry.node THEN "passed" ELSE graph.status[m]
    BY <1>b, <1>e, <2>1, SetStatusType, SetStatusKeeps DEF NodeStatus
  <2>4. st \in {"stopped", "done"} /\ (st = "done" => GraphComplete(g))
    OBVIOUS
  <2>5. Entry.node \in base
    BY <1>a, <1>e, <2>1 DEF InBatch, Batching
  <2> HIDE DEF a, g, st
  <2>6. IsSettled(a)
    BY <2>2 DEF IsSettled
  <2>7. g.status[Entry.node] = "passed"
    BY <1>e, <2>1, <2>3
  <2>8. \A m \in Nodes : \/ g.status[m] = graph.status[m]
                         \/ /\ m = Entry.node /\ g.status[m] = "passed"
                            /\ a.phase = "merged" /\ Entry.node \in base
    BY <2>2, <2>3, <2>5
  <2> QED
    BY <1>b, <1>c, <2>1, <2>2, <2>3, <2>4, <2>6, <2>7, <2>8, FinalizedKeepsBatch
<1>5. CASE DrainMergeFails
  <2>1. /\ pc = "drain" /\ pending > 0 /\ Found # 0 /\ DrainCommits
        /\ UNCHANGED <<base, fresh, calls, merges>>
    BY <1>5 DEF DrainMergeFails, Draining
  <2>2. PICK err \in MergeErrs :
            /\ err = "conflict" => Entry.node \notin base
            /\ Finalized([Entry EXCEPT !.mergeErr = err, !.ftype = "other"], graph, "stopped")
    BY <1>5 DEF DrainMergeFails
  <2> DEFINE a == [Entry EXCEPT !.mergeErr = err, !.ftype = "other"]
  <2>3. /\ a \in Attempt /\ a.node = Entry.node /\ a.iter = Entry.iter /\ a.phase = Entry.phase
        /\ a.base = Entry.base /\ a.exit = Entry.exit /\ a.decision = Entry.decision
        /\ a.mergeErr = err /\ a.ftype = "other"
    BY <1>e, <2>1 DEF Attempt
  <2>4. Finalized(a, graph, "stopped")
    BY <2>2
  <2> HIDE DEF a
  <2>5. IsSettled(a)
    BY <1>e, <2>1, <2>3 DEF IsSettled
  <2>6. a.phase = "merged" => graph.status[Entry.node] = "passed" /\ Found # L
    BY <1>e, <2>1, <2>3
  <2> QED
    BY <1>b, <1>c, <2>1, <2>2, <2>3, <2>4, <2>5, <2>6, FinalizedKeepsBatch DEF L
<1>6. CASE DrainEnds
  <2>1. /\ pc = "drain" /\ Goto("loop")
        /\ UNCHANGED <<disk, world, starts, batchDisk, worker, pending>>
    BY <1>6 DEF DrainEnds
  <2>2. pc' = "loop" /\ UNCHANGED <<disk, batchDisk, base>> /\ pc \in Batching
    BY <2>1 DEF Goto, world, Batching
  <2>3. History' = History
    BY <2>2 DEF disk, History
  <2> QED
    BY <1>a, <1>f, <2>1, <2>2, <2>3, RestKeepsBatch
<1> QED
  BY <1>1, <1>2, <1>3, <1>4, <1>5, <1>6

----------------------------------------------------------------------------
(* The sequential loop between batches. *)

\* The actions that change the graph, or the node of the attempt.
LEMMA NextRests ==
    TypeInv /\ [Next]_vars =>
        \/ graph' = graph /\ att'.node = att.node
        \/ AutoRun \/ PlannerPlans \/ PlannerFails \/ NodeSetup \/ NoRunnableNode \/ SetupFails
        \/ ImplAlreadyFailed \/ ImplFailed \/ ReviewFails
        \/ FinalizeReject \/ MergeRecorded \/ ReplanApplied
<1> SUFFICES ASSUME TypeInv, [Next]_vars,
                    ~(\/ AutoRun \/ PlannerPlans \/ PlannerFails \/ NodeSetup \/ NoRunnableNode
                      \/ SetupFails \/ ImplAlreadyFailed \/ ImplFailed \/ ReviewFails
                      \/ FinalizeReject \/ MergeRecorded \/ ReplanApplied)
             PROVE  graph' = graph /\ att'.node = att.node
  OBVIOUS
<1>a. att \in Attempt
  BY DEF TypeInv, TypeOK
<1>1. CASE Start \/ AutoDone \/ AutoRunRefused \/ ResumeFrom \/ ResumeRefused
           \/ ImplAlreadyDone \/ StopForPatch \/ TestAlreadyDone \/ ReviewAlreadyDone \/ FinalizeStop
           \/ MergeInGit \/ ReplanFails \/ ImplWrite \/ OperatorCommits \/ Crash
  BY <1>1 DEF disk, Start, AutoDone, AutoRunRefused, ResumeFrom, ResumeRefused, ImplAlreadyDone,
              StopForPatch, TestAlreadyDone, ReviewAlreadyDone, FinalizeStop, MergeInGit,
              ReplanFails, ImplWrite, OperatorCommits, Crash
<1>2. CASE Reconcile \/ RepairSkipped
  BY <1>2, <1>a DEF Reconcile, RepairSkipped, Reconciled, Attempt
<1>3. CASE AutoTerminal \/ AutoReplan \/ SoftReset \/ HandleFailure
  BY <1>3, <1>a DEF AutoTerminal, AutoReplan, SoftReset, HandleFailure, Attempt
<1>4. CASE ResumeRetry
  BY <1>4 DEF ResumeRetry, BeginAttempt
<1>5. CASE ResumeFinalize \/ AutoRepair
  BY <1>5, <1>a, IncrementType DEF ResumeFinalize, AutoRepair
<1>6. CASE ImplStart \/ RepairStart
  BY <1>6, <1>a DEF ImplStart, RepairStart, StartImplementer, Attempt
<1>7. CASE ImplEnd
  BY <1>7, <1>a DEF ImplEnd, PatchRecorded, Attempt
<1>8. CASE TestStart \/ TestEnd \/ ReviewStart \/ FinalizeHold \/ MergeFails
  BY <1>8, <1>a DEF TestStart, TestEnd, ReviewStart, FinalizeHold, MergeFails, Attempt
<1>9. CASE ReviewEnd
  BY <1>9, <1>a DEF ReviewEnd, Attempt
<1>10. CASE RepairReset
  BY <1>10, <1>a DEF RepairReset, ResetDownstream, Attempt
<1>11. CASE UNCHANGED vars
  BY <1>11 DEF vars, disk
<1> QED
  BY <1>1, <1>2, <1>3, <1>4, <1>5, <1>6, <1>7, <1>8, <1>9, <1>10, <1>11
     DEF Next, RunnerStep, LoopStep, DispatchStep, PhaseStep

\* No node that is taken becomes free again, but by the rejection of the last
\* attempt, and a node that an attempt takes was free.
Picks ==
    /\ \A n \in graph.nodes :
        n # att.node /\ graph.status[n] \in Taken => graph'.status[n] \in Taken
    /\ att'.node = att.node \/ (att.node = 0 /\ (att'.node \in graph.nodes =>
                                                    graph.status[att'.node] \notin Taken))

\* A failure on graph g, the scanned one or the one before the scan.
LEMMA MarkFailedPicks ==
    ASSUME TypeInv, NEW a \in Attempt, NEW g \in Graph, NEW phase, NEW kind,
           MarkFailed(a, g, phase, kind), g.nodes = graph.nodes,
           \A m \in Nodes : \/ g.status[m] = graph.status[m]
                            \/ graph.status[m] = "pending" /\ g.status[m] = "blocked",
           a.node = att.node \/ (att.node = 0 /\ (a.node \in graph.nodes =>
                                                    graph.status[a.node] \notin Taken))
    PROVE  Picks
<1>1. att'.node = a.node
  BY DEF MarkFailed, Attempt
<1>2. \A m \in Nodes : \/ graph'.status[m] = g.status[m]
                       \/ m = a.node /\ graph'.status[m] = "failed"
  BY DEF MarkFailed, SetStatus, Graph
<1>3. \A m \in Nodes : graph.status[m] \in Taken => graph'.status[m] \in Taken
  BY <1>2 DEF Taken
<1>4. graph.nodes \subseteq Nodes
  BY DEF TypeInv, TypeOK, Graph
<1> QED
  BY <1>1, <1>3, <1>4 DEF Picks

\* So for every step of the sequential loop.
LEMMA NextPicks == TypeInv /\ [Next]_vars /\ ~AutoRun => Picks
<1> SUFFICES ASSUME TypeInv, [Next]_vars, ~AutoRun PROVE Picks
  OBVIOUS
<1>a. /\ att \in Attempt /\ graph \in Graph /\ graph.nodes \subseteq Nodes
      /\ att.node \in graph.nodes \cup {0}
  BY DEF TypeInv, TypeOK, NodeChosen, Graph
<1>b. /\ SetupGraph \in Graph /\ SetupGraph.nodes = graph.nodes
      /\ \A m \in Nodes : \/ SetupGraph.status[m] = graph.status[m]
                          \/ graph.status[m] = "pending" /\ SetupGraph.status[m] = "blocked"
  BY SetupKeeps
<1>c. ASSUME NEW n \in SetupNodes
      PROVE  /\ n \in Nodes /\ n \in 0..MaxNodes
             /\ n = att.node \/ (att.node = 0 /\ graph.status[n] \notin Taken)
  <2>1. CASE att.node # 0
    <3>1. n = att.node
      BY <1>c, <2>1 DEF SetupNodes
    <3> QED
      BY <1>a, <2>1, <3>1 DEF Attempt
  <2>2. CASE att.node = 0
    <3>1. n \in NextRunnableNodes(graph, MaxRetries, 1, {})
      BY <1>c, <2>2 DEF SetupNodes
    <3>2. n \in Nodes /\ graph.status[n] \in {"pending", "rejected"}
      BY <1>a, <3>1, NextRunnableNodesReady
    <3>3. n \in 0..MaxNodes
      BY <3>2, MaxNodesAssumption DEF Nodes
    <3> QED
      BY <2>2, <3>2, <3>3 DEF Taken
  <2> QED
    BY <2>1, <2>2
<1>1. CASE graph' = graph /\ att'.node = att.node
  BY <1>1 DEF Picks
<1>2. CASE PlannerPlans
  <2>1. graph.nodes = {}
    BY <1>2 DEF PlannerPlans
  <2>2. att.node = 0
    BY <1>a, <2>1
  <2> QED
    BY <2>1, <2>2 DEF Picks
<1>3. CASE PlannerFails \/ ImplAlreadyFailed \/ ImplFailed \/ ReviewFails
  <2>1. \E phase, kind : MarkFailed(att, graph, phase, kind)
    BY <1>3 DEF PlannerFails, ImplAlreadyFailed, ImplFailed, ReviewFails
  <2> QED
    BY <1>a, <2>1, MarkFailedPicks
<1>4. CASE NodeSetup
  <2>1. PICK n \in SetupNodes : graph' = SetStatus(SetupGraph, n, "running") /\ att' = Planned(att, n)
    BY <1>4 DEF NodeSetup
  <2>2. att'.node = n
    BY <1>a, <1>c, <2>1 DEF Planned, Attempt
  <2>3. \A m \in Nodes : graph'.status[m] = IF m = n THEN "running" ELSE SetupGraph.status[m]
    BY <1>b, <1>c, <2>1, SetStatusKeeps
  <2>4. \A m \in Nodes : graph.status[m] \in Taken => graph'.status[m] \in Taken
    BY <1>b, <2>3 DEF Taken
  <2> QED
    BY <1>a, <1>c, <2>2, <2>4 DEF Picks
<1>5. CASE NoRunnableNode
  <2>1. MarkFailed(att, SetupGraph, "planning", "refused")
    BY <1>5 DEF NoRunnableNode
  <2> QED
    BY <1>a, <1>b, <2>1, MarkFailedPicks
<1>6. CASE SetupFails
  <2>1. PICK n \in SetupNodes :
          MarkFailed([att EXCEPT !.node = n], SetupGraph, "planning", "refused")
    BY <1>6 DEF SetupFails
  <2> DEFINE a == [att EXCEPT !.node = n]
  <2>2. a \in Attempt /\ a.node = n
    BY <1>a, <1>c DEF Attempt
  <2>3. n = att.node \/ (att.node = 0 /\ graph.status[n] \notin Taken)
    BY <1>c
  <2>4. MarkFailed(a, SetupGraph, "planning", "refused")
    BY <2>1
  <2> HIDE DEF a
  <2> QED
    BY <1>a, <1>b, <2>2, <2>3, <2>4, MarkFailedPicks
<1>7. CASE FinalizeReject
  <2>1. /\ att' = att
        /\ graph' = IF att.node \in graph.nodes THEN MarkRejected(graph, att.node) ELSE graph
    BY <1>7 DEF FinalizeReject
  <2>2. \A m \in Nodes : m # att.node => graph'.status[m] = graph.status[m]
    BY <1>a, <2>1, MarkRejectedKeeps
  <2> QED
    BY <1>a, <2>1, <2>2 DEF Picks
<1>8. CASE MergeRecorded
  <2>1. /\ att'.node = att.node
        /\ graph' = SetStatus(graph, att.node, "passed")
    BY <1>8, <1>a DEF MergeRecorded, Attempt
  <2>2. \A m \in Nodes : m # att.node => graph'.status[m] = graph.status[m]
    BY <1>a, <2>1 DEF SetStatus, Graph
  <2> QED
    BY <1>a, <2>1, <2>2 DEF Picks
<1>9. CASE ReplanApplied
  <2>1. /\ att'.node = att.node
        /\ \E patch \in Patches : PatchValid(graph, patch) /\ graph' = ApplyPatch(graph, patch)
    BY <1>9, <1>a DEF ReplanApplied, Attempt
  <2>2. \A m \in Nodes : graph.status[m] \in Taken => graph'.status[m] \in Taken
    BY <1>a, <2>1, PatchKeepsTaken, PlannerAssumption
  <2> QED
    BY <1>a, <2>1, <2>2 DEF Picks
<1> QED
  BY <1>1, <1>2, <1>3, <1>4, <1>5, <1>6, <1>7, <1>8, <1>9, NextRests

----------------------------------------------------------------------------
(* What a step of the sequential loop, or a kill, may do to a batch's memory. *)

\* What the sequential loop, and with it a kill, may do between batches.
Evolves ==
    /\ graph.nodes \subseteq graph'.nodes
    /\ \A n \in graph.nodes :
        /\ graph'.deps[n] \subseteq graph.deps[n]
        /\ graph.status[n] = "passed" => graph'.status[n] = "passed"
        /\ n # att.node /\ graph.status[n] \in Taken => graph'.status[n] \in Taken
    /\ \/ base' = base
       \/ base' = base \cup {att.node} /\ Candidate /\ UNCHANGED <<past, att>>
    /\ \/ past' = past /\ att'.node = att.node
       \/ /\ past' = past /\ att.node = 0
          /\ att'.node \in graph.nodes => graph.status[att'.node] \notin Taken
       \/ /\ past' = Append(past, att) /\ ~IsSettled(att')
          /\ \/ att.phase = "merged" /\ att'.node = 0
             \/ ~IsSettled(att) /\ att'.node = att.node
    /\ Candidate =>
        /\ past' = past /\ att'.node = att.node
        /\ \/ Candidate'
           \/ graph'.status[att.node] = "passed" \/ att.node \notin base

\* Every step of the sequential loop does no more.
LEMMA NextEvolves == TypeInv /\ Approval /\ Grounded /\ [Next]_vars => Evolves
<1> SUFFICES ASSUME TypeInv, Approval, Grounded, [Next]_vars PROVE Evolves
  OBVIOUS
<1>a. /\ att \in Attempt /\ graph \in Graph /\ graph.nodes \subseteq Nodes
      /\ att.node \in graph.nodes \cup {0}
  BY DEF TypeInv, TypeOK, NodeChosen, Graph
<1>1. /\ graph.nodes \subseteq graph'.nodes
      /\ \A n \in graph.nodes : /\ graph'.deps[n] \subseteq graph.deps[n]
                                /\ graph.status[n] = "passed" => graph'.status[n] = "passed"
  <2>1. CASE Steady
    BY <1>a, <2>1 DEF Steady
  <2>2. CASE PlannerPlans
    BY <2>2 DEF PlannerPlans
  <2>3. CASE ReviewEnd \/ RepairReset \/ MergeInGit
    BY <2>3 DEF ReviewEnd, RepairReset, MergeInGit, disk
  <2>4. CASE MergeRecorded
    <3>1. att.node \in Nodes
      BY <2>4, <1>a DEF MergeRecorded, Grounded
    <3> QED
      BY <2>4, <1>a, <3>1, SetStatusKeeps DEF MergeRecorded
  <2>5. CASE ReplanApplied
    <3>1. PICK patch \in Patches : PatchValid(graph, patch) /\ graph' = ApplyPatch(graph, patch)
      BY <2>5 DEF ReplanApplied
    <3>2. patch \in Seq(PatchOp)
      BY PlannerAssumption
    <3>3. graph.nodes \subseteq graph'.nodes
      BY <1>a, <3>1, <3>2, ApplyPatchType
    <3> QED
      BY <1>a, <3>1, <3>2, <3>3, PatchKeepsPassed
  <2> QED
    BY <2>1, <2>2, <2>3, <2>4, <2>5, NextSteady
<1>2. \A n \in graph.nodes :
          n # att.node /\ graph.status[n] \in Taken => graph'.status[n] \in Taken
  <2>1. CASE AutoRun
    BY <2>1 DEF AutoRun, AutoRunOn
  <2>2. CASE ~AutoRun
    BY <2>2, NextPicks DEF Picks
  <2> QED
    BY <2>1, <2>2
<1>3. base' = base \/ (base' = base \cup {att.node} /\ Candidate /\ UNCHANGED <<past, att>>)
  <2>1. CASE Steady
    BY <2>1 DEF Steady
  <2>2. CASE PlannerPlans \/ ReviewEnd \/ RepairReset \/ MergeRecorded \/ ReplanApplied
    BY <2>2 DEF PlannerPlans, ReviewEnd, RepairReset, MergeRecorded, ReplanApplied, world
  <2>3. CASE MergeInGit
    <3>1. /\ pc = "finalize" /\ att.decision = "approve" /\ base' = base \cup {att.node}
          /\ UNCHANGED <<past, att>>
      BY <2>3 DEF MergeInGit, CanAutoMerge, disk
    <3> QED
      BY <3>1 DEF Approval, Candidate
  <2> QED
    BY <2>1, <2>2, <2>3, NextSteady
<1>4. \/ past' = past /\ att'.node = att.node
      \/ /\ past' = past /\ att.node = 0
         /\ att'.node \in graph.nodes => graph.status[att'.node] \notin Taken
      \/ /\ past' = Append(past, att) /\ ~IsSettled(att')
         /\ \/ att.phase = "merged" /\ att'.node = 0
            \/ ~IsSettled(att) /\ att'.node = att.node
  <2>1. CASE Settled
    <3>1. CASE AutoRun
      <4>1. att'.node = 0
        BY <3>1 DEF AutoRun, AutoRunOn, BeginAttempt
      <4>2. past' = past /\ (att.node # 0 => att'.node = att.node)
        BY <2>1 DEF Settled
      <4> QED
        BY <4>1, <4>2
    <3>2. CASE ~AutoRun
      BY <2>1, <3>2, NextPicks DEF Settled, Picks
    <3> QED
      BY <3>1, <3>2
  <2>2. CASE AutoRun
    <3>1. /\ past' = IF att.iter = 0 THEN past ELSE Append(past, att)
          /\ att'.node = 0 /\ att'.phase \in {"planning", "preflight"}
          /\ DecideAutoStep.step = "run"
      BY <2>2 DEF AutoRun, AutoRunOn, BeginAttempt, Dispatch
    <3>2. att.iter = 0 => att.node = 0
      BY DEF Approval
    <3>3. att.iter # 0 => att.phase = "merged"
      BY <3>1, DecideRun
    <3> QED
      BY <3>1, <3>2, <3>3 DEF IsSettled
  <2>3. CASE ResumeRetry
    BY <2>3 DEF ResumeRetry, BeginAttempt, IsSettled
  <2>4. CASE MergeRecorded
    BY <2>4, <1>a DEF MergeRecorded, Attempt
  <2>5. CASE AutoRepair
    BY <2>5, <1>a, IncrementType DEF AutoRepair
  <2> QED
    BY <2>1, <2>2, <2>3, <2>4, <2>5, NextSettled
<1>5. ASSUME Candidate
      PROVE  /\ past' = past /\ att'.node = att.node
             /\ \/ Candidate'
                \/ graph'.status[att.node] = "passed" \/ att.node \notin base
  <2>1. past' = past /\ att'.node = att.node
    <3>1. att.node # 0 /\ att.phase = "approved"
      BY <1>5 DEF Candidate, TypeInv, NodeChosen, Blank
    <3> QED
      BY <1>4, <3>1 DEF IsSettled
  <2>2. CASE Steady
    BY <1>5, <2>1, <2>2 DEF Steady
  <2>3. CASE PlannerPlans \/ ReviewEnd \/ ReplanApplied
    BY <1>5, <2>3 DEF PlannerPlans, ReviewEnd, ReplanApplied, Approval
  <2>4. CASE RepairReset
    BY <1>5, <2>1, <2>4 DEF RepairReset, Approval, Grounded
  <2>5. CASE MergeInGit
    BY <1>5, <2>1, <2>5 DEF MergeInGit, disk, Candidate
  <2>6. CASE MergeRecorded
    <3>1. att.node \in Nodes
      BY <2>6, <1>a DEF MergeRecorded, Grounded
    <3> QED
      BY <2>1, <2>6, <1>a, <3>1, SetStatusKeeps DEF MergeRecorded
  <2> QED
    BY <2>1, <2>2, <2>3, <2>4, <2>5, <2>6, NextSteady
<1> QED
  BY <1>1, <1>2, <1>3, <1>4, <1>5 DEF Evolves

\* An overtaken attempt ends the loop: nothing but the report on it changes.
LEMMA OvertakenRests ==
    ASSUME TypeInv, Overtaken, status \notin {"done", "replanning"}, pc \in {"off", "loop"}, [Next]_vars
    PROVE  /\ pc' \in {"off", "loop"} /\ Overtaken'
           /\ status' = status /\ graph' = graph /\ past' = past /\ base' = base
           /\ att'.node = att.node /\ att'.base = att.base /\ att'.iter = att.iter
<1>a. att \in Attempt
  BY DEF TypeInv, TypeOK
<1>1. DecideAutoStep.step \in {"terminal", "resume"}
  <2>1. AttemptReport(att) = "none" /\ ReviewerReport(att) = "none"
    BY DEF Overtaken, AttemptReport, ReviewerReport, ReviewerGatePassed
  <2>2. DecideReported(att) = Go("resume", "none")
    BY <2>1 DEF Overtaken, DecideReported, Repairable
  <2>3. \/ \E why : DecideAutoStep = Go("terminal", why)
        \/ DecideAutoStep = DecideReported(att)
    BY DEF Overtaken, DecideAutoStep
  <2> QED
    BY <2>2, <2>3 DEF Go
<1>2. ~ReconcilePending /\ ~AttemptNeedsContinuation(att) /\ att.phase \notin {"approved", "rejected"}
  BY DEF Overtaken, ReconcilePending, AttemptNeedsContinuation
<1>3. CASE Start \/ ResumeRefused \/ Crash \/ OperatorCommits \/ UNCHANGED vars
  BY <1>3 DEF Start, ResumeRefused, Crash, OperatorCommits, Goto, vars, disk, world, Overtaken
<1>4. CASE AutoTerminal
  <2>1. att' = [att EXCEPT !.ftype = "other"] /\ pc' = "off" /\ base' = base
        /\ UNCHANGED <<status, graph, past>>
    BY <1>4 DEF AutoTerminal, Goto, world
  <2>2. /\ att'.phase = att.phase /\ att'.decision = att.decision /\ att'.mergeErr = att.mergeErr
        /\ att'.ftype = "other" /\ att'.iter = att.iter /\ att'.node = att.node
        /\ att'.base = att.base
    BY <1>a, <2>1 DEF Attempt
  <2> QED
    BY <2>1, <2>2 DEF Overtaken
<1>5. ~(PhaseStep \/ ImplWrite \/ SoftReset \/ HandleFailure)
  BY DEF SoftReset, HandleFailure, ImplWrite, PhaseStep,
         PlannerPlans, PlannerFails, NodeSetup, NoRunnableNode, SetupFails,
         ImplStart, ImplAlreadyDone, ImplAlreadyFailed, ImplEnd, ImplFailed, StopForPatch,
         TestStart, TestEnd, TestAlreadyDone, ReviewStart, ReviewEnd, ReviewFails,
         ReviewAlreadyDone, FinalizeStop, FinalizeReject, FinalizeHold, MergeInGit,
         MergeRecorded, MergeFails, RepairSkipped, RepairReset, RepairStart, ReplanApplied,
         ReplanFails
<1>6. ~(\/ Reconcile \/ AutoDone \/ ResumeRetry \/ ResumeFinalize \/ ResumeFrom
        \/ AutoRepair \/ AutoReplan \/ AutoRun \/ AutoRunRefused)
  BY <1>1, <1>2 DEF Reconcile, AutoDone, ResumeRetry, ResumeFinalize, ResumeFrom, AutoRepair,
                    AutoReplan, AutoRun, AutoRunOn, AutoRunRefused, Dispatch
<1> QED
  BY <1>3, <1>4, <1>5, <1>6 DEF Next, RunnerStep, LoopStep, DispatchStep

\* What such a step does to the history.
LEMMA EvolvesHistory ==
    ASSUME ParTypeOK, ParTypeOK', Evolves
    PROVE  LET L == Len(past) + 1
           IN  /\ L \in Nat /\ Len(past') + 1 \in {L, L+1} /\ att' = History'[Len(past')+1]
               /\ \A i \in 1..Len(past) : History'[i] = History[i]
               /\ past' # past => Len(past') + 1 = L + 1 /\ History'[L] = att
               /\ past' = past => Len(past') + 1 = L
<1> DEFINE L == Len(past) + 1
<1>1. /\ Len(past) \in Nat /\ Len(past') \in Nat /\ past \in Seq(Attempt) /\ att \in Attempt
      /\ \A i \in 1..Len(past) : History[i] = past[i]
      /\ att' \in Attempt /\ past' \in Seq(Attempt)
  BY SavedFacts DEF ParTypeOK
<1>2. /\ att' = History'[Len(past')+1]
      /\ \A i \in 1..Len(past') : History'[i] = past'[i]
  BY <1>1 DEF History
<1>3. CASE past' = past
  BY <1>1, <1>2, <1>3
<1>4. CASE past' # past
  <2>1. past' = Append(past, att)
    BY <1>4 DEF Evolves
  <2>2. /\ Len(past') = Len(past) + 1 /\ past'[Len(past) + 1] = att
        /\ \A i \in 1..Len(past) : past'[i] = past[i]
    BY <1>1, <2>1
  <2> QED
    BY <1>1, <1>2, <1>4, <2>2
<1> QED
  BY <1>3, <1>4

\* The sequential loop keeps what the batches rely on.
LEMMA EvolvesKeepsBatch ==
    ASSUME BatchInv, ParInv', Grounded', Verdicts', pc \notin Batching, pc' \notin Batching,
           Evolves, UNCHANGED <<running, queue>>
    PROVE  BatchInv'
<1> DEFINE L == Len(past) + 1
           K == Len(past') + 1
<1>1. /\ ParInv /\ Grounded /\ Verdicts /\ Settles /\ Unique /\ Queued /\ Covered
      /\ ParTypeOK /\ ParTypeOK' /\ Pool' /\ NodeChosen
  BY DEF BatchInv, ParInv
<1>2. /\ L \in Nat /\ L # 0 /\ K \in {L, L+1} /\ att' = History'[K] /\ History[L] = att
      /\ \A i \in 1..L : i # L => History'[i] = History[i]
      /\ past' # past => K = L + 1 /\ History'[L] = att
      /\ past' = past => K = L
  <2>1. Len(past) \in Nat /\ History[L] = att
    BY <1>1, SavedFacts
  <2>2. \A i \in 1..L : i # L => i \in 1..Len(past)
    BY <2>1
  <2> QED
    BY <1>1, <2>1, <2>2, EvolvesHistory
<1>3. /\ graph.nodes \subseteq graph'.nodes /\ graph.nodes \subseteq Nodes /\ base \subseteq base'
      /\ 0 \notin Nodes
      /\ \A n \in graph.nodes :
           /\ graph'.deps[n] \subseteq graph.deps[n]
           /\ graph.status[n] = "passed" => graph'.status[n] = "passed"
           /\ n # att.node /\ graph.status[n] \in Taken => graph'.status[n] \in Taken
  BY <1>1, SavedFacts DEF Evolves, Graph, Nodes
<1>4. \/ past' = past /\ att'.node = att.node
      \/ /\ past' = past /\ att.node = 0
         /\ att'.node \in graph.nodes => graph.status[att'.node] \notin Taken
      \/ /\ past' # past /\ ~IsSettled(att')
         /\ \/ att.phase = "merged" /\ att'.node = 0
            \/ ~IsSettled(att) /\ att'.node = att.node
  <2>1. past' = Append(past, att) => past' # past
    <3>1. past \in Seq(Attempt) /\ att \in Attempt /\ Len(past) \in Nat
      BY <1>1, SavedFacts DEF ParTypeOK
    <3>2. Len(Append(past, att)) # Len(past)
      BY <3>1
    <3> QED
      BY <3>2
  <2> QED
    BY <2>1 DEF Evolves
<1>5. att.phase = "merged" =>
          /\ att.node \in graph.nodes /\ graph.status[att.node] = "passed" /\ Sound(att)
  <2> SUFFICES ASSUME att.phase = "merged" PROVE /\ att.node \in graph.nodes /\ Sound(att)
                                                 /\ graph.status[att.node] = "passed"
    OBVIOUS
  <2>1. att.decision = "approve" /\ att.exit = "ok"
    BY <1>1 DEF Verdicts, Approval, Overtaken
  <2>2. att.node # 0 /\ att.node \in graph.nodes
    BY <1>1 DEF NodeChosen, Blank
  <2> QED
    BY <1>1, <2>1, <2>2 DEF Grounded, Sound
<1> HIDE DEF L, K
<1>6. \A a \in Attempt : Sound(a) => Sound(a)'
  <2> SUFFICES ASSUME NEW a \in Attempt, Sound(a) PROVE Sound(a)'
    OBVIOUS
  <2> QED
    BY <1>3 DEF Sound
<1>7. \A i \in 1..L : History[i] \in Attempt
  BY <1>1, SavedFacts DEF L
\* Who is settled now was so before.
<1>8. ASSUME NEW i \in 1..K, i # K, IsSettled(History'[i])
      PROVE  /\ i \in 1..L /\ History'[i] = History[i] /\ Sound(History[i])
             /\ graph.status[History[i].node] \in Taken
             /\ History[i].phase = "merged" => graph.status[History[i].node] = "passed"
             /\ i = L => K = L + 1 /\ att'.node = 0
             /\ i # L => History[i].node # att.node
  <2>1. i \in 1..L /\ (i = L => K = L + 1)
    BY <1>2, <1>8
  <2>2. History'[i] = History[i]
    BY <1>2, <2>1
  <2>3. CASE i = L
    <3>1. att.phase = "merged" /\ att'.node = 0
      BY <1>2, <1>4, <1>8, <2>1, <2>2, <2>3
    <3> QED
      BY <1>2, <1>5, <2>1, <2>2, <2>3, <3>1 DEF Taken
  <2>4. CASE i # L
    <3>1. /\ Sound(History[i]) /\ graph.status[History[i].node] \in Taken
          /\ History[i].phase = "merged" => graph.status[History[i].node] = "passed"
      BY <1>1, <1>8, <2>1, <2>2, <2>4 DEF Settles, L
    <3>2. Counts(i) /\ Counts(L) /\ L \in 1..L
      BY <1>2, <1>8, <2>2 DEF Counts, L
    <3>3. History[i].node # att.node
      BY <1>1, <1>2, <2>1, <2>4, <3>2 DEF Unique, L
    <3> QED
      BY <2>1, <2>2, <2>4, <3>1, <3>3
  <2> QED
    BY <2>3, <2>4
<1>9. Settles'
  <2> SUFFICES ASSUME NEW i \in 1..K, i # K, IsSettled(History'[i])
               PROVE  /\ Sound(History[i])'
                      /\ graph'.status[History'[i].node] \in Taken
                      /\ History'[i].phase = "merged" => graph'.status[History'[i].node] = "passed"
    BY DEF Settles, K
  <2> DEFINE a == History[i]
  <2>1. /\ i \in 1..L /\ History'[i] = a /\ Sound(a) /\ graph.status[a.node] \in Taken
        /\ a.phase = "merged" => graph.status[a.node] = "passed"
        /\ i = L => a = att /\ K = L + 1
        /\ i # L => a.node # att.node
    BY <1>2, <1>8
  <2>2. a.node \in graph.nodes /\ a \in Attempt
    BY <1>7, <2>1 DEF Sound
  <2>3. Sound(a)'
    <3> HIDE DEF a
    <3>1. History'[i] \in Attempt /\ Sound(History'[i])
      BY <2>1, <2>2
    <3>2. History'[i].node \in graph'.nodes
          /\ graph'.deps[History'[i].node] \subseteq graph.deps[History'[i].node]
      BY <1>3, <2>1, <2>2
    <3> QED
      BY <1>3, <3>1, <3>2 DEF Sound, a
  <2>4. graph'.status[a.node] \in Taken
    <3>1. CASE i = L
      <4>1. graph.status[a.node] = "passed"
        BY <1>2, <1>4, <1>5, <1>8, <2>1, <3>1
      <4> QED
        BY <1>3, <2>2, <4>1 DEF Taken
    <3>2. CASE i # L
      BY <1>3, <2>1, <2>2, <3>2
    <3> QED
      BY <3>1, <3>2
  <2> HIDE DEF a
  <2> QED
    BY <1>3, <2>1, <2>2, <2>3, <2>4 DEF a
<1>10. Unique'
  <2>1. \A n \in Nodes : worker'[n].stage = "idle"
    BY <1>1, IdleType DEF Pool, Batching
  <2>2. \A i \in 1..K : Counts(i)' => i = K \/ IsSettled(History'[i])
    BY <2>1 DEF Counts, K
  <2>3. ASSUME NEW i \in 1..K, i # K, IsSettled(History'[i]) PROVE History'[i].node # att'.node
    <3>1. /\ i \in 1..L /\ History'[i] = History[i] /\ Sound(History[i])
          /\ graph.status[History[i].node] \in Taken
          /\ i = L => K = L + 1 /\ att'.node = 0
          /\ i # L => History[i].node # att.node
      BY <1>8, <2>3
    <3>2. History[i].node \in graph.nodes /\ History[i].node # 0
      BY <1>3, <3>1 DEF Sound
    <3> QED
      BY <1>4, <3>1, <3>2
  <2>4. ASSUME NEW i \in 1..K, i # K, IsSettled(History'[i]),
               NEW j \in 1..K, j # K, IsSettled(History'[j]), History'[i].node = History'[j].node
        PROVE  i = j
    <3>1. /\ i \in 1..L /\ History'[i] = History[i] /\ j \in 1..L /\ History'[j] = History[j]
      BY <1>8, <2>4
    <3>2. Counts(i) /\ Counts(j)
      BY <2>4, <3>1 DEF Counts
    <3> QED
      BY <1>1, <2>4, <3>1, <3>2 DEF Unique, L
  <2> QED
    BY <1>2, <2>2, <2>3, <2>4 DEF Unique, K
<1>11. Queued'
  <2>1. queue' = queue /\ running' = running
    OBVIOUS
  <2>2. ASSUME NEW k \in DOMAIN queue
        PROVE  queue[k] = att'.node \/ graph'.status[queue[k]] \in Taken
    <3> DEFINE m == queue[k]
    <3>1. m \in graph.nodes /\ (m = att.node \/ graph.status[m] \in Taken) /\ m # 0
      BY <1>1, <1>3 DEF Queued
    <3> HIDE DEF m
    <3>2. CASE m = att.node
      <4>1. att'.node = att.node \/ att.phase = "merged"
        BY <1>4, <3>1, <3>2
      <4>2. att.phase = "merged" => graph'.status[m] = "passed"
        BY <1>3, <1>5, <3>2
      <4> QED
        BY <3>2, <4>1, <4>2 DEF m, Taken
    <3>3. CASE m # att.node
      BY <1>3, <3>1, <3>3 DEF m
    <3> QED
      BY <3>2, <3>3
  <2> QED
    BY <1>1, <1>3, <2>1, <2>2 DEF Queued
<1>12. Labors'
  <2>1. \A n \in Nodes : worker'[n].stage = "idle"
    BY <1>1, IdleType DEF Pool, Batching
  <2> QED
    BY <2>1 DEF Labors
<1>13. Covered'
  <2> SUFFICES ASSUME NEW n \in base'
               PROVE  \/ graph'.status[n] = "passed"
                      \/ \E i \in 1..K : History'[i].node = n /\ Approved(History'[i])
    BY DEF Covered, K
  <2>1. K \in 1..K /\ (Candidate' => Approved(History'[K]) /\ History'[K].node = att'.node)
    BY <1>2 DEF Candidate, Approved
  <2>2. Candidate => /\ past' = past /\ att'.node = att.node
                     /\ \/ Candidate'
                        \/ graph'.status[att.node] = "passed" \/ att.node \notin base
    BY DEF Evolves
  <2>3. CASE n \in base
    <3>0. n \in graph.nodes
      BY <1>1, <2>3 DEF Grounded
    <3>1. CASE graph.status[n] = "passed"
      BY <1>3, <3>0, <3>1
    <3>2. CASE graph.status[n] # "passed"
      <4>1. PICK i \in 1..L : History[i].node = n /\ Approved(History[i])
        BY <1>1, <2>3, <3>2 DEF Covered, L
      <4>2. CASE i = L
        <5>1. Candidate /\ att.node = n
          BY <1>2, <4>1, <4>2 DEF Candidate, Approved
        <5> QED
          BY <2>1, <2>2, <2>3, <5>1
      <4>3. CASE i # L
        <5>1. i \in 1..K /\ History'[i] = History[i]
          BY <1>2, <4>3
        <5> QED
          BY <4>1, <5>1
      <4> QED
        BY <4>2, <4>3
    <3> QED
      BY <3>1, <3>2
  <2>4. CASE n \notin base
    <3>1. Candidate /\ att' = att /\ n = att.node
      BY <2>4 DEF Evolves
    <3>2. Candidate'
      BY <3>1 DEF Candidate
    <3> QED
      BY <2>1, <3>1, <3>2
  <2> QED
    BY <2>3, <2>4
<1>14. InBatch'
  BY DEF InBatch
<1> QED
  BY <1>1, <1>9, <1>10, <1>11, <1>12, <1>13, <1>14 DEF BatchInv

\* An approved attempt stays approved or is merged, but for the repair of a
\* merge conflict.
LEMMA NextUpholds ==
    ASSUME TypeInv, Approval, Grounded, [Next]_vars, Candidate
    PROVE  Candidate' \/ att'.phase = "merged" \/ mem.repair = "merge_conflict"
<1>a. att \in Attempt
  BY DEF TypeInv, TypeOK
<1>1. CASE Steady
  BY <1>1 DEF Steady
<1>2. CASE PlannerPlans \/ ReviewEnd \/ ReplanApplied
  BY <1>2 DEF PlannerPlans, ReviewEnd, ReplanApplied, Approval
<1>3. CASE RepairReset
  BY <1>3 DEF RepairReset, Approval
<1>4. CASE MergeInGit
  BY <1>4 DEF MergeInGit, disk, Candidate
<1>5. CASE MergeRecorded
  BY <1>5, <1>a DEF MergeRecorded, Attempt
<1> QED
  BY <1>1, <1>2, <1>3, <1>4, <1>5, NextSteady

\* A step of AutoLoop, a kill included, outside of a batch.
LEMMA SequentialKeepsBatch ==
    ASSUME BatchInv, ParInv', pc \in PCs, [Next]_vars, UNCHANGED <<running, queue>>
    PROVE  /\ BatchInv' /\ Evolves
           /\ Candidate => Candidate' \/ att'.phase = "merged" \/ mem.repair = "merge_conflict"
<1>1. TypeInv /\ Grounded /\ Verdicts /\ pc \notin Batching
  BY ParTypeFacts DEF BatchInv
<1>2. pc' \notin Batching
  <2>1. pc' \in PCs
    BY <1>1, NextTypeOK DEF TypeOK
  <2> QED
    BY <2>1 DEF PCs, Batching
<1>3. CASE Approval
  <2>1. Approval' /\ Grounded' /\ Evolves
    BY <1>1, <1>3, NextApproval, NextGrounded, NextEvolves
  <2>2. Candidate => Candidate' \/ att'.phase = "merged" \/ mem.repair = "merge_conflict"
    BY <1>1, <1>3, NextUpholds
  <2> QED
    BY <1>1, <1>2, <2>1, <2>2, EvolvesKeepsBatch DEF Verdicts
<1>4. CASE Overtaken /\ status \notin {"done", "replanning"} /\ pc \in {"off", "loop"}
  <2>1. /\ pc' \in {"off", "loop"} /\ Overtaken'
        /\ status' = status /\ graph' = graph /\ past' = past /\ base' = base
        /\ att'.node = att.node /\ att'.base = att.base /\ att'.iter = att.iter
    BY <1>1, <1>4, OvertakenRests
  <2>2. Verdicts'
    BY <1>4, <2>1 DEF Verdicts
  <2>3. Grounded'
    <3>1. /\ att.phase = "failed" /\ att'.phase = "failed" /\ att.decision # "replan"
          /\ att.mergeErr = "none" /\ att'.mergeErr = "none" /\ att.node # 0
      BY <1>4, <2>1 DEF Overtaken
    <3> QED
      BY <1>1, <2>1, <3>1 DEF Grounded
  <2>4. Evolves
    BY <1>4, <2>1 DEF Evolves, Candidate, Overtaken
  <2>5. ~Candidate
    BY <1>4 DEF Candidate, Overtaken
  <2> QED
    BY <1>1, <1>2, <2>2, <2>3, <2>4, <2>5, EvolvesKeepsBatch
<1> QED
  BY <1>1, <1>3, <1>4 DEF Verdicts

\* Where an iteration may begin, with what a scan has changed in the graph.
LEMMA RunKeeps ==
    ASSUME BatchInv, Dispatch("run")
    PROVE  /\ pc = "loop" /\ TypeInv /\ Approval /\ status # "done"
           /\ att.iter = 0 => att.node = 0 /\ ~IsSettled(att)
           /\ att.iter # 0 => att.phase = "merged"
           /\ DiscoveredGraph \in Graph /\ DiscoveredGraph.nodes = graph.nodes
           /\ DiscoveredGraph.deps = graph.deps
           /\ \A m \in Nodes :
                \/ DiscoveredGraph.status[m] = graph.status[m]
                \/ graph.status[m] = "pending" /\ DiscoveredGraph.status[m] = "blocked"
<1>1. /\ ParInv /\ Verdicts /\ Replans /\ graph \in Graph
  BY SavedFacts DEF BatchInv, ParInv
<1>2. /\ pc = "loop"
      /\ att.iter = 0 \/ (status = "stopped" /\ att.phase = "merged")
  BY <1>1, RunFacts
<1>3. TypeInv
  BY <1>1, <1>2, ParTypeFacts DEF PCs
<1>4. pc \notin Batching
  BY <1>2 DEF Batching
<1>5. Approval
  BY <1>1, <1>2, <1>4 DEF Verdicts, Overtaken
<1>6. status # "done"
  BY <1>2, <1>5 DEF Approval, Blank
<1>7. att.iter = 0 => att.node = 0 /\ ~IsSettled(att)
  BY <1>5 DEF Approval, Blank, IsSettled
<1> QED
  BY <1>1, <1>2, <1>3, <1>5, <1>6, <1>7, AfterScanType, AfterScanKeeps DEF DiscoveredGraph

\* An iteration of one node.
LEMMA RunAloneKeepsBatch ==
    ASSUME BatchInv, RunAlone
    PROVE  BatchInv' /\ Evolves /\ ~Candidate
<1>1. AutoRunOn(DiscoveredGraph) /\ Alone /\ Dispatch("run") /\ ParInv'
  BY RunAloneKeeps DEF RunAlone, AutoRunOn, Alone, BatchInv
<1>2. /\ past' = IF att.iter = 0 THEN past ELSE Append(past, att)
      /\ att' = BeginAttempt(iteration + 1, 0, 0)
      /\ status' = "running" /\ graph' = DiscoveredGraph /\ pc' = "plan"
      /\ base' = base /\ UNCHANGED <<running, queue>>
  BY <1>1 DEF AutoRunOn, NewWorktree, Goto, Alone, batchDisk
<1>3. /\ pc = "loop" /\ TypeInv /\ Approval /\ status # "done"
      /\ att.iter = 0 => att.node = 0 /\ ~IsSettled(att)
      /\ att.iter # 0 => att.phase = "merged"
      /\ DiscoveredGraph \in Graph /\ DiscoveredGraph.nodes = graph.nodes
      /\ DiscoveredGraph.deps = graph.deps
      /\ \A m \in Nodes :
           \/ DiscoveredGraph.status[m] = graph.status[m]
           \/ graph.status[m] = "pending" /\ DiscoveredGraph.status[m] = "blocked"
  BY <1>1, RunKeeps
<1>4. iteration \in Nat /\ iteration + 1 # 0 /\ graph.nodes \subseteq Nodes /\ Grounded
  BY <1>3 DEF TypeInv, TypeOK, Graph, BatchInv
<1>5. /\ att'.iter # 0 /\ att'.node = 0 /\ att'.phase \in {"preflight", "planning"}
      /\ att'.decision = "none" /\ att'.mergeErr = "none" /\ att'.base = base
  BY <1>2, <1>4 DEF BeginAttempt
<1>6. pc \notin Batching /\ pc' \notin Batching
  BY <1>2, <1>3 DEF Batching
<1>7. Verdicts'
  BY <1>2, <1>5 DEF Verdicts, Approval, Candidate
<1>8. \A m \in Nodes : graph'.status[m] = "passed" <=> graph.status[m] = "passed"
  BY <1>2, <1>3
<1>9. Grounded'
  BY <1>2, <1>3, <1>4, <1>5, <1>8 DEF Grounded
<1>10. ~Candidate
  BY <1>3 DEF Candidate, IsSettled
<1>11. Evolves
  <2>1. ~IsSettled(att')
    BY <1>5 DEF IsSettled
  <2>2. \A m \in Nodes : graph.status[m] \in Taken => graph'.status[m] \in Taken
    BY <1>2, <1>3 DEF Taken
  <2> QED
    BY <1>2, <1>3, <1>4, <1>5, <1>8, <1>10, <2>1, <2>2 DEF Evolves
<1> QED
  BY <1>1, <1>2, <1>6, <1>7, <1>9, <1>10, <1>11, EvolvesKeepsBatch

----------------------------------------------------------------------------
(* The start of a batch. *)

\* A batch begins: its nodes are free, what they depend on is merged, and no
\* approved attempt is for one of them.
LEMMA BeginsKeepsBatch ==
    ASSUME BatchInv, BatchStart
    PROVE  BatchInv'
<1> DEFINE L == Len(past) + 1
           K == Len(past') + 1
           D == Discovered
<1>1. /\ ParInv /\ Grounded /\ Settles /\ Unique /\ Queued /\ Covered
      /\ ParTypeOK /\ Registered /\ NodeChosen
      /\ Dispatch("run") /\ ParInv' /\ Begins
  BY BatchStartKeeps DEF BatchInv, ParInv, BatchStart
<1>2. /\ pc = "loop" /\ TypeInv /\ Approval /\ status # "done"
      /\ att.iter = 0 => att.node = 0 /\ ~IsSettled(att)
      /\ att.iter # 0 => att.phase = "merged"
      /\ DiscoveredGraph.nodes = graph.nodes /\ DiscoveredGraph.deps = graph.deps
      /\ \A m \in Nodes :
           \/ DiscoveredGraph.status[m] = graph.status[m]
           \/ graph.status[m] = "pending" /\ DiscoveredGraph.status[m] = "blocked"
  BY <1>1, RunKeeps
<1>3. /\ K \in Nat /\ K > L /\ pc' = "batch" /\ att' = History'[K]
      /\ \A i \in 1..L : History'[i] = History[i]
      /\ \A i \in 1..K : i > L =>
            /\ History'[i].node \in D /\ running'[History'[i].node] = i
            /\ History'[i].phase = "planning" /\ History'[i].decision = "none"
            /\ History'[i].mergeErr = "none" /\ History'[i].iter # 0 /\ History'[i].base = base
      /\ \A n \in Nodes :
            IF n \in D
            THEN running'[n] \in 1..K /\ running'[n] > L /\ worker'[n].stage = "todo"
            ELSE running'[n] = running[n] /\ worker'[n].stage = "idle"
      /\ status' = status /\ graph' = DiscoveredGraph /\ queue' = queue /\ base' = base
  BY <1>1 DEF Begins
<1>4. /\ L \in Nat /\ L \in 1..L /\ History[L] = att /\ graph \in Graph /\ graph.nodes \subseteq Nodes
      /\ 0 \notin Nodes /\ \A i \in 1..L : History[i] \in Attempt
  <2>1. Len(past) \in Nat /\ History[L] = att /\ graph \in Graph
        /\ \A i \in 1..L : History[i] \in Attempt
    BY <1>1, SavedFacts
  <2> QED
    BY <2>1 DEF Graph, Nodes
<1>5. \A n \in D : /\ n \in graph.nodes /\ n \in Nodes
                   /\ graph.status[n] \in {"pending", "rejected"}
                   /\ graph.deps[n] \subseteq base
  <2> SUFFICES ASSUME NEW n \in D
               PROVE  /\ n \in graph.nodes /\ n \in Nodes
                      /\ graph.status[n] \in {"pending", "rejected"}
                      /\ graph.deps[n] \subseteq base
    OBVIOUS
  <2>1. /\ n \in graph.nodes /\ n \in Nodes /\ graph.status[n] \in {"pending", "rejected"}
        /\ graph.deps[n] \subseteq Nodes
        /\ \A d \in graph.deps[n] : graph.status[d] = "passed"
    BY <1>4, NextRunnableNodesReady DEF Discovered
  <2> QED
    BY <1>1, <2>1 DEF Grounded
<1>6. pc \notin Batching /\ pc' \in Batching
  BY <1>2, <1>3 DEF Batching
<1>7. \A m \in Nodes : /\ graph.status[m] \in Taken => graph'.status[m] \in Taken
                       /\ graph'.status[m] = "passed" <=> graph.status[m] = "passed"
                       /\ graph'.status[m] = "skipped" <=> graph.status[m] = "skipped"
  BY <1>2, <1>3 DEF Taken
<1> HIDE DEF L, K, D
<1>8. att.phase = "merged" =>
          /\ att.node \in graph.nodes /\ graph.status[att.node] = "passed" /\ Sound(att)
  <2> SUFFICES ASSUME att.phase = "merged" PROVE /\ att.node \in graph.nodes /\ Sound(att)
                                                 /\ graph.status[att.node] = "passed"
    OBVIOUS
  <2>1. att.decision = "approve" /\ att.exit = "ok"
    BY <1>2 DEF Approval
  <2>2. att.node # 0 /\ att.node \in graph.nodes
    BY <1>1 DEF NodeChosen, Blank
  <2> QED
    BY <1>1, <2>1, <2>2 DEF Grounded, Sound
\* The settled attempts are the old ones, and none of the batch's nodes is theirs.
<1>9. ASSUME NEW i \in 1..K, IsSettled(History'[i])
      PROVE  /\ i \in 1..L /\ History'[i] = History[i] /\ Sound(History[i])
             /\ History[i].node \in graph.nodes /\ History[i].node \notin D
             /\ graph.status[History[i].node] \in Taken
             /\ History[i].phase = "merged" => graph.status[History[i].node] = "passed"
  <2>1. i \in 1..L
    <3>1. ~(i > L)
      BY <1>3, <1>9 DEF IsSettled
    <3> QED
      BY <1>3, <1>4, <3>1
  <2>2. History'[i] = History[i]
    BY <1>3, <2>1
  <2>3. /\ Sound(History[i]) /\ graph.status[History[i].node] \in Taken
        /\ History[i].phase = "merged" => graph.status[History[i].node] = "passed"
    <3>1. CASE i = L
      <4>1. att.phase = "merged"
        BY <1>2, <1>4, <1>9, <2>2, <3>1
      <4> QED
        BY <1>4, <1>8, <3>1, <4>1 DEF Taken
    <3>2. CASE i # L
      BY <1>1, <1>9, <2>1, <2>2, <3>2 DEF Settles, L
    <3> QED
      BY <3>1, <3>2
  <2>4. History[i].node \in graph.nodes
    BY <2>3 DEF Sound
  <2>5. History[i].node \notin D
    BY <1>5, <2>3 DEF Taken
  <2> QED
    BY <2>1, <2>2, <2>3, <2>4, <2>5
<1>10. /\ K \in 1..K /\ att'.node \in D /\ att'.node \in Nodes /\ att'.node # 0
       /\ att'.phase = "planning" /\ att'.decision = "none"
       /\ att'.mergeErr = "none" /\ att'.iter # 0 /\ att'.base = base
  <2>1. K \in 1..K
    BY <1>3, <1>4
  <2> QED
    BY <1>3, <1>4, <1>5, <2>1
<1>11. Grounded'
  <2>1. graph'.status[att'.node] \notin {"passed", "skipped"}
    BY <1>5, <1>7, <1>10
  <2>2. graph'.deps[att'.node] \subseteq base
    BY <1>2, <1>3, <1>5, <1>10
  <2> QED
    BY <1>1, <1>2, <1>3, <1>7, <1>10, <2>1, <2>2 DEF Grounded
<1>12. att'.node \notin base
  <2> SUFFICES ASSUME att'.node \in base PROVE FALSE
    OBVIOUS
  <2>1. graph.status[att'.node] \in {"pending", "rejected"}
    BY <1>5, <1>10
  <2>2. PICK i \in 1..L : History[i].node = att'.node /\ Approved(History[i])
    BY <1>1, <2>1 DEF Covered, L
  <2>3. i \in 1..K /\ IsSettled(History'[i]) /\ History'[i] = History[i]
    <3>1. i \in 1..K
      BY <1>3, <1>4, <2>2
    <3> QED
      BY <1>3, <2>2, <3>1 DEF Approved, IsSettled
  <2> QED
    BY <1>9, <1>10, <2>2, <2>3
<1>13. InBatch' /\ Verdicts'
  <2>1. graph'.status[att'.node] # "skipped"
    BY <1>5, <1>7, <1>10
  <2> QED
    BY <1>2, <1>3, <1>6, <1>10, <1>12, <2>1 DEF InBatch, Verdicts
<1>14. Settles'
  <2> SUFFICES ASSUME NEW i \in 1..K, IsSettled(History'[i])
               PROVE  /\ Sound(History[i])'
                      /\ graph'.status[History'[i].node] \in Taken
                      /\ History'[i].phase = "merged" => graph'.status[History'[i].node] = "passed"
    BY DEF Settles, K
  <2>1. /\ i \in 1..L /\ History'[i] = History[i] /\ Sound(History[i])
        /\ History[i].node \in Nodes
        /\ graph.status[History[i].node] \in Taken
        /\ History[i].phase = "merged" => graph.status[History[i].node] = "passed"
    BY <1>4, <1>9
  <2>2. Sound(History[i])'
    BY <1>2, <1>3, <2>1 DEF Sound
  <2> QED
    BY <1>7, <2>1, <2>2
<1>15. Unique'
  <2>1. ASSUME NEW i \in 1..K, Counts(i)' PROVE i > L \/ IsSettled(History'[i])
    <3>1. CASE i = K
      BY <1>3, <3>1
    <3>2. ASSUME NEW n \in Nodes, worker'[n].stage # "idle", running'[n] = i PROVE i > L
      BY <1>3, <3>2
    <3> QED
      BY <2>1, <3>1, <3>2 DEF Counts, K
  <2>2. ASSUME NEW i \in 1..K, NEW j \in 1..K, Counts(i)', Counts(j)', History'[i].node = History'[j].node
        PROVE  i = j
    <3>1. CASE i > L /\ j > L
      BY <1>3, <2>2, <3>1
    <3>2. CASE i > L /\ ~(j > L)
      <4>1. History'[i].node \in D /\ IsSettled(History'[j])
        BY <1>3, <2>1, <2>2, <3>2
      <4> QED
        BY <1>9, <2>2, <4>1
    <3>3. CASE ~(i > L) /\ j > L
      <4>1. History'[j].node \in D /\ IsSettled(History'[i])
        BY <1>3, <2>1, <2>2, <3>3
      <4> QED
        BY <1>9, <2>2, <4>1
    <3>4. CASE ~(i > L) /\ ~(j > L)
      <4>1. IsSettled(History'[i]) /\ IsSettled(History'[j])
        BY <2>1, <2>2, <3>4
      <4>2. i \in 1..L /\ j \in 1..L /\ History'[i] = History[i] /\ History'[j] = History[j]
        BY <1>9, <4>1
      <4>3. Counts(i) /\ Counts(j)
        BY <4>1, <4>2 DEF Counts
      <4> QED
        BY <1>1, <2>2, <4>2, <4>3 DEF Unique, L
    <3> QED
      BY <3>1, <3>2, <3>3, <3>4
  <2> QED
    BY <2>2 DEF Unique, K
<1>16. Queued'
  <2>1. ASSUME NEW k \in DOMAIN queue
        PROVE  /\ queue[k] \in graph'.nodes /\ running'[queue[k]] = 0
               /\ graph'.status[queue[k]] \in Taken /\ queue[k] # att'.node
    <3> DEFINE m == queue[k]
    <3>1. m \in graph.nodes /\ running[m] = 0 /\ (m = att.node \/ graph.status[m] \in Taken)
      BY <1>1 DEF Queued
    <3> HIDE DEF m
    <3>2. graph.status[m] \in Taken /\ m \in Nodes
      BY <1>2, <1>4, <1>8, <3>1 DEF Taken
    <3>3. m \notin D
      BY <1>5, <3>2 DEF Taken
    <3>4. running'[m] = 0 /\ graph'.status[m] \in Taken /\ m \in graph'.nodes
      BY <1>2, <1>3, <1>7, <3>1, <3>2, <3>3
    <3> QED
      BY <1>10, <3>3, <3>4 DEF m
  <2> QED
    BY <1>1, <1>3, <2>1 DEF Queued
<1>17. Labors'
  <2> SUFFICES ASSUME NEW n \in Nodes, worker'[n].stage # "idle"
               PROVE  LET a == History'[running'[n]]
                      IN  /\ n \in graph'.nodes /\ graph'.status[n] \notin {"passed", "skipped"}
                          /\ graph'.deps[n] \subseteq a.base /\ a.base \subseteq base'
                          /\ worker'[n].stage = "todo"
                          /\ a.decision = "none" /\ ~IsSettled(a)
    BY DEF Labors, Implemented
  <2>1. n \in D /\ worker'[n].stage = "todo" /\ running'[n] \in 1..K /\ running'[n] > L
    BY <1>3
  <2>2. /\ n \in graph'.nodes /\ graph'.status[n] \notin {"passed", "skipped"}
        /\ graph'.deps[n] \subseteq base
    BY <1>2, <1>3, <1>5, <1>7, <2>1
  <2> DEFINE a == History'[running'[n]]
  <2>3. a.base = base /\ a.decision = "none" /\ a.phase = "planning"
    BY <1>3, <2>1
  <2> HIDE DEF a
  <2>4. ~IsSettled(a)
    BY <2>3 DEF IsSettled
  <2> QED
    BY <1>3, <2>1, <2>2, <2>3, <2>4 DEF a
<1>18. Covered'
  <2> SUFFICES ASSUME NEW n \in base
               PROVE  \/ graph'.status[n] = "passed"
                      \/ \E i \in 1..K : History'[i].node = n /\ Approved(History'[i])
    BY <1>3 DEF Covered, K
  <2>1. n \in Nodes
    BY <1>1, <1>4 DEF Grounded
  <2>2. CASE graph.status[n] = "passed"
    BY <1>7, <2>1, <2>2
  <2>3. CASE graph.status[n] # "passed"
    <3>1. PICK i \in 1..L : History[i].node = n /\ Approved(History[i])
      BY <1>1, <2>3 DEF Covered, L
    <3>2. i \in 1..K
      BY <1>3, <1>4, <3>1
    <3> QED
      BY <1>3, <3>1, <3>2
  <2> QED
    BY <2>2, <2>3
<1> QED
  BY <1>1, <1>11, <1>13, <1>14, <1>15, <1>16, <1>17, <1>18 DEF BatchInv

----------------------------------------------------------------------------
(* Every step. *)

\* An approved attempt survives the step, as ApprovalsSurvive says.
Survives ==
    \A i \in 1..Len(past)+1 : Approved(History[i]) =>
        \/ Approved(History'[i])
        \/ History'[i].phase = "merged"
        \/ i = Len(past) + 1 /\ (mem.repair = "merge_conflict" \/ TimingOut)

\* A thread's step leaves the approved attempts alone, unless it times out.
LEMMA WorkSurvives ==
    ASSUME BatchInv, NEW n \in Nodes, NEW s, Works(n, s), Turns(n, s)
    PROVE  Survives
<1> DEFINE L == Len(past) + 1
<1>1. ParTypeOK /\ Labors /\ pc = "batch" /\ worker[n].stage # "idle" /\ Tidy(s) /\ Save(s)
  BY DEF BatchInv, ParInv, Works
<1>2. Len(past) \in Nat /\ s \in Copies /\ Len(s.history) = L
  BY <1>1, SavedFacts DEF Tidy
<1>3. History' = s.history
  <2>1. s.history # <<>>
    BY <1>2
  <2> QED
    BY <1>1, <1>2, <2>1, SaveStores
<1>4. ~IsSettled(History[running[n]])
  BY <1>1 DEF Labors, Turns
<1>5. \A i \in 1..L : i # running[n] =>
          s.history[i] = History[i] \/ (i = L /\ worker[n].stage = "implTimedOut")
  BY DEF Turns
<1>6. worker[n].stage = "implTimedOut" => TimingOut
  BY <1>1 DEF TimingOut, At
<1> QED
  BY <1>3, <1>4, <1>5, <1>6 DEF Survives, Approved, IsSettled

\* A step of the sequential loop goes on with the last attempt or leaves it.
LEMMA EvolvesSurvives ==
    ASSUME ParTypeOK, ParTypeOK', Evolves,
           Candidate => Candidate' \/ att'.phase = "merged" \/ mem.repair = "merge_conflict"
    PROVE  Survives
<1> DEFINE L == Len(past) + 1
           K == Len(past') + 1
<1>1. /\ L \in Nat /\ K \in {L, L+1} /\ att' = History'[K] /\ History[L] = att
      /\ \A i \in 1..L : i # L => History'[i] = History[i]
      /\ past' = past => K = L
  <2>1. Len(past) \in Nat /\ History[L] = att
    BY SavedFacts
  <2>2. \A i \in 1..L : i # L => i \in 1..Len(past)
    BY <2>1
  <2> QED
    BY <2>1, <2>2, EvolvesHistory
<1>2. Candidate => past' = past
  BY DEF Evolves
<1> HIDE DEF K
<1> QED
  BY <1>1, <1>2 DEF Survives, Approved, Candidate

\* Nothing is approved or registered at first.
LEMMA InitBatch == ParInit => BatchInv
<1> SUFFICES ASSUME ParInit PROVE BatchInv
  OBVIOUS
<1>1. ParInv /\ DeliveryInv /\ Init
  BY InitPar, InitDelivery DEF ParInit
<1>2. /\ att = BeginAttempt(0, 0, 0) /\ past = <<>> /\ base = {} /\ pc = "off"
      /\ queue = <<>> /\ worker = [n \in Nodes |-> Idle]
  BY DEF ParInit, Init
<1>3. Len(past) = 0 /\ ~IsSettled(att)
  BY <1>2 DEF BeginAttempt, IsSettled
<1>4. pc \notin Batching /\ \A n \in Nodes : worker[n].stage = "idle"
  BY <1>2, IdleType DEF Batching
<1>5. History[1] = att
  BY <1>1, <1>3, SavedFacts DEF ParInv
<1>6. 1..Len(past)+1 = {1}
  BY <1>3
<1>7. Settles /\ Unique
  BY <1>3, <1>5, <1>6 DEF Settles, Unique
<1>8. Queued /\ Labors /\ Covered
  BY <1>2, <1>4 DEF Queued, Labors, Covered
<1>9. Verdicts /\ InBatch /\ Grounded
  BY <1>1, <1>4 DEF Verdicts, InBatch, DeliveryInv, Landed
<1> QED
  BY <1>1, <1>7, <1>8, <1>9 DEF BatchInv

\* Every step keeps the invariant, and what is approved.
LEMMA NextBatch == BatchInv /\ [ParNext]_parVars => BatchInv' /\ Survives
<1> SUFFICES ASSUME BatchInv, [ParNext]_parVars PROVE BatchInv' /\ Survives
  OBVIOUS
<1>a. ParInv /\ ParInv' /\ ParTypeOK /\ ParTypeOK'
  BY NextPar DEF BatchInv, ParInv
<1>b. Upholds => Survives
  BY DEF Upholds, Survives
<1>c. History' = History => Survives
  BY DEF Survives
<1>1. CASE BatchStart
  <2>1. \A i \in 1..Len(past)+1 : History'[i] = History[i]
    BY <1>1, <1>a, BatchStartKeeps DEF Begins
  <2> QED
    BY <1>1, <2>1, BeginsKeepsBatch DEF Survives
<1>2. ASSUME NEW n \in Nodes, WorkerStep(n) PROVE BatchInv' /\ Survives
  BY <1>2, <1>a, WorkerStepWorks, WorkKeepsBatch, WorkSurvives
<1>3. ASSUME NEW n \in Nodes, TakeResult(n) PROVE BatchInv' /\ Survives
  <2>1. History' = History
    BY <1>3, <1>a, TakeResultKeeps DEF Takes
  <2> QED
    BY <1>3, <1>c, <2>1, TakeKeepsBatch
<1>4. CASE DrainSkips \/ DrainHolds \/ DrainMerges \/ DrainRecords \/ DrainMergeFails \/ DrainEnds
  BY <1>4, <1>b, DrainKeepsBatch
<1>5. CASE BatchStep
  BY <1>5, <1>1, <1>2, <1>3, <1>4 DEF BatchStep
<1>6. CASE RunAlone
  BY <1>6, <1>a, RunAloneKeepsBatch, EvolvesSurvives
<1>7. ASSUME pc \in PCs, [Next]_vars, UNCHANGED batchDisk PROVE BatchInv' /\ Survives
  <2>1. UNCHANGED <<running, queue>>
    BY <1>7 DEF batchDisk
  <2> QED
    BY <1>7, <1>a, <2>1, SequentialKeepsBatch, EvolvesSurvives
<1>8. CASE (DispatchStep \/ PhaseStep \/ AutoRunRefused \/ Start \/ ImplWrite) /\ Alone
  <2>1. Next
    BY <1>8 DEF Next, RunnerStep, LoopStep
  <2> QED
    BY <1>8, <1>7, <2>1, SequentialAlone DEF Alone
\* In a batch, a kill, the operator and a step of others change nothing saved.
<1>9. ASSUME pc \notin PCs, UNCHANGED <<disk, batchDisk, base>>,
             \A m \in Nodes : worker'[m] \in {worker[m], Idle}, pc' = pc \/ pc' = "off"
      PROVE  BatchInv' /\ Survives
  <2>1. pc \in Batching
    BY <1>9, <1>a DEF ParTypeOK, Batching
  <2>2. History' = History
    BY <1>9 DEF disk, History
  <2> QED
    BY <1>9, <1>a, <1>c, <2>1, <2>2, RestKeepsBatch
<1>10. CASE ParCrash
  <2>1. Crash /\ pc' = "off" /\ UNCHANGED <<disk, world, batchDisk>>
        /\ worker' = [n \in Nodes |-> Idle]
    BY <1>10 DEF ParCrash, Crash, Goto
  <2> QED
    BY <1>7, <1>9, <2>1 DEF Next, world
<1>11. CASE ParOperatorCommits
  <2>1. OperatorCommits /\ pc' = pc /\ UNCHANGED <<disk, base, batchDisk, worker>>
    BY <1>11 DEF ParOperatorCommits, OperatorCommits, Alone
  <2> QED
    BY <1>7, <1>9, <2>1 DEF Next
<1>12. CASE UNCHANGED parVars
  <2>1. UNCHANGED vars /\ pc' = pc /\ UNCHANGED <<disk, base, batchDisk, worker>>
    BY <1>12 DEF parVars, vars, world
  <2> QED
    BY <1>7, <1>9, <2>1
<1>13. RunAloneRefused => AutoRunRefused /\ Alone
  BY DEF RunAloneRefused, Alone
<1> QED
  BY <1>5, <1>6, <1>8, <1>10, <1>11, <1>12, <1>13 DEF ParNext, ParRunnerStep

\* What the batches and the merge queue rely on is always so.
LEMMA BatchInvariant == ParSpec => []BatchInv
BY InitBatch, NextBatch, PTL DEF ParSpec

\* A thread never undoes the approval of a sibling with a stale copy of the
\* state, nor does a kill, a retry, a merge or a merge that fails: only the
\* repair of a merge conflict and a worker's timeout take one back, and only
\* that of the last attempt.
THEOREM ApprovalsAreKept == ParSpec => ApprovalsSurvive
<1>1. BatchInv /\ [ParNext]_parVars =>
          [\A i \in DOMAIN History : Approved(History[i]) =>
              \/ Approved(History'[i])
              \/ History'[i].phase = "merged"
              \/ i = Len(past) + 1 /\ (mem.repair = "merge_conflict" \/ TimingOut)]_parVars
  <2> SUFFICES ASSUME BatchInv, [ParNext]_parVars
               PROVE  \A i \in DOMAIN History : Approved(History[i]) =>
                          \/ Approved(History'[i])
                          \/ History'[i].phase = "merged"
                          \/ i = Len(past) + 1 /\ (mem.repair = "merge_conflict" \/ TimingOut)
    OBVIOUS
  <2>1. DOMAIN History = 1..Len(past)+1
    BY SavedFacts DEF BatchInv, ParInv
  <2> QED
    BY <2>1, NextBatch DEF Survives
<1> QED
  BY <1>1, BatchInvariant, PTL DEF ParSpec, ApprovalsSurvive

\* However batches, retries, replans and kills follow each other, a node has
\* one approved attempt at most.
THEOREM ApprovalsAreUnique == ParSpec => []OneApprovalPerNode
<1>1. BatchInv => OneApprovalPerNode
  <2> SUFFICES ASSUME BatchInv PROVE OneApprovalPerNode
    OBVIOUS
  <2>1. DOMAIN History = 1..Len(past)+1 /\ Unique
    BY SavedFacts DEF BatchInv, ParInv
  <2> QED
    BY <2>1 DEF OneApprovalPerNode, Unique, Counts, IsSettled
<1> QED
  BY <1>1, BatchInvariant, PTL

\* What is taken off the queue was approved on a successful implementer run,
\* on a base with all its node depends on.
THEOREM QueueIsApproved == ParSpec => []QueueMergesApproved
<1>1. BatchInv => QueueMergesApproved
  <2> SUFFICES ASSUME BatchInv, Draining, Found # 0
               PROVE  /\ Entry.decision = "approve" /\ Entry.exit = "ok"
                      /\ Entry.phase \in {"approved", "merged"}
                      /\ graph.deps[Entry.node] \subseteq Entry.base
    BY DEF QueueMergesApproved
  <2>1. IsSettled(Entry) /\ Sound(Entry)
    BY EntryFacts DEF Draining
  <2> QED
    BY <2>1 DEF IsSettled, Sound
<1> QED
  BY <1>1, BatchInvariant, PTL

\* The passed nodes are in the base branch, and what is in it has passed or
\* has an approved attempt whose merge is still to be recorded.
THEOREM BaseAgrees == ParSpec => []BaseMatchesGraph
<1>1. BatchInv => BaseMatchesGraph
  <2> SUFFICES ASSUME BatchInv PROVE BaseMatchesGraph
    OBVIOUS
  <2>1. /\ DOMAIN History = 1..Len(past)+1 /\ graph \in Graph /\ Grounded /\ Covered
    BY SavedFacts DEF BatchInv, ParInv
  <2> QED
    BY <2>1 DEF BaseMatchesGraph, Grounded, Covered, Graph
<1> QED
  BY <1>1, BatchInvariant, PTL

----------------------------------------------------------------------------
(* Batches implement Delivery.                                             *)

\* What ParPromise maps the candidates of Delivery to.
Approvals == {History[i].node : i \in {j \in 1..Len(past)+1 : Approved(History[j])}}

\* An approved attempt's node has not passed.  (Of the last one Grounded says so.)
Unpassed ==
    \A i \in 1..Len(past) : Approved(History[i]) => graph.status[History[i].node] # "passed"

\* What the queue holds that has passed or was skipped was queued by an earlier
\* batch: it comes before the last attempt of this one.
Older ==
    pc \in Batching =>
        \A k \in DOMAIN queue : graph.status[queue[k]] \in {"passed", "skipped"} =>
            /\ graph.status[att.node] # "passed"
            /\ \A j \in 1..k : queue[j] # att.node

PromiseInv == BatchInv /\ Unpassed /\ Older

\* An approved attempt is for a node of the graph that has not passed, and the
\* only approved one for it.
LEMMA ApprovedFacts ==
    ASSUME BatchInv, Unpassed, NEW i \in 1..Len(past)+1, Approved(History[i])
    PROVE  /\ History[i].node \in graph.nodes /\ History[i].node \in Nodes
           /\ graph.status[History[i].node] # "passed"
           /\ \A j \in 1..Len(past)+1 :
                Approved(History[j]) /\ History[j].node = History[i].node => j = i
<1> DEFINE L == Len(past) + 1
<1>1. /\ ParTypeOK /\ NodeChosen /\ Grounded /\ Settles /\ Unique /\ Verdicts /\ InBatch
  BY DEF BatchInv, ParInv
<1>2. /\ Len(past) \in Nat /\ History[L] = att /\ graph \in Graph /\ graph.nodes \subseteq Nodes
      /\ 0 \notin Nodes
  <2>1. Len(past) \in Nat /\ History[L] = att /\ graph \in Graph
    BY <1>1, SavedFacts
  <2> QED
    BY <2>1 DEF Graph, Nodes
<1>3. \A j \in 1..L : Approved(History[j]) => Counts(j)
  BY DEF Approved, Counts, IsSettled
<1>4. \A j \in 1..L : Approved(History[j]) /\ History[j].node = History[i].node => j = i
  BY <1>1, <1>3 DEF Unique
<1>5. CASE i # L
  <2>1. i \in 1..Len(past)
    BY <1>2, <1>5
  <2>2. Sound(History[i])
    BY <1>1, <1>5 DEF Settles, Approved, IsSettled
  <2> QED
    BY <1>2, <1>4, <2>1, <2>2 DEF Unpassed, Sound
<1>6. CASE i = L
  <2>1. Approved(att) /\ History[i] = att
    BY <1>2, <1>6
  <2>2. att.iter # 0
    BY <1>1, <2>1 DEF Verdicts, InBatch, Approval, Overtaken, Blank, Approved
  <2>3. att.node \in graph.nodes
    BY <1>1, <2>1, <2>2 DEF NodeChosen, Approved, Blank
  <2>4. graph.status[att.node] # "passed"
    BY <1>1, <1>2, <2>1, <2>3 DEF Grounded, Approved
  <2> QED
    BY <1>2, <1>4, <2>1, <2>3, <2>4
<1> QED
  BY <1>5, <1>6

\* The candidates of ParPromise, before and after a step.
LEMMA ApprovalsAre ==
    ASSUME ParTypeOK, ParTypeOK'
    PROVE  /\ {History[i].node : i \in {j \in DOMAIN History : Approved(History[j])}} = Approvals
           /\ {History'[i].node : i \in {j \in DOMAIN History' : Approved(History'[j])}} = Approvals'
<1>1. DOMAIN History = 1..Len(past)+1
  BY SavedFacts
<1>2. DOMAIN History' = 1..Len(past')+1
  BY DEF ParTypeOK, History
<1> QED
  BY <1>1, <1>2 DEF Approvals, Approved

\* A step that changes nothing of it is a stutter.
LEMMA IsStutter ==
    ASSUME ParTypeOK, ParTypeOK',
           Required' = Required, graph'.deps = graph.deps, base' = base, Approvals' = Approvals,
           status' = "done" <=> status = "done"
    PROVE  UNCHANGED ParPromise!vars
<1>1. (status = "done")' = (status = "done")
  OBVIOUS
<1> QED
  BY <1>1, ApprovalsAre DEF ParPromise!vars, Required, Approved

\* A new approval.
LEMMA IsApprove ==
    ASSUME ParTypeOK, ParTypeOK', NEW n \in Nodes,
           Required' = Required, graph'.deps = graph.deps, base' = base,
           n \in Required, n \notin base, graph.deps[n] \subseteq base,
           Approvals' = Approvals \cup {n}, status # "done", status' # "done"
    PROVE  ParPromise!Next
<1>1. ParPromise!Approve(n)
  BY ApprovalsAre DEF ParPromise!Approve, Required, Approved
<1> QED
  BY <1>1 DEF ParPromise!Next, ParPromise!Step

\* An approval taken back.
LEMMA IsWithdraw ==
    ASSUME ParTypeOK, ParTypeOK', NEW n \in Nodes,
           Required' = Required, graph'.deps = graph.deps, base' = base,
           n \in Approvals, n \notin base,
           Approvals' = Approvals \ {n}, status' = "done" <=> status = "done"
    PROVE  ParPromise!Next
<1>0. (status = "done")' = (status = "done")
  OBVIOUS
<1>1. ParPromise!Withdraw(n)
  BY <1>0, ApprovalsAre DEF ParPromise!Withdraw, Required, Approved
<1> QED
  BY <1>1 DEF ParPromise!Next, ParPromise!Step

\* A merge.
LEMMA IsLand ==
    ASSUME ParTypeOK, ParTypeOK', NEW n \in Nodes,
           Required' = Required, graph'.deps = graph.deps, base' = base \cup {n},
           n \in Approvals, Approvals' = Approvals, status' = status
    PROVE  ParPromise!Next
<1>1. ParPromise!Land(n)
  BY ApprovalsAre DEF ParPromise!Land, Required, Approved
<1> QED
  BY <1>1 DEF ParPromise!Next, ParPromise!Step

\* The record of a merge.
LEMMA IsRecord ==
    ASSUME ParTypeOK, ParTypeOK', NEW n \in Nodes,
           Required' = Required \cup {n}, graph'.deps = graph.deps, base' = base,
           n \in Approvals, n \in base, Approvals' = Approvals \ {n},
           status' = "done" <=> Required' \subseteq base \ Approvals'
    PROVE  ParPromise!Next
<1>1. (status' = "done") = (Required' \subseteq base \ Approvals')
  OBVIOUS
<1>2. ParPromise!Record(n)
  BY <1>1, ApprovalsAre DEF ParPromise!Record, Required, Approved
<1> QED
  BY <1>2 DEF ParPromise!Next, ParPromise!Step

\* A plan, the first one or another.
LEMMA IsPlan ==
    ASSUME ParTypeOK, ParTypeOK', status # "done", status' # "done",
           base' = base, Approvals' = Approvals, base \ Approvals \subseteq Required',
           Required' \subseteq Nodes, graph'.deps \in [Nodes -> SUBSET Nodes],
           \A n \in base \ Approvals : graph'.deps[n] = graph.deps[n],
           \A n \in Approvals : graph'.deps[n] \subseteq graph.deps[n]
    PROVE  ParPromise!Next
<1>1. ParPromise!Plan
  BY ApprovalsAre DEF ParPromise!Plan, Required, Approved
<1> QED
  BY <1>1 DEF ParPromise!Next

----------------------------------------------------------------------------
(* The steps of a batch: only a verdict and a timeout are seen in Delivery.*)

\* A step of Delivery, or a stutter.
Delivers == ParPromise!Next \/ UNCHANGED ParPromise!vars

\* A step that saves nothing.
LEMMA RestDelivers ==
    ASSUME PromiseInv, ParInv', UNCHANGED <<disk, base, queue>>,
           pc' = pc \/ pc' \notin Batching
    PROVE  Unpassed' /\ Older' /\ Delivers
<1>1. /\ UNCHANGED <<status, graph, past, att, base, queue>> /\ History' = History
      /\ ParTypeOK /\ ParTypeOK'
  BY DEF disk, History, PromiseInv, BatchInv, ParInv
<1>2. Required' = Required /\ Approvals' = Approvals
  BY <1>1 DEF Required, Approvals
<1>3. Delivers
  BY <1>1, <1>2, IsStutter DEF Delivers
<1>4. Unpassed' /\ Older'
  BY <1>1 DEF PromiseInv, Unpassed, Older
<1> QED
  BY <1>3, <1>4

\* The result of a thread.
LEMMA TakeDelivers ==
    ASSUME PromiseInv, NEW n \in Nodes, TakeResult(n)
    PROVE  Unpassed' /\ Older' /\ Delivers
<1>1. /\ ParInv /\ ParInv' /\ ParTypeOK /\ ParTypeOK' /\ Labors /\ InBatch /\ Grounded /\ NodeChosen
      /\ Unpassed /\ Older
  BY TakeResultKeeps DEF PromiseInv, BatchInv, ParInv
<1>2. /\ pc = "batch" /\ worker[n].stage \in Results /\ pc' \in {"batch", "drain"}
      /\ History' = History /\ Len(past') = Len(past) /\ att' = att
      /\ status' = status /\ base' = base
      /\ graph'.nodes = graph.nodes /\ graph'.deps = graph.deps
      /\ \A m \in Nodes : \/ graph'.status[m] = graph.status[m]
                          \/ m = n /\ worker[n].stage = "raised" /\ graph'.status[m] = "failed"
      /\ \/ queue' = queue
         \/ worker[n].stage = "approved" /\ queue' = Append(queue, n)
  BY <1>1, TakeResultKeeps DEF Takes
<1>3. /\ graph \in Graph /\ graph.nodes \subseteq Nodes /\ queue \in Seq(Nodes)
      /\ Len(past) \in Nat
  BY <1>1, SavedFacts DEF Graph
<1>4. graph.status[n] \notin {"passed", "skipped"}
  <2>1. worker[n].stage # "idle"
    BY <1>2 DEF Results
  <2> QED
    BY <1>1, <2>1 DEF Labors
<1>5. \A m \in Nodes : /\ graph'.status[m] = "passed" <=> graph.status[m] = "passed"
                       /\ graph'.status[m] = "skipped" <=> graph.status[m] = "skipped"
  BY <1>2, <1>4
<1>6. att.node \in Nodes /\ graph.status[att.node] # "passed"
  <2>1. att.iter # 0 /\ pc \in Batching
    BY <1>1, <1>2 DEF InBatch, Batching
  <2>2. att.node # 0 /\ att.node \in Nodes
    BY <1>1, <1>2, <1>3 DEF NodeChosen
  <2>3. att.phase # "merged"
    BY <1>1, <1>2, <2>1 DEF InBatch
  <2> QED
    BY <1>1, <2>2, <2>3 DEF Grounded
<1>7. Required' = Required /\ Approvals' = Approvals
  BY <1>2, <1>3, <1>5 DEF Required, Approvals
<1>8. Delivers
  BY <1>1, <1>2, <1>7, IsStutter DEF Delivers
<1>9. Unpassed'
  <2>1. \A i \in 1..Len(past) : Approved(History[i]) => History[i].node \in Nodes
    BY <1>1, <1>3, ApprovedFacts DEF PromiseInv
  <2> QED
    BY <1>1, <1>2, <1>5, <2>1 DEF Unpassed
<1>10. Older'
  <2>1. /\ pc \in Batching /\ pc' \in Batching
    BY <1>2 DEF Batching
  <2>2. \A k \in DOMAIN queue : graph.status[queue[k]] \in {"passed", "skipped"} =>
            \A j \in 1..k : queue[j] # att.node
    BY <1>1, <2>1 DEF Older
  <2>3. graph'.status[att.node] # "passed"
    BY <1>5, <1>6
  <2>4. ASSUME NEW k \in DOMAIN queue', graph'.status[queue'[k]] \in {"passed", "skipped"}
        PROVE  k \in DOMAIN queue /\ \A j \in 1..k : queue'[j] = queue[j]
    <3>1. CASE queue' = queue
      BY <1>3, <2>4, <3>1
    <3>2. CASE queue' = Append(queue, n)
      BY <1>3, <1>4, <1>5, <2>4, <3>2
    <3> QED
      BY <1>2, <3>1, <3>2
  <2>5. ASSUME NEW k \in DOMAIN queue', graph'.status[queue'[k]] \in {"passed", "skipped"}
        PROVE  \A j \in 1..k : queue'[j] # att'.node
    <3>1. /\ k \in DOMAIN queue /\ \A j \in 1..k : queue'[j] = queue[j]
      BY <2>4, <2>5
    <3>2. k \in 1..k /\ queue[k] \in Nodes
      BY <1>3, <3>1
    <3>3. graph.status[queue[k]] \in {"passed", "skipped"}
      BY <1>5, <2>5, <3>1, <3>2
    <3> QED
      BY <1>2, <2>2, <3>1, <3>3
  <2> QED
    BY <1>2, <2>1, <2>3, <2>5 DEF Older
<1> QED
  BY <1>8, <1>9, <1>10

\* The start of a batch.
LEMMA BeginsDelivers ==
    ASSUME PromiseInv, BatchStart
    PROVE  Unpassed' /\ Older' /\ Delivers
<1> DEFINE L == Len(past) + 1
           K == Len(past') + 1
<1>1. /\ ParInv /\ ParInv' /\ ParTypeOK /\ ParTypeOK' /\ Grounded /\ NodeChosen /\ Queued
      /\ Unpassed /\ Begins /\ Dispatch("run") /\ BatchInv
  BY BatchStartKeeps DEF PromiseInv, BatchInv, ParInv, BatchStart
<1>2. /\ pc = "loop"
      /\ att.iter = 0 => att.node = 0
      /\ att.iter # 0 => att.phase = "merged"
      /\ DiscoveredGraph.nodes = graph.nodes /\ DiscoveredGraph.deps = graph.deps
      /\ \A m \in Nodes :
           \/ DiscoveredGraph.status[m] = graph.status[m]
           \/ graph.status[m] = "pending" /\ DiscoveredGraph.status[m] = "blocked"
  BY <1>1, RunKeeps
<1>3. /\ K \in Nat /\ K > L /\ pc' = "batch" /\ att' = History'[K]
      /\ \A i \in 1..L : History'[i] = History[i]
      /\ \A i \in 1..K : i > L => /\ History'[i].node \in Discovered
                                  /\ History'[i].phase = "planning"
      /\ status' = status /\ graph' = DiscoveredGraph /\ queue' = queue /\ base' = base
  BY <1>1 DEF Begins
<1>4. /\ L \in Nat /\ Len(past) \in Nat /\ Len(past') \in Nat /\ graph \in Graph
      /\ graph.nodes \subseteq Nodes /\ History[L] = att
  <2>1. Len(past) \in Nat /\ graph \in Graph /\ History[L] = att /\ Len(past') \in Nat
    BY <1>1, SavedFacts DEF ParTypeOK
  <2> QED
    BY <2>1 DEF Graph
<1>5. \A m \in Nodes : /\ graph'.status[m] = "passed" <=> graph.status[m] = "passed"
                       /\ graph'.status[m] = "skipped" <=> graph.status[m] = "skipped"
  BY <1>2, <1>3
<1>6. /\ att'.node \in Nodes /\ graph.status[att'.node] \in {"pending", "rejected"}
      /\ att'.node \notin {queue[k] : k \in DOMAIN queue}
  <2>0. K \in 1..K
    BY <1>3, <1>4
  <2>1. att'.node \in Discovered
    BY <1>3, <2>0
  <2>2. att'.node \in Nodes /\ graph.status[att'.node] \in {"pending", "rejected"}
    BY <1>4, <2>1, NextRunnableNodesReady DEF Discovered
  <2>3. att'.node # att.node
    <3>1. att.node # 0 => graph.status[att.node] = "passed"
      BY <1>1, <1>2 DEF Grounded
    <3> QED
      BY <2>2, <3>1 DEF Nodes
  <2> QED
    BY <1>1, <2>2, <2>3 DEF Queued, Taken
<1>7. Required' = Required
  BY <1>2, <1>3, <1>4, <1>5 DEF Required
<1>8. Approvals' = Approvals
  <2>1. \A i \in 1..K : Approved(History'[i]) => i \in 1..L
    BY <1>3, <1>4 DEF Approved
  <2>2. 1..L \subseteq 1..K
    BY <1>3, <1>4
  <2> QED
    BY <1>3, <2>1, <2>2 DEF Approvals, Approved
<1>9. Delivers
  BY <1>1, <1>2, <1>3, <1>7, <1>8, IsStutter DEF Delivers
<1>10. Unpassed'
  <2>1. \A i \in 1..L : Approved(History[i]) =>
            History[i].node \in Nodes /\ graph.status[History[i].node] # "passed"
    BY <1>1, ApprovedFacts
  <2>2. \A i \in 1..Len(past') : i \in 1..K /\ (i \in 1..L \/ i > L)
    BY <1>4
  <2> QED
    BY <1>3, <1>5, <2>1, <2>2 DEF Unpassed, Approved
<1>11. Older'
  <2>1. graph'.status[att'.node] # "passed"
    BY <1>5, <1>6
  <2>2. queue \in Seq(Nodes)
    BY <1>1, SavedFacts
  <2>3. \A k \in DOMAIN queue : \A j \in 1..k : queue[j] # att'.node
    BY <1>6, <2>2
  <2> QED
    BY <1>3, <2>1, <2>3 DEF Older
<1> QED
  BY <1>9, <1>10, <1>11

\* A thread's step: it may approve the attempt, and a timeout may take back the
\* approval of the last one.
LEMMA WorkDelivers ==
    ASSUME PromiseInv, ParInv', NEW n \in Nodes, NEW s, Works(n, s), Turns(n, s)
    PROVE  Unpassed' /\ Older' /\ Delivers
<1> DEFINE L == Len(past) + 1
           r == running[n]
           a == History[r]
           b == History'[r]
           to == worker'[n].stage
<1>1. /\ pc = "batch" /\ pc' = "batch" /\ worker[n].stage # "idle" /\ base' = base
      /\ Tidy(s) /\ s.running = running /\ s.queue = queue /\ Save(s)
  BY DEF Works
<1>2. /\ BatchInv /\ ParInv /\ Grounded /\ InBatch /\ Unique /\ Labors /\ Covered
      /\ ParTypeOK /\ Registered /\ NodeChosen /\ ParTypeOK' /\ Unpassed /\ Older
  BY DEF PromiseInv, BatchInv, ParInv
<1>3. /\ History \in Seq(Attempt) /\ Len(past) \in Nat /\ History[L] = att
      /\ \A i \in 1..L : History[i] \in Attempt
      /\ graph \in Graph /\ graph.nodes \subseteq Nodes /\ queue \in Seq(Nodes)
      /\ DOMAIN graph.status = Nodes
  <2>1. /\ History \in Seq(Attempt) /\ Len(past) \in Nat /\ History[L] = att
        /\ \A i \in 1..L : History[i] \in Attempt
        /\ graph \in Graph /\ queue \in Seq(Nodes)
    BY <1>2, SavedFacts
  <2> QED
    BY <2>1 DEF Graph
<1>4. /\ Len(past') = Len(past) /\ \A i \in 1..L : History'[i].node = History[i].node
      /\ status' = s.status /\ graph' = s.graph /\ queue' = queue
  BY <1>1, <1>2, TidySave DEF Batching
<1>5. History' = s.history /\ att' = History'[L] /\ graph'.nodes = graph.nodes
  <2>1. s \in Copies /\ s.history # <<>> /\ Len(s.history) = L /\ s.graph.nodes = graph.nodes
    BY <1>1, <1>3 DEF Tidy
  <2>2. History' = s.history /\ att' = s.history[Len(s.history)]
    BY <1>1, <2>1, SaveStores
  <2> QED
    BY <1>4, <2>1, <2>2
<1>6. r \in 1..L /\ a.node = n
  BY <1>1, <1>2, <1>3 DEF Registered
<1>7. /\ graph.status[att.node] \notin {"passed", "skipped"} /\ att.node \in Nodes
      /\ status # "done" /\ att.node \notin base
  <2>1. pc \in Batching /\ att.iter # 0
    BY <1>1, <1>2 DEF Batching, InBatch
  <2>2. att.node # 0 /\ att.node \in Nodes
    BY <1>1, <1>2, <1>3, <2>1 DEF NodeChosen, Nodes
  <2> QED
    BY <1>1, <1>2, <2>1, <2>2 DEF InBatch, Grounded
<1>8. /\ n \in graph.nodes /\ graph.status[n] \notin {"passed", "skipped"}
      /\ graph.deps[n] \subseteq base
      /\ worker[n].stage \in Working \cup {"todo"} => ~IsSettled(a)
  BY <1>1, <1>2 DEF Labors
<1>9. /\ \A i \in 1..L : i # r =>
            \/ History'[i] = History[i]
            \/ /\ i = L /\ worker[n].stage = "implTimedOut"
               /\ History'[i] = [History[i] EXCEPT !.phase = "failed"]
      /\ \/ to # "approved" /\ ~Approved(b)
         \/ to = "approved" /\ worker[n].stage = "reviewRun" /\ Approved(b)
      /\ worker[n].stage \in Working \cup {"todo"}
      /\ graph'.deps = graph.deps
      /\ \A m \in Nodes :
            \/ graph'.status[m] = graph.status[m]
            \/ m \in {n, att.node} /\ graph'.status[m] \in {"running", "failed"}
      /\ status' \in {status, "running", "failed"}
  <2>1. ~IsSettled(a)
    BY <1>8 DEF Turns
  <2>2. \/ to # "approved" /\ ~Approved(b)
        \/ to = "approved" /\ worker[n].stage = "reviewRun" /\ Approved(b)
    <3>1. \/ to \in Working \cup {"raised"} /\ (IsSettled(b) => IsSettled(a))
          \/ /\ to = "approved" /\ worker[n].stage = "reviewRun"
             /\ b.decision = "approve" /\ b.phase = "approved"
          \/ to = "ended" /\ b.phase = "rejected"
      BY <1>5 DEF Turns
    <3> QED
      BY <2>1, <3>1 DEF Working, Approved, IsSettled
  <2> QED
    BY <1>4, <1>5, <2>2 DEF Turns
<1> HIDE DEF L, r, a, b, to
<1>10. \A m \in Nodes : /\ graph'.status[m] = "passed" <=> graph.status[m] = "passed"
                        /\ graph'.status[m] = "skipped" <=> graph.status[m] = "skipped"
  BY <1>7, <1>8, <1>9
<1>11. Required' = Required /\ status' # "done"
  BY <1>3, <1>5, <1>7, <1>9, <1>10 DEF Required
<1>12. ~Approved(a)
  BY <1>8, <1>9 DEF Approved, IsSettled
<1>13. Approvals = {History[i].node : i \in {j \in 1..L : Approved(History[j])}}
       /\ Approvals' = {History[i].node : i \in {j \in 1..L : Approved(History'[j])}}
  <2>1. Approvals' = {History'[i].node : i \in {j \in 1..L : Approved(History'[j])}}
    BY <1>4 DEF Approvals, L, Approved
  <2> QED
    BY <1>4, <2>1 DEF Approvals, L
<1>14. Delivers
  <2>1. CASE to = "approved"
    <3>1. \A i \in 1..L : i # r => (Approved(History'[i]) <=> Approved(History[i]))
      BY <1>9, <2>1
    <3>2. Approved(History'[r])
      BY <1>9, <2>1 DEF b
    <3>3. Approvals' = Approvals \cup {n}
      <4>1. \A i \in 1..L : Approved(History'[i]) <=> Approved(History[i]) \/ i = r
        BY <3>1, <3>2
      <4>2. History[r].node = n
        BY <1>6 DEF a
      <4> QED
        BY <1>6, <1>13, <4>1, <4>2
    <3>4. n \notin base
      <4> SUFFICES ASSUME n \in base PROVE FALSE
        OBVIOUS
      <4>1. PICK i \in 1..L : History[i].node = n /\ Approved(History[i])
        BY <1>2, <1>8 DEF Covered, L
      <4>2. Counts(i) /\ Counts(r)
        BY <1>1, <4>1 DEF Counts, Approved, IsSettled, r
      <4>3. i = r
        BY <1>2, <1>6, <4>1, <4>2 DEF Unique, L, a
      <4> QED
        BY <1>12, <4>1, <4>3 DEF a
    <3>5. n \in Required
      BY <1>8 DEF Required
    <3> QED
      BY <1>1, <1>2, <1>7, <1>8, <1>9, <1>11, <3>3, <3>4, <3>5, IsApprove DEF Delivers
  <2>2. CASE to # "approved" /\ \A i \in 1..L : i # r => History'[i] = History[i]
    <3>1. \A i \in 1..L : Approved(History'[i]) <=> Approved(History[i])
      BY <1>9, <1>12, <2>2 DEF a, b
    <3>2. Approvals' = Approvals
      BY <1>13, <3>1
    <3> QED
      BY <1>1, <1>2, <1>7, <1>9, <1>11, <3>2, IsStutter DEF Delivers
  <2>3. CASE /\ to # "approved" /\ L # r
             /\ History'[L] = [History[L] EXCEPT !.phase = "failed"]
    <3>1. /\ \A i \in 1..L : i # L => (Approved(History'[i]) <=> Approved(History[i]))
          /\ ~Approved(History'[L])
      <4>1. L \in 1..L /\ History[L] \in Attempt
        BY <1>3 DEF L
      <4>2. ~Approved(History'[L])
        BY <2>3, <4>1 DEF Approved, Attempt
      <4> QED
        BY <1>9, <1>12, <2>3, <4>2 DEF a, b
    <3>2. CASE ~Approved(att)
      <4>1. \A i \in 1..L : Approved(History'[i]) <=> Approved(History[i])
        BY <1>3, <3>1, <3>2
      <4>2. Approvals' = Approvals
        BY <1>13, <4>1
      <4> QED
        BY <1>1, <1>2, <1>7, <1>9, <1>11, <4>2, IsStutter DEF Delivers
    <3>3. CASE Approved(att)
      <4>1. L \in 1..L /\ Approved(History[L]) /\ History[L].node = att.node
        BY <1>3, <3>3 DEF L
      <4>2. \A j \in 1..L : Approved(History[j]) /\ History[j].node = att.node => j = L
        BY <1>2, <4>1, ApprovedFacts DEF L
      <4>3. att.node \in Approvals
        BY <1>13, <4>1
      <4>4. Approvals' = Approvals \ {att.node}
        BY <1>13, <3>1, <4>1, <4>2
      <4> QED
        BY <1>1, <1>2, <1>7, <1>9, <1>11, <4>3, <4>4, IsWithdraw DEF Delivers
    <3> QED
      BY <3>2, <3>3
  <2> QED
    BY <1>9, <2>1, <2>2, <2>3
<1>15. Unpassed'
  <2>1. \A i \in 1..L : History'[i].node \in Nodes =>
            (graph'.status[History'[i].node] = "passed" <=> graph.status[History[i].node] = "passed")
    BY <1>4, <1>10 DEF L
  <2>2. \A i \in 1..L : Approved(History[i]) =>
            History[i].node \in Nodes /\ graph.status[History[i].node] # "passed"
    BY <1>2, ApprovedFacts DEF L
  <2>3. \A i \in 1..L : Approved(History'[i]) => i = r \/ Approved(History[i])
    <3> SUFFICES ASSUME NEW i \in 1..L, Approved(History'[i]), i # r PROVE Approved(History[i])
      OBVIOUS
    <3>1. History'[i] = History[i] \/ History'[i] = [History[i] EXCEPT !.phase = "failed"]
      BY <1>9
    <3>2. History[i] \in Attempt /\ History'[i].phase = "approved"
      BY <1>3 DEF Approved
    <3>3. History'[i] # [History[i] EXCEPT !.phase = "failed"]
      BY <3>2 DEF Attempt
    <3> QED
      BY <3>1, <3>3
  <2>4. History'[r].node = n /\ n \in Nodes /\ graph.status[n] # "passed"
    BY <1>4, <1>6, <1>8 DEF a, L
  <2>5. \A i \in 1..L : Approved(History'[i]) => graph'.status[History'[i].node] # "passed"
    BY <1>4, <1>10, <2>2, <2>3, <2>4 DEF L
  <2>6. 1..Len(past') \subseteq 1..L
    BY <1>3, <1>4 DEF L
  <2> QED
    BY <2>5, <2>6 DEF Unpassed, Approved
<1>16. Older'
  <2>1. att'.node = att.node
    <3>1. L \in 1..L
      BY <1>3 DEF L
    <3> QED
      BY <1>3, <1>4, <1>5, <3>1 DEF L
  <2>2. \A k \in DOMAIN queue : queue[k] \in Nodes
    BY <1>3
  <2>3. pc \in Batching
    BY <1>1 DEF Batching
  <2> QED
    BY <1>2, <1>4, <1>7, <1>10, <2>1, <2>2, <2>3 DEF Older
<1> QED
  BY <1>14, <1>15, <1>16

----------------------------------------------------------------------------
(* The merge queue lands and records candidates.                           *)

\* When the task is done the queue is empty: what it holds had to be skipped
\* before the last attempt, which has passed.
LEMMA QueueIsEmpty ==
    ASSUME PromiseInv, pc \in {"drain", "drainMerged"}, status = "done"
    PROVE  queue = <<>>
<1>1. /\ ParTypeOK /\ NodeChosen /\ Grounded /\ InBatch /\ Queued /\ Older /\ pc \in Batching
  BY DEF PromiseInv, BatchInv, ParInv, Batching
<1>2. queue \in Seq(Nodes) /\ graph \in Graph
  BY <1>1, SavedFacts
<1>3. att.phase = "merged" /\ att.node # 0 /\ GraphComplete(graph)
  BY <1>1 DEF InBatch, NodeChosen, Blank, Grounded
<1>4. graph.status[att.node] = "passed"
  BY <1>1, <1>3 DEF Grounded
<1>5. \A k \in DOMAIN queue : graph.status[queue[k]] \in {"passed", "skipped"}
  BY <1>1, <1>3 DEF Queued, GraphComplete
<1>6. DOMAIN queue = {}
  BY <1>1, <1>4, <1>5 DEF Older
<1> QED
  BY <1>2, <1>6

\* Taking the first entry off the queue, whose node may have passed by it.
LEMMA OlderTail ==
    ASSUME PromiseInv, pc \in Batching, queue # <<>>, queue' = Tail(queue),
           att'.node = att.node,
           \A m \in Nodes : m # Head(queue) => graph'.status[m] = graph.status[m]
    PROVE  Older'
<1>1. ParTypeOK /\ NodeChosen /\ InBatch /\ Queued /\ Older
  BY DEF PromiseInv, BatchInv, ParInv
<1>2. queue \in Seq(Nodes) /\ graph \in Graph
  BY <1>1, SavedFacts
<1>3. /\ Len(queue) \in Nat /\ DOMAIN queue = 1..Len(queue)
      /\ DOMAIN queue' = 1..Len(queue) - 1
      /\ \A k \in 1..Len(queue) - 1 : queue'[k] = queue[k+1]
      /\ 1 \in DOMAIN queue /\ Head(queue) = queue[1]
  <2>1. /\ Len(queue) \in Nat /\ DOMAIN queue = 1..Len(queue)
        /\ Tail(queue) \in Seq(Nodes) /\ Len(Tail(queue)) = Len(queue) - 1
        /\ \A k \in 1..Len(Tail(queue)) : Tail(queue)[k] = queue[k+1]
        /\ Head(queue) = queue[1] /\ Len(queue) > 0
    BY <1>2
  <2>2. DOMAIN Tail(queue) = 1..Len(Tail(queue))
    BY <2>1
  <2> QED
    BY <2>1, <2>2
<1>4. att.node \in Nodes
  <2>1. att.node # 0
    BY <1>1 DEF InBatch, NodeChosen, Blank, Batching
  <2> QED
    BY <1>1, <1>2, <2>1 DEF NodeChosen, Graph
<1> SUFFICES ASSUME NEW k \in DOMAIN queue', graph'.status[queue'[k]] \in {"passed", "skipped"}
             PROVE  /\ graph'.status[att.node] # "passed"
                    /\ \A j \in 1..k : queue'[j] # att.node
  BY DEF Older
<1>5. k \in Nat /\ k+1 \in DOMAIN queue /\ k+1 # 1 /\ queue'[k] = queue[k+1]
  BY <1>3
<1>6. queue[k+1] # Head(queue) /\ queue[k+1] \in Nodes
  BY <1>1, <1>2, <1>3, <1>5 DEF Queued
<1>7. graph.status[queue[k+1]] \in {"passed", "skipped"}
  BY <1>5, <1>6
<1>8. graph.status[att.node] # "passed" /\ \A j \in 1..k+1 : queue[j] # att.node
  BY <1>1, <1>5, <1>7 DEF Older
<1>9. att.node # Head(queue)
  <2>1. 1 \in 1..k+1
    BY <1>5
  <2> QED
    BY <1>3, <1>8, <2>1
<1>10. \A j \in 1..k : j \in 1..Len(queue) - 1 /\ j+1 \in 1..k+1
  BY <1>3, <1>5
<1> QED
  BY <1>3, <1>4, <1>8, <1>9, <1>10

\* An entry is taken off the queue and is what it was: not merged, or merged
\* before.
LEMMA LeftDelivers ==
    ASSUME PromiseInv, ParInv', pc \in {"drain", "drainMerged"}, pending > 0, Found # 0,
           NEW a, a.node = Entry.node,
           Approved(a) <=> Approved(Entry),
           NEW g, g.nodes = graph.nodes, g.deps = graph.deps,
           \A m \in Nodes : g.status[m] = graph.status[m],
           Stores(a, g, "stopped"), base' = base
    PROVE  Unpassed' /\ Older' /\ Delivers
<1> DEFINE L == Len(past) + 1
<1>1. /\ BatchInv /\ ParTypeOK /\ ParTypeOK' /\ Unpassed /\ pc \in Batching
  BY DEF PromiseInv, BatchInv, ParInv, Batching
<1>2. /\ Len(past) \in Nat /\ History[L] = att /\ graph.nodes \subseteq Nodes /\ L \in 1..L
  <2>1. Len(past) \in Nat /\ History[L] = att /\ graph \in Graph
    BY <1>1, SavedFacts
  <2> QED
    BY <2>1 DEF Graph
<1>3. Found \in 1..L /\ Entry = History[Found] /\ queue # <<>> /\ Entry.node = Head(queue)
  BY <1>1, EntryFacts
<1>4. /\ Len(past') = Len(past) /\ att' = History'[L]
      /\ \A i \in 1..L : History'[i] = IF i = Found THEN a ELSE History[i]
      /\ status' = "stopped" /\ graph' = g /\ queue' = Tail(queue) /\ pc' = "drain"
  BY DEF Stores
<1> HIDE DEF L
<1>5. \A i \in 1..L : /\ History'[i].node = History[i].node
                      /\ Approved(History'[i]) <=> Approved(History[i])
  BY <1>3, <1>4
<1>6. att'.node = att.node
  BY <1>2, <1>4, <1>5
<1>7. Required' = Required
  BY <1>2, <1>4 DEF Required
<1>8. Approvals' = Approvals
  <2>1. Approvals' = {History'[i].node : i \in {j \in 1..L : Approved(History'[j])}}
    BY <1>4 DEF Approvals, L, Approved
  <2>2. Approvals = {History[i].node : i \in {j \in 1..L : Approved(History[j])}}
    BY DEF Approvals, L
  <2> QED
    BY <1>5, <2>1, <2>2
<1>9. status # "done"
  BY <1>3, QueueIsEmpty
<1>10. Delivers
  BY <1>1, <1>4, <1>7, <1>8, <1>9, IsStutter DEF Delivers
<1>11. Older'
  BY <1>1, <1>3, <1>4, <1>6, OlderTail
<1>12. Unpassed'
  <2>1. \A i \in 1..L : Approved(History[i]) =>
            History[i].node \in Nodes /\ graph.status[History[i].node] # "passed"
    BY <1>1, ApprovedFacts DEF L
  <2>2. 1..Len(past') \subseteq 1..L
    BY <1>2, <1>4 DEF L
  <2>3. \A i \in 1..L : Approved(History'[i]) => g.status[History'[i].node] # "passed"
    BY <1>5, <2>1
  <2> QED
    BY <1>4, <2>2, <2>3 DEF Unpassed, Approved
<1> QED
  BY <1>10, <1>11, <1>12

\* An entry is merged, and its merge recorded.
LEMMA RecordDelivers ==
    ASSUME PromiseInv, BatchInv', pc = "drainMerged", pending > 0, Found # 0,
           Approved(Entry),
           NEW a, a.node = Entry.node, a.phase = "merged",
           NEW g, g.nodes = graph.nodes, g.deps = graph.deps,
           \A m \in Nodes : g.status[m] = IF m = Entry.node THEN "passed" ELSE graph.status[m],
           NEW st, st = "done" <=> GraphComplete(g),
           Stores(a, g, st), base' = base
    PROVE  Unpassed' /\ Older' /\ Delivers
<1> DEFINE L == Len(past) + 1
           n == Entry.node
<1>1. /\ BatchInv /\ ParTypeOK /\ ParTypeOK' /\ Unpassed /\ pc \in Batching /\ InBatch
      /\ Grounded' /\ Covered'
  BY DEF PromiseInv, BatchInv, ParInv, Batching
<1>2. /\ Len(past) \in Nat /\ History[L] = att /\ graph.nodes \subseteq Nodes /\ L \in 1..L
  <2>1. Len(past) \in Nat /\ History[L] = att /\ graph \in Graph
    BY <1>1, SavedFacts
  <2> QED
    BY <2>1 DEF Graph
<1>3. /\ Found \in 1..L /\ Entry = History[Found] /\ queue # <<>> /\ n = Head(queue)
      /\ n \in Nodes /\ n \in graph.nodes
  <2>1. /\ Found \in 1..L /\ Entry = History[Found] /\ queue # <<>> /\ n = Head(queue)
        /\ n \in Nodes /\ Sound(Entry)
    BY <1>1, EntryFacts
  <2> QED
    BY <2>1 DEF Sound
<1>4. /\ Len(past') = Len(past) /\ att' = History'[L]
      /\ \A i \in 1..L : History'[i] = IF i = Found THEN a ELSE History[i]
      /\ status' = st /\ graph' = g /\ queue' = Tail(queue) /\ pc' = "drain"
  BY DEF Stores
<1>5. n \in base
  BY <1>1, <1>3 DEF InBatch
<1>6. /\ \A i \in 1..L : Approved(History[i]) =>
            /\ History[i].node \in Nodes /\ graph.status[History[i].node] # "passed"
            /\ History[i].node = n => i = Found
  <2>1. \A i \in 1..L : Approved(History[i]) =>
            /\ History[i].node \in Nodes /\ graph.status[History[i].node] # "passed"
            /\ \A j \in 1..L : Approved(History[j]) /\ History[j].node = History[i].node => j = i
    BY <1>1, ApprovedFacts
  <2> QED
    BY <1>3, <2>1
<1> HIDE DEF L, n
<1>7. \A i \in 1..L : /\ History'[i].node = History[i].node
                      /\ Approved(History'[i]) <=> Approved(History[i]) /\ i # Found
  BY <1>3, <1>4 DEF Approved
<1>8. att'.node = att.node
  BY <1>2, <1>4, <1>7
<1>9. Required' = Required \cup {n}
  <2>1. \A m \in Nodes : g.status[m] = IF m = n THEN "passed" ELSE graph.status[m]
    BY DEF n
  <2> QED
    BY <1>2, <1>3, <1>4, <2>1 DEF Required
<1>10. /\ Approvals  = {History[i].node : i \in {j \in 1..L : Approved(History[j])}}
       /\ Approvals' = {History[i].node : i \in {j \in 1..L : Approved(History'[j])}}
  <2>1. Approvals' = {History'[i].node : i \in {j \in 1..L : Approved(History'[j])}}
    BY <1>4 DEF Approvals, L, Approved
  <2>2. Approvals = {History[i].node : i \in {j \in 1..L : Approved(History[j])}}
    BY DEF Approvals, L
  <2> QED
    BY <1>7, <2>1, <2>2
<1>11. n \in Approvals /\ History[Found].node = n
  BY <1>3, <1>10 DEF n
<1>12. Approvals' = Approvals \ {n}
  BY <1>6, <1>7, <1>10, <1>11
<1>13. \A m \in Nodes : g.status[m] = IF m = n THEN "passed" ELSE graph.status[m]
  BY DEF n
<1>14. \A m \in Approvals' : m \in Nodes /\ g.status[m] # "passed"
  BY <1>6, <1>10, <1>12, <1>13
<1>15. st = "done" <=> Required' \subseteq base \ Approvals'
  <2>1. ASSUME GraphComplete(g) PROVE Required' \subseteq base \ Approvals'
    <3> SUFFICES ASSUME NEW m \in Required' PROVE m \in base \ Approvals'
      OBVIOUS
    <3>1. m \in g.nodes /\ m \in Nodes /\ g.status[m] # "skipped"
      BY <1>2, <1>4 DEF Required
    <3>2. g.status[m] = "passed"
      BY <2>1, <3>1 DEF GraphComplete
    <3>3. m \in base
      BY <1>1, <1>4, <3>1, <3>2 DEF Grounded
    <3> QED
      BY <1>14, <3>2, <3>3
  <2>2. ASSUME Required' \subseteq base \ Approvals' PROVE GraphComplete(g)
    <3>1. g.nodes # {}
      BY <1>3
    <3>2. ASSUME NEW m \in g.nodes, g.status[m] # "skipped" PROVE g.status[m] = "passed"
      <4>1. m \in Required'
        BY <1>4, <3>2 DEF Required
      <4>2. m \in base /\ m \notin Approvals'
        BY <2>2, <4>1
      <4>3. \/ g.status[m] = "passed"
            \/ \E i \in 1..Len(past')+1 : History'[i].node = m /\ Approved(History'[i])
        BY <1>1, <1>4, <4>2 DEF Covered, Approved
      <4> QED
        BY <4>2, <4>3 DEF Approvals, Approved
    <3> QED
      BY <3>1, <3>2 DEF GraphComplete
  <2> QED
    BY <2>1, <2>2
<1>16. Delivers
  <2>1. status' = "done" <=> Required' \subseteq base \ Approvals'
    BY <1>4, <1>15
  <2>2. graph'.deps = graph.deps /\ n \in Nodes
    BY <1>3, <1>4
  <2>3. ParPromise!Next
    BY <1>1, <1>5, <1>9, <1>11, <1>12, <2>1, <2>2, IsRecord
  <2> QED
    BY <2>3 DEF Delivers
<1>17. Older'
  <2>1. \A m \in Nodes : m # Head(queue) => graph'.status[m] = graph.status[m]
    BY <1>3, <1>4, <1>13
  <2> QED
    BY <1>1, <1>3, <1>4, <1>8, <2>1, OlderTail
<1>18. Unpassed'
  <2>1. 1..Len(past') \subseteq 1..Len(past')+1
    BY <1>2, <1>4
  <2>2. \A i \in 1..Len(past')+1 : Approved(History'[i]) => History'[i].node \in Approvals'
    BY DEF Approvals, Approved
  <2> QED
    BY <1>4, <1>14, <2>1, <2>2 DEF Unpassed, Approved
<1> QED
  BY <1>16, <1>17, <1>18

\* The merge in git.
LEMMA LandDelivers ==
    ASSUME PromiseInv, ParInv', DrainMerges
    PROVE  Unpassed' /\ Older' /\ Delivers
<1>1. /\ BatchInv /\ ParTypeOK /\ ParTypeOK' /\ Grounded /\ Unpassed /\ Older
  BY DEF PromiseInv, BatchInv, ParInv
<1>2. /\ pc = "drain" /\ pending > 0 /\ Found # 0 /\ pc' = "drainMerged"
      /\ base' = base \cup {Entry.node}
  BY DEF DrainMerges, Draining, Goto
<1>3. /\ status' = status /\ graph' = graph /\ past' = past /\ att' = att
      /\ queue' = queue /\ History' = History
  BY DEF DrainMerges, disk, batchDisk, History
<1>4. /\ Found \in 1..Len(past)+1 /\ Entry = History[Found]
      /\ IsSettled(Entry) /\ Sound(Entry) /\ Entry.node \in Nodes
      /\ Found = Len(past)+1 => Entry.phase = "approved"
      /\ Found # Len(past)+1 => (Entry.phase = "merged" => graph.status[Entry.node] = "passed")
  BY <1>1, <1>2, EntryFacts
<1>5. Required' = Required /\ Approvals' = Approvals
  BY <1>3 DEF Required, Approvals
<1>6. Delivers
  <2>1. CASE Entry.phase = "approved"
    <3>1. Approved(Entry)
      BY <1>4, <2>1 DEF Approved, Sound
    <3>2. Entry.node \in Approvals
      BY <1>4, <3>1 DEF Approvals
    <3>3. ParPromise!Next
      BY <1>1, <1>2, <1>3, <1>4, <1>5, <3>2, IsLand
    <3> QED
      BY <3>3 DEF Delivers
  <2>2. CASE Entry.phase = "merged"
    <3>1. graph.status[Entry.node] = "passed"
      BY <1>4, <2>2
    <3>2. base' = base
      BY <1>1, <1>2, <1>4, <3>1 DEF Grounded
    <3> QED
      BY <1>1, <1>3, <1>5, <3>2, IsStutter DEF Delivers
  <2> QED
    BY <1>4, <2>1, <2>2 DEF IsSettled
<1>7. Unpassed' /\ Older'
  BY <1>1, <1>2, <1>3 DEF Unpassed, Older, Batching
<1> QED
  BY <1>6, <1>7

\* The steps of the merge queue.
LEMMA DrainDelivers ==
    ASSUME PromiseInv,
           \/ DrainSkips \/ DrainHolds \/ DrainMerges \/ DrainRecords \/ DrainMergeFails \/ DrainEnds
    PROVE  Unpassed' /\ Older' /\ Delivers
<1>a. /\ BatchInv /\ BatchInv' /\ ParInv /\ ParInv' /\ ParTypeOK /\ Drains /\ InBatch /\ Grounded
      /\ Older /\ NodeChosen
  BY DrainKeepsBatch DEF PromiseInv, BatchInv, ParInv
<1>b. /\ content \in Contents /\ graph \in Graph /\ base \subseteq Nodes /\ pending \in Nat
      /\ graph.nodes \subseteq Nodes /\ queue \in Seq(Nodes)
  <2>1. content \in Contents /\ graph \in Graph /\ base \subseteq Nodes /\ pending \in Nat
        /\ queue \in Seq(Nodes)
    BY <1>a, SavedFacts DEF ParTypeOK
  <2> QED
    BY <2>1 DEF Graph
<1>c. /\ UNCHANGED world => content' = content /\ UNCHANGED <<base, fresh, calls, merges>>
      /\ DrainCommits => content' \in Contents
  BY <1>b DEF world, DrainCommits, Contents
<1>e. ASSUME pc \in {"drain", "drainMerged"}, pending > 0, Found # 0
      PROVE  /\ Entry \in Attempt /\ IsSettled(Entry) /\ Sound(Entry)
             /\ queue # <<>> /\ Entry.node = Head(queue) /\ Entry.node \in Nodes
             /\ Found = Len(past)+1 => Entry.phase = "approved"
             /\ Found # Len(past)+1 =>
                  (Entry.phase = "merged" => graph.status[Entry.node] = "passed")
  BY <1>a, <1>e, EntryFacts
<1>1. CASE DrainSkips
  <2>1. UNCHANGED <<disk, base, queue>> /\ pc' = pc
    BY <1>1 DEF DrainSkips, vars, world, batchDisk
  <2> QED
    BY <1>a, <2>1, RestDelivers
<1>2. CASE DrainHolds
  <2> DEFINE a == IF MergeBlockedByTestGate(Entry) THEN [Entry EXCEPT !.ftype = "other"] ELSE Entry
  <2>1. /\ pc = "drain" /\ pending > 0 /\ Found # 0 /\ UNCHANGED world
        /\ Finalized(a, graph, "stopped")
    BY <1>2 DEF DrainHolds, Draining
  <2>2. /\ a \in Attempt /\ a.node = Entry.node /\ a.iter = Entry.iter /\ a.phase = Entry.phase
        /\ a.decision = Entry.decision
    BY <1>e, <2>1 DEF Attempt
  <2> HIDE DEF a
  <2>3. Stores(a, graph, "stopped")
    <3>1. content' \in Contents /\ base' \subseteq Nodes /\ UNCHANGED <<fresh, calls, merges>>
      BY <1>b, <1>c, <2>1
    <3>2. a.phase = Entry.phase \/ a.phase # "replanning"
      BY <2>2
    <3> QED
      BY <1>a, <1>b, <2>1, <2>2, <3>1, <3>2, FinalizedKeeps
  <2>4. (Approved(a) <=> Approved(Entry)) /\ base' = base
    BY <1>c, <2>1, <2>2 DEF Approved
  <2> QED
    BY <1>a, <2>1, <2>2, <2>3, <2>4, LeftDelivers
<1>3. CASE DrainMerges
  BY <1>a, <1>3, LandDelivers
<1>4. CASE DrainRecords
  <2> DEFINE g == SetStatus(graph, Entry.node, "passed")
             a == [Entry EXCEPT !.mergeErr = "none", !.phase = "merged", !.ftype = "none"]
             st == IF GraphComplete(g) THEN "done" ELSE "stopped"
  <2>1. /\ pc = "drainMerged" /\ pending > 0 /\ Found # 0 /\ UNCHANGED world
        /\ Finalized(a, g, st)
    BY <1>4, <1>a DEF DrainRecords, Drains
  <2>2. a \in Attempt /\ a.node = Entry.node /\ a.iter = Entry.iter /\ a.phase = "merged"
    <3>1. Entry \in Attempt
      BY <1>e, <2>1
    <3>2. [Entry EXCEPT !.mergeErr = "none"] \in Attempt
      BY <3>1 DEF Attempt
    <3>3. [[Entry EXCEPT !.mergeErr = "none"] EXCEPT !.phase = "merged"] \in Attempt
      BY <3>2 DEF Attempt, Phases
    <3>4. a = [[[Entry EXCEPT !.mergeErr = "none"] EXCEPT !.phase = "merged"]
                  EXCEPT !.ftype = "none"]
      OBVIOUS
    <3>5. a \in Attempt /\ a.phase = "merged"
      BY <3>3, <3>4 DEF Attempt
    <3>6. a.node = Entry.node /\ a.iter = Entry.iter
      BY <3>1 DEF Attempt
    <3> QED
      BY <3>5, <3>6
  <2>3. /\ g \in Graph /\ g.nodes = graph.nodes /\ g.deps = graph.deps
        /\ \A m \in Nodes : g.status[m] = IF m = Entry.node THEN "passed" ELSE graph.status[m]
    BY <1>b, <1>e, <2>1, SetStatusType, SetStatusKeeps DEF NodeStatus
  <2>4. st \in {"stopped", "done"} /\ (st = "done" <=> GraphComplete(g))
        /\ (~GraphComplete(g) => st = "stopped")
    OBVIOUS
  <2> HIDE DEF a, g, st
  <2>5. base' = base /\ Stores(a, g, st)
    <3>1. content' \in Contents /\ base' = base /\ base' \subseteq Nodes
          /\ UNCHANGED <<fresh, calls, merges>>
      BY <1>b, <1>c, <2>1
    <3>2. a.phase = Entry.phase \/ a.phase # "replanning"
      BY <2>2
    <3> QED
      BY <1>a, <1>b, <2>1, <2>2, <2>3, <2>4, <3>1, <3>2, FinalizedKeeps
  <2>6. CASE Approved(Entry)
    BY <1>a, <2>1, <2>2, <2>3, <2>4, <2>5, <2>6, RecordDelivers
  <2>7. CASE ~Approved(Entry)
    <3>1. ~Approved(a)
      BY <2>2 DEF Approved
    <3>2. graph.status[Entry.node] = "passed"
      <4>1. Entry.phase = "merged"
        BY <1>e, <2>1, <2>7 DEF Approved, IsSettled, Sound
      <4> QED
        BY <1>e, <2>1, <4>1
    <3>3. \A m \in Nodes : g.status[m] = graph.status[m]
      BY <2>3, <3>2
    <3>4. ~GraphComplete(g)
      <4>1. pc \in Batching /\ 1 \in DOMAIN queue /\ Head(queue) = queue[1]
        BY <1>b, <1>e, <2>1 DEF Batching
      <4>2. graph.status[att.node] # "passed" /\ graph.status[att.node] # "skipped"
        BY <1>a, <1>e, <2>1, <3>2, <4>1 DEF Older, InBatch
      <4>3. att.node \in graph.nodes
        BY <1>a, <4>1 DEF InBatch, NodeChosen, Blank, Batching
      <4> QED
        BY <1>b, <2>3, <3>3, <4>2, <4>3 DEF GraphComplete
    <3>5. st = "stopped"
      BY <2>4, <3>4
    <3> QED
      BY <1>a, <2>1, <2>2, <2>3, <2>5, <2>7, <3>1, <3>3, <3>5, LeftDelivers
  <2> QED
    BY <2>6, <2>7
<1>5. CASE DrainMergeFails
  <2>1. /\ pc = "drain" /\ pending > 0 /\ Found # 0 /\ DrainCommits
        /\ UNCHANGED <<base, fresh, calls, merges>>
    BY <1>5 DEF DrainMergeFails, Draining
  <2>2. PICK err \in MergeErrs :
            Finalized([Entry EXCEPT !.mergeErr = err, !.ftype = "other"], graph, "stopped")
    BY <1>5 DEF DrainMergeFails
  <2> DEFINE a == [Entry EXCEPT !.mergeErr = err, !.ftype = "other"]
  <2>3. /\ a \in Attempt /\ a.node = Entry.node /\ a.iter = Entry.iter /\ a.phase = Entry.phase
        /\ a.decision = Entry.decision
    BY <1>e, <2>1 DEF Attempt
  <2>4. Finalized(a, graph, "stopped")
    BY <2>2
  <2> HIDE DEF a
  <2>5. Stores(a, graph, "stopped")
    <3>1. content' \in Contents /\ base' \subseteq Nodes
      BY <1>b, <1>c, <2>1
    <3>2. a.phase = Entry.phase \/ a.phase # "replanning"
      BY <2>3
    <3> QED
      BY <1>a, <1>b, <2>1, <2>3, <2>4, <3>1, <3>2, FinalizedKeeps
  <2>6. (Approved(a) <=> Approved(Entry)) /\ base' = base
    BY <2>1, <2>3 DEF Approved
  <2> QED
    BY <1>a, <2>1, <2>3, <2>5, <2>6, LeftDelivers
<1>6. CASE DrainEnds
  <2>1. UNCHANGED <<disk, base, queue>> /\ pc' \notin Batching
    BY <1>6 DEF DrainEnds, world, batchDisk, Goto, Batching
  <2> QED
    BY <1>a, <2>1, RestDelivers
<1> QED
  BY <1>1, <1>2, <1>3, <1>4, <1>5, <1>6

----------------------------------------------------------------------------
(* The sequential loop between batches, beside approved attempts.          *)

\* The nodes of the approved attempts but the last one.
Others == {History[i].node : i \in {j \in 1..Len(past) : Approved(History[j])}}

\* The sequential loop works on the last attempt beside them: it leaves the
\* others approved, and their nodes as they are.
LEMMA OthersStay ==
    ASSUME BatchInv, Unpassed, ParTypeOK', Evolves
    PROVE  /\ Approvals = Others \cup Candidates /\ Approvals' = Others \cup Candidates'
           /\ att.node \notin Others
           /\ Others \subseteq graph.nodes /\ Others \subseteq Nodes
           /\ \A n \in Others : graph.status[n] # "passed"
           /\ (\A n \in Others : graph'.status[n] # "passed") => Unpassed'
<1> DEFINE L == Len(past) + 1
           K == Len(past') + 1
<1>1. ParTypeOK /\ Unique
  BY DEF BatchInv, ParInv
<1>2. /\ Len(past) \in Nat /\ Len(past') \in Nat /\ History[L] = att
      /\ L \in Nat /\ K \in {L, L+1} /\ att' = History'[K]
      /\ \A i \in 1..Len(past) : History'[i] = History[i]
      /\ past' # past => K = L + 1 /\ History'[L] = att
      /\ past' = past => K = L
  <2>1. Len(past) \in Nat /\ Len(past') \in Nat /\ History[L] = att
    BY <1>1, SavedFacts DEF ParTypeOK
  <2>2. /\ L \in Nat /\ K \in {L, L+1} /\ att' = History'[K]
        /\ \A i \in 1..Len(past) : History'[i] = History[i]
        /\ past' # past => K = L + 1 /\ History'[L] = att
        /\ past' = past => K = L
    BY <1>1, EvolvesHistory
  <2> QED
    BY <2>1, <2>2
<1>3. \A i \in 1..Len(past) : Approved(History[i]) =>
          /\ History[i].node \in graph.nodes /\ History[i].node \in Nodes
          /\ graph.status[History[i].node] # "passed"
  <2>1. 1..Len(past) \subseteq 1..Len(past)+1
    BY <1>2
  <2> QED
    BY <2>1, ApprovedFacts
<1>4. att.node \notin Others
  <2> SUFFICES ASSUME NEW i \in 1..Len(past), Approved(History[i]), History[i].node = att.node
               PROVE  FALSE
    BY DEF Others
  <2>1. i \in 1..L /\ L \in 1..L /\ i # L
    BY <1>2
  <2>2. Counts(i) /\ Counts(L)
    BY DEF Counts, Approved, IsSettled
  <2> QED
    BY <1>1, <1>2, <2>1, <2>2 DEF Unique
<1>5. Approved(att) <=> Candidate
  BY DEF Approved, Candidate
<1>6. (Approved(att))' <=> Candidate'
  BY DEF Approved, Candidate
<1>7. Approvals = Others \cup Candidates
  <2>1. 1..L = 1..Len(past) \cup {L}
    BY <1>2
  <2> QED
    BY <1>2, <1>5, <2>1 DEF Approvals, Others, Candidates
<1>8. \A i \in 1..Len(past') : (i \in 1..Len(past) /\ History'[i] = History[i])
                              \/ (~Approved(History'[i]))
  <2>1. CASE past' = past
    BY <1>2, <2>1
  <2>2. CASE past' # past
    <3>1. ~Approved(att)
      BY <1>5, <2>2 DEF Evolves
    <3>2. \A i \in 1..Len(past') : i \in 1..Len(past) \/ i = L
      BY <1>2, <2>2
    <3> QED
      BY <1>2, <2>2, <3>1, <3>2
  <2> QED
    BY <2>1, <2>2
<1>9. 1..Len(past) \subseteq 1..Len(past')
  BY <1>2
<1>10. Approvals' = Others \cup Candidates'
  <2>1. 1..K = 1..Len(past') \cup {K}
    BY <1>2
  <2>2. Approvals' = {History'[i].node : i \in {j \in 1..K : Approved(History'[j])}}
    BY DEF Approvals, Approved
  <2>3. Others = {History'[i].node : i \in {j \in 1..Len(past') : Approved(History'[j])}}
    BY <1>2, <1>8, <1>9 DEF Others
  <2>4. Candidates' = {History'[i].node : i \in {j \in {K} : Approved(History'[j])}}
    BY <1>2, <1>6 DEF Candidates, Approved
  <2> HIDE DEF K
  <2> QED
    BY <2>1, <2>2, <2>3, <2>4
<1>11. Others \subseteq graph.nodes /\ Others \subseteq Nodes
       /\ \A n \in Others : graph.status[n] # "passed"
  BY <1>3 DEF Others
<1>12. ASSUME \A n \in Others : graph'.status[n] # "passed" PROVE Unpassed'
  BY <1>8, <1>12 DEF Unpassed, Others, Approved
<1> QED
  BY <1>4, <1>7, <1>10, <1>11, <1>12

\* What the sequential loop does beside approved attempts is a step of
\* Delivery.
LEMMA ApprovalDelivers ==
    ASSUME PromiseInv, BatchInv', Evolves, TypeInv, Approval, TypeOK', [Next]_vars
    PROVE  Unpassed' /\ Delivers
<1>1. /\ BatchInv /\ Unpassed /\ Grounded /\ Covered /\ ParTypeOK /\ ParTypeOK'
      /\ graph.nodes \subseteq Nodes /\ base \subseteq graph.nodes
  BY DEF PromiseInv, BatchInv, ParInv, TypeInv, TypeOK, Graph, Grounded
<1>2. /\ Approvals = Others \cup Candidates /\ Approvals' = Others \cup Candidates'
      /\ att.node \notin Others
      /\ Others \subseteq graph.nodes /\ Others \subseteq Nodes
      /\ \A n \in Others : graph.status[n] # "passed"
      /\ (\A n \in Others : graph'.status[n] # "passed") => Unpassed'
  BY <1>1, OthersStay
<1>3. \A n \in base : graph.status[n] = "passed" \/ n \in Approvals
  BY <1>1 DEF Covered, Approvals, Approved
<1>4. CASE Steady
  <2>1. Approvals' = Approvals
    BY <1>2, <1>4, SteadyKeeps
  <2>2. status' = "done" <=> status = "done"
    BY <1>4 DEF Steady
  <2>3. Delivers
    BY <1>1, <1>4, <2>1, <2>2, SteadyKeeps, IsStutter DEF Delivers
  <2>4. \A n \in Others : graph'.status[n] # "passed"
    BY <1>2, <1>4 DEF Steady
  <2> QED
    BY <1>2, <2>3, <2>4
<1>5. CASE PlannerPlans
  <2>1. /\ ~Candidate /\ ~Candidate' /\ status # "done" /\ status' # "done"
        /\ graph.nodes = {} /\ base = {} /\ base' = base
        /\ Required' \subseteq Nodes /\ graph'.deps \in [Nodes -> SUBSET Nodes]
    BY <1>1, <1>5, PlannerPlansFacts
  <2>2. Others = {} /\ Approvals = {} /\ Approvals' = {}
    BY <1>2, <2>1 DEF Candidates
  <2>3. ParPromise!Next
    BY <1>1, <2>1, <2>2, IsPlan
  <2> QED
    BY <1>2, <2>2, <2>3 DEF Delivers
<1>6. CASE ReplanApplied
  <2>1. /\ ~Candidate /\ ~Candidate' /\ status # "done" /\ status' # "done"
        /\ base' = base
        /\ Required' \subseteq Nodes /\ graph'.deps \in [Nodes -> SUBSET Nodes]
        /\ graph.nodes \subseteq graph'.nodes
        /\ \A n \in graph.nodes :
             /\ graph'.status[n] = "passed" <=> graph.status[n] = "passed"
             /\ graph.status[n] = "passed" => graph'.deps[n] = graph.deps[n]
             /\ graph'.deps[n] \subseteq graph.deps[n]
    BY <1>1, <1>6, ReplanFacts
  <2>2. Approvals = Others /\ Approvals' = Others
    BY <1>2, <2>1 DEF Candidates
  <2>3. \A n \in base \ Approvals :
            n \in graph.nodes /\ graph.status[n] = "passed" /\ graph'.status[n] = "passed"
    BY <1>1, <1>3, <2>1
  <2>4. base \ Approvals \subseteq Required'
    BY <2>1, <2>3 DEF Required
  <2>5. \A n \in base \ Approvals : graph'.deps[n] = graph.deps[n]
    BY <2>1, <2>3
  <2>6. \A n \in Approvals : graph'.deps[n] \subseteq graph.deps[n]
    BY <1>2, <2>1, <2>2
  <2>7. ParPromise!Next
    BY <1>1, <2>1, <2>2, <2>4, <2>5, <2>6, IsPlan
  <2>8. \A n \in Others : graph'.status[n] # "passed"
    BY <1>2, <2>1
  <2> QED
    BY <1>2, <2>7, <2>8 DEF Delivers
<1>7. CASE ReviewEnd
  <2>1. /\ UNCHANGED <<status, graph, base, past>> /\ status # "done"
        /\ ~Candidate /\ att'.node = att.node
        /\ att.node \in Required /\ att.node \in Nodes
        /\ graph.status[att.node] # "passed" /\ graph.deps[att.node] \subseteq base
    BY <1>1, <1>7, ReviewFacts
  <2>2. Approvals = Others /\ att.node \notin base
    BY <1>2, <1>3, <2>1 DEF Candidates
  <2>3. Required' = Required /\ Unpassed'
    BY <1>2, <2>1 DEF Required
  <2>4. CASE Candidate'
    <3>1. Approvals' = Approvals \cup {att.node}
      BY <1>2, <2>1, <2>2, <2>4 DEF Candidates
    <3>2. ParPromise!Next
      BY <1>1, <2>1, <2>2, <2>3, <3>1, IsApprove
    <3> QED
      BY <2>3, <3>2 DEF Delivers
  <2>5. CASE ~Candidate'
    <3>1. Approvals' = Approvals
      BY <1>2, <2>2, <2>5 DEF Candidates
    <3> QED
      BY <1>1, <2>1, <2>3, <3>1, IsStutter DEF Delivers
  <2> QED
    BY <2>4, <2>5
<1>8. CASE RepairReset
  <2>1. /\ status # "done" /\ status' # "done" /\ UNCHANGED <<graph, base, past>>
        /\ ~Candidate'
        /\ Candidate => att.node \in Nodes \ base
    BY <1>1, <1>8, RepairFacts
  <2>2. Approvals' = Others /\ Required' = Required /\ Unpassed'
    BY <1>2, <2>1 DEF Candidates, Required
  <2>3. CASE Candidate
    <3>1. Approvals' = Approvals \ {att.node} /\ att.node \in Approvals
      BY <1>2, <2>2, <2>3 DEF Candidates
    <3>2. att.node \in Nodes /\ att.node \notin base
      BY <2>1, <2>3
    <3>3. ParPromise!Next
      BY <1>1, <2>1, <2>2, <3>1, <3>2, IsWithdraw
    <3> QED
      BY <2>2, <3>3 DEF Delivers
  <2>4. CASE ~Candidate
    <3>1. Approvals' = Approvals
      BY <1>2, <2>2, <2>4 DEF Candidates
    <3> QED
      BY <1>1, <2>1, <2>2, <3>1, IsStutter DEF Delivers
  <2> QED
    BY <2>3, <2>4
<1>9. CASE MergeInGit
  <2>1. /\ Candidate /\ Candidate' /\ att.node \in Nodes
        /\ base' = base \cup {att.node} /\ UNCHANGED <<status, graph, att, past>>
    BY <1>1, <1>9, MergeFacts
  <2>2. Approvals' = Approvals /\ att.node \in Approvals /\ Required' = Required /\ Unpassed'
    BY <1>2, <2>1 DEF Candidates, Required
  <2>3. ParPromise!Next
    BY <1>1, <2>1, <2>2, IsLand
  <2> QED
    BY <2>2, <2>3 DEF Delivers
<1>10. CASE MergeRecorded
  <2>1. /\ Candidate /\ ~Candidate' /\ att.node \in base /\ att.node \in Nodes
        /\ att.node \in Required /\ Required' = Required
        /\ graph'.deps = graph.deps /\ graph'.nodes = graph.nodes
        /\ \A m \in Nodes :
             graph'.status[m] = IF m = att.node THEN "passed" ELSE graph.status[m]
        /\ base' = base
        /\ status' = IF GraphComplete(graph') THEN "done" ELSE "stopped"
    BY <1>1, <1>10, RecordFacts
  <2>2. /\ Approvals = Others \cup {att.node} /\ Approvals' = Others
        /\ Approvals' = Approvals \ {att.node}
    BY <1>2, <2>1 DEF Candidates
  <2>3. Required = {m \in graph.nodes : graph'.status[m] # "skipped"}
    BY <2>1 DEF Required
  <2>4. ASSUME GraphComplete(graph') PROVE Required \subseteq base \ Others
    <3> SUFFICES ASSUME NEW m \in Required PROVE m \in base \ Others
      OBVIOUS
    <3>1. m \in graph.nodes /\ m \in Nodes /\ graph'.status[m] = "passed"
      BY <1>1, <2>1, <2>3, <2>4 DEF GraphComplete
    <3>2. m = att.node \/ graph.status[m] = "passed"
      BY <2>1, <3>1
    <3> QED
      BY <1>1, <1>2, <2>1, <3>1, <3>2 DEF Grounded
  <2>5. ASSUME Required \subseteq base \ Others PROVE GraphComplete(graph')
    <3>1. graph'.nodes # {}
      BY <2>1, <2>3
    <3>2. ASSUME NEW m \in graph.nodes, graph'.status[m] # "skipped" PROVE graph'.status[m] = "passed"
      <4>1. m \in base \ Others
        BY <2>3, <2>5, <3>2
      <4>2. graph.status[m] = "passed" \/ m = att.node
        BY <1>3, <2>2, <4>1
      <4> QED
        BY <1>1, <2>1, <4>2
    <3> QED
      BY <2>1, <3>1, <3>2 DEF GraphComplete
  <2>6. status' = "done" <=> Required' \subseteq base \ Approvals'
    <3>1. status' = "done" <=> GraphComplete(graph')
      BY <2>1
    <3>2. GraphComplete(graph') <=> Required \subseteq base \ Others
      BY <2>4, <2>5
    <3> QED
      BY <2>1, <2>2, <3>1, <3>2
  <2>7. Required' = Required \cup {att.node} /\ att.node \in Approvals
    BY <2>1, <2>2
  <2>8. ParPromise!Next
    BY <1>1, <2>1, <2>2, <2>6, <2>7, IsRecord
  <2>9. \A n \in Others : graph'.status[n] # "passed"
    BY <1>2, <2>1
  <2> QED
    BY <1>2, <2>8, <2>9 DEF Delivers
<1> QED
  BY <1>1, <1>4, <1>5, <1>6, <1>7, <1>8, <1>9, <1>10, NextSteady

----------------------------------------------------------------------------
(* Every step is one of Delivery, or a stutter.                            *)

\* A step of AutoLoop, a kill included, outside of a batch.
LEMMA SequentialDelivers ==
    ASSUME PromiseInv, ParInv', pc \in PCs, [Next]_vars, UNCHANGED <<running, queue>>
    PROVE  PromiseInv' /\ Delivers
<1>1. /\ BatchInv /\ ParTypeOK /\ ParTypeOK' /\ TypeInv /\ Verdicts /\ pc \notin Batching
      /\ Unpassed
  BY ParTypeFacts DEF PromiseInv, BatchInv, ParInv
<1>2. BatchInv' /\ Evolves
  BY <1>1, SequentialKeepsBatch
<1>3. TypeOK' /\ Older'
  <2>1. TypeOK'
    BY <1>1, NextTypeOK
  <2>2. pc' \notin Batching
    BY <2>1 DEF TypeOK, PCs, Batching
  <2> QED
    BY <2>1, <2>2 DEF Older
<1>4. CASE Approval
  BY <1>1, <1>2, <1>3, <1>4, ApprovalDelivers DEF PromiseInv
<1>5. CASE Overtaken /\ status \notin {"done", "replanning"} /\ pc \in {"off", "loop"}
  <2>1. /\ Overtaken' /\ status' = status /\ graph' = graph /\ past' = past /\ base' = base
    BY <1>1, <1>5, OvertakenRests
  <2>2. /\ Approvals = Others \cup Candidates /\ Approvals' = Others \cup Candidates'
        /\ \A n \in Others : graph.status[n] # "passed"
        /\ (\A n \in Others : graph'.status[n] # "passed") => Unpassed'
    BY <1>1, <1>2, OthersStay
  <2>3. Candidates' = {} /\ Candidates = {} /\ Required' = Required
    BY <1>5, <2>1 DEF Overtaken, Candidates, Candidate, Required
  <2>4. Approvals' = Approvals /\ Unpassed'
    BY <2>1, <2>2, <2>3
  <2>5. Delivers
    BY <1>1, <2>1, <2>3, <2>4, IsStutter DEF Delivers
  <2> QED
    BY <1>2, <1>3, <2>4, <2>5 DEF PromiseInv
<1> QED
  BY <1>1, <1>4, <1>5 DEF Verdicts

\* An iteration of one node.
LEMMA AloneDelivers ==
    ASSUME PromiseInv, RunAlone
    PROVE  PromiseInv' /\ Delivers
<1>1. BatchInv' /\ Evolves /\ ~Candidate /\ BatchInv /\ Unpassed /\ ParTypeOK /\ ParTypeOK'
  BY RunAloneKeepsBatch DEF PromiseInv, BatchInv, ParInv
<1>2. /\ AutoRunOn(DiscoveredGraph) /\ Dispatch("run")
  BY DEF RunAlone, AutoRunOn
<1>3. /\ att' = BeginAttempt(iteration + 1, 0, 0)
      /\ status' = "running" /\ graph' = DiscoveredGraph /\ pc' = "plan" /\ base' = base
  BY <1>2 DEF AutoRunOn, NewWorktree, Goto
<1>4. /\ status # "done" /\ DiscoveredGraph.nodes = graph.nodes
      /\ DiscoveredGraph.deps = graph.deps /\ graph.nodes \subseteq Nodes
      /\ \A m \in Nodes :
           \/ DiscoveredGraph.status[m] = graph.status[m]
           \/ graph.status[m] = "pending" /\ DiscoveredGraph.status[m] = "blocked"
  BY <1>1, <1>2, RunKeeps DEF TypeInv, TypeOK, Graph
<1>5. ~Candidate'
  BY <1>3 DEF BeginAttempt, Candidate
<1>6. /\ Approvals = Others \cup Candidates /\ Approvals' = Others \cup Candidates'
      /\ Others \subseteq Nodes /\ \A n \in Others : graph.status[n] # "passed"
      /\ (\A n \in Others : graph'.status[n] # "passed") => Unpassed'
  BY <1>1, OthersStay
<1>7. Approvals' = Approvals
  BY <1>1, <1>5, <1>6 DEF Candidates
<1>8. Required' = Required
  BY <1>3, <1>4 DEF Required
<1>9. Delivers
  BY <1>1, <1>3, <1>4, <1>7, <1>8, IsStutter DEF Delivers
<1>10. Unpassed'
  <2>1. \A n \in Others : graph'.status[n] # "passed"
    BY <1>3, <1>4, <1>6
  <2> QED
    BY <1>6, <2>1
<1>11. Older'
  BY <1>3 DEF Older, Batching
<1> QED
  BY <1>1, <1>9, <1>10, <1>11 DEF PromiseInv

\* There is nothing to be merged at first.
LEMMA InitPromise == ParInit => PromiseInv /\ ParPromise!Init
<1> SUFFICES ASSUME ParInit PROVE PromiseInv /\ ParPromise!Init
  OBVIOUS
<1>1. BatchInv /\ ParTypeOK
  BY InitBatch DEF BatchInv, ParInv
<1>2. /\ base = {} /\ graph = EmptyGraph /\ status = "initialized" /\ att.phase = "preflight"
      /\ past = <<>> /\ pc = "off"
  BY DEF ParInit, Init, BeginAttempt
<1>3. Len(past) = 0 /\ DOMAIN History = 1..1 /\ History[1] = att
  <2>1. DOMAIN History = 1..Len(past)+1 /\ History[Len(past)+1] = att
    BY <1>1, SavedFacts
  <2> QED
    BY <1>2, <2>1
<1>4. Unpassed /\ Older
  BY <1>2, <1>3 DEF Unpassed, Older, Batching
<1>5. \A i \in DOMAIN History : ~Approved(History[i])
  BY <1>2, <1>3 DEF Approved
<1>6. {History[i].node : i \in {j \in DOMAIN History : Approved(History[j])}} = {}
  BY <1>5
<1> QED
  BY <1>1, <1>2, <1>4, <1>6 DEF PromiseInv, ParPromise!Init, EmptyGraph

\* Every step keeps the invariant, and is one of Delivery's or a stutter.
LEMMA NextPromise == PromiseInv /\ [ParNext]_parVars => PromiseInv' /\ Delivers
<1> SUFFICES ASSUME PromiseInv, [ParNext]_parVars PROVE PromiseInv' /\ Delivers
  OBVIOUS
<1>a. BatchInv /\ BatchInv' /\ ParInv /\ ParInv' /\ ParTypeOK
  BY NextBatch DEF PromiseInv, BatchInv, ParInv
<1>1. CASE BatchStart
  BY <1>1, <1>a, BeginsDelivers DEF PromiseInv
<1>2. ASSUME NEW n \in Nodes, WorkerStep(n) PROVE PromiseInv' /\ Delivers
  <2>1. PICK s : Works(n, s) /\ Turns(n, s)
    BY <1>2, <1>a, WorkerStepWorks
  <2> QED
    BY <1>a, <2>1, WorkDelivers DEF PromiseInv
<1>3. ASSUME NEW n \in Nodes, TakeResult(n) PROVE PromiseInv' /\ Delivers
  BY <1>3, <1>a, TakeDelivers DEF PromiseInv
<1>4. CASE DrainSkips \/ DrainHolds \/ DrainMerges \/ DrainRecords \/ DrainMergeFails \/ DrainEnds
  BY <1>4, <1>a, DrainDelivers DEF PromiseInv
<1>5. CASE BatchStep
  BY <1>5, <1>1, <1>2, <1>3, <1>4 DEF BatchStep
<1>6. CASE RunAlone
  BY <1>6, AloneDelivers
<1>7. ASSUME pc \in PCs, [Next]_vars, UNCHANGED batchDisk PROVE PromiseInv' /\ Delivers
  <2>1. UNCHANGED <<running, queue>>
    BY <1>7 DEF batchDisk
  <2> QED
    BY <1>7, <1>a, <2>1, SequentialDelivers
<1>8. CASE (DispatchStep \/ PhaseStep \/ AutoRunRefused \/ Start \/ ImplWrite) /\ Alone
  <2>1. Next
    BY <1>8 DEF Next, RunnerStep, LoopStep
  <2> QED
    BY <1>8, <1>7, <2>1, SequentialAlone DEF Alone
\* In a batch, a kill, the operator and a step of others change nothing saved.
<1>9. ASSUME UNCHANGED <<disk, batchDisk, base>>, pc' = pc \/ pc' = "off"
      PROVE  PromiseInv' /\ Delivers
  <2>1. UNCHANGED <<disk, base, queue>> /\ (pc' = pc \/ pc' \notin Batching)
    BY <1>9 DEF batchDisk, Batching
  <2> QED
    BY <1>a, <2>1, RestDelivers DEF PromiseInv
<1>10. CASE ParCrash
  <2>1. pc' = "off" /\ UNCHANGED <<disk, batchDisk, base>>
    BY <1>10 DEF ParCrash, Crash, Goto, world
  <2> QED
    BY <1>9, <2>1
<1>11. CASE ParOperatorCommits
  <2>1. pc' = pc /\ UNCHANGED <<disk, base, batchDisk>>
    BY <1>11 DEF ParOperatorCommits, OperatorCommits, Alone
  <2> QED
    BY <1>9, <2>1
<1>12. CASE UNCHANGED parVars
  <2>1. pc' = pc /\ UNCHANGED <<disk, base, batchDisk>>
    BY <1>12 DEF parVars, vars, world
  <2> QED
    BY <1>9, <2>1
<1>13. RunAloneRefused => AutoRunRefused /\ Alone
  BY DEF RunAloneRefused, Alone
<1> QED
  BY <1>5, <1>6, <1>8, <1>10, <1>11, <1>12, <1>13 DEF ParNext, ParRunnerStep

\* Batches deliver as Delivery promises, several nodes at a time: whatever the
\* planner plans, each node lands after all it depends on and only with an
\* approval, what has landed is never planned away, and the task is done when
\* all that is required is known to have landed.
THEOREM BatchesDeliver == ParSpec => ParDeliveryImplemented
<1>1. PromiseInv /\ [ParNext]_parVars => [ParPromise!Next]_(ParPromise!vars)
  BY NextPromise DEF Delivers
<1>2. PromiseInv /\ [ParNext]_parVars => PromiseInv'
  BY NextPromise
<1> QED
  BY <1>1, <1>2, InitPromise, PTL DEF ParSpec, ParDeliveryImplemented, ParPromise!Spec
=============================================================================
