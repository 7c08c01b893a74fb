---------------------------- MODULE ParallelLoop ----------------------------
(***************************************************************************)
(* The auto loop with max_parallel_nodes > 1 and allow_parallel_execution  *)
(* (parallel_scheduler.py, merge_queue.py): AutoLoop, in which a new       *)
(* iteration is a batch of runnable nodes wherever there are any.  A pool  *)
(* of threads works on the batch, each thread on one node and one attempt  *)
(* of the history, with its own copy of state.json that it saves whole;    *)
(* the task lock is held for the whole pipeline of a node.  The main       *)
(* thread takes the results, queues what is approved, and merges the queue *)
(* when all have ended.  What the batch keeps in memory is worker and      *)
(* pending; the rest survives a kill.                                      *)
(***************************************************************************)
EXTENDS AutoLoop

CONSTANTS
    MaxParallel,           \* max_parallel_nodes
    WorkerImplementer      \* how an implementer may end in a batch

ASSUME ParallelAssumption ==
    /\ MaxParallel \in Nat \ {0, 1}
    /\ WorkerImplementer \subseteq {"ok", "error", "timed_out"}

VARIABLES
    running,  \* TaskState.running_attempts: the history index of each node, or 0
    queue,    \* TaskState.merge_queue
    worker,   \* what the pool does for each node
    pending   \* pending_merge_count of the copy the main thread holds

batchDisk == <<running, queue>>
parVars   == <<vars, batchDisk, worker, pending>>

\* state.json as one value, and a save of it.
Saved == [status |-> status, iteration |-> iteration, graph |-> graph,
          history |-> Append(past, att), running |-> running, queue |-> queue]

Save(s) ==
    /\ status' = s.status /\ iteration' = s.iteration /\ graph' = s.graph
    /\ past' = SubSeq(s.history, 1, Len(s.history) - 1) /\ att' = s.history[Len(s.history)]
    /\ running' = s.running /\ queue' = s.queue

NoCopy == [status |-> "initialized", iteration |-> 0, graph |-> EmptyGraph,
           history |-> <<>>, running |-> [n \in Nodes |-> 0], queue |-> <<>>]

\* A thread that works holds a copy of the state, and the task lock.
Working == {"setup", "impl", "implRun", "implFailed", "implTimedOut",
            "test", "testRun", "review", "reviewRun"}
Results == {"approved", "ended", "raised"}

Idle == [stage |-> "idle", state |-> NoCopy, wrote |-> "clean"]

ParInit ==
    /\ Init
    /\ running = [n \in Nodes |-> 0] /\ queue = <<>>
    /\ worker = [n \in Nodes |-> Idle] /\ pending = 0

\* Mutant: the lock does not exclude anyone.
NoLock == TRUE

LockFree == \A n \in Nodes : worker[n].stage \notin Working

At(n, stage) == pc = "batch" /\ worker[n].stage = stage

----------------------------------------------------------------------------
(* The start of a batch. *)

Running == {n \in Nodes : running[n] # 0}

\* Mutant: attempts that are registered already do not count.
WholeLimit == MaxParallel

Limit == IF Cardinality(Running) < MaxParallel THEN MaxParallel - Cardinality(Running) ELSE 0

\* discover_parallel_runnable.  It does not scan at all without a limit left,
\* but then the scan would stop before its first node.
Discovered == NextRunnableNodes(graph, MaxRetries, Limit, Running)

DiscoveredGraph == AfterScan(graph, MaxRetries, Limit, Running)

\* The place of a node in its batch, in graph order.
Place(n) == Cardinality({m \in Discovered : m <= n})

\* The attempts of a batch, in graph order, are saved at once, under the lock.
\* Nothing looks at max_iterations, and the status stays what it is.
BatchStart ==
    /\ Dispatch("run") /\ Discovered # {}
    /\ LET size  == Cardinality(Discovered)
           begun == [k \in 1..size |->
                        BeginAttempt(iteration + k, 0, CHOOSE n \in Discovered : Place(n) = k)]
       IN  Save([Saved EXCEPT
                    !.iteration = @ + size,
                    !.graph = DiscoveredGraph,
                    !.history = @ \o begun,
                    !.running = [n \in Nodes |->
                        IF n \in Discovered THEN Len(past) + 1 + Place(n) ELSE @[n]]])
    /\ worker' = [n \in Nodes |-> IF n \in Discovered THEN [Idle EXCEPT !.stage = "todo"] ELSE Idle]
    /\ NewWorktree
    /\ Goto("batch")
    /\ UNCHANGED <<starts, pending>>

\* Without runnable nodes for a batch, execute_run begins one iteration with
\* the graph the discovery has scanned.
RunAlone ==
    /\ Discovered = {} /\ AutoRunOn(DiscoveredGraph)
    /\ UNCHANGED <<batchDisk, worker, pending>>

RunAloneRefused ==
    /\ Discovered = {} /\ AutoRunRefused
    /\ UNCHANGED <<batchDisk, worker, pending>>

----------------------------------------------------------------------------
(* run_single_node_pipeline.  A worktree that is not that of the last      *)
(* attempt is only what the worker knows of it.                            *)

Index(n)  == worker[n].state.running[n]
Own(n)    == worker[n].state.history[Index(n)]
IsLast(n) == Index(n) = Len(worker[n].state.history)

WithOwn(n, a) == [worker[n].state EXCEPT !.history[Index(n)] = a]

Advance(n, stage, s) ==
    /\ worker' = [worker EXCEPT ![n].stage = stage, ![n].state = s]
    /\ Save(s)
    /\ UNCHANGED <<pc, mem, starts, pending>>

\* The thread ends, and with it its copy and its lock.
Finish(n, result, s) ==
    /\ worker' = [worker EXCEPT ![n] = [Idle EXCEPT !.stage = result]]
    /\ Save(s)
    /\ UNCHANGED <<pc, mem, starts, pending>>

\* _mark_planning_failed, _mark_implementer_failed, _mark_review_failed on the
\* i-th attempt.
Failed(s, i) ==
    LET node == s.history[i].node
    IN  [s EXCEPT !.history[i].phase = "failed", !.status = "failed",
                  !.graph = IF node \in s.graph.nodes THEN SetStatus(@, node, "failed") ELSE @]

\* Mutant: the node is not marked running.
NodeBegunUnmarked(s, n) == [s EXCEPT !.status = "running"]

NodeBegun(s, n) == [s EXCEPT !.status = "running", !.graph = SetStatus(@, n, "running")]

WorkerBegins(n) ==
    /\ At(n, "todo") /\ LockFree
    /\ Advance(n, "setup", NodeBegun(Saved, n))
    /\ UNCHANGED world

WorkerSetup(n) ==
    /\ At(n, "setup")
    /\ Advance(n, "impl", WithOwn(n, [Own(n) EXCEPT !.phase = "worktree_created"]))
    /\ UNCHANGED world

\* git cannot add the worktree.
WorkerSetupFails(n) ==
    /\ At(n, "setup") /\ "refused" \in Planner
    /\ Finish(n, "raised", Failed(worker[n].state, Index(n)))
    /\ UNCHANGED world

\* The provider starts, and writes to the worktree before it ends.
WorkerImplements(n) ==
    /\ At(n, "impl")
    /\ \E w \in Writes :
        /\ LET s == WithOwn(n, [Own(n) EXCEPT !.phase = "executing"])
           IN  /\ worker' = [worker EXCEPT ![n] = [stage |-> "implRun", state |-> s, wrote |-> w]]
               /\ Save(s)
        /\ content' = IF IsLast(n) THEN w ELSE content
    /\ fresh' = IF IsLast(n) THEN {} ELSE fresh
    /\ calls' = IF IsLast(n) THEN calls + 1 ELSE calls
    /\ UNCHANGED <<base, merges, pc, mem, starts, pending>>

\* An uncaptured patch is recorded, but does not stop the pipeline.
WorkerImplEnds(n) ==
    /\ At(n, "implRun")
    /\ \E end \in WorkerImplementer :
        Advance(n, CASE end = "ok" -> "test" [] end = "error" -> "implFailed" [] OTHER -> "implTimedOut",
            WithOwn(n, [Own(n) EXCEPT
                !.exit  = IF end = "ok" THEN "ok" ELSE "error",
                !.ftype = IF end = "ok" /\ worker[n].wrote = "untracked"
                          THEN "patch_not_captured" ELSE @]))
    /\ UNCHANGED world

\* An exit code marks the attempt of the worker as failed; a timeout, a hang
\* or an interrupt marks history[-1].
WorkerImplFails(n) ==
    LET reported == WithOwn(n, [Own(n) EXCEPT !.ftype = "other"])
    IN  /\ \/ /\ At(n, "implFailed")
              /\ Finish(n, "raised", Failed(reported, Index(n)))
           \/ /\ At(n, "implTimedOut")
              /\ Finish(n, "raised", Failed(reported, Len(reported.history)))
        /\ UNCHANGED world

WorkerTests(n) ==
    /\ At(n, "test")
    /\ Advance(n, "testRun", WithOwn(n, [Own(n) EXCEPT !.phase = "testing"]))
    /\ UNCHANGED world

WorkerTestEnds(n) ==
    /\ At(n, "testRun")
    /\ \E result \in (IF HasTestCommand THEN Tests ELSE {"skipped"}) :
        Advance(n, "review", WithOwn(n, [Own(n) EXCEPT !.test = result]))
    /\ fresh' = IF IsLast(n) THEN fresh \cup {"test"} ELSE fresh
    /\ UNCHANGED <<content, base, calls, merges>>

WorkerReviews(n) ==
    /\ At(n, "review")
    /\ Advance(n, "reviewRun", WithOwn(n, [Own(n) EXCEPT !.phase = "reviewing"]))
    /\ UNCHANGED world

WorkerReviewEnds(n) ==
    /\ At(n, "reviewRun")
    /\ \E d \in Reviewer \cap Decisions :
        IF d = "approve"
        THEN Finish(n, "approved",
                WithOwn(n, [Own(n) EXCEPT !.decision = d, !.phase = "approved", !.ftype = "none"]))
        ELSE Finish(n, "ended", WithOwn(n, [Own(n) EXCEPT !.decision = d, !.phase = "rejected"]))
    /\ fresh' = IF IsLast(n) THEN fresh \cup {"review"} ELSE fresh
    /\ UNCHANGED <<content, base, calls, merges>>

WorkerReviewFails(n) ==
    /\ At(n, "reviewRun")
    /\ \E kind \in Reviewer \cap Faults :
        Finish(n, "raised",
            Failed(WithOwn(n, [Own(n) EXCEPT !.ftype = IF kind = "refused" THEN @ ELSE "other"]), Index(n)))
    /\ UNCHANGED world

WorkerStep(n) ==
    \/ WorkerBegins(n) \/ WorkerSetup(n) \/ WorkerSetupFails(n)
    \/ WorkerImplements(n) \/ WorkerImplEnds(n) \/ WorkerImplFails(n)
    \/ WorkerTests(n) \/ WorkerTestEnds(n)
    \/ WorkerReviews(n) \/ WorkerReviewEnds(n) \/ WorkerReviewFails(n)

----------------------------------------------------------------------------
(* The main thread: results, then the merge queue. *)

\* Mutants: the node passes when it is queued; the queue holds one node.
EnqueuedAsPassed(s, n) ==
    [s EXCEPT !.queue = Append(@, n), !.graph = SetStatus(@, n, "passed")]

EnqueuedAlone(s, n) == [s EXCEPT !.queue = <<n>>]

Enqueued(s, n) ==
    IF \E k \in DOMAIN s.queue : s.queue[k] = n THEN s ELSE [s EXCEPT !.queue = Append(@, n)]

\* One round of the loop over the futures that have completed.  A rejected
\* node stays running: nothing but the sequential loop marks it rejected.
TakeResult(n) ==
    LET result == worker[n].stage
        popped == [Saved EXCEPT !.running[n] = 0]
        s == CASE result = "approved" -> Enqueued(popped, n)
               [] result = "raised"   -> [popped EXCEPT !.graph = SetStatus(@, n, "failed")]
               [] result = "ended"    -> popped
    IN  /\ pc = "batch" /\ result \in Results /\ LockFree
        /\ Save(s)
        /\ worker' = [worker EXCEPT ![n] = Idle]
        /\ IF \A m \in Nodes : worker'[m] = Idle
           THEN Goto("drain") /\ pending' = Len(s.queue)
           ELSE UNCHANGED <<pc, mem, pending>>
        /\ UNCHANGED <<world, starts>>

\* Mutant: the last attempt of the node, whatever became of it.
AnyAttemptForNode(n) ==
    LET history == Append(past, att)
        of == {i \in DOMAIN history : history[i].node = n}
    IN  IF running[n] # 0 THEN running[n] ELSE CHOOSE i \in of : \A j \in of : j <= i

\* find_attempt_for_node: an index in the history, or 0.
FindAttemptForNode(n) ==
    LET history == Append(past, att)
        settled == {i \in DOMAIN history :
                        history[i].node = n /\ history[i].phase \in {"approved", "merged"}}
    IN  IF running[n] # 0 THEN running[n]
        ELSE IF settled = {} THEN 0
        ELSE CHOOSE i \in settled : \A j \in settled : j <= i

Found == FindAttemptForNode(Head(queue))
Entry == Append(past, att)[Found]

\* The state after _run_finalize_phase on the entry that was taken off.
Finalized(a, g, st) ==
    /\ Save([Saved EXCEPT !.history[Found] = a, !.graph = g, !.status = st, !.queue = Tail(@)])
    /\ pending' = Len(queue) - 1
    /\ Goto("drain")
    /\ UNCHANGED <<starts, worker>>

Draining == pc = "drain" /\ pending > 0

\* The entry is dropped from the copy in memory, and stays in state.json.
DrainSkips ==
    /\ Draining /\ Found = 0
    /\ pending' = Len(queue) - 1
    /\ UNCHANGED <<vars, batchDisk, worker>>

DrainHolds ==
    /\ Draining /\ Found # 0 /\ ~CanAutoMerge(Entry)
    /\ Finalized(IF MergeBlockedByTestGate(Entry) THEN [Entry EXCEPT !.ftype = "other"] ELSE Entry,
                 graph, "stopped")
    /\ UNCHANGED world

DrainCommits ==
    content' = IF Found = Len(past) + 1 /\ content = "untracked" THEN "patch" ELSE content

DrainMerges ==
    /\ Draining /\ Found # 0 /\ CanAutoMerge(Entry) /\ "merged" \in Merges
    /\ DrainCommits
    /\ base' = base \cup {Entry.node}
    /\ Goto("drainMerged")
    /\ UNCHANGED <<disk, batchDisk, worker, pending, fresh, calls, merges, starts>>

DrainRecords ==
    /\ pc = "drainMerged"
    /\ LET g == SetStatus(graph, Entry.node, "passed")
       IN  Finalized([Entry EXCEPT !.mergeErr = "none", !.phase = "merged", !.ftype = "none"],
                     g, IF GraphComplete(g) THEN "done" ELSE "stopped")
    /\ UNCHANGED world

DrainMergeFails ==
    /\ Draining /\ Found # 0 /\ CanAutoMerge(Entry)
    /\ DrainCommits
    /\ \E err \in Merges \cap MergeErrs :
        /\ err = "conflict" => Entry.node \notin base
        /\ Finalized([Entry EXCEPT !.mergeErr = err, !.ftype = "other"], graph, "stopped")
    /\ UNCHANGED <<base, fresh, calls, merges>>

DrainEnds ==
    /\ pc = "drain" /\ pending = 0
    /\ Goto("loop")
    /\ UNCHANGED <<disk, world, starts, batchDisk, worker, pending>>

BatchStep ==
    \/ BatchStart \/ \E n \in Nodes : WorkerStep(n) \/ TakeResult(n)
    \/ DrainSkips \/ DrainHolds \/ DrainMerges \/ DrainRecords \/ DrainMergeFails \/ DrainEnds

----------------------------------------------------------------------------

Alone == UNCHANGED <<batchDisk, worker, pending>>

ParRunnerStep ==
    \/ BatchStep \/ RunAlone \/ RunAloneRefused
    \/ (DispatchStep \/ PhaseStep) /\ Alone

\* A kill ends every thread: what the batch had in memory is gone.
ParCrash ==
    /\ Crash
    /\ worker' = [n \in Nodes |-> Idle] /\ pending' = 0
    /\ UNCHANGED batchDisk

\* The operator leaves the worktree alone while an implementer works in it.
ParOperatorCommits ==
    /\ OperatorCommits /\ Alone
    /\ \A n \in Nodes : worker[n].stage # "implRun"

ParNext ==
    \/ ParRunnerStep \/ ParCrash \/ ParOperatorCommits
    \/ (Start \/ ImplWrite) /\ Alone

ParSpec == ParInit /\ [][ParNext]_parVars

\* The threads and the loop are scheduled, and every provider returns.
ParLiveSpec == ParSpec /\ WF_parVars(ParRunnerStep)

ParRestartSpec == ParLiveSpec /\ WF_parVars(Start /\ Alone)

----------------------------------------------------------------------------
(* Properties *)

History == Append(past, att)

Copies == [status : {"initialized", "running", "stopped", "failed", "done", "replanning"},
           iteration : Nat, graph : Graph, history : Seq(Attempt),
           running : [Nodes -> Nat], queue : Seq(Nodes)]

\* The types of the variables, those of AutoLoop included.
ParTypeOK ==
    /\ Saved \in Copies /\ past \in Seq(Attempt) /\ att \in Attempt
    /\ content \in Contents /\ base \subseteq Nodes
    /\ fresh \subseteq {"test", "review"} /\ {calls, merges, starts, pending} \subseteq Nat
    /\ pc \in PCs \cup {"batch", "drain", "drainMerged"} /\ mem \in MemType
    /\ worker \in [Nodes -> [stage : {"idle", "todo"} \cup Working \cup Results,
                             state : Copies, wrote : Contents]]

Approved(a) == a.phase = "approved" /\ a.decision = "approve"

TimingOut == \E n \in Nodes : At(n, "implTimedOut")

\* The attempts of a batch and the entries of the queue survive each other:
\* an approved attempt, the last one or not, is merged or stays approved,
\* whichever threads save their copies of the state after it
\* (run_single_node_pipeline: "so a worker cannot save a stale snapshot over a
\* sibling node's newer attempt/graph state").  Only the repair of a merge
\* conflict takes one back, and a worker that times out, which marks the last
\* attempt of the history for its own.
ApprovalsSurvive ==
    [][\A i \in DOMAIN History : Approved(History[i]) =>
        \/ Approved(History'[i])
        \/ History'[i].phase = "merged"
        \/ i = Len(past) + 1 /\ (mem.repair = "merge_conflict" \/ TimingOut)]_parVars

\* However batches, retries and kills follow each other, no two attempts of
\* one node are approved: no node is merged with two different worktrees.
OneApprovalPerNode ==
    \A i, j \in DOMAIN History :
        /\ History[i].phase \in {"approved", "merged"}
        /\ History[j].phase \in {"approved", "merged"}
        /\ History[i].node = History[j].node
        => i = j

\* "Respect max_parallel_nodes" (docs/EVOLUTION.md:292), also for the attempts
\* a killed batch has left registered: what a batch registers it works on,
\* and never more than max_parallel_nodes at a time.
WithinMaxParallel ==
    /\ Cardinality(Running) <= MaxParallel
    /\ \A n \in Nodes : worker[n].stage # "idle" =>
        running[n] \in DOMAIN History /\ History[running[n]].node = n

\* "Merge queue preserves base branch integrity" (docs/EVOLUTION.md:314): what
\* is taken off the queue is an attempt the reviewer approved and whose
\* implementer succeeded, and its base commit holds all its node depends on.
QueueMergesApproved ==
    Draining /\ Found # 0 =>
        /\ Entry.decision = "approve" /\ Entry.exit = "ok"
        /\ Entry.phase \in {"approved", "merged"}
        /\ graph.deps[Entry.node] \subseteq Entry.base

\* The graph and the base branch agree, for every attempt of the history.
BaseMatchesGraph ==
    /\ \A n \in graph.nodes : graph.status[n] = "passed" => n \in base
    /\ \A n \in base : graph.status[n] = "passed"
                       \/ \E i \in DOMAIN History : History[i].node = n /\ Approved(History[i])

\* The orchestrator keeps what Delivery promises with batches too: several
\* candidates at a time, landed one after the other.
ParPromise == INSTANCE Delivery WITH
    required   <- {n \in graph.nodes : graph.status[n] # "skipped"},
    deps       <- graph.deps,
    landed     <- base,
    candidates <- {History[i].node : i \in {j \in DOMAIN History : Approved(History[j])}},
    delivered  <- status = "done"

ParDeliveryImplemented == ParPromise!Spec

\* Where every phase succeeds and no runner is killed, the task is completed.
ParTaskCompletes == <>[](status = "done")
=============================================================================
