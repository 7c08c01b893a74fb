------------------------------ MODULE AutoLoop ------------------------------
(***************************************************************************)
(* The sequential auto loop: `cc-loop auto` on one task with               *)
(* max_parallel_nodes = 1 (cli._run_auto_loop, recovery.decide_auto_step   *)
(* and the phases of run.py).  state.json is the variables status,         *)
(* iteration, graph, past and att; one step is one save of it, one effect  *)
(* on git, or one passage from a phase to the next, so that a crash may    *)
(* fall between any two of them.  What providers, tests, git and the       *)
(* operator do is chosen from the sets in the constants.                   *)
(*                                                                         *)
(* Left out: status "interrupted" and "cancelled" (no step of the loop     *)
(* sets them), tasks without a graph (every planner result is turned into  *)
(* one), the wall-clock, log-size and file-count budgets (0, that is       *)
(* unlimited, by default) and plan_json (present exactly from              *)
(* worktree_created on).  A PreflightError ends the runner and changes     *)
(* nothing: it is a Crash at the loop head.                                *)
(***************************************************************************)
EXTENDS GraphPatch

CONSTANTS
    MaxIterations, MaxRetries,            \* max_iterations, max_retries_per_step
    MaxRecovery,                          \* max_recovery_attempts_per_iteration
    MaxMergeRecovery, MaxMergeRetries,    \* max_merge_recovery_attempts, max_merge_retries
    MaxConsecutive,                       \* max_consecutive_failures (0: no limit)
    AutoMerge, AllowNoTests, AllowWeakening,
    AutoRecoverMerge, AutoRecoverTests, AutoRecoverProvider,
    HasTestCommand,
    PlannerGraphs, Patches,               \* what the planner may plan, and patch
    Planner, Implementer, Writes, Tests, Reviewer, Merges, Replanner,
    MaxStarts, MaxMerges                  \* bounds: runs of `auto`, counted merge attempts

Contents  == {"clean", "untracked", "patch"}
Stops     == {"stop_fixable", "stop_tests", "stop_terminal"}
Decisions == {"approve", "reject", "replan"} \cup Stops
TestEnds  == {"passed", "failed", "failed_env", "timed_out"}
MergeErrs == {"conflict", "busy", "gone"}
Faults    == {"provider", "parse", "refused"}

ASSUME LimitsAssumption ==
    /\ {MaxIterations, MaxRetries, MaxRecovery, MaxMergeRecovery, MaxMergeRetries} \subseteq Nat
    /\ {MaxConsecutive, MaxStarts, MaxMerges} \subseteq Nat
    /\ {AutoMerge, AllowNoTests, AllowWeakening, HasTestCommand} \subseteq BOOLEAN
    /\ {AutoRecoverMerge, AutoRecoverTests, AutoRecoverProvider} \subseteq BOOLEAN
ASSUME PlannerAssumption ==
    /\ PlannerGraphs \subseteq Graph
    /\ \A g \in PlannerGraphs : g.nodes # {} /\ \A n \in Nodes : g.retries[n] = 0
    /\ Patches \subseteq Seq(PatchOp)
    /\ Planner \subseteq {"plan"} \cup Faults
ASSUME OutcomeAssumption ==
    /\ Implementer \subseteq {"ok", "error"} /\ Writes \subseteq Contents
    /\ Tests \subseteq TestEnds /\ Reviewer \subseteq Decisions \cup Faults
    /\ Merges \subseteq {"merged"} \cup MergeErrs /\ Replanner \subseteq {"patch", "refused"}

VARIABLES
    status, iteration, graph, \* state.json: TaskState.status, iteration, task_graph
    past, att,                \* history[:-1] and history[-1]; iter = 0 is "no history"
    content,                  \* what git shows in the attempt's worktree, against its base
    base,                     \* the nodes whose branch is merged into the base branch
    pc, mem,                  \* the runner process: where it is, and what it carries
    fresh,                    \* ghost: the verdicts given on the worktree as it now is
    calls, merges,            \* ghosts: implementer runs, merge attempts of this attempt
    starts                    \* how often `auto` was started

disk  == <<status, iteration, graph, past, att>>
world == <<content, base, fresh, calls, merges>>
vars  == <<disk, world, pc, mem, starts>>

Phases == {"preflight", "planning", "worktree_created", "executing", "testing", "reviewing",
           "approved", "rejected", "merged", "replanning", "failed"}

\* "none" is what state.json stores as null or as an empty string.
Attempt == [iter : Nat, retry : Nat, node : 0..MaxNodes, phase : Phases,
            exit : {"none", "ok", "error"},
            test : {"none", "skipped"} \cup TestEnds,
            decision : {"none"} \cup Decisions,
            mergeErr : {"none"} \cup MergeErrs,
            ftype : {"none", "patch_not_captured", "other"},
            rrc : Nat, mrc : Nat,             \* recovery_retry_count, merge_retry_count
            base : SUBSET Nodes]              \* the merged nodes that base_commit contains

BeginAttempt(i, r, n) ==
    [iter |-> i, retry |-> r, node |-> n, phase |-> IF i = 0 THEN "preflight" ELSE "planning",
     exit |-> "none", test |-> "none", decision |-> "none", mergeErr |-> "none", ftype |-> "none",
     rrc |-> 0, mrc |-> 0, base |-> base]

\* The failure that is being repaired; the phase that failed, and how.
MemType == [repair : {"none", "merge_conflict", "test_implementation", "patch_not_captured",
                      "provider_exit_error", "reviewer_stop_fixable"},
            phase : {"planning", "executing", "reviewing"},
            kind : Faults]

NoMem == [repair |-> "none", phase |-> "planning", kind |-> "refused"]

Goto(p) == pc' = p /\ mem' = NoMem

Init ==
    /\ status = "initialized" /\ iteration = 0 /\ graph = EmptyGraph /\ past = <<>>
    /\ base = {} /\ att = BeginAttempt(0, 0, 0)
    /\ content = "clean" /\ fresh = {} /\ calls = 0 /\ merges = 0
    /\ pc = "off" /\ mem = NoMem /\ starts = 0

----------------------------------------------------------------------------
(* failure.py: what a saved attempt is classified as.  "none" is None. *)

Recoverable == {"merge_conflict", "merge_worktree_busy", "test_implementation", "patch_not_captured",
                "reviewer_reject", "reviewer_stop_fixable", "provider_exit_error"}

\* Mutant: every merge error is taken for a conflict.
AnyMergeErrorConflicts(err) == "merge_conflict"

\* What classify_merge_failure makes of the message it stored itself: the
\* message for a busy base branch lacks the words it looks for.
MergeReport(err) ==
    CASE err = "conflict" -> "merge_conflict"
      [] err = "busy"     -> "merge_unknown"
      [] err = "gone"     -> "merge_branch_missing"

ReviewerGatePassed(a) == a.decision = "approve"

NoTestsAllowed(n) ==
    IF n \in graph.nodes THEN AllowsMergeWithoutTests(graph, n, AllowNoTests, AllowWeakening)
    ELSE AllowNoTests

\* Mutant: failed tests do not block a merge retry.
BlockedOnlyByMissingTests(a) ==
    ReviewerGatePassed(a) /\ a.test = "skipped" /\ ~NoTestsAllowed(a.node)

MergeBlockedByTestGate(a) ==
    /\ ReviewerGatePassed(a)
    /\ \/ a.test \in {"failed", "failed_env", "timed_out"}
       \/ a.test = "skipped" /\ ~NoTestsAllowed(a.node)

ReviewerReport(a) ==
    CASE a.decision \in {"reject", "replan"} -> "reviewer_reject"
      [] a.decision = "stop_tests"           -> "test_implementation"
      [] a.decision = "stop_fixable"         -> "reviewer_stop_fixable"
      [] a.decision = "stop_terminal"        -> "reviewer_stop_terminal"
      [] OTHER                               -> "none"

TestReport(a) ==
    CASE a.test = "failed"                    -> "test_implementation"
      [] a.test \in {"failed_env", "timed_out"} -> "test_environment"
      [] OTHER                                -> "none"

PatchUnresolved(a) == a.ftype = "patch_not_captured" /\ content # "patch"

\* classify_attempt_outcome
AttemptReport(a) ==
    IF a.mergeErr # "none" THEN MergeReport(a.mergeErr)
    ELSE IF ReviewerGatePassed(a) THEN
        IF status = "stopped" /\ a.phase = "approved" /\ MergeBlockedByTestGate(a)
        THEN "test_gate_blocked" ELSE "none"
    ELSE IF PatchUnresolved(a) THEN "patch_not_captured"
    ELSE IF a.ftype = "patch_not_captured" THEN "none"
    ELSE IF ReviewerReport(a) # "none" THEN ReviewerReport(a)
    ELSE IF a.test \in {"failed", "failed_env", "timed_out"} THEN TestReport(a)
    ELSE IF status = "failed" \/ a.phase = "failed" THEN "attempt_failed"
    ELSE "none"

----------------------------------------------------------------------------
(* recovery.py and budgets.py: what the loop does next. *)

RecoveryBudgetRemaining(a, report) ==
    CASE report = "merge_worktree_busy"   -> a.mrc < MaxMergeRetries
      [] report = "merge_conflict"        -> AutoRecoverMerge /\ a.rrc < MaxMergeRecovery
      [] report \in {"test_implementation", "patch_not_captured"}
                                          -> AutoRecoverTests /\ a.rrc < MaxRecovery
      [] report = "provider_exit_error"   -> AutoRecoverProvider /\ a.rrc < MaxRecovery
      [] report = "reviewer_stop_fixable" -> a.rrc < MaxRecovery
      [] report = "reviewer_reject"       -> a.retry < MaxRetries
      [] OTHER                            -> FALSE

\* Mutant: only merge retries are counted.
CountMergeRetriesOnly(a, report) ==
    IF report = "merge_worktree_busy" THEN [a EXCEPT !.mrc = @ + 1] ELSE a

IncrementRecoveryCounter(a, report) ==
    IF report = "merge_worktree_busy" THEN [a EXCEPT !.mrc = @ + 1]
    ELSE IF report \in Recoverable THEN [a EXCEPT !.rrc = @ + 1]
    ELSE a

\* count_consecutive_failures reads the history backwards until an attempt
\* that merged or was approved.
CountsAsFailure(a) == a.phase = "failed" \/ (a.phase = "rejected" /\ a.decision = "reject")

ConsecutiveFailures ==
    LET history == Append(past, att)
        Breaks(a) == ~CountsAsFailure(a) /\ (a.phase = "merged" \/ a.decision = "approve")
    IN  Cardinality({i \in DOMAIN history :
            /\ CountsAsFailure(history[i])
            /\ \A j \in DOMAIN history : j > i => ~Breaks(history[j])})

BudgetStop == att.iter > 0 /\ MaxConsecutive > 0 /\ ConsecutiveFailures >= MaxConsecutive

Go(step, report) == [step |-> step, report |-> report]

\* An approved attempt of a stopped task is merged, or repaired, or stops.
DecideApproved(a) ==
    LET report == MergeReport(a.mergeErr)
    IN  IF a.mergeErr = "none" THEN
            IF MergeBlockedByTestGate(a) THEN Go("terminal", "test_gate_blocked")
            ELSE Go("merge_retry", "none")
        ELSE IF /\ report \in Recoverable
                /\ ~RecoveryBudgetRemaining(a, report) THEN Go("terminal", "budget_exhausted")
        ELSE IF report = "merge_conflict" THEN Go("repair", report)
        ELSE Go("merge_retry", report)

Repairable == {"merge_conflict", "test_implementation", "patch_not_captured",
               "provider_exit_error", "reviewer_stop_fixable"}

\* Any other attempt goes by what its failure is classified as, then by status.
DecideReported(a) ==
    LET outcome == AttemptReport(a)
        report  == IF outcome # "patch_not_captured" /\ ReviewerReport(a) # "none"
                   THEN ReviewerReport(a) ELSE outcome
    IN  IF a.decision = "replan" /\ report # "none" THEN Go("replan", report)
        ELSE IF status = "stopped" /\ a.phase = "rejected" /\ a.retry >= MaxRetries
            THEN Go("terminal", "retry_exhausted")
        ELSE IF report # "none" /\ report \notin Recoverable THEN Go("terminal", report)
        ELSE IF report # "none" /\ ~RecoveryBudgetRemaining(a, report)
            THEN Go("terminal", "budget_exhausted")
        ELSE IF report = "merge_worktree_busy" THEN Go("merge_retry", report)
        ELSE IF report \in Repairable THEN Go("repair", report)
        ELSE IF status = "stopped" /\ a.phase = "merged" THEN Go("run", report)
        ELSE Go("resume", report)

\* decide_auto_step
DecideAutoStep ==
    CASE BudgetStop            -> Go("terminal", "budget_exhausted")
      [] OTHER ->
    CASE status = "replanning" -> Go("replan", "none")
      [] status = "done"       -> Go("done", "none")
      [] status = "failed"     -> Go("terminal", "provider_exit_error")
      [] OTHER ->
        IF att.iter = 0 THEN Go("run", "none")
        ELSE IF status = "stopped" /\ att.phase = "approved" /\ ReviewerGatePassed(att)
            THEN DecideApproved(att)
        ELSE DecideReported(att)

----------------------------------------------------------------------------
(* The loop head: reload, check the budgets, recheck an uncaptured patch,  *)
(* decide, dispatch.                                                       *)

Start ==
    /\ pc = "off" /\ starts < MaxStarts
    /\ starts' = starts + 1
    /\ Goto("loop")
    /\ UNCHANGED <<disk, world>>

\* reconcile_patch_not_captured clears the failure once git sees the patch.
Reconciled(a) == [a EXCEPT !.ftype = "none", !.exit = IF @ = "none" THEN "ok" ELSE @]

ReconcilePending == att.ftype = "patch_not_captured" /\ content = "patch"

Reconcile ==
    /\ pc = "loop" /\ ~BudgetStop /\ ReconcilePending
    /\ att' = Reconciled(att)
    /\ UNCHANGED <<status, iteration, graph, past, world, pc, mem, starts>>

Dispatch(step) ==
    /\ pc = "loop"
    /\ BudgetStop \/ ~ReconcilePending
    /\ DecideAutoStep.step = step

AutoDone ==
    /\ Dispatch("done")
    /\ Goto("off")
    /\ UNCHANGED <<disk, world, starts>>

\* _handle_terminal_auto_stop stores the report on the attempt, and exits.
AutoTerminal ==
    /\ Dispatch("terminal")
    /\ att' = [att EXCEPT !.ftype = "other"]
    /\ Goto("off")
    /\ UNCHANGED <<status, iteration, graph, past, world, starts>>

\* A new worktree, at the base branch as it now is.
NewWorktree ==
    /\ content' = "clean" /\ fresh' = {} /\ calls' = 0 /\ merges' = 0
    /\ UNCHANGED base

\* execute_run: a new iteration, saved with the graph g the loop holds.
AutoRunOn(g) ==
    /\ Dispatch("run") /\ iteration < MaxIterations
    /\ iteration' = iteration + 1
    /\ past' = IF att.iter = 0 THEN past ELSE Append(past, att)
    /\ att' = BeginAttempt(iteration + 1, 0, 0)
    /\ status' = "running"
    /\ graph' = g
    /\ NewWorktree
    /\ Goto("plan")
    /\ UNCHANGED starts

AutoRun == AutoRunOn(graph)

\* RunError: max_iterations is reached.
AutoRunRefused ==
    /\ Dispatch("run") /\ iteration >= MaxIterations
    /\ Goto("off")
    /\ UNCHANGED <<disk, world, starts>>

\* execute_resume on a rejected attempt: a new attempt of the same node.
ResumeRetry ==
    /\ Dispatch("resume") /\ att.phase = "rejected" /\ att.retry < MaxRetries
    /\ past' = Append(past, att)
    /\ att' = BeginAttempt(att.iter, att.retry + 1, att.node)
    /\ status' = "running"
    /\ NewWorktree
    /\ Goto("plan")
    /\ UNCHANGED <<iteration, graph, starts>>

\* execute_resume on an approved attempt: straight to the merge.
ResumeFinalize ==
    /\ \/ Dispatch("merge_retry")
       \/ Dispatch("resume")
    /\ att.phase = "approved"
    /\ att' = IF DecideAutoStep.step = "merge_retry"
              THEN IncrementRecoveryCounter(att, DecideAutoStep.report) ELSE att
    /\ Goto("finalize")
    /\ UNCHANGED <<status, iteration, graph, past, world, starts>>

\* Mutant: a tested attempt is taken for a finished one.
NeedsContinuationUntilTested(a) ==
    \/ a.phase = "approved"
    \/ /\ a.phase \notin {"merged", "failed", "rejected"}
       /\ a.exit = "ok" => a.test = "none"
       /\ a.exit = "error" => a.phase \in {"executing", "testing", "reviewing"}

AttemptNeedsContinuation(a) ==
    \/ a.phase = "approved"
    \/ /\ a.phase \notin {"merged", "failed", "rejected"}
       /\ a.exit = "ok" => a.test = "none" \/ a.decision = "none"
       /\ a.exit = "error" => a.phase \in {"executing", "testing", "reviewing"}

ResumePoint(phase) ==
    CASE phase \in {"preflight", "planning"}           -> "plan"
      [] phase \in {"worktree_created", "executing"}   -> "impl"
      [] phase = "testing"                             -> "test"
      [] phase = "reviewing"                           -> "review"

\* execute_resume on any other attempt: from the phase it was left in.
ResumeFrom ==
    /\ Dispatch("resume") /\ att.phase # "approved" /\ AttemptNeedsContinuation(att)
    /\ status' = "running"
    /\ Goto(ResumePoint(att.phase))
    /\ UNCHANGED <<iteration, graph, past, att, world, starts>>

\* ResumeError: the runner exits.  It takes a repair killed before it started:
\* its attempt is rejected, without the decision that is to be repaired.
ResumeRefused ==
    /\ Dispatch("resume") /\ att.phase # "approved"
    /\ ~AttemptNeedsContinuation(att)
    /\ ~(att.phase = "rejected" /\ att.retry < MaxRetries)
    /\ Goto("off")
    /\ UNCHANGED <<disk, world, starts>>

AutoRepair ==
    /\ Dispatch("repair")
    /\ att' = IncrementRecoveryCounter(att, DecideAutoStep.report)
    /\ pc' = "repair" /\ mem' = [NoMem EXCEPT !.repair = DecideAutoStep.report]
    /\ UNCHANGED <<status, iteration, graph, past, world, starts>>

AutoReplan ==
    /\ Dispatch("replan")
    /\ status' = "replanning"
    /\ att' = [att EXCEPT !.phase = "replanning"]
    /\ Goto("replan")
    /\ UNCHANGED <<iteration, graph, past, world, starts>>

----------------------------------------------------------------------------
(* A phase that fails: the task is saved as failed, the exception reaches  *)
(* the loop, which saves it as stopped again, then decides.                *)

\* _mark_planning_failed, _mark_implementer_failed, _mark_review_failed on
\* attempt a and graph g: all one save.  Unless the exception is one of the
\* orchestrator's own refusals, a save of its own stored a report just before;
\* the two are one step here, and a kill between them is one before both.
MarkFailed(a, g, phase, kind) ==
    /\ status' = "failed"
    /\ graph' = IF a.node \in g.nodes THEN SetStatus(g, a.node, "failed") ELSE g
    /\ att' = [a EXCEPT !.phase = "failed", !.ftype = IF kind = "refused" THEN @ ELSE "other"]
    /\ pc' = "reset" /\ mem' = [NoMem EXCEPT !.phase = phase, !.kind = kind]
    /\ UNCHANGED <<iteration, past, starts>>

\* soft_reset_provider_failure
SoftReset ==
    /\ pc = "reset"
    /\ status' = "stopped"
    /\ att' = [att EXCEPT !.phase = mem.phase]
    /\ pc' = "handle"
    /\ UNCHANGED <<iteration, graph, past, world, mem, starts>>

\* The rest of _handle_provider_auto_failure: the failure is stored, and the
\* loop goes on while its budget lasts; the counter is left as it is.
HandleFailure ==
    /\ pc = "handle"
    /\ att' = [att EXCEPT !.ftype = "other"]
    /\ Goto(IF mem.kind # "parse" /\ RecoveryBudgetRemaining(att, "provider_exit_error")
            THEN "loop" ELSE "off")
    /\ UNCHANGED <<status, iteration, graph, past, world, starts>>

----------------------------------------------------------------------------
(* run_planning_phase *)

Planned(a, n) == [a EXCEPT !.node = n, !.phase = "worktree_created"]

\* The first iteration asks the planner (or, in direct mode, makes a graph of
\* one node): the graph is stored with its first runnable node running.
PlannerPlans ==
    /\ pc = "plan" /\ graph.nodes = {} /\ "plan" \in Planner
    /\ \E planned \in PlannerGraphs :
        LET g == AfterScan(PlannedGraph(planned), MaxRetries, 1, {})
        IN  IF Runnable(g, MaxRetries, {}) = {}
            THEN MarkFailed(att, g, "planning", "refused")
            ELSE \E n \in NextRunnableNodes(g, MaxRetries, 1, {}) :
                 /\ graph' = SetStatus(g, n, "running")
                 /\ att' = [Planned(att, n) EXCEPT !.ftype = "none"]
                 /\ Goto("impl")
                 /\ UNCHANGED <<status, iteration, past, starts>>
    /\ UNCHANGED world

\* The planner fails, or answers nonsense, or git cannot add the worktree.
PlannerFails ==
    /\ pc = "plan" /\ graph.nodes = {}
    /\ \E kind \in Planner \cap Faults : MarkFailed(att, graph, "planning", kind)
    /\ UNCHANGED world

\* Mutant: a retry takes the next runnable node.
NextNodes == NextRunnableNodes(graph, MaxRetries, 1, {})

\* _run_graph_node_setup: later attempts take the node they retry, or the
\* next runnable one.
SetupNodes ==
    IF att.node # 0 THEN {att.node} ELSE NextRunnableNodes(graph, MaxRetries, 1, {})

SetupGraph == IF att.node # 0 THEN graph ELSE AfterScan(graph, MaxRetries, 1, {})

NodeSetup ==
    /\ pc = "plan" /\ graph.nodes # {}
    /\ \E n \in SetupNodes :
        /\ graph' = SetStatus(SetupGraph, n, "running")
        /\ att' = Planned(att, n)
    /\ Goto("impl")
    /\ UNCHANGED <<status, iteration, past, world, starts>>

NoRunnableNode ==
    /\ pc = "plan" /\ graph.nodes # {} /\ SetupNodes = {}
    /\ MarkFailed(att, SetupGraph, "planning", "refused")
    /\ UNCHANGED world

\* git cannot add the worktree.
SetupFails ==
    /\ pc = "plan" /\ graph.nodes # {} /\ "refused" \in Planner
    /\ \E n \in SetupNodes : MarkFailed([att EXCEPT !.node = n], SetupGraph, "planning", "refused")
    /\ UNCHANGED world

----------------------------------------------------------------------------
(* run_implementer_phase, and the implementer run of a repair. *)

StartImplementer(repair) ==
    /\ att' = [att EXCEPT !.phase = "executing"]
    /\ calls' = calls + 1
    /\ pc' = "implRun" /\ mem' = [NoMem EXCEPT !.repair = repair]
    /\ UNCHANGED <<status, iteration, graph, past, content, base, fresh, merges, starts>>

ImplStart == pc = "impl" /\ att.exit = "none" /\ StartImplementer("none")

\* After the implementer phase an uncaptured patch stops the attempt.
ImplAlreadyDone ==
    /\ pc = "impl" /\ att.exit = "ok"
    /\ Goto(IF att.ftype = "patch_not_captured" THEN "stopPatch" ELSE "test")
    /\ UNCHANGED <<disk, world, starts>>

ImplAlreadyFailed ==
    /\ pc = "impl" /\ att.exit = "error"
    /\ MarkFailed(att, graph, "executing", "refused")
    /\ UNCHANGED world

\* The provider process changes files in the worktree while it runs.
ImplWrite ==
    /\ pc = "implRun"
    /\ content' \in Writes
    /\ fresh' = {}
    /\ UNCHANGED <<disk, base, calls, merges, pc, mem, starts>>

\* classify_uncaptured_patch: changes in the worktree, and no commit has them.
UncapturedPatch == content = "untracked"

\* _record_uncaptured_patch_if_needed and _clear_resolved_patch_not_captured
PatchRecorded(a) ==
    CASE a.exit = "ok" /\ UncapturedPatch -> [a EXCEPT !.ftype = "patch_not_captured"]
      [] a.ftype = "patch_not_captured" /\ ~UncapturedPatch -> [a EXCEPT !.ftype = "none"]
      [] OTHER -> a

\* A repair of anything else than an uncaptured patch goes on to the tests.
ImplEnd ==
    /\ pc = "implRun"
    /\ \E exit \in Implementer :
        LET after == PatchRecorded([att EXCEPT !.exit = exit])
        IN  /\ att' = after
            /\ pc' = CASE exit = "error" -> "implFailed"
                       [] /\ exit = "ok" /\ after.ftype = "patch_not_captured"
                          /\ mem.repair \in {"none", "patch_not_captured"} -> "stopPatch"
                       [] OTHER -> "test"
    /\ mem' = [mem EXCEPT !.repair = IF pc' = "implFailed" THEN @ ELSE "none"]
    /\ UNCHANGED <<status, iteration, graph, past, world, starts>>

\* A repair run stores no provider report of its own.
ImplFailed ==
    /\ pc = "implFailed"
    /\ MarkFailed(att, graph, "executing", IF mem.repair = "none" THEN "provider" ELSE "refused")
    /\ UNCHANGED world

\* _stop_for_patch_not_captured
StopForPatch ==
    /\ pc = "stopPatch"
    /\ status' = "stopped"
    /\ Goto("loop")
    /\ UNCHANGED <<iteration, graph, past, att, world, starts>>

\* The operator commits the files the implementer left uncommitted.
OperatorCommits ==
    /\ pc # "implRun" /\ content = "untracked"
    /\ content' = "patch"
    /\ UNCHANGED <<disk, base, fresh, calls, merges, pc, mem, starts>>

----------------------------------------------------------------------------
(* run_test_phase and run_review_phase *)

TestStart ==
    /\ pc = "test" /\ att.test = "none"
    /\ att' = [att EXCEPT !.phase = "testing"]
    /\ Goto("testRun")
    /\ UNCHANGED <<status, iteration, graph, past, world, starts>>

TestEnd ==
    /\ pc = "testRun"
    /\ \E result \in (IF HasTestCommand THEN Tests ELSE {"skipped"}) :
        att' = [att EXCEPT !.test = result]
    /\ fresh' = fresh \cup {"test"}
    /\ Goto("review")
    /\ UNCHANGED <<status, iteration, graph, past, content, base, calls, merges, starts>>

TestAlreadyDone ==
    /\ pc = "test" /\ att.test # "none"
    /\ Goto("review")
    /\ UNCHANGED <<disk, world, starts>>

ReviewStart ==
    /\ pc = "review" /\ att.decision = "none"
    /\ att' = [att EXCEPT !.phase = "reviewing"]
    /\ Goto("reviewRun")
    /\ UNCHANGED <<status, iteration, graph, past, world, starts>>

\* The decision is the one the reviewers of the chain add up to.
ReviewEnd ==
    /\ pc = "reviewRun"
    /\ \E d \in Reviewer \cap Decisions :
        att' = IF d = "approve"
               THEN [att EXCEPT !.decision = d, !.phase = "approved", !.ftype = "none"]
               ELSE [att EXCEPT !.decision = d, !.phase = "rejected"]
    /\ fresh' = fresh \cup {"review"}
    /\ Goto("finalize")
    /\ UNCHANGED <<status, iteration, graph, past, content, base, calls, merges, starts>>

ReviewFails ==
    /\ pc = "reviewRun"
    /\ \E kind \in Reviewer \cap Faults : MarkFailed(att, graph, "reviewing", kind)
    /\ UNCHANGED world

ReviewAlreadyDone ==
    /\ pc = "review" /\ att.decision # "none"
    /\ Goto("finalize")
    /\ UNCHANGED <<disk, world, starts>>

----------------------------------------------------------------------------
(* _run_finalize_phase *)

CanAutoMerge(a) ==
    /\ AutoMerge
    /\ a.exit = "ok" /\ a.decision = "approve"
    /\ a.test \notin {"failed", "failed_env", "timed_out"}
    /\ ~(a.node \in graph.nodes /\ graph.manual[a.node])
    /\ a.test = "skipped" => NoTestsAllowed(a.node)

FinalizeStop ==
    /\ pc = "finalize" /\ att.decision \in Stops \cup {"replan"}
    /\ status' = "stopped"
    /\ Goto("loop")
    /\ UNCHANGED <<iteration, graph, past, att, world, starts>>

FinalizeReject ==
    /\ pc = "finalize" /\ att.decision = "reject"
    /\ graph' = IF att.node \in graph.nodes THEN MarkRejected(graph, att.node) ELSE graph
    /\ status' = "stopped"
    /\ Goto("loop")
    /\ UNCHANGED <<iteration, past, att, world, starts>>

\* Approved, or without a decision, but not to be merged automatically.
FinalizeHold ==
    /\ pc = "finalize" /\ att.decision \in {"none", "approve"} /\ ~CanAutoMerge(att)
    /\ status' = "stopped"
    /\ att' = IF MergeBlockedByTestGate(att) THEN [att EXCEPT !.ftype = "other"] ELSE att
    /\ Goto("loop")
    /\ UNCHANGED <<iteration, graph, past, world, starts>>

\* commit_worktree_changes: whatever is in the worktree is in its branch.
CommitWorktree == content' = IF content = "untracked" THEN "patch" ELSE content

CountMerge == merges' = IF merges < MaxMerges THEN merges + 1 ELSE merges

\* commit_worktree_changes and merge_branch_into_base succeed in git ...
MergeInGit ==
    /\ pc = "finalize" /\ CanAutoMerge(att) /\ "merged" \in Merges
    /\ CommitWorktree
    /\ base' = base \cup {att.node}
    /\ CountMerge
    /\ Goto("merged")
    /\ UNCHANGED <<disk, fresh, calls, starts>>

\* ... and one save records it.
MergeRecorded ==
    /\ pc = "merged"
    /\ att' = [att EXCEPT !.mergeErr = "none", !.phase = "merged", !.ftype = "none"]
    /\ graph' = SetStatus(graph, att.node, "passed")
    /\ status' = IF GraphComplete(graph') THEN "done" ELSE "stopped"
    /\ Goto("loop")
    /\ UNCHANGED <<iteration, past, world, starts>>

\* Git fails to merge; a branch that is already in the base cannot conflict.
MergeFails ==
    /\ pc = "finalize" /\ CanAutoMerge(att)
    /\ CommitWorktree
    /\ \E err \in Merges \cap MergeErrs :
        /\ err = "conflict" => att.node \notin base
        /\ att' = [att EXCEPT !.mergeErr = err, !.ftype = "other"]
    /\ CountMerge
    /\ status' = "stopped"
    /\ Goto("loop")
    /\ UNCHANGED <<iteration, graph, past, base, fresh, calls, starts>>

----------------------------------------------------------------------------
(* execute_repair_recovery and execute_replan *)

RepairSkipped ==
    /\ pc = "repair" /\ mem.repair = "patch_not_captured" /\ ReconcilePending
    /\ att' = Reconciled(att)
    /\ status' = "running"
    /\ Goto("test")
    /\ UNCHANGED <<iteration, graph, past, world, starts>>

\* Mutant: the test verdict survives the repair.
ResetReviewOnly(a) ==
    [a EXCEPT !.exit = "none", !.decision = "none", !.mergeErr = "none"]

\* _reset_attempt_downstream_for_repair
ResetDownstream(a) ==
    [a EXCEPT !.exit = "none", !.test = "none", !.decision = "none", !.mergeErr = "none"]

RepairReset ==
    /\ pc = "repair"
    /\ ~(mem.repair = "patch_not_captured" /\ ReconcilePending)
    /\ att' = [ResetDownstream(att) EXCEPT
                  !.ftype = IF mem.repair = "patch_not_captured" THEN mem.repair ELSE "other"]
    /\ status' = "running"
    /\ pc' = "repairRun"
    /\ UNCHANGED <<iteration, graph, past, world, mem, starts>>

RepairStart == pc = "repairRun" /\ StartImplementer(mem.repair)

\* The planner's patch is applied; the reviewer's decision stays in place.
ReplanApplied ==
    /\ pc = "replan" /\ "patch" \in Replanner
    /\ \E patch \in Patches :
        /\ PatchValid(graph, patch)
        /\ graph' = ApplyPatch(graph, patch)
    /\ att' = [att EXCEPT !.phase = "worktree_created"]
    /\ status' = "stopped"
    /\ Goto("loop")
    /\ UNCHANGED <<iteration, past, world, starts>>

\* The planner fails, or its patch is not valid: PlanningError.
ReplanFails ==
    /\ pc = "replan"
    /\ \/ "refused" \in Replanner
       \/ "patch" \in Replanner /\ \E patch \in Patches : ~PatchValid(graph, patch)
    /\ pc' = "reset" /\ mem' = NoMem
    /\ UNCHANGED <<disk, world, starts>>

----------------------------------------------------------------------------

\* The runner is killed, or the machine stops: what was saved remains.  The
\* last run that MaxStarts allows is not killed.
Crash ==
    /\ pc # "off" /\ starts < MaxStarts
    /\ Goto("off")
    /\ UNCHANGED <<disk, world, starts>>

\* Every step of the loop but the one that starts an iteration.
DispatchStep ==
    \/ Reconcile \/ AutoDone \/ AutoTerminal
    \/ ResumeRetry \/ ResumeFinalize \/ ResumeFrom \/ ResumeRefused
    \/ AutoRepair \/ AutoReplan \/ SoftReset \/ HandleFailure

LoopStep == DispatchStep \/ AutoRun \/ AutoRunRefused

PhaseStep ==
    \/ PlannerPlans \/ PlannerFails \/ NodeSetup \/ NoRunnableNode \/ SetupFails
    \/ ImplStart \/ ImplAlreadyDone \/ ImplAlreadyFailed \/ ImplEnd \/ ImplFailed \/ StopForPatch
    \/ TestStart \/ TestEnd \/ TestAlreadyDone
    \/ ReviewStart \/ ReviewEnd \/ ReviewFails \/ ReviewAlreadyDone
    \/ FinalizeStop \/ FinalizeReject \/ FinalizeHold
    \/ MergeInGit \/ MergeRecorded \/ MergeFails
    \/ RepairSkipped \/ RepairReset \/ RepairStart \/ ReplanApplied \/ ReplanFails

RunnerStep == LoopStep \/ PhaseStep

Next == Start \/ RunnerStep \/ ImplWrite \/ OperatorCommits \/ Crash

Spec == Init /\ [][Next]_vars

\* A started runner keeps running: providers and tests are killed at their
\* timeouts, so every phase returns.
LiveSpec == Spec /\ WF_vars(RunnerStep)

\* Moreover the operator starts `auto` again after it exits or is killed.
RestartSpec == LiveSpec /\ WF_vars(Start)

----------------------------------------------------------------------------
(* Properties *)

PCs == {"off", "loop", "repair", "repairRun", "replan", "reset", "handle", "plan", "impl", "implRun",
        "implFailed", "stopPatch", "test", "testRun", "review", "reviewRun", "finalize", "merged"}

\* The types of the variables.
TypeOK ==
    /\ status \in {"initialized", "running", "stopped", "failed", "done", "replanning"}
    /\ iteration \in Nat
    /\ graph \in Graph
    /\ past \in Seq(Attempt)
    /\ att \in Attempt
    /\ content \in Contents
    /\ base \subseteq Nodes
    /\ pc \in PCs
    /\ mem \in MemType
    /\ fresh \subseteq {"test", "review"}
    /\ calls \in Nat /\ merges \in Nat /\ starts \in Nat

\* Whatever crashes, repairs and retries came before, what is merged is the
\* worktree the reviewer approved, and the tests judged if they were run at
\* all: the implementer succeeded, no test failed, and tests are skipped only
\* where the task or, if it lets its nodes weaken the policy, the node does
\* without them (_run_finalize_phase).  That they may not have been run is
\* what TestsGateMerge of AutoLoopClaims is about.
OnlyJudgedWorkMerges ==
    pc = "merged" =>
        /\ "review" \in fresh /\ att.exit = "ok" /\ att.decision = "approve"
        /\ att.test # "none" => "test" \in fresh
        /\ \/ att.test \in {"none", "passed"}
           \/ /\ att.test = "skipped" /\ graph.allow[att.node] # "forbid"
              /\ AllowNoTests \/ (AllowWeakening /\ graph.allow[att.node] = "allow")
        /\ ~graph.manual[att.node]

\* An attempt works on a base commit that holds every dependency of its node,
\* in spite of replanning, retries and restarts between the two
\* (_begin_attempt takes the base, run_planning_phase the node).
DependenciesInBase ==
    att.node # 0 => graph.deps[att.node] \subseteq att.base

\* The graph and the base branch agree: a passed node is merged, and a merged
\* node is passed, unless it is the approved attempt whose merge a crash kept
\* from being recorded, which no step but the next merge may touch.
PassedIsMerged ==
    /\ \A n \in graph.nodes : graph.status[n] = "passed" => n \in base
    /\ \A n \in base : \/ graph.status[n] = "passed"
                       \/ n = att.node /\ att.phase = "approved" /\ att.decision = "approve"

\* A task is done only when each of its nodes was skipped, or has passed and
\* is in the base branch together with all it depends on.
DoneMeansDelivered ==
    status = "done" =>
        \A n \in graph.nodes :
            \/ graph.status[n] = "skipped"
            \/ graph.status[n] = "passed" /\ graph.deps[n] \cup {n} \subseteq base

\* The history is a chain: a rejected attempt is followed by the next retry of
\* its node, a merged one by the first attempt of the next iteration, nothing
\* else is ever left behind, and no node is merged twice (prepare_run,
\* _begin_retry_attempt: "without corrupting history").
HistorySettled ==
    LET history == Append(past, att)
    IN  /\ att.iter = iteration
        /\ \A i \in DOMAIN past :
            LET this == history[i]
                next == history[i+1]
            IN  \/ /\ this.phase = "rejected"
                   /\ next.iter = this.iter /\ next.retry = this.retry + 1
                   /\ next.node = this.node
                \/ /\ this.phase = "merged"
                   /\ next.iter = this.iter + 1 /\ next.retry = 0
        /\ \A i, j \in DOMAIN history :
            i # j /\ history[i].phase = "merged" /\ history[j].phase = "merged"
                => history[i].node # history[j].node

\* What the limits of the configuration bound, over any number of restarts:
\* iterations, retries, repairs, and with them the implementer runs of one
\* attempt, which only a killed runner may add to; and rejections in a row.
EffortBounded ==
    /\ iteration <= MaxIterations /\ att.retry <= MaxRetries
    /\ att.rrc <= MaxRecovery \/ att.rrc <= MaxMergeRecovery
    /\ starts > 0 => calls <= att.rrc + starts
    /\ MaxConsecutive > 0 =>
        Cardinality({i \in DOMAIN past : past[i].iter = att.iter /\ past[i].decision = "reject"})
            < MaxConsecutive

SameAttempt == att'.iter = att.iter /\ att'.retry = att.retry

\* An approved attempt is merged or stays approved: nothing but the repair of
\* a merge conflict takes it back to the implementer, the tests or the review.
ApprovedStays ==
    [][att.phase = "approved" /\ att.decision = "approve" =>
        /\ SameAttempt
        /\ \/ att'.phase \in {"approved", "merged"} /\ att'.decision = "approve"
           \/ att.mergeErr = "conflict" /\ mem.repair = "merge_conflict"]_vars

\* A passed node stays passed, whatever fails or is replanned after it.
PassedIsFinal ==
    [][\A n \in Nodes : graph.status[n] = "passed" => graph'.status[n] = "passed"]_vars

\* The orchestrator keeps what Delivery promises: the graph is the plan, the
\* approved attempt the candidate.
Promise == INSTANCE Delivery WITH
    required   <- {n \in graph.nodes : graph.status[n] # "skipped"},
    deps       <- graph.deps,
    landed     <- base,
    candidates <- IF att.phase = "approved" /\ att.decision = "approve" THEN {att.node} ELSE {},
    delivered  <- status = "done"

DeliveryImplemented == Promise!AloneSpec

\* A run of auto comes to an end.
AutoStops == pc = "loop" ~> pc = "off"

\* Where every phase succeeds, the task is completed however often the runner
\* is killed on the way, between any two saves and between the merge in git
\* and its record.
TaskCompletes == <>[](status = "done")
=============================================================================
