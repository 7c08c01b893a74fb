# cc-loop: verification project

`cc-loop` (`src/src/cc_loop/`) drives coding agents through a bounded loop on a git
repository: a planner makes a task graph, and for each node of it an implementer edits
a worktree, the tests run, reviewers judge, and approved work is merged into the base
branch. Everything the loop decides by is in one file, `state.json`; the runner may be
killed at any point and is started again on what that file says.

This directory holds TLA+ models of that program, the TLC configurations that check
them on small instances, and theorems about them checked by TLAPS. Paths below are
relative to `src/src/cc_loop/` unless they start with `src/`.

1. [The system](#1-the-system): inventory of the components
2. [The plan](#2-the-plan)
3. [The modules and the code](#3-the-modules-and-the-code)
4. [What the runs show](#4-what-the-runs-show)
5. [What the documents promise and the code does not keep](#5-what-the-documents-promise-and-the-code-does-not-keep)
6. [What is proved](#6-what-is-proved)
7. [What is not modelled](#7-what-is-not-modelled)
8. [Running the checks](#8-running-the-checks)

## 1. The system

    cli.cmd_auto ──> _run_auto_loop ──> recovery.decide_auto_step ──> failure.classify_*
                        │ run / resume / merge_retry / repair / replan / terminal / done
                        v
                     run.py phases:  planning -> implementer -> tests -> review -> finalize
                        │                │            │          │         │
                     task_graph       provider    test command  reviewers  git merge
                     graph_patch      (worktree)
                        v
                     state.save_state ──> state.json          (every arrow may be cut by a kill)

### Components

**Task graph** (`task_graph.py`). State: nodes with a status (pending, running, passed,
failed, rejected, blocked, skipped), dependencies, retry count, and a policy (may the
node do without tests, must a human merge it). Operations: build it from planner
output; scan it for runnable nodes, which as a side effect marks nodes *blocked* whose
dependencies failed or do not exist; mark a node running, passed, failed, rejected; ask
whether it is complete. Correct when: a node runs only after all it depends on is
passed; passed is final; complete means that everything passed or was skipped. Hard: the
scan writes while it reads, and it may be repeated after a restart.

**Graph patches** (`graph_patch.py`). No state of its own: a patch is a list of
operations (add or update a node, add or remove a dependency, skip, unblock) that is
validated against the graph and then applied. Correct when: a valid patch leaves a
graph, undoes nothing that has passed and creates no cycle. Hard: each operation is
validated against the graph *before* the patch, applied to the graph *after* the
operations before it.

**Auto loop and recovery policy** (`cli.py`, `recovery.py`, `budgets.py`). State: none
but the position in the loop; everything is reloaded from `state.json` in each round.
Operations: check the budgets, reconcile an uncaptured patch, decide (run, resume, retry
the merge, repair, replan, stop, done), dispatch, and handle the exception of a failed
phase. Correct when: it stops; the limits of the configuration hold over restarts; a
recoverable failure is recovered from and a terminal one is not. Hard: decisions are
made from records of what went wrong, some of them reclassified from stored messages.

**Attempt phases** (`run.py`). State: the last `AttemptRecord` of the history (phase,
exit code, test status, decision, merge error, failure report, recovery counters), the
task status and the node's status; the attempt's worktree and branch. Operations: each
phase in turn, resume from any phase, retry, repair, replan, finalize. Correct when: only
what the reviewer approved, with tests that passed or may be skipped, is merged; a
restart in any phase continues it; the history stays a chain. Hard: each phase saves
more than once, and a repair resets an attempt that is half-way through.

**Failure classification** (`failure.py`). Stateless: from an exception, an exit code, a
test output or a stored attempt to a failure type, each recoverable or terminal.

**State and attempts** (`state.py`, `config.py`). Atomic save and load of `state.json`.

**Git operations** (`git.py`, `diff.py`). State: the base branch, the attempt's worktree
and branch, the merge worktree. Operations: add a worktree, commit what is in it, merge
its branch into the base, either in place or in a temporary worktree. Correct when: what is
recorded as merged is in the base branch; the operator's own checkout is left alone; a
failed merge is not the next one's failure. Hard: git and `state.json` cannot be changed
together; each command may time out; a failed merge leaves something behind.

**Parallel execution** (`parallel_scheduler.py`, `merge_queue.py`). State:
`running_attempts` and `merge_queue` in `state.json`, one worker thread per node.
Operations: start a batch, run a node's pipeline under the task lock, collect results,
merge the queue serially. Correct when: the result is one the sequential loop could
have had; no node is lost, none is merged twice. Hard: workers share one history, and
some phase helpers take "the last attempt" for theirs.

**State lock** (`state_lock.py`). A `flock` on `state.lock`, reentrant per thread; atomic
writes by rename. Correct when: exclusive. Hard: the file is unlinked by `cleanup`; all
writers share the name of the temporary file.

**Runner control** (`runner_control.py`, `runner_heartbeat.py`, `detach.py`, `inspect.py`).
State: pid file, heartbeat file, log. Operations: start detached, stop (SIGTERM, then
SIGKILL), cancel, cleanup, status. Correct when: at most one runner works on a task; only
the task's own runner is signalled; a cancelled task stays cancelled. Hard: every file is
read, then acted on, while the runner lives its own life.

**Provider runtime** (`provider_runtime.py`, `subprocess_util.py`, `providers/`). One
worker thread per provider call, a heartbeat thread, an output watcher, a watchdog that
kills the process group. Correct when: the call returns, a provider that was stopped is not
taken for one that succeeded, and what a late provider started stops writing in the
worktree. Hard: worker, watchdog and caller find out independently that a process is late
or has ended; the group outlives its leader; `_active_pgid` outlives its call.

**Preflight** (`preflight.py`, `test_command.py`): checks before an attempt; a failure
ends the runner. **Prompts and prompt cache** (`repair_prompts.py`, `prompt_cache.py`,
`prompt_metadata.py`, `review_context.py`): text. **Observability** (`events.py`,
`trace.py`, `execution_timeline.py`, `summary.py`, `report.py`, `export.py`,
`list_tasks.py`, `evals.py`): files for the operator; no decision of the loop reads them.

### Interactions that are hard to test

All are listed, each at its line, under `hazards` in `PROJECT.json`. The ones that shaped
the model:

- *Kill between two saves.* A merge is in the base branch but not in `state.json`
  (`run.py:2171`); an attempt is reset for a repair but its implementer has not started
  (`run.py:694`); a failure is saved as terminal and would have been made recoverable by
  the next save (`run.py:3440`).
- *Records that outlive what they are about.* A test verdict after the implementer ran
  again (`run.py:3087`); the decision "replan" after the replan (`run.py:453`); a merge
  error reclassified from its own message (`failure.py:257`).
- *Order of reads.* The base commit is taken when an attempt begins and its node is chosen
  later (`run.py:3480`); a scan writes *blocked* while it looks for a node.
- *Limits kept in three records*: retries per attempt chain, recoveries per attempt,
  failures in the history.
- *Copies of one file*: each worker of a batch, the main thread and a second runner save the
  whole of `state.json` from what they read earlier (`parallel_scheduler.py:105`,
  `cli.py:775`).
- *Files about processes*: `runner.pid` and the heartbeat outlive the runner, and its process
  id is given to another process (`inspect.py:175`, `runner_control.py:145`).
- *Two answers to one question*: a provider that ends with 0 while it is being told to stop
  (`subprocess_util.py:166`).
- *What a failed command leaves behind*: an unresolved conflict, a merge worktree
  (`git.py:405`, `git.py:414`).
- *Loops that change nothing*: a phase that fails, is soft-reset, and fails again without
  any counter moving (`cli.py:940`, `run.py:1452`, `run.py:1341`).

## 2. The plan

| order | module | models | abstract specification | state |
|---|---|---|---|---|
| 1 | `TaskGraph`, `GraphPatch` | graph and patches as operators | | written |
| 2 | `AutoLoop` (+ `MCAutoLoop`, `AutoLoopClaims`) | loop, recovery, phases, merge, crash and restart | implements `Delivery` | written |
| 3 | `TaskGraphProofs`, `AutoLoopProofs`, `DeliveryProofs`, `HistoryProofs` | | | all safety and action properties of `AutoLoop` and its refinement proved |
| 4 | `ParallelLoop` (+ `MCParallelLoop`) | scheduler, workers with copies of the state, task lock, merge queue, kill and restart of a batch | implements `Delivery` | written; all safety and action properties and its refinement proved (`ParallelLoopProofs`) |
| 5 | `RunnerControl` | runners of one task, pid file, heartbeat, stop, cancel, cleanup, detach, reused process ids | | written, proved (`RunnerControlProofs`) |
| 6 | `ProviderRuntime` | worker, watchdog, outer limit, process group, pipes | | written, proved (`ProviderRuntimeProofs`) |
| 7 | `MergeGit` | the git commands of a merge, in place or in a worktree, timeouts and kills | | written, proved (`MergeGitProofs`) |
| 8 | `StateLock` | lock and unlinked lock file, two holders | mutual exclusion | not written |

`ParallelLoop` extends `AutoLoop`, and both implement `Delivery`. `ProviderRuntime` is the
inside of one provider or test call of theirs, `MergeGit` the inside of their merge step;
`RunnerControl` takes the runner as one process that reads and saves whole states.

"Proved" is of the safety and action properties and the refinements; liveness stays with TLC.
Planned next: `StateLock`, with the lock file that `cleanup` unlinks under its holder.

## 3. The modules and the code

### TaskGraph, GraphPatch

Operators only. A graph is a record of functions over the ids `1..MaxNodes` and the set of
ids in use; the functions have fixed values elsewhere, so that equal graphs are equal.
`Runnable`, `BlockedByScan` and `AfterScan` split `next_runnable_nodes` into what it
returns and what it writes: a scan that finds a node stops there, and only the nodes before
it have been written. Node order is the order of ids. `OpValid` is `validate_patch`
read one operation at a time on the graph before the patch; `ApplyPatch` folds `ApplyOp`
over the patch. `WouldCreateCycle` keeps the code's order: it adds the edge, then searches.

An id is one node of the model, so that two nodes with one id, which a patch that adds an id
twice leaves, are left out.

### AutoLoop

| in the model | in the code |
|---|---|
| `status`, `iteration`, `graph` | `TaskState.status`, `.iteration`, `.task_graph` |
| `past`, `att` | `TaskState.history` without its last entry, and that entry |
| `content` | what git shows in the attempt's worktree: nothing, uncommitted files, or a patch |
| `base` | the nodes whose branch is merged into the base branch |
| `pc`, `mem` | where the runner process is, and what it carries in memory; a kill loses both |
| `fresh`, `calls`, `merges` | ghosts: verdicts on the worktree as it is; implementer runs and merge attempts of this attempt |
| `starts` | how often `auto` was started (bounded by `MaxStarts`) |

One step is one save of `state.json`, one effect on git, or one passage from a phase to the
next. `Crash` may come between any two, and keeps exactly what was saved. Steps of the
environment: `ImplWrite` (the implementer's process changes files while it runs),
`OperatorCommits` (the operator follows the advice `classify_uncaptured_patch` prints).
The rest of the outcomes are chosen from constants: what providers answer, how tests end,
whether git can merge.

- *Loop head* (`_run_auto_loop`): `Reconcile`, then one action per decision of
  `decide_auto_step`: `AutoDone`, `AutoTerminal`, `AutoRun`, `AutoRunRefused`,
  `ResumeRetry`, `ResumeFinalize`, `ResumeFrom`, `ResumeRefused`, `AutoRepair`, `AutoReplan`.
  The decision itself is the operator `DecideAutoStep`, branch by branch as in
  `recovery.py:104-246`, on the reports of `failure.py` (`MergeReport`, `ReviewerReport`,
  `TestReport`, `AttemptReport`).
- *A failing phase*: `MarkFailed` (one save: task, attempt and node), then `SoftReset` and
  `HandleFailure` in the loop's exception handler; a kill may fall between each.
- *Phases*: planning (`PlannerPlans`, `PlannerFails`, `NodeSetup`, `NoRunnableNode`,
  `SetupFails`), implementer (`ImplStart` ... `StopForPatch`), tests, review, finalize
  (`FinalizeStop`, `FinalizeReject`, `FinalizeHold`, `MergeInGit`, `MergeRecorded`,
  `MergeFails`), repair (`RepairSkipped`, `RepairReset`, `RepairStart`), replan.

Abstractions, and why they are sound for the properties:

- A merge failure is one of *conflict*, *busy* (the base branch is checked out elsewhere)
  and *gone* (any terminal git error). `MergeReport` is what classifying the *stored
  message again* gives, which is what `decide_auto_step` goes by.
- The reviewer chain is the decision it adds up to (`run.py:510-521`).
- A report that matters only because it is there is "other"; "patch_not_captured" is kept
  apart because decisions depend on it.
- A report save followed directly by the save of FAILED is one step: a kill between them
  leaves what a kill before both leaves, except for a report no decision reads.
- `plan_json` is present exactly from `worktree_created` on, so that `execute_resume` of an
  earlier phase plans again.
- A provider process ends with its runner. (In the code it may outlive a runner that was
  killed; section 7.)
- The merge in git is one step, and a kill falls before or after it; what lies inside is
  `MergeGit`.

### Delivery

What a user of the loop relies on: nodes land on the base branch one at a time, each after
all it depends on; only an approved candidate lands; a candidate that has landed cannot be
withdrawn; what is *known* to have landed is never planned away; a task is delivered when all
it requires is known to have landed. A candidate may be planned away, but is never made to wait
for more than it did when it was approved; if it lands all the same, the record of that makes
it required again.

`AloneSpec` is the promise of the sequential loop: there is one candidate at a time, and the
plan changes only while there is none. `Spec` is the promise with batches: several candidates,
and a plan that may change beside them, since a killed batch leaves approved attempts in the
merge queue and the loop that is started again may replan before it gets to them.

`AutoLoop!DeliveryImplemented` (`AloneSpec`) maps the graph without its skipped nodes to
`required`, `base` to `landed`, the node of the approved attempt to `candidates`;
`ParallelLoop!ParDeliveryImplemented` (`Spec`) maps the nodes of all approved attempts to it. A
kill between the merge in git and its record is a stutter, the second merge of the same node a
`Land` that changes nothing.

### ParallelLoop

`AutoLoop` with `max_parallel_nodes > 1`: every new iteration is a batch where there are
runnable nodes, and an iteration of `AutoLoop` (`RunAlone`) where there are none; resuming,
retrying, repairing and replanning stay `AutoLoop`'s, on the last attempt of the history.

| in the model | in the code |
|---|---|
| `running`, `queue` | `TaskState.running_attempts` (node to index in the history), `.merge_queue` |
| `worker[n].stage` | what the pool's thread for node `n` does; "todo" before it has the lock, its result after |
| `worker[n].state` | the copy of `state.json` that thread works on, and saves whole |
| `worker[n].wrote` | what its provider left in its worktree |
| `pending` | the length of the queue in the copy the main thread holds while it drains it |
| `Saved`, `Save` | `state.json` read and written as one value |

A worker takes the task lock (`LockFree`), loads the state, and keeps both until its node
ends (`WorkerBegins` ... `WorkerReviewEnds`); the lock is what makes its copy worth saving.
The main thread registers a batch at once (`BatchStart`, which does not look at
`max_iterations`), takes results as they come (`TakeResult`), and then works off the queue
with `_run_finalize_phase` (`DrainSkips` ... `DrainEnds`). A kill (`ParCrash`) loses `worker`
and `pending` and keeps `running` and `queue`. A worker whose provider times out marks
`history[-1]`, whoever's that is (`WorkerImplFails`). The worktree of an attempt that is not
the last one is only what its worker knows of it: nothing but the worker reads it.

### ProviderRuntime

One call after another, each a record `call`: its kind (a provider is called in a thread
with an outer limit around it, a test command by the caller itself), what its leader does on
SIGTERM, which descendants live (in the group with the pipes, in the group without, in a
session of its own), which of its three deadlines have passed, and where worker, watchdog
and leader are. `caller` is the runner's thread, `active` says whether `_active_pgid` names
the group of the last call, `late` counts earlier workers that still wait for a pipe and
will clear `_active_pgid` when they end.

Threads are late at will: of time only the order of the deadlines of a call is kept. The
grace periods are choices (`GraceEnds`, `GraceExpires`), bounded waits for another thread
are none (`GivesUp` may follow `OuterFires` at once). One assumption orders two calls
(`Settled`): between them the runner takes longer than a thread that can act is late, so
that what may be left of the last call is a worker that waits for a pipe.

### RunnerControl

`proc` says what each process id names: a runner of this task, a runner of another, some
other process, or nothing. A runner has a `stage` (before its loop, at the head, with the
state loaded, in its phases, on its way out) and a `copy` of the status it has loaded; it
saves that copy without looking. `status`, `pidFile` and `heartbeat` are the files; `op` is
the operator's command, step by step. `Dies` may end any process at any time and leaves the
files, `PidReused` gives a free id to someone else. `RunnerAlive` is `is_runner_alive`, with
its two standards: what `runner.pid` names need only be alive, what the heartbeat names must
look like a runner (`Owned`). Of the status only *open*, *done* and *cancelled* are kept.

Assumed of the operator: one command after another; a foreground start comes up before the
next command; `auto` is started only when `status` shows no runner (`auto` itself does not
look). Assumed of the system: an id is not used again within one `stop`.

### MergeGit

`op` is the merge in progress, one step per git command: commit what is in the worktree
(`Commit`), read the branch of the operator's checkout (`MergeHere`, `MergeInTree`,
`PathExists`), add the merge worktree, merge, read the head, remove the worktree (the
`finally` block: `Returns`, `TreeRemoved`), and the save of the result (`Report`). The rest
is what git keeps: where the operator's checkout is, the conflict left in it (`unmerged`),
merge worktrees (`trees`), uncommitted files (`dirty`), which branches conflict with the
base, and what has landed. What git does is modelled as the code relies on it: a branch is
checked out in one worktree at a time, a checkout with an unresolved conflict refuses to
merge in words that name a conflict, a merge of what has landed changes nothing. `TimesOut`
is `GitError` from `_run_git`, also out of the `finally` block; `Crash` a kill; both have
either done the command or not (`CutOff`). `Repair` stands for the repair of a merge
conflict up to the next approval, in which the implementer makes the branch fit the base.

## 4. What the runs show

Every limit below is a small number because the code only compares counters with limits;
what matters is that each limit is reached, passed over by one where the code allows it,
and met again after a restart.

| run | instance | shows |
|---|---|---|
| `graph` | 3 ids; five shapes of graph: chain, fork, join, a cycle behind a first node, and a node that waits for an id no node has; no test command, a policy for every node (may be merged without tests, may not, left to a person); reviewer approves, rejects or asks for a replan; every patch of one operation; merges succeed or conflict; one kill anywhere | `TypeOK`, `OnlyJudgedWorkMerges` where tests are skipped, `DependenciesInBase`, `PassedIsMerged`, `DoneMeansDelivered`, `HistorySettled`, `PassedIsFinal`, and that the loop implements `Delivery` |
| `recovery` | 1 node; every way a phase can end; all repairs on; `MaxRecovery = MaxConsecutive = 2`; two kills anywhere | `OnlyJudgedWorkMerges` where tests run, `PassedIsMerged`, `EffortBounded`, `ApprovedStays` |
| `stops` | two chains, one longer than `MaxIterations = 2`; tests that pass or fail; every verdict but a replan; uncaptured patches; planner and reviewer answers that cannot be parsed; merges succeed; one kill; fairness | `AutoStops`: a run of `auto` ends |
| `completes` | 2 nodes, a chain or independent; every phase succeeds; three kills anywhere; fairness | `TaskCompletes` |
| `parallel` | 4 ids, batches of at most two, the last node waits for a node of the batch and is left to a person; workers that end in every way (no worktree, exit code, timeout, rejection, no parseable review, uncaptured patch); merges succeed or conflict; one kill anywhere | `ParTypeOK`, `OneApprovalPerNode`, `WithinMaxParallel`, `QueueMergesApproved`, `BaseMatchesGraph`, `ApprovalsSurvive`, and that batches implement `Delivery` |
| `parallel_completes` | 3 ids, four shapes of graph; every phase succeeds, no kill; fairness | `ParTaskCompletes` |
| `provider` | provider and test calls; a leader that ends on SIGTERM, ends with 0 on it, or ignores it; descendants of every kind; one late worker; fairness | `TypeOK`, `OkEndedAlone`, `TimedOutGroupGone`, `TimedOutGroupEnds`, `EveryCallReturns` |
| `control` | two process ids, which runners of this task, runners of another and strangers get; kills anywhere; every command | `TypeOK`, `RunnerFindable`, `StopStops`, `CleanupSpares`, `CancelledStays` |
| `merge` | 3 attempts; a checkout on the base branch or another; conflicts and repairs; one timeout and one kill anywhere; fairness | `TypeOK`, `MergedIsInBase`, `NoTreeLeft`, `OtherBranchUntouched`, `AllMerge` |
| `claim_*` | one hazard each | section 5 |

Why three ids: a node, what it depends on and what depends on it; a cycle of two behind a
runnable node; a node to be added by a patch. Longer chains repeat the same steps. Why one
node in `recovery`: the decisions of the loop read the last attempt and the history, and a
repair never leaves its node. Why two or three starts: a second start meets what a kill
left, a third one what a kill in the recovery of that left. `MaxMerges` only bounds a ghost
counter, and is 0 where no property reads it. Symmetry is not used: ids are ordered.

Why four ids and batches of two in `parallel`: the first node runs alone, since it is planned
before there is a graph; two are a batch in which each is the other's sibling, once the last
of the history and once not; the fourth becomes runnable by what the batch merges, and as a
node left to a person reaches the branch of the queue that merges nothing. The run has no patches, which
would make it several times as large: `graph` has them, and the theorems about `ParallelLoop`
(section 6) hold for every patch, also for one that comes while an approved attempt of a killed
batch waits in the queue. A third sibling
only does to one of the two what the other does. Why `MaxLate = 1`: one worker from an
earlier call is enough to clear `_active_pgid` at any time of the next; a second one clears
it again. Why two process ids: one for the runner and one for what an old file names; while
one runner is there no other is started. Why three attempts in `merge`: one lands, and two
may conflict with it and with each other; a fault each of the two kinds, in either order,
meets what the other left.

The properties, in words:

- `OnlyJudgedWorkMerges`: whatever crashes, repairs and retries came before, what is merged
  is the worktree the reviewer approved, the implementer succeeded on it, no test failed on
  it, and tests were skipped only where task and node policy allow that. It does *not* say
  that tests were run: they may not have been (section 5).
- `DependenciesInBase`: the base commit of an attempt holds all its node depends on.
- `PassedIsMerged`: passed nodes are merged, and merged nodes are passed except for the one
  approved attempt whose record a kill prevented.
- `DoneMeansDelivered`, `PassedIsFinal`: what a finished task and a passed node are worth.
- `HistorySettled`: the history is a chain of retries and iterations; nothing is left behind
  half-way and no node is merged twice.
- `EffortBounded`: iterations, retries, repairs, rejections in a row and implementer runs of
  one attempt, over all restarts together.
- `ApprovedStays`: an approval is only ever taken back to repair a merge conflict.
- `AutoStops`, `TaskCompletes`, `ParTaskCompletes`: liveness.
- `ApprovalsSurvive`: an approved attempt of a batch, the last of the history or not, is
  merged or stays approved, whichever threads save their copies after it. Two exceptions:
  the repair of a merge conflict, and the last attempt when a worker times out (section 5).
- `OneApprovalPerNode`: no two attempts of one node are approved, over batches, retries and
  kills: no node is merged with two different worktrees.
- `WithinMaxParallel`: never more than `max_parallel_nodes` attempts are registered, those a
  killed batch left behind included, and what a worker works on is registered.
- `QueueMergesApproved`: what is taken off the queue was approved, and its base commit holds
  all its node depends on, although results are queued in the order they come.
- `BaseMatchesGraph`: `PassedIsMerged` for every attempt of the history.
- `OkEndedAlone`: a provider that was told to stop is not taken for one that succeeded, even
  if it then ends with 0, whichever of worker, watchdog and caller noticed first.
- `TimedOutGroupGone`, `TimedOutGroupEnds`: what a timed-out call started has stopped when the
  call returns, or when the watchdog is through; after a call that was given up, before the
  next; and always in the end. The exception is a call that was given up while its leader had
  ended by itself, whose descendants nobody stops, as after any call that succeeds.
- `EveryCallReturns`: for a provider under any circumstances; a test command has no outer
  limit, and a process it leaves in a session of its own may hold it.
- `RunnerFindable`: `status`, `stop` and `cancel` find a runner that is in its loop, whatever
  pid files and ids are left over from others.
- `StopStops`, `CancelledStays`, `CleanupSpares`: what the three commands promise.
- `MergedIsInBase`: an attempt recorded as merged has all its approved work in the base branch,
  uncommitted files included.
- `OtherBranchUntouched`, `NoTreeLeft`, `AllMerge`: a merge does not show in a checkout on
  another branch, leaves no worktree behind unless it is cut off, and beside such a checkout
  conflicts and repairs end with everything merged.

`CHECK_DEADLOCK FALSE` is set in all runs: a task that is done, or whose starts are used up,
may rest.

**Fairness.** `LiveSpec` has weak fairness of `RunnerStep`: a started runner keeps running.
The code justifies it: each phase is a sequence of statements whose only waits are for
providers, tests and git, all of which are given timeouts and are killed when these expire
(`ProviderRuntime` has the details, and the one process a test command may be held by).
It is fairness of the disjunction, never of one action, so it excludes no outcome of a phase
and no order. `Crash`, `ImplWrite` and `OperatorCommits` have none. `RestartSpec` adds weak
fairness of `Start`, for the operator (or a supervisor) who starts `auto` again; `completes`
and `parallel_completes` use it (`ParRestartSpec`), the latter without a kill to restart from.
In `ParLiveSpec` the runner's step includes those of its threads: the pool and the loop are
scheduled, and each worker's phase returns as the loop's do. `ProviderRuntime!LiveSpec` says
why they do: its worker, its watchdog, the caller's steps and the passage of time are fair,
each by itself since each is a thread of its own (or the clock); processes are not, for none
need end unless it is killed, nor is `LateWorkerEnds`, which waits for one. `MergeGit!LiveSpec`
is as `AutoLoop`'s; the operator, timeouts and kills have none.

**Deliberate limits of the liveness runs.** `stops` excludes replans, providers that exit
with an error and failing merges because with them `auto` does *not* always stop: section 5 says
how.

## 5. What the documents promise and the code does not keep

Three claims are checked by runs of their own, in instances that let one thing go wrong, and
are violated there.

| run | promise | what the code does |
|---|---|---|
| `claim_failed_implementer` | `src/docs/RECOVERY.md:11` "**Recoverable:** orchestrator retries or invokes implementer with a structured repair prompt" | a failed implementer keeps its exit code; the resumed phase refuses to run it, and nothing is counted (`run.py:1452`) |
| `claim_tests_gate` | `src/docs/EVOLUTION.md:36` "**Tests gate merge.**" | the repair of an uncaptured patch, killed after its reset; the operator commits the files; the attempt resumes in the review and merges with no test run (`run.py:694`) |
| `claim_repaired_merges` | `src/docs/DEBUGGING.md:210` "Manually resolve conflicts in the worktree, commit, then `cc-loop resume`" | a merge in the operator's checkout that fails is not aborted; git refuses every later merge there, in words that are classified as a conflict again (`git.py:405`) |

`claim_failed_implementer` is checked under `LiveSpec`, so that its counterexample is a runner
that keeps going round.

The models show more of the kind, each a path through the modules here, for which no run of
its own is kept:

- *Endless retries.* A busy base branch is stored as a message that is reclassified as
  `merge_unknown`, retried and not counted (`failure.py:257`, `src/docs/DEBUGGING.md:205`
  "retries merge within `max_merge_retries`"); so is a merge that cannot succeed
  (`recovery.py:177`, `src/docs/RECOVERY.md:12` "**Terminal:** loop stops"). A rejected patch
  is taken for a provider failure and the replan is asked for again (`run.py:434`,
  `src/docs/EVOLUTION.md:232` "Invalid graph patches fail terminally"). The decision "replan"
  stays on the attempt after a valid patch (`run.py:453`). A graph in which nothing can run is
  planned again and again (`run.py:1341`).
- *Kills.* A conflict repair killed before its implementer starts is finalized for ever
  (`run.py:694`). A killed batch leaves nodes registered that no worker runs, and a queue that
  is merged only after the next batch (`parallel_scheduler.py:171`); an entry of it without an
  approved attempt is dropped in memory only (`parallel_scheduler.py:223`). A merge killed while
  its worktree exists fails whenever it is tried again (`git.py:414`;
  `src/docs/PROJECT_PLAN.md:192` "resumable state after interruption").
- *Batches.* A worker whose provider times out marks `history[-1]`, a sibling's attempt, and
  the sibling's node as failed (`run.py:1582`; `src/docs/EVOLUTION.md:316` "Failed nodes block
  dependents but not unrelated nodes"). A replan after a kill may skip a node whose approved
  attempt still waits in the merge queue (`graph_patch.py:132` protects passed nodes only). That
  the next batch then merges it all the same is prevented only by the decision "replan" that
  stays on the last attempt (`run.py:453`), because of which there is no next batch.
- *Runners.* `stop` takes any cc-loop process with `auto` in its command line for the task's
  runner: after a killed runner's id was given to a runner of another task, that one is
  stopped (`runner_control.py:86`; `src/docs/EVOLUTION.md:129` "`stop --json` terminates only
  the task-owned runner").
- *Providers.* SIGKILL is sent, and a call flagged as hung, although only a leader nobody has
  waited for is left (`subprocess_util.py:55`, `:88`). A late worker may clear `_active_pgid`
  of the next call, whose outer limit then kills nobody (`subprocess_util.py:199`).
- *Operator.* A switch of the checkout between the command that reads its branch and the one
  that merges puts the merge on the operator's branch (`git.py:402`).

## 6. What is proved

With TLAPS, for every value of the constants that satisfies their assumptions, hence for any
graph, any patches, any limits, any outcome and any number of kills and restarts:

| module | theorems |
|---|---|
| `AutoLoopProofs` | `TypeCorrect` (`TypeOK`), `JudgedWorkMerges` (`OnlyJudgedWorkMerges`) |
| `DeliveryProofs` | `DependenciesAreInBase` (`DependenciesInBase`), `PassedNodesAreMerged` (`PassedIsMerged`), `DoneIsDelivered` (`DoneMeansDelivered`), `PassedStaysPassed` (`PassedIsFinal`), `ApprovedWorkStays` (`ApprovedStays`), `OrchestratorDelivers` (`DeliveryImplemented`) |
| `HistoryProofs` | `HistoryStaysSettled` (`HistorySettled`), `EffortStaysBounded` (`EffortBounded`) |
| `ParallelLoopProofs` | `ParTypeCorrect` (`ParTypeOK`), `LimitIsRespected` (`WithinMaxParallel`), `ApprovalsAreKept` (`ApprovalsSurvive`), `ApprovalsAreUnique` (`OneApprovalPerNode`), `QueueIsApproved` (`QueueMergesApproved`), `BaseAgrees` (`BaseMatchesGraph`), `BatchesDeliver` (`ParDeliveryImplemented`) |
| `RunnerControlProofs` | `TypeCorrect` (`TypeOK`), `RunnerCanBeFound` (`RunnerFindable`), `StopLeavesNobody` (`StopStops`), `CleanupTakesNothing` (`CleanupSpares`), `CancelIsFinal` (`CancelledStays`) |
| `ProviderRuntimeProofs` | `TypeCorrect` (`TypeOK`), `SuccessIsNoTimeout` (`OkEndedAlone`), `TimedOutLeavesNobody` (`TimedOutGroupGone`) |
| `MergeGitProofs` | `TypeCorrect` (`TypeOK`), `MergedWorkIsInBase` (`MergedIsInBase`), `TreesAreRemoved` (`NoTreeLeft`), `OtherBranchStays` (`OtherBranchUntouched`) |
| `TaskGraphProofs` | `ApplyPatchType`, `PatchKeepsPassed`, `PatchKeepsTaken`, `AddDependencyRefused`: what a patch of any length does to a graph |

**Assumptions.** `MaxNodesAssumption` (ids are `1..MaxNodes`, at least one), `LimitsAssumption`
(limits are naturals, switches Booleans), `PlannerAssumption` (a planner sends graphs with a
node and no retries used up, and sequences of patch operations), `OutcomeAssumption`
(providers, tests and git end in one of the ways modelled); `ControlAssumption`
(finitely many process ids, which are positive, and other processes of the kinds modelled),
`CallsAssumption` (calls, providers and descendants of the kinds modelled; a natural bound) and
`MergeAssumption` (finitely many attempts, checkouts of the two kinds, natural bounds). TLC evaluates all of them in the
runs of their modules.

**Type correctness.** `TypeOK` of `AutoLoop` is not inductive: `MergeRecorded` sets the status
of `att.node`, and `0` is not a node. `TypeInv` adds `NodeChosen` (the attempt has a node of the
graph, or it is blank and nothing but planning has been reached) and `Replans` (during a
replan the phase, the status and the decision agree, so that no other resumption happens on
it). That the loop never repairs or replans a blank attempt is what `BlankIsNotRepaired` and
`DecisionFacts` derive from `decide_auto_step`.

**Judged work.** `Judged` strengthens the property by what makes verdicts fresh: a test
verdict or a decision on the attempt is one on the worktree as it is; none is there whenever
an implementer may run; and no phase in which the attempt may be resumed leads back to an
implementer while a verdict stands (`Resumable`, also for the phase a soft reset will
restore). The last conjunct is why a kill in a repair does not carry an old verdict into new
work: the reset is saved *before* the phase changes. Under `Judged` the guard of the merge
(`_can_auto_merge`) is strong enough. `Judged` is proved inductive relative to `TypeInv`,
action by action.

**Patches.** `ApplyPatch` is a fold over a sequence. The induction over its length is done by
`SetInduction` in `TaskGraphProofs`: a least number outside the set would be a minimal element
of a set of finite intervals, which the library's theorem on finite sets rules out. (The
induction theorems with an operator parameter cannot be instantiated by the provers used.)
`PatchKeepsTaken`: a patch makes no node `pending` that is running, passed, failed or skipped,
so that no node an attempt was made for is taken up a second time.
`PatchKeepsPassed` is what the rest of the proofs need: a valid patch makes and unmakes no
passed node, leaves their dependencies alone, and adds no dependency to a node that was there.
The last part is for a reason the code hardly intends: `AddDependencyRefused`, the validation
adds the edge before it looks for a path back, finds the edge, and refuses
(`graph_patch.py:70`). `DependenciesInBase` rests on it: with an `add_dependency` that works, a
replan could give the attempt's node a dependency its base commit lacks.

**Delivery.** `DeliveryInv` is `TypeInv`, `Approval` and `Landed`. `Approval` says where the
loop can be while an attempt is approved, merged, or failed in its merge: an approval is only
taken back by the repair of a conflict, so that every other failing or resuming step finds none.
`Landed` relates graph, base branch and attempt. Its first part, `Grounded`, is what batches
keep as well: passed nodes and their dependencies are in the base, the attempt's own base commit
is in the base branch and has its node's dependencies. The other part says that what is in the
base has passed or is the candidate whose record a kill prevented. The three
properties of the graph, the two action properties and the refinement follow. In the last,
each action of `AutoLoop` maps to one of `Delivery` or to a stutter: `PlannerPlans` and
the replan to `Plan`, the reviewer's approval to `Approve`, a conflict repair to `Withdraw`, the
merge in git to `Land`, its record to `Record`.

**History.** `HistorySettled` needs `Chained` (each attempt is followed by its retry or by the
first of the next iteration; merged attempts are of earlier iterations, have passed nodes, and
no two have one node) and `EffortBounded` needs `Paid` (each implementer run is paid for by a
counted recovery or by a start) and `Limits`. `NextSettled` says once for all actions but four
that they leave the history and the counters alone.

**Batches.** `ParInv` has what a batch may rely on. `Pool`: outside the workers' phase nobody
works; of the workers that are past their start only one works at a time, because it holds the
lock, and so its copy of the state is the saved one. Without that, its save would not be
known to keep the attempts of the others. `Registered`: an index in `running_attempts` is
that of an attempt of the node it is registered for, and there are no more than
`max_parallel_nodes` of them; a scan returns at most as many nodes as it is asked for, and the
places of a batch are a bijection with its nodes, so that the attempts it appends are those it
registers. `Drains`: the position in the queue is a position in it. Outside a batch the lemmas
of `AutoLoopProofs` about each action are used as they are.

On `ParInv` rests `BatchInv`, from which the other properties of batches follow:

- `Verdicts` and `InBatch`: outside a batch the last attempt is as `AutoLoop` leaves it
  (`Approval`), or it is `Overtaken`: approved, then marked as failed by another worker's
  timeout. `Approval` alone is not an invariant of `ParallelLoop`, for that reason.
  `OvertakenRests` shows that the loop does nothing with such an attempt but report it. `InBatch`
  is what makes `Verdicts` hold again whenever a kill ends the batch.
- `Settles`: an approved or merged attempt of the history has an implementer that succeeded and
  a base commit with all its node depends on, and its node has a status from which no scan, no
  retry and no patch takes it up (`PatchKeepsTaken`).
- `Unique`: no two attempts that are approved, *or may still be* because a thread works on them
  or the loop may resume them, are for one node. Only of approved ones it would not be inductive:
  the next verdict may come from any thread.
- `Labors`: a thread works on an attempt without a verdict, for a node that has not passed, on
  a base commit with its dependencies.
- `Queued`: the queue holds a node once, after its thread has gone, and not after its merge.
- `Covered`: what is in the base branch has passed, or has an approved attempt.

A thread's step keeps it because its copy of the state is the saved one (`Pool`) and it changes
its own attempt only, but for the timeout (`WorkKeepsBatch`); the merge queue because an entry is
the only approved attempt of its node (`EntryFacts`). The actions of `AutoLoop` between
batches are treated together: `NextEvolves` says what each of them, and a kill, may do to graph,
base branch and history, `EvolvesKeepsBatch` that this keeps the invariant. The start of a batch
(`BeginsKeepsBatch`) takes nodes that are free, on the base commit of the moment.

That batches implement `Delivery` needs `PromiseInv`: `BatchInv`, `Unpassed` (a node whose
attempt is approved has not passed) and `Older` (in a batch, what the queue holds that has
passed or was skipped by a replan was queued by an earlier batch, before the last attempt of this
one, whose node has then not passed yet). From `Older` follows `QueueIsEmpty`: when the record of
a merge completes the task, nothing approved is left behind it. The lemmas `IsApprove`, `IsWithdraw`, `IsLand`, `IsRecord` and `IsPlan` say what a step
must do to be a step of `Delivery`, and each action is mapped by one of them: a worker's or the
loop's approval to `Approve`, a timeout that marks an approved sibling and the repair of a
conflict to `Withdraw`, a merge in git to `Land`, its record to `Record`, planner and replan to
`Plan`; the rest stutters. `OthersStay` separates the candidates that are not the last attempt
from the one that is, so that the actions of `AutoLoop` need to be looked at only for the latter.

**Runner control.** `RunnerFindable` is proved from `Single` (one runner; `runner.pid` is its
own once it has written it) and `CommandKnows` (what a command under way knows about the
runner still holds when it acts on it). `CopyInv` adds `Fresh`: a copy of `state.json` from
before a cancel is gone when the cancel is saved.

**Provider runtime.** `CallInv` says what each thread may rely on at each stage of the call:
nobody signals the group without setting a flag that the report and the caller look at, except
a caller who no longer waits (`ToldInv`), and each way to time out has seen the group gone, or killed it, before it goes
on (`GoneInv`). The three threads are interleaved freely; the proof has one step per action
and part.

**Merge.** `MergeInv`: what each step of the merge has done when the next command begins
(`Progress`), which worktrees exist (`Trees`), where a conflict is left (`Unmerged`).
`CutOff` and each command are treated once, as `Orderly` steps.

**Only model-checked.** The liveness properties, since reasoning under fairness and about
ENABLED is outside what the prover does: `AutoStops`, `TaskCompletes`, `ParTaskCompletes`,
`TimedOutGroupEnds`, `EveryCallReturns`, `AllMerge`.

## 7. What is not modelled

- `INTERRUPTED` and `WAITING_MANUAL_REVIEW`: no step of the loop sets them. `CANCELLED` is in
  `RunnerControl` only.
- A done task with an incomplete graph: `decide_auto_step` has a branch for it that the loop
  cannot reach, since DONE is only saved with a complete graph.
- The wall-clock, log-size and changed-file budgets, 0 (off) by default; a change of the
  configuration between two starts.
- The parsing of planner, reviewer and test output; only its results are modelled. So are the
  providers' adapters (`providers/`): command lines and the texts that come back.
- Graph patches that leave two nodes with one id, and whether patches keep a graph free of
  cycles. (`add_dependency` is refused in any case: the edge is added before the search for a
  path, `graph_patch.py:70`. `GraphPatch` keeps that order.)
- `complete_merge_for_node` of the merge queue: nothing calls it.
- The state lock with two holders after `cleanup` has unlinked it, its reentrancy, and the
  temporary file of an atomic write, whose name all writers share.
- The commands `run` and `resume` beside `auto`: they write no `runner.pid`, so that `stop`
  does not see them and their next save takes a cancellation back (`cli.py:707`). Two runners
  of one task at work at once, for the same reason.
- Providers that outlive a stopped or killed runner, beside which the next `auto` starts
  another (`runner_control.py:93`).
- In `ProviderRuntime`: an exception in an adapter, `KeyboardInterrupt`, the heartbeat and
  progress threads, processes of another user, and the wait of 0.2 s for the watchdog.
- In `RunnerControl`: processes of another user (a `stop` that reports failure after SIGKILL),
  a command line that cannot be read, the texts of `status`.
- In `MergeGit`: a lock file that git leaves when it is killed, a `git worktree remove` that
  fails, a base branch without a local ref, and hooks.
- A lost or damaged `state.json`; changes to the base branch by others than the loop (a
  conflict is the outcome of the latter).
- Preflight, prompts, events, traces, reports, exports: they decide nothing; a failed
  preflight ends the runner, which is a `Crash` at the loop head.

## 8. Running the checks

    tlc -config MCAutoLoopGraph.cfg MCAutoLoop      # likewise Recovery, Stops, Completes
    tlc -config MCParallelLoop.cfg MCParallelLoop   # likewise MCParallelCompletes.cfg
    tlc -config MCProviderRuntime.cfg ProviderRuntime
    tlc -config MCRunnerControl.cfg RunnerControl
    tlc -config MCMergeGit.cfg MergeGit
    tlc -config ClaimTestsGate.cfg AutoLoopClaims   # expected: a violation
    tlc -config ClaimRepairedMerges.cfg MergeGit    # expected: a violation
    tlapm DeliveryProofs.tla                        # likewise each module named *Proofs

Distinct states: `graph` about 921,000, `recovery` 796,000, `stops` 374,000, `completes` 1,700,
`parallel` 1,170,000, `provider` 16,000, `control` 23,000, `merge` 108,000; `parallel` takes two
to three minutes, the others a minute or two at most. `PROJECT.json` maps each definition to the
lines it models, and names for each property a mutation of the model that violates it.
