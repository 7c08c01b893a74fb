---------------------------- MODULE RunnerControl ----------------------------
(***************************************************************************)
(* Who runs a task, and who may touch its files: runners of one task       *)
(* (cli.cmd_auto, foreground or detached), their runner.pid and            *)
(* runner.heartbeat.json, and the operator's stop, cancel and cleanup      *)
(* (runner_control.py, detach.py).  A runner keeps the state in memory     *)
(* from one load to the next and saves it without looking, which is why    *)
(* the operator's commands must find it.  Of state.json only the status is *)
(* kept, as far as these parts tell it apart.                              *)
(*                                                                         *)
(* The operator gives one command after the other, lets a foreground start *)
(* come up before the next, and starts a runner only when status shows     *)
(* none: `auto` itself does not look.  Process ids are used again, by      *)
(* processes that have nothing to do with cc-loop and by runners of other  *)
(* tasks, but not within one stop.  Left out: `cc-loop run` and `resume`,  *)
(* which write no runner.pid, processes of another user, and the providers *)
(* a runner leaves behind when it is stopped.                              *)
(***************************************************************************)
EXTENDS Integers, FiniteSets

CONSTANTS
    Pids,    \* the process ids
    Others   \* who else may get one

ASSUME ControlAssumption ==
    /\ IsFiniteSet(Pids) /\ Pids \subseteq Nat \ {0}
    /\ Others \subseteq {"other", "peer"}

VARIABLES
    proc,      \* what each process id names: "peer" is a runner of another task
    stage,     \* how far the runner of the task with that id is
    copy,      \* the status it has in memory
    status,    \* state.json: TaskState.status
    pidFile,   \* runner.pid, or 0
    heartbeat, \* runner.heartbeat.json: its pid, or 0, and whether it says running
    op         \* the operator's command: which, how far, on which pid, and its result

files == <<status, pidFile, heartbeat>>
procs == <<proc, stage, copy>>
vars  == <<procs, files, op>>

Statuses == {"open", "done", "cancelled"}
Stages   == {"none", "boot", "init", "head", "loaded", "work", "exit", "unlink"}
Idle     == [cmd |-> "none", step |-> "idle", pid |-> 0, ok |-> TRUE]

Init ==
    /\ proc = [p \in Pids |-> "free"] /\ stage = [p \in Pids |-> "none"]
    /\ copy = [p \in Pids |-> "open"]
    /\ status = "open" /\ pidFile = 0 /\ heartbeat = [pid |-> 0, live |-> FALSE]
    /\ op = Idle

\* Mutant: only the heartbeat says who runs.
FoundByHeartbeat ==
    IF heartbeat.pid # 0 /\ heartbeat.live /\ proc[heartbeat.pid] \in {"runner", "peer"}
    THEN heartbeat.pid ELSE 0

Alive(p) == proc[p] # "free"

\* validate_pid_ownership: the command line names cc-loop, and the task or
\* just "auto".
Owned(p) == proc[p] \in {"runner", "peer"}

\* is_runner_alive: the pid it returns with True, or 0.  What runner.pid names
\* need only be alive; what the heartbeat names must look like a runner.
RunnerAlive ==
    IF pidFile # 0 /\ Alive(pidFile) THEN pidFile
    ELSE IF heartbeat.pid # 0 /\ heartbeat.live /\ Owned(heartbeat.pid) THEN heartbeat.pid
    ELSE 0

NoHeartbeat == [pid |-> 0, live |-> FALSE]

----------------------------------------------------------------------------
(* A runner. *)

At(p, s) == proc[p] = "runner" /\ stage[p] = s

Step(p, next) == stage' = [stage EXCEPT ![p] = next] /\ UNCHANGED <<proc, op>>

\* With --max-iterations, the state is loaded and saved before anything else.
LoadInitial(p) ==
    /\ At(p, "boot") /\ Step(p, "init")
    /\ copy' = [copy EXCEPT ![p] = status]
    /\ UNCHANGED files

SaveInitial(p) ==
    /\ At(p, "init") /\ Step(p, "boot")
    /\ status' = copy[p]
    /\ UNCHANGED <<copy, pidFile, heartbeat>>

WritePid(p) ==
    /\ At(p, "boot") /\ Step(p, "head")
    /\ pidFile' = p
    /\ UNCHANGED <<copy, status, heartbeat>>

\* The head of the loop.  The heartbeat gets the task's status, which is
\* running, or stopped between two phases.
Load(p) ==
    /\ At(p, "head") /\ Step(p, "loaded")
    /\ copy' = [copy EXCEPT ![p] = status]
    /\ \E live \in (IF status = "open" THEN BOOLEAN ELSE {FALSE}) :
        heartbeat' = [pid |-> p, live |-> live]
    /\ UNCHANGED <<status, pidFile>>

\* Done, cancelled, a budget used up, or nothing the loop can recover from:
\* some ways out save the state, and some leave the heartbeat behind.
LeaveLoop(p) ==
    /\ At(p, "loaded") /\ Step(p, "exit")
    /\ heartbeat' \in {heartbeat, NoHeartbeat}
    /\ status' \in {status, copy[p]}
    /\ UNCHANGED <<copy, pidFile>>

BeginPhases(p) ==
    /\ At(p, "loaded") /\ copy[p] = "open" /\ Step(p, "work")
    /\ UNCHANGED <<copy, files>>

\* Any number of saves and heartbeats, up to the one that says "stopped" at the
\* end of a phase, while the runner goes on.
SaveInPhase(p) ==
    /\ At(p, "work") /\ Step(p, "work")
    /\ status' = copy[p]
    /\ \E live \in BOOLEAN : heartbeat' = [pid |-> p, live |-> live]
    /\ UNCHANGED <<copy, pidFile>>

\* The next round of the loop, or an error that ends the runner.
EndPhases(p) ==
    /\ At(p, "work") /\ \E next \in {"head", "exit"} : Step(p, next)
    /\ status' \in {copy[p], "done"}
    /\ UNCHANGED <<copy, pidFile, heartbeat>>

\* The finally block: clear_runner_pid_if_matches reads, and then unlinks.
ReadPid(p) ==
    /\ At(p, "exit") /\ pidFile = p /\ Step(p, "unlink")
    /\ UNCHANGED <<copy, files>>

\* Mutant: the id stays with a process nobody has waited for.
EndedUnreaped(p) ==
    UNCHANGED proc /\ stage' = [stage EXCEPT ![p] = "none"]

Ended(p) ==
    proc' = [proc EXCEPT ![p] = "free"] /\ stage' = [stage EXCEPT ![p] = "none"]

Exit(p) ==
    /\ \/ At(p, "exit") /\ pidFile # p /\ UNCHANGED pidFile
       \/ At(p, "unlink") /\ pidFile' = 0
    /\ Ended(p)
    /\ UNCHANGED <<copy, status, heartbeat, op>>

RunnerStep(p) ==
    \/ LoadInitial(p) \/ SaveInitial(p) \/ WritePid(p) \/ Load(p) \/ LeaveLoop(p)
    \/ BeginPhases(p) \/ SaveInPhase(p) \/ EndPhases(p) \/ ReadPid(p) \/ Exit(p)

\* A process ends: by SIGTERM, which a runner does not handle, by a kill, or of
\* itself.
Dies(p) ==
    /\ proc[p] # "free" /\ Ended(p)
    /\ UNCHANGED <<copy, files, op>>

PidReused(p) ==
    /\ proc[p] = "free" /\ op.pid # p
    /\ \E who \in Others : proc' = [proc EXCEPT ![p] = who]
    /\ UNCHANGED <<stage, copy, files, op>>

----------------------------------------------------------------------------
(* The operator. *)

Quiet == op = Idle /\ \A p \in Pids : stage[p] \in {"boot", "init"} => pidFile = p

Started(p) ==
    /\ proc[p] = "free" /\ RunnerAlive = 0
    /\ proc' = [proc EXCEPT ![p] = "runner"] /\ stage' = [stage EXCEPT ![p] = "boot"]
    /\ UNCHANGED <<copy, files>>

StartForeground == Quiet /\ (\E p \in Pids : Started(p)) /\ UNCHANGED op

\* spawn_detached_auto: Popen, and then the parent writes the child's pid too.
Detach ==
    /\ Quiet
    /\ \E p \in Pids : Started(p) /\ op' = [Idle EXCEPT !.cmd = "detach", !.step = "spawned", !.pid = p]

WriteChildPid ==
    /\ op.step = "spawned"
    /\ pidFile' = op.pid /\ op' = Idle
    /\ UNCHANGED <<procs, status, heartbeat>>

\* stop_runner, which cancel_task begins with: who runs?
Look ==
    /\ Quiet
    /\ \E cmd \in {"stop", "cancel"} :
        IF RunnerAlive = 0
        THEN /\ pidFile' = 0 /\ heartbeat' = NoHeartbeat
             /\ op' = [cmd |-> cmd, step |-> "stopped", pid |-> 0, ok |-> TRUE]
        ELSE /\ UNCHANGED <<pidFile, heartbeat>>
             /\ op' = [cmd |-> cmd, step |-> "validate", pid |-> RunnerAlive, ok |-> FALSE]
    /\ UNCHANGED <<procs, status>>

\* Mutant: SIGTERM is taken for the end of the process.
SignalIsEnough ==
    /\ op.step = "validate" /\ Owned(op.pid)
    /\ op' = [op EXCEPT !.step = "clear"]
    /\ UNCHANGED <<procs, files>>

Signal ==
    /\ op.step = "validate" /\ Owned(op.pid)
    /\ op' = [op EXCEPT !.step = "wait"]
    /\ UNCHANGED <<procs, files>>

\* Not a runner, or no longer alive.
Foreign ==
    /\ op.step = "validate" /\ ~Owned(op.pid)
    /\ pidFile' = 0
    /\ op' = [op EXCEPT !.step = "stopped"]
    /\ UNCHANGED <<procs, status, heartbeat>>

\* The process has ended, or the grace period has, and it gets SIGKILL.
Terminated ==
    /\ op.step = "wait"
    /\ IF proc[op.pid] = "free" THEN UNCHANGED <<proc, stage>> ELSE Ended(op.pid)
    /\ op' = [op EXCEPT !.step = "clear"]
    /\ UNCHANGED <<copy, files>>

Clear ==
    /\ op.step = "clear"
    /\ pidFile' = IF pidFile = op.pid THEN 0 ELSE pidFile
    /\ heartbeat' = NoHeartbeat
    /\ op' = [op EXCEPT !.step = "stopped", !.ok = TRUE]
    /\ UNCHANGED <<procs, status>>

StopReturns ==
    /\ op.cmd = "stop" /\ op.step = "stopped"
    /\ op' = Idle
    /\ UNCHANGED <<procs, files>>

\* cancel_task goes on whatever stop_runner has returned.
Cancel ==
    /\ op.cmd = "cancel" /\ op.step = "stopped"
    /\ status' = "cancelled" /\ op' = Idle
    /\ UNCHANGED <<procs, pidFile, heartbeat>>

\* Mutant: cleanup trusts the heartbeat to say that nobody runs.
BusyByHeartbeat == FoundByHeartbeat # 0

\* cleanup_task looks at runner.pid alone.
Busy == pidFile # 0 /\ Owned(pidFile)

\* Refused, or runner.pid, the heartbeat and state.lock are removed ...
Cleanup ==
    /\ Quiet
    /\ IF Busy THEN UNCHANGED <<pidFile, heartbeat, op>>
       ELSE /\ pidFile' = 0 /\ heartbeat' = NoHeartbeat
            /\ op' = [Idle EXCEPT !.cmd = "cleanup", !.step = "worktrees"]
    /\ UNCHANGED <<procs, status>>

\* ... and then the worktrees.
RemoveWorktrees ==
    /\ op.step = "worktrees"
    /\ op' = Idle
    /\ UNCHANGED <<procs, files>>

Operator ==
    \/ StartForeground \/ Detach \/ WriteChildPid
    \/ Look \/ Signal \/ Foreign \/ Terminated \/ Clear \/ StopReturns \/ Cancel
    \/ Cleanup \/ RemoveWorktrees

Next == Operator \/ \E p \in Pids : RunnerStep(p) \/ Dies(p) \/ PidReused(p)

Spec == Init /\ [][Next]_vars

----------------------------------------------------------------------------
(* Properties *)

TypeOK ==
    /\ proc \in [Pids -> {"free", "runner"} \cup Others] /\ stage \in [Pids -> Stages]
    /\ \A p \in Pids : proc[p] = "runner" <=> stage[p] # "none"
    /\ copy \in [Pids -> Statuses] /\ status \in Statuses
    /\ pidFile \in Pids \cup {0} /\ heartbeat \in [pid : Pids \cup {0}, live : BOOLEAN]
    /\ op \in [cmd : {"none", "detach", "stop", "cancel", "cleanup"},
               step : {"idle", "spawned", "validate", "wait", "clear", "stopped", "worktrees"},
               pid : Pids \cup {0}, ok : BOOLEAN]

\* A runner in its loop can be found and stopped at any time: runner.pid names
\* it, although pid files of killed runners are left behind, their ids are used
\* again, the parent of a detached runner writes the file as well, and stop,
\* cleanup and ending runners remove it.
RunnerFindable ==
    \A p \in Pids :
        proc[p] = "runner" /\ stage[p] \in {"head", "loaded", "work"} => RunnerAlive = p

\* When stop reports success, no runner of the task is left to save its copy.
StopStops ==
    op.step = "stopped" /\ op.ok => \A p \in Pids : proc[p] # "runner"

\* A cancelled task stays cancelled: no runner that loaded the state before
\* saves it after (docs/INTEGRATION.md:32, "Stop runner and mark task
\* cancelled").
CancelledStays == [][status = "cancelled" => status' = "cancelled"]_vars

\* cleanup takes no worktree, and no state.lock, from under a runner.
CleanupSpares == op.step = "worktrees" => \A p \in Pids : proc[p] # "runner"
=============================================================================
