-------------------------- MODULE RunnerControlProofs --------------------------
(***************************************************************************)
(* Proofs about RunnerControl, for any number of process ids.              *)
(*                                                                         *)
(* The properties stand on one fact, RunnerInv: at most one process runs   *)
(* the task, runner.pid names it from WritePid on, and a command of the    *)
(* operator that is under way is about it or finds none.  A runner in its  *)
(* first steps is not yet named; what protects it is that the operator     *)
(* lets it come up (Quiet), or that the command is the detached start      *)
(* itself.  CopyInv adds what the runner has in memory: a copy from before *)
(* a cancel is gone when the cancel is saved.                              *)
(***************************************************************************)
EXTENDS RunnerControl, TLAPS

\* What the operator's command and the heartbeat can be.
Commands ==
    [cmd : {"none", "detach", "stop", "cancel", "cleanup"},
     step : {"idle", "spawned", "validate", "wait", "clear", "stopped", "worktrees"},
     pid : Pids \cup {0}, ok : BOOLEAN]

Heartbeats == [pid : Pids \cup {0}, live : BOOLEAN]

\* The task has at most one runner, and runner.pid names it once it has passed
\* WritePid.
Single ==
    /\ \A p, q \in Pids : proc[p] = "runner" /\ proc[q] = "runner" => p = q
    /\ \A p \in Pids : proc[p] = "runner" /\ stage[p] \notin {"boot", "init"} => pidFile = p

\* What a command under way knows of the runner: it is the one the command is
\* about, or there is none.
CommandKnows ==
    /\ op.step = "idle" => op = Idle
    /\ op.step \in {"spawned", "validate", "wait", "clear"} => op.pid \in Pids
    /\ op.step \in {"validate", "wait"} =>
           \A p \in Pids : proc[p] = "runner" => p = pidFile
    /\ op.step \in {"spawned", "validate", "wait"} =>
           \A p \in Pids : proc[p] = "runner" => p = op.pid
    /\ op.step \in {"clear", "stopped", "worktrees"} =>
           \A p \in Pids : proc[p] # "runner"

\* What a runner has in memory is not older than a cancel: it goes to work on
\* a task that is open, and what it loaded of a cancelled task says so.
Fresh ==
    \A p \in Pids :
        /\ stage[p] = "work" => copy[p] = "open" /\ status # "cancelled"
        /\ stage[p] \in {"init", "loaded"} /\ status = "cancelled" => copy[p] = "cancelled"

RunnerInv == TypeOK /\ Single /\ CommandKnows

CopyInv == RunnerInv /\ Fresh

----------------------------------------------------------------------------
(* Values and their types. *)

\* Both parts of the type invariant by the names above.
LEMMA Typed == TypeOK => op \in Commands /\ heartbeat \in Heartbeats
  BY DEF TypeOK, Commands, Heartbeats

\* The commands and the heartbeats the actions write.
LEMMA ValuesTyped ==
  /\ Idle \in Commands /\ NoHeartbeat \in Heartbeats
  /\ \A p \in Pids, live \in BOOLEAN : [pid |-> p, live |-> live] \in Heartbeats
  /\ \A p \in Pids : [Idle EXCEPT !.cmd = "detach", !.step = "spawned", !.pid = p] \in Commands
  /\ [Idle EXCEPT !.cmd = "cleanup", !.step = "worktrees"] \in Commands
  /\ \A c \in {"stop", "cancel"} :
        [cmd |-> c, step |-> "stopped", pid |-> 0, ok |-> TRUE] \in Commands
  /\ \A c \in {"stop", "cancel"}, p \in Pids :
        [cmd |-> c, step |-> "validate", pid |-> p, ok |-> FALSE] \in Commands
  BY DEF Idle, NoHeartbeat, Commands, Heartbeats

----------------------------------------------------------------------------
(* What the functions of runner_control.py return. *)

\* is_runner_alive returns a process id or nobody's.
LEMMA AliveIsId == TypeOK => RunnerAlive \in Pids \cup {0}
  BY ControlAssumption DEF TypeOK, RunnerAlive

\* Once it is named, is_runner_alive finds the runner.
LEMMA NamedIsAlive ==
  ASSUME TypeOK, NEW p \in Pids, proc[p] = "runner", pidFile = p
  PROVE  RunnerAlive = p /\ Busy
  BY ControlAssumption DEF TypeOK, RunnerAlive, Alive, Busy, Owned

\* When the operator gives the next command, the runner, if there is one, is
\* named.
LEMMA QuietNames ==
  ASSUME RunnerInv, Quiet
  PROVE  \A p \in Pids : proc[p] = "runner" => pidFile = p /\ RunnerAlive = p /\ Busy
<1> SUFFICES ASSUME NEW p \in Pids, proc[p] = "runner"
             PROVE  pidFile = p /\ RunnerAlive = p /\ Busy
  OBVIOUS
<1>1. pidFile = p
  BY DEF RunnerInv, Single, Quiet
<1> QED
  BY <1>1, NamedIsAlive DEF RunnerInv

----------------------------------------------------------------------------
(* The steps of a runner, and of the operating system. *)

\* A runner's steps but the last two leave the processes and the command as
\* they are; they end where runner.pid names the runner, if it did or the step
\* is WritePid.
LEMMA StepKeeps ==
  ASSUME RunnerInv, NEW p \in Pids, NEW next \in Stages \ {"none"},
         proc[p] = "runner", Step(p, next),
         pidFile' \in {pidFile, p},
         next \notin {"boot", "init"} => pidFile' = p,
         copy' \in [Pids -> Statuses], status' \in Statuses,
         heartbeat' \in Heartbeats
  PROVE  RunnerInv'
<1> USE DEF RunnerInv
<1>1. \A q \in Pids : proc[q] = "runner" => q = p
  BY DEF Single
<1>2. TypeOK'
  BY DEF TypeOK, Step, Stages, Heartbeats
<1>3. Single'
  BY <1>1 DEF Single, Step, TypeOK
<1>4. CommandKnows'
  BY <1>1 DEF CommandKnows, Step, Single
<1> QED
  BY <1>2, <1>3, <1>4

\* A process that ends takes nothing from what is known of the others.
LEMMA EndKeeps ==
  ASSUME RunnerInv, NEW p \in Pids, Ended(p), UNCHANGED <<copy, status, heartbeat, op>>,
         pidFile' = pidFile \/ (proc[p] = "runner" /\ pidFile' = 0)
  PROVE  RunnerInv'
<1> USE DEF RunnerInv
<1>1. proc' \in [Pids -> {"free", "runner"} \cup Others] /\ stage' \in [Pids -> Stages]
  BY DEF TypeOK, Ended, Stages
<1>2. \A q \in Pids : proc'[q] = "runner" <=> proc[q] = "runner" /\ q # p
  BY DEF TypeOK, Ended
<1>3. \A q \in Pids : stage'[q] = IF q = p THEN "none" ELSE stage[q]
  BY DEF TypeOK, Ended
<1>4. TypeOK'
  BY <1>1, <1>2, <1>3 DEF TypeOK
<1>5. Single'
  BY <1>2, <1>3 DEF Single
<1>6. CommandKnows'
  BY <1>2 DEF CommandKnows, Single
<1> QED
  BY <1>4, <1>5, <1>6

\* A runner's step.
LEMMA RunnerStepKeeps ==
  ASSUME RunnerInv, NEW p \in Pids, RunnerStep(p)
  PROVE  RunnerInv'
<1>1. TypeOK /\ Single
  BY DEF RunnerInv
<1>2. CASE LoadInitial(p)
  <2>1. copy' \in [Pids -> Statuses] /\ pidFile' = pidFile /\ Step(p, "init") /\ At(p, "boot")
    BY <1>1, <1>2 DEF LoadInitial, TypeOK, files
  <2> QED
    BY <1>1, <1>2, <2>1, StepKeeps, Typed DEF LoadInitial, TypeOK, files, Stages, At
<1>3. CASE SaveInitial(p)
  BY <1>1, <1>3, StepKeeps, Typed DEF SaveInitial, TypeOK, Stages, At
<1>4. CASE WritePid(p)
  BY <1>1, <1>4, StepKeeps, Typed DEF WritePid, TypeOK, Stages, At
<1>5. CASE Load(p)
  <2>1. copy' \in [Pids -> Statuses]
    BY <1>1, <1>5 DEF Load, TypeOK
  <2>2. heartbeat' \in Heartbeats
    BY <1>1, <1>5, ValuesTyped DEF Load
  <2> QED
    BY <1>1, <1>5, <2>1, <2>2, StepKeeps DEF Load, TypeOK, Single, Stages, At
<1>6. CASE LeaveLoop(p)
  <2>1. status' \in Statuses
    BY <1>1, <1>6 DEF LeaveLoop, TypeOK
  <2>2. heartbeat' \in Heartbeats
    BY <1>1, <1>6, ValuesTyped, Typed DEF LeaveLoop
  <2> QED
    BY <1>1, <1>6, <2>1, <2>2, StepKeeps DEF LeaveLoop, TypeOK, Single, Stages, At
<1>7. CASE BeginPhases(p)
  BY <1>1, <1>7, StepKeeps, Typed DEF BeginPhases, files, TypeOK, Single, Stages, At
<1>8. CASE SaveInPhase(p)
  <2>1. status' \in Statuses
    BY <1>1, <1>8 DEF SaveInPhase, TypeOK
  <2>2. heartbeat' \in Heartbeats
    BY <1>1, <1>8, ValuesTyped, Typed DEF SaveInPhase
  <2> QED
    BY <1>1, <1>8, <2>1, <2>2, StepKeeps DEF SaveInPhase, TypeOK, Single, Stages, At
<1>9. CASE EndPhases(p)
  <2>1. status' \in Statuses
    BY <1>1, <1>9 DEF EndPhases, TypeOK, Statuses
  <2>2. PICK next \in {"head", "exit"} : Step(p, next)
    BY <1>9 DEF EndPhases
  <2> QED
    BY <1>1, <1>9, <2>1, <2>2, StepKeeps, Typed DEF EndPhases, TypeOK, Single, Stages, At
<1>10. CASE ReadPid(p)
  BY <1>1, <1>10, StepKeeps, Typed DEF ReadPid, files, TypeOK, Stages, At
<1>11. CASE Exit(p)
  BY <1>1, <1>11, EndKeeps DEF Exit, At
<1> QED
  BY <1>2, <1>3, <1>4, <1>5, <1>6, <1>7, <1>8, <1>9, <1>10, <1>11 DEF RunnerStep

\* An id is used again by a process that is not a runner of the task.
LEMMA ReuseKeeps ==
  ASSUME RunnerInv, NEW p \in Pids, PidReused(p)
  PROVE  RunnerInv'
<1> USE DEF RunnerInv
<1>1. PICK who \in Others : proc' = [proc EXCEPT ![p] = who]
  BY DEF PidReused
<1>2. who # "runner" /\ who # "free"
  BY ControlAssumption
<1>3. proc' \in [Pids -> {"free", "runner"} \cup Others]
  BY <1>1 DEF TypeOK
<1>4. \A q \in Pids : proc'[q] = "runner" <=> proc[q] = "runner"
  BY <1>1, <1>2 DEF TypeOK, PidReused
<1>5. UNCHANGED <<stage, copy, status, pidFile, heartbeat, op>>
  BY DEF PidReused, files
<1>6. TypeOK'
  BY <1>3, <1>4, <1>5 DEF TypeOK
<1>7. Single' /\ CommandKnows'
  BY <1>4, <1>5 DEF Single, CommandKnows
<1> QED
  BY <1>6, <1>7

----------------------------------------------------------------------------
(* The steps of the operator. *)

\* A runner is started only where there is none: status has found nobody, and
\* there is nobody who is not yet named.
LEMMA StartKeeps ==
  ASSUME RunnerInv, Quiet, NEW p \in Pids, Started(p),
         op' \in {Idle, [Idle EXCEPT !.cmd = "detach", !.step = "spawned", !.pid = p]}
  PROVE  RunnerInv'
<1> USE DEF RunnerInv
<1>1. \A q \in Pids : proc[q] # "runner"
  BY QuietNames, ControlAssumption DEF Started
<1>2. proc' \in [Pids -> {"free", "runner"} \cup Others] /\ stage' \in [Pids -> Stages]
  BY DEF Started, TypeOK, Stages
<1>3. \A q \in Pids : proc'[q] = "runner" <=> q = p
  BY <1>1 DEF Started, TypeOK
<1>4. \A q \in Pids : stage'[q] = IF q = p THEN "boot" ELSE "none"
  BY <1>1 DEF Started, TypeOK, Stages
<1>5. UNCHANGED <<copy, status, pidFile, heartbeat>>
  BY DEF Started, files
<1>6. TypeOK'
  <2>1. op' \in Commands
    BY ValuesTyped
  <2> QED
    BY <1>2, <1>3, <1>4, <1>5, <2>1 DEF TypeOK, Commands
<1>7. Single'
  BY <1>3, <1>4 DEF Single
<1>8. op' = Idle \/ (op'.step = "spawned" /\ op'.pid = p)
  BY DEF Idle
<1>9. CommandKnows'
  BY <1>3, <1>8 DEF CommandKnows, Idle
<1> QED
  BY <1>6, <1>7, <1>9

\* A step of a command that leaves the processes alone: it is right about the
\* runner if its next step is, and it takes runner.pid only from nobody.
LEMMA CommandKeeps ==
  ASSUME RunnerInv, UNCHANGED procs, CommandKnows',
         status' \in Statuses, heartbeat' \in {heartbeat, NoHeartbeat},
         pidFile' \in Pids \cup {0},
         \A p \in Pids : proc[p] = "runner" => pidFile' \in {pidFile, p},
         op' \in Commands
  PROVE  RunnerInv'
<1>1. heartbeat' \in Heartbeats
  BY ValuesTyped, Typed DEF RunnerInv
<1>2. TypeOK'
  BY <1>1 DEF RunnerInv, TypeOK, procs, Commands, Heartbeats
<1>3. Single'
  BY DEF RunnerInv, Single, procs
<1> QED
  BY <1>2, <1>3 DEF RunnerInv

\* A step of the operator.
LEMMA OperatorKeeps ==
  ASSUME RunnerInv, Operator
  PROVE  RunnerInv'
<1>1. TypeOK /\ Single /\ CommandKnows
  BY DEF RunnerInv
<1>2. CASE StartForeground
  BY <1>2, StartKeeps DEF StartForeground, Quiet
<1>3. CASE Detach
  <2>1. PICK p \in Pids : Started(p)
                /\ op' = [Idle EXCEPT !.cmd = "detach", !.step = "spawned", !.pid = p]
    BY <1>3 DEF Detach
  <2> QED
    BY <1>3, <2>1, StartKeeps DEF Detach
<1>4. CASE WriteChildPid
  <2>1. CommandKnows'
    BY <1>1, <1>4 DEF WriteChildPid, CommandKnows, Idle
  <2>2. \A p \in Pids : proc[p] = "runner" => pidFile' \in {pidFile, p}
    BY <1>1, <1>4 DEF WriteChildPid, CommandKnows
  <2> QED
    BY <1>1, <1>4, <2>1, <2>2, CommandKeeps, ValuesTyped DEF WriteChildPid, TypeOK
<1>5. CASE Look
  <2>1. \A p \in Pids : proc[p] = "runner" => pidFile = p /\ RunnerAlive = p
    BY <1>5, QuietNames DEF Look
  <2>2. PICK cmd \in {"stop", "cancel"} :
          IF RunnerAlive = 0
          THEN /\ pidFile' = 0 /\ heartbeat' = NoHeartbeat
               /\ op' = [cmd |-> cmd, step |-> "stopped", pid |-> 0, ok |-> TRUE]
          ELSE /\ UNCHANGED <<pidFile, heartbeat>>
               /\ op' = [cmd |-> cmd, step |-> "validate", pid |-> RunnerAlive, ok |-> FALSE]
    BY <1>5 DEF Look
  <2>3. UNCHANGED procs /\ status' = status
    BY <1>5 DEF Look
  <2>4. CASE RunnerAlive = 0
    <3>1. \A p \in Pids : proc[p] # "runner"
      BY <2>1, <2>4, ControlAssumption
    <3>2. CommandKnows'
      BY <2>2, <2>3, <2>4, <3>1 DEF CommandKnows, procs
    <3> QED
      BY <1>1, <2>2, <2>3, <2>4, <3>1, <3>2, CommandKeeps, ValuesTyped DEF TypeOK
  <2>5. CASE RunnerAlive # 0
    <3>1. RunnerAlive \in Pids
      BY <1>1, <2>5, AliveIsId
    <3>2. CommandKnows'
      BY <2>1, <2>2, <2>3, <2>5, <3>1 DEF CommandKnows, procs
    <3>3. op' \in Commands /\ UNCHANGED <<pidFile, heartbeat>>
      BY <2>2, <2>5, <3>1, ValuesTyped
    <3> QED
      BY <1>1, <2>3, <3>2, <3>3, CommandKeeps DEF TypeOK
  <2> QED
    BY <2>4, <2>5
<1>6. CASE Signal
  <2>1. op'.step = "wait" /\ op'.pid = op.pid /\ UNCHANGED <<procs, files>>
    BY <1>1, <1>6 DEF Signal, TypeOK
  <2>2. CommandKnows'
    BY <1>1, <1>6, <2>1 DEF Signal, CommandKnows, procs, files
  <2>3. op' \in Commands
    BY <1>1, <1>6 DEF Signal, TypeOK, Commands
  <2> QED
    BY <1>1, <2>1, <2>2, <2>3, CommandKeeps DEF TypeOK, files
<1>7. CASE Foreign
  <2>1. op'.step = "stopped" /\ UNCHANGED <<procs, status, heartbeat>> /\ pidFile' = 0
    BY <1>1, <1>7 DEF Foreign, TypeOK
  <2>2. \A p \in Pids : proc[p] # "runner"
    BY <1>1, <1>7 DEF Foreign, CommandKnows, Owned
  <2>3. CommandKnows'
    BY <2>1, <2>2 DEF CommandKnows, procs
  <2>4. op' \in Commands
    BY <1>1, <1>7 DEF Foreign, TypeOK, Commands
  <2> QED
    BY <1>1, <2>1, <2>2, <2>3, <2>4, CommandKeeps DEF TypeOK
<1>8. CASE Terminated
  <2>1. op'.step = "clear" /\ op'.pid = op.pid /\ UNCHANGED <<copy, status, pidFile, heartbeat>>
    BY <1>1, <1>8 DEF Terminated, TypeOK, files
  <2>2. op' \in Commands
    BY <1>1, <1>8 DEF Terminated, TypeOK, Commands
  <2>3. op.pid \in Pids /\ \A p \in Pids : proc[p] = "runner" => p = op.pid
    BY <1>1, <1>8 DEF Terminated, CommandKnows
  <2>4. /\ proc' \in [Pids -> {"free", "runner"} \cup Others] /\ stage' \in [Pids -> Stages]
        /\ \A p \in Pids : proc'[p] # "runner" /\ stage'[p] = "none"
    BY <1>1, <1>8, <2>3 DEF Terminated, Ended, TypeOK, Stages
  <2>5. TypeOK'
    BY <1>1, <2>1, <2>2, <2>4 DEF TypeOK, Commands
  <2>6. Single' /\ CommandKnows'
    BY <2>1, <2>3, <2>4 DEF Single, CommandKnows
  <2> QED
    BY <2>5, <2>6 DEF RunnerInv
<1>9. CASE Clear
  <2>1. op'.step = "stopped" /\ UNCHANGED <<procs, status>>
    BY <1>1, <1>9 DEF Clear, TypeOK
  <2>2. \A p \in Pids : proc[p] # "runner"
    BY <1>1, <1>9 DEF Clear, CommandKnows
  <2>3. CommandKnows'
    BY <2>1, <2>2 DEF CommandKnows, procs
  <2>4. op' \in Commands
    BY <1>1, <1>9 DEF Clear, TypeOK, Commands
  <2> QED
    BY <1>1, <1>9, <2>1, <2>2, <2>3, <2>4, CommandKeeps DEF Clear, TypeOK
<1>10. CASE StopReturns \/ RemoveWorktrees
  <2>1. op' = Idle /\ UNCHANGED <<procs, files>>
    BY <1>10 DEF StopReturns, RemoveWorktrees
  <2>2. CommandKnows'
    BY <2>1 DEF CommandKnows, Idle
  <2> QED
    BY <1>1, <2>1, <2>2, CommandKeeps, ValuesTyped DEF TypeOK, files
<1>11. CASE Cancel
  <2>1. CommandKnows'
    BY <1>11 DEF Cancel, CommandKnows, Idle
  <2> QED
    BY <1>1, <1>11, <2>1, CommandKeeps, ValuesTyped DEF Cancel, TypeOK, Statuses
<1>12. CASE Cleanup
  <2>1. UNCHANGED <<procs, status>>
    BY <1>12 DEF Cleanup
  <2>2. CASE Busy
    <3>1. UNCHANGED <<pidFile, heartbeat, op>>
      BY <1>12, <2>2 DEF Cleanup
    <3>2. CommandKnows'
      BY <1>1, <2>1, <3>1 DEF CommandKnows, procs
    <3> QED
      BY <1>1, <2>1, <3>1, <3>2, CommandKeeps, Typed DEF TypeOK
  <2>3. CASE ~Busy
    <3>1. /\ pidFile' = 0 /\ heartbeat' = NoHeartbeat
          /\ op' = [Idle EXCEPT !.cmd = "cleanup", !.step = "worktrees"]
      BY <1>12, <2>3 DEF Cleanup
    <3>2. \A p \in Pids : proc[p] # "runner"
      BY <1>12, <2>3, QuietNames DEF Cleanup
    <3>3. CommandKnows'
      BY <2>1, <3>1, <3>2 DEF CommandKnows, procs, Idle
    <3> QED
      BY <1>1, <2>1, <3>1, <3>2, <3>3, CommandKeeps, ValuesTyped DEF TypeOK
  <2> QED
    BY <2>2, <2>3
<1> QED
  BY <1>2, <1>3, <1>4, <1>5, <1>6, <1>7, <1>8, <1>9, <1>10, <1>11, <1>12 DEF Operator

----------------------------------------------------------------------------
(* The invariant, and what follows from it. *)

\* Nothing runs before the first start.
LEMMA InitInv == Init => CopyInv
  BY DEF Init, CopyInv, RunnerInv, TypeOK, Single, CommandKnows, Fresh, Idle, NoHeartbeat,
         Stages, Statuses

\* Every step keeps who runs and who is named.
LEMMA NextInv == RunnerInv /\ [Next]_vars => RunnerInv'
<1> SUFFICES ASSUME RunnerInv, [Next]_vars PROVE RunnerInv'
  OBVIOUS
<1>1. CASE Operator
  BY <1>1, OperatorKeeps
<1>2. ASSUME NEW p \in Pids, RunnerStep(p) PROVE RunnerInv'
  BY <1>2, RunnerStepKeeps
<1>3. ASSUME NEW p \in Pids, Dies(p) PROVE RunnerInv'
  BY <1>3, EndKeeps DEF Dies, files
<1>4. ASSUME NEW p \in Pids, PidReused(p) PROVE RunnerInv'
  BY <1>4, ReuseKeeps
<1>5. CASE UNCHANGED vars
  BY <1>5 DEF vars, procs, files, RunnerInv, TypeOK, Single, CommandKnows
<1> QED
  BY <1>1, <1>2, <1>3, <1>4, <1>5 DEF Next

\* The steps that end or replace a process, or are the operator's, leave the
\* copies alone, and save at most the cancel, when no runner is left.
LEMMA OthersFresh ==
  ASSUME RunnerInv, Fresh, UNCHANGED copy,
         status' = status \/ \A p \in Pids : proc[p] # "runner",
         \A p \in Pids : stage'[p] \in {stage[p], "none", "boot"}
  PROVE  Fresh'
<1> SUFFICES ASSUME NEW p \in Pids,
                    stage'[p] \in {"work", "init", "loaded"}
             PROVE  /\ stage'[p] = "work" => copy'[p] = "open" /\ status' # "cancelled"
                    /\ stage'[p] \in {"init", "loaded"} /\ status' = "cancelled"
                          => copy'[p] = "cancelled"
  BY DEF Fresh
<1>1. stage'[p] = stage[p] /\ proc[p] = "runner"
  BY DEF RunnerInv, TypeOK
<1> QED
  BY <1>1 DEF Fresh

\* Every step keeps what the runner has in memory no older than a cancel, and
\* none undoes the cancel.
LEMMA NextFresh ==
  CopyInv /\ [Next]_vars => Fresh' /\ (status = "cancelled" => status' = "cancelled")
<1> SUFFICES ASSUME CopyInv, [Next]_vars
             PROVE  Fresh' /\ (status = "cancelled" => status' = "cancelled")
  OBVIOUS
<1>1. RunnerInv /\ Fresh /\ TypeOK /\ Single
  BY DEF CopyInv, RunnerInv
<1>2. ASSUME NEW p \in Pids, RunnerStep(p)
      PROVE  Fresh' /\ (status = "cancelled" => status' = "cancelled")
  <2>1. \A q \in Pids : q # p => stage[q] = "none"
    BY <1>1, <1>2 DEF RunnerStep, LoadInitial, SaveInitial, WritePid, Load, LeaveLoop, BeginPhases,
         SaveInPhase, EndPhases, ReadPid, Exit, At, Single, TypeOK
  <2>2. SUFFICES /\ stage' \in [Pids -> Stages]
                 /\ \A q \in Pids : q # p => stage'[q] = "none"
                 /\ stage'[p] = "work" => copy'[p] = "open" /\ status' # "cancelled"
                 /\ stage'[p] \in {"init", "loaded"} /\ status' = "cancelled"
                       => copy'[p] = "cancelled"
                 /\ status = "cancelled" => status' = "cancelled"
    BY DEF Fresh
  <2>3. CASE LoadInitial(p)
    BY <1>1, <2>1, <2>3 DEF LoadInitial, Step, files, TypeOK, Stages
  <2>4. CASE SaveInitial(p)
    BY <1>1, <2>1, <2>4 DEF SaveInitial, At, Step, Fresh, TypeOK, Stages
  <2>5. CASE WritePid(p)
    BY <1>1, <2>1, <2>5 DEF WritePid, Step, TypeOK, Stages
  <2>6. CASE Load(p)
    BY <1>1, <2>1, <2>6 DEF Load, Step, TypeOK, Stages
  <2>7. CASE LeaveLoop(p)
    BY <1>1, <2>1, <2>7 DEF LeaveLoop, At, Step, Fresh, TypeOK, Stages
  <2>8. CASE BeginPhases(p)
    BY <1>1, <2>1, <2>8 DEF BeginPhases, At, Step, Fresh, files, TypeOK, Stages
  <2>9. CASE SaveInPhase(p)
    BY <1>1, <2>1, <2>9 DEF SaveInPhase, At, Step, Fresh, TypeOK, Stages
  <2>10. CASE EndPhases(p)
    BY <1>1, <2>1, <2>10 DEF EndPhases, At, Step, Fresh, TypeOK, Stages
  <2>11. CASE ReadPid(p)
    BY <1>1, <2>1, <2>11 DEF ReadPid, Step, files, TypeOK, Stages
  <2>12. CASE Exit(p)
    BY <1>1, <2>1, <2>12 DEF Exit, Ended, TypeOK, Stages
  <2> QED
    BY <1>2, <2>3, <2>4, <2>5, <2>6, <2>7, <2>8, <2>9, <2>10, <2>11, <2>12 DEF RunnerStep
<1>3. ASSUME NEW p \in Pids, Dies(p) \/ PidReused(p)
      PROVE  Fresh' /\ (status = "cancelled" => status' = "cancelled")
  <2>1. UNCHANGED <<copy, status>> /\ \A q \in Pids : stage'[q] \in {stage[q], "none"}
    BY <1>1, <1>3 DEF Dies, Ended, PidReused, files, TypeOK
  <2> QED
    BY <1>1, <2>1, OthersFresh
<1>4. CASE Operator
  <2>1. UNCHANGED copy /\ \A q \in Pids : stage'[q] \in {stage[q], "none", "boot"}
    BY <1>1, <1>4 DEF Operator, StartForeground, Detach, Started, WriteChildPid, Look, Signal,
         Foreign, Terminated, Ended, Clear, StopReturns, Cancel, Cleanup, RemoveWorktrees, procs, TypeOK
  <2>2. status' = status \/ (Cancel /\ status' = "cancelled")
    BY <1>4 DEF Operator, StartForeground, Detach, Started, WriteChildPid, Look, Signal, Foreign,
         Terminated, Clear, StopReturns, Cancel, Cleanup, RemoveWorktrees, files
  <2>3. Cancel => \A p \in Pids : proc[p] # "runner"
    BY <1>1 DEF RunnerInv, CommandKnows, Cancel
  <2> QED
    BY <1>1, <2>1, <2>2, <2>3, OthersFresh
<1>5. CASE UNCHANGED vars
  BY <1>1, <1>5 DEF Fresh, vars, procs, files
<1> QED
  BY <1>2, <1>3, <1>4, <1>5 DEF Next

\* The inductive invariant, with what a step may never do to the status.
LEMMA RunnerInvariant == Spec => []CopyInv /\ CancelledStays
<1>1. CopyInv /\ [Next]_vars => CopyInv' /\ (status = "cancelled" => status' = "cancelled")
  BY NextInv, NextFresh DEF CopyInv
<1>2. CopyInv /\ [Next]_vars => [status = "cancelled" => status' = "cancelled"]_vars
  BY <1>1
<1> QED
  BY InitInv, <1>1, <1>2, PTL DEF Spec, CancelledStays

\* Type correctness, for any set of process ids and whoever shares them.
THEOREM TypeCorrect == Spec => []TypeOK
<1>1. CopyInv => TypeOK
  BY DEF CopyInv, RunnerInv
<1> QED
  BY <1>1, RunnerInvariant, PTL

\* A runner in its loop can be found at any time (is_runner_alive): runner.pid
\* names it, whatever pid files, reused ids and commands of the operator have
\* come between.
THEOREM RunnerCanBeFound == Spec => []RunnerFindable
<1>1. CopyInv => RunnerFindable
  <2> SUFFICES ASSUME CopyInv, NEW p \in Pids, proc[p] = "runner",
                      stage[p] \in {"head", "loaded", "work"}
               PROVE  RunnerAlive = p
    BY DEF RunnerFindable
  <2>1. TypeOK /\ pidFile = p
    BY DEF CopyInv, RunnerInv, Single
  <2> QED
    BY <2>1, NamedIsAlive
<1> QED
  BY <1>1, RunnerInvariant, PTL

\* When stop_runner reports success no runner of the task is left.
THEOREM StopLeavesNobody == Spec => []StopStops
<1>1. CopyInv => StopStops
  BY DEF CopyInv, RunnerInv, CommandKnows, StopStops
<1> QED
  BY <1>1, RunnerInvariant, PTL

\* cleanup_task removes worktrees only when nobody runs the task.
THEOREM CleanupTakesNothing == Spec => []CleanupSpares
<1>1. CopyInv => CleanupSpares
  BY DEF CopyInv, RunnerInv, CommandKnows, CleanupSpares
<1> QED
  BY <1>1, RunnerInvariant, PTL

\* cancel_task is final: no save of a runner undoes it.
THEOREM CancelIsFinal == Spec => CancelledStays
  BY RunnerInvariant, PTL
=============================================================================
