--------------------------- MODULE ProviderRuntime ---------------------------
(***************************************************************************)
(* A runner's calls of providers and test commands, one after another      *)
(* (provider_runtime.run_provider_with_heartbeat, subprocess_util).  A     *)
(* provider is called in a thread, the worker, which starts a process      *)
(* group, reads its pipes until they close, and on a timeout sends SIGTERM *)
(* and, after a grace period, SIGKILL.  A watchdog thread does the same    *)
(* when the worker is late, and the caller when both are.  A test command  *)
(* is run by the caller itself: its thread is the worker, and no limit     *)
(* lies around it.                                                         *)
(*                                                                         *)
(* In a call threads are late at will: only the order of its deadlines is  *)
(* kept.  Signals to a process of another user, and KeyboardInterrupt,     *)
(* which no worker thread gets, are left out; so is the wait of 0.2 s for  *)
(* the watchdog, which a late watchdog outlasts.                           *)
(***************************************************************************)
EXTENDS Naturals

CONSTANTS
    MaxLate,    \* bound: earlier workers that still wait for a pipe
    Kinds,      \* what is called
    Natures,    \* what the leader of the group does on SIGTERM
    Descents    \* the sets of descendants a leader may start

Kin     == {"holds", "quiet", "outside"}  \* in the group with the pipe, without; in a session of its own
InGroup == {"holds", "quiet"}

ASSUME CallsAssumption ==
    /\ MaxLate \in Nat
    /\ Kinds \subseteq {"provider", "test"}
    /\ Natures \subseteq {"plain", "graceful", "stubborn"}
    /\ Descents \subseteq SUBSET Kin

VARIABLES
    call,    \* the last call: its thread, process group, watchdog and report
    caller,  \* what the caller does
    active,  \* _active_pgid names the group of the last call
    late     \* how many earlier workers have not returned

vars == <<call, caller, active, late>>

Reports == {"none", "ok", "error", "timed_out"}

CallType ==
    [kind : {"provider", "test"}, nature : {"plain", "graceful", "stubborn"}, kin : SUBSET Kin,
     clock : 0..3,      \* deadlines passed: timeout, watchdog, outer limit
     stage : {"spawn", "comm", "grace", "drain", "final", "done"},
     leader : {"none", "running", "zombie", "reaped"},
     code : {"none", "zero", "nonzero"}, signalled : BOOLEAN, ended : {"no", "alone", "signalled"},
     watchdog : {"off", "armed", "saw", "force", "grace"},
     forced : BOOLEAN, timedOut : BOOLEAN, hung : BOOLEAN,
     report : Reports,               \* what the worker returned
     result : Reports \cup {"hung"}] \* what the caller was given

NewCall(kind, nature) ==
    [kind |-> kind, nature |-> nature, kin |-> {}, clock |-> 0, stage |-> "spawn",
     leader |-> "none", code |-> "none", signalled |-> FALSE, ended |-> "no",
     watchdog |-> "off", forced |-> FALSE, timedOut |-> FALSE, hung |-> FALSE,
     report |-> "none", result |-> "none"]

\* Before the first call: as after one that has ended.
Init ==
    /\ call = [NewCall("provider", "plain") EXCEPT !.stage = "done"]
    /\ caller = "idle" /\ active = FALSE /\ late = 0

----------------------------------------------------------------------------
(* Processes and signals *)

\* Mutant: the group is gone when its leader does not run.
LeaderRuns(r) == r.leader = "running"

\* _process_group_alive: a leader nobody has waited for still counts.
Alive(r) == r.leader \in {"running", "zombie"} \/ r.kin \cap InGroup # {}

PipeOpen(r) == r.leader = "running" \/ r.kin \cap {"holds", "outside"} # {}

Gone(r) == r.leader # "running" /\ r.kin \cap InGroup = {}

Ends(r, code) ==
    [r EXCEPT !.leader = "zombie", !.code = code,
              !.ended = IF r.signalled THEN "signalled" ELSE "alone"]

\* SIGTERM to the group, which the descendants in survivors outlive.
Termed(r, survivors) ==
    LET s == [r EXCEPT !.kin = (@ \ InGroup) \cup survivors, !.signalled = TRUE]
    IN  CASE r.leader = "running" /\ r.nature = "plain"    -> Ends(s, "nonzero")
          [] r.leader = "running" /\ r.nature = "graceful" -> Ends(s, "zero")
          [] OTHER                                         -> s

Survivors == SUBSET (call.kin \cap InGroup)

\* Mutant: SIGTERM is sent where SIGKILL should be.
TermedAgain(r) == Termed(r, r.kin \cap InGroup)

Killed(r) ==
    LET s == [r EXCEPT !.kin = @ \ InGroup, !.signalled = TRUE]
    IN  IF r.leader = "running" THEN Ends(s, "nonzero") ELSE s

\* Someone waits for a leader that has ended.  A watchdog that has not yet
\* looked will find it gone.
Reaped(r) ==
    IF r.leader # "zombie" THEN r
    ELSE [r EXCEPT !.leader = "reaped", !.watchdog = IF @ = "armed" THEN "off" ELSE @]

Becomes(r) == call' = r /\ UNCHANGED <<caller, active, late>>

\* The leader ends of its own accord, or a descendant does; nothing says when.
LeaderExits ==
    /\ call.leader = "running"
    /\ \E code \in {"zero", "nonzero"} : Becomes(Ends(call, code))

KinEnds == \E k \in call.kin : Becomes([call EXCEPT !.kin = @ \ {k}])

\* Time passes as long as someone waits for the next deadline.  A process is
\* started in less than the timeout.
TimePasses ==
    /\ call.stage # "spawn"
    /\ \/ call.clock = 0 /\ call.stage = "comm"
       \/ call.clock <= 1 /\ call.watchdog = "armed"
       \/ call.clock <= 2 /\ caller = "wait" /\ call.kind = "provider"
    /\ Becomes([call EXCEPT !.clock = @ + 1])

----------------------------------------------------------------------------
(* The worker: run_with_timeout. *)

Spawn ==
    /\ call.stage = "spawn"
    /\ \E kin \in Descents : call' = [call EXCEPT
           !.stage = "comm", !.leader = "running", !.kin = kin, !.watchdog = "armed"]
    /\ active' = TRUE
    /\ UNCHANGED <<caller, late>>

\* communicate returns when the pipes are closed, and the leader is waited for.
CommEnds ==
    /\ call.stage = "comm" /\ ~PipeOpen(call)
    /\ Becomes([Reaped(call) EXCEPT !.stage = "final"])

TimesOut ==
    /\ call.stage = "comm" /\ call.clock >= 1
    /\ \E survivors \in Survivors : Becomes([Termed(call, survivors) EXCEPT
           !.timedOut = TRUE, !.stage = IF Alive(call) THEN "grace" ELSE "drain"])

GraceEnds ==
    /\ call.stage = "grace" /\ ~Alive(call)
    /\ Becomes([call EXCEPT !.stage = "drain"])

GraceExpires ==
    /\ call.stage = "grace"
    /\ Becomes([Killed(call) EXCEPT !.hung = Alive(call), !.stage = "drain"])

\* _drain_communicate: after 5 s it kills the leader, which is dead, and waits
\* again, without a limit.  Then the group is looked at once more.
Drained ==
    /\ call.stage = "drain" /\ ~PipeOpen(call)
    /\ LET r == Reaped(call)
       IN  Becomes(IF Alive(r) THEN [Killed(r) EXCEPT !.hung = TRUE, !.stage = "final"]
                   ELSE [r EXCEPT !.stage = "final"])

TimedOut(r) == r.timedOut \/ r.forced

\* Mutant: the exit code is returned as it is.
ExitCode(r) == IF TimedOut(r) THEN "timed_out" ELSE r.code

Report(r) ==
    CASE TimedOut(r)                        -> "timed_out"
      [] ~TimedOut(r) /\ r.code = "zero"    -> "ok"
      [] ~TimedOut(r) /\ r.code = "nonzero" -> "error"

\* The finally block, and what is returned.
Finally ==
    /\ call.stage = "final"
    /\ call' = [call EXCEPT !.stage = "done", !.timedOut = TimedOut(call),
                            !.hung = @ \/ call.forced, !.report = Report(call)]
    /\ active' = FALSE
    /\ UNCHANGED <<caller, late>>

Worker ==
    \/ Spawn \/ CommEnds \/ TimesOut \/ GraceEnds \/ GraceExpires \/ Drained \/ Finally

\* The pipe an earlier worker waits for closes.  Its finally block clears
\* _active_pgid, whichever call that names by now; its result is dropped.
LateWorkerEnds ==
    /\ late > 0
    /\ late' = late - 1 /\ active' = FALSE
    /\ UNCHANGED <<call, caller>>

----------------------------------------------------------------------------
(* The watchdog of run_with_timeout. *)

WatchdogPolls ==
    /\ call.watchdog = "armed" /\ call.clock >= 2
    /\ Becomes(IF call.leader = "running" THEN [call EXCEPT !.watchdog = "saw"] ELSE Reaped(call))

\* Mutant: the flag waits until SIGKILL was needed.
WatchdogForcesLater ==
    /\ call.watchdog = "saw"
    /\ Becomes([call EXCEPT !.watchdog = "force"])

WatchdogForces ==
    /\ call.watchdog = "saw"
    /\ Becomes([call EXCEPT !.watchdog = "force", !.forced = TRUE])

WatchdogTerms ==
    /\ call.watchdog = "force"
    /\ \E survivors \in Survivors : Becomes([Termed(call, survivors) EXCEPT
           !.watchdog = IF Alive(call) THEN "grace" ELSE "off"])

WatchdogKills ==
    /\ call.watchdog = "grace"
    /\ Becomes([Killed(call) EXCEPT !.watchdog = "off", !.forced = @ \/ Alive(call)])

Watchdog == WatchdogPolls \/ WatchdogForces \/ WatchdogTerms \/ WatchdogKills

----------------------------------------------------------------------------
(* The caller: run_provider_with_heartbeat, or run_test_phase. *)

\* Between two calls a runner takes longer than a thread that can act is late:
\* what may be left of the last call is a worker that waits for a pipe.
Settled ==
    /\ caller = "idle" /\ call.watchdog = "off"
    /\ \/ call.stage = "done"
       \/ call.stage = "drain" /\ PipeOpen(call)

Call ==
    /\ Settled
    /\ late' = IF call.stage = "drain" THEN late + 1 ELSE late
    /\ late' <= MaxLate
    /\ \E kind \in Kinds, nature \in Natures : call' = NewCall(kind, nature)
    /\ caller' = "wait"
    /\ UNCHANGED active

Returns ==
    /\ caller = "wait" /\ call.stage = "done"
    /\ call' = [call EXCEPT !.result = call.report]
    /\ caller' = "idle"
    /\ UNCHANGED <<active, late>>

\* worker.join has timed out: SIGTERM and at once SIGKILL to the active group.
OuterFires ==
    /\ caller = "wait" /\ call.kind = "provider"
    /\ call.clock = 3 /\ call.stage # "done"
    /\ IF active THEN call' \in {Killed(call), Killed(Termed(call, {}))} ELSE UNCHANGED call
    /\ caller' = "join"
    /\ UNCHANGED <<active, late>>

\* Mutant: the caller waits for its worker.
GivesUpWhenDone ==
    /\ caller = "join" /\ call.stage = "done"
    /\ call' = [call EXCEPT !.result = "hung"]
    /\ caller' = "idle"
    /\ UNCHANGED <<active, late>>

\* The worker has ended, or another 5 s have passed; a result that does not
\* say it timed out is dropped.
GivesUp ==
    /\ caller = "join"
    /\ call' = [call EXCEPT !.result =
           IF call.stage = "done" /\ call.report = "timed_out" THEN "timed_out" ELSE "hung"]
    /\ caller' = "idle"
    /\ UNCHANGED <<active, late>>

Next ==
    \/ Call \/ Returns \/ OuterFires \/ GivesUp
    \/ Worker \/ Watchdog \/ TimePasses
    \/ LeaderExits \/ KinEnds \/ LateWorkerEnds

Spec == Init /\ [][Next]_vars

\* Threads are scheduled and time passes; no process need ever end by itself.
LiveSpec ==
    /\ Spec
    /\ WF_vars(Worker) /\ WF_vars(Watchdog) /\ WF_vars(TimePasses)
    /\ WF_vars(Returns) /\ WF_vars(OuterFires) /\ WF_vars(GivesUp)

----------------------------------------------------------------------------
(* Properties *)

TypeOK ==
    /\ call \in CallType
    /\ caller \in {"idle", "wait", "join"} /\ active \in BOOLEAN /\ late \in 0..MaxLate

\* A provider that was told to stop is never reported as one that succeeded,
\* though it may end with exit code 0 on SIGTERM and whichever of worker,
\* watchdog and caller noticed first: its half-done work is not tested,
\* reviewed and merged.
OkEndedAlone ==
    call.result = "ok" => call.ended = "alone" /\ call.code = "zero"

\* The worker of a call that was given up found that the provider had ended by
\* itself: what it left in the background nobody stops, as after any other call.
EndedUnnoticed == call.result = "hung" /\ call.report \in {"ok", "error"}

\* What a timed-out call started has stopped writing to the worktree when the
\* call returns, its descendants in the group included, except while the
\* watchdog is still at it; and after a call that was given up, before the
\* next begins.
TimedOutGroupGone ==
    (call.result = "timed_out" /\ call.watchdog \notin {"force", "grace"})
        \/ (call.result = "hung" /\ Settled)
    => Gone(call) \/ EndedUnnoticed

\* It stops, even where the caller gave up while _active_pgid named no group.
TimedOutGroupEnds ==
    call.result \in {"timed_out", "hung"} ~> Gone(call) \/ EndedUnnoticed

\* A call of a provider returns, although the provider ignores SIGTERM or
\* leaves a process in another session that keeps the pipes open forever.  A
\* test command has no outer limit, and such a process holds it.
EveryCallReturns ==
    caller # "idle" ~> caller = "idle" \/ (call.kind = "test" /\ "outside" \in call.kin)
=============================================================================
