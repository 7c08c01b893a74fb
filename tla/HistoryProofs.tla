--------------------------- MODULE HistoryProofs ---------------------------
(***************************************************************************)
(* The history is a chain and the effort is bounded: what the auto loop    *)
(* leaves behind, and how often it may try, for every configuration and    *)
(* any number of restarts.                                                 *)
(***************************************************************************)
EXTENDS DeliveryProofs

\* An attempt is followed by its retry, or by the first of the next iteration.
Link(this, next) ==
    \/ /\ this.phase = "rejected" /\ this.node # 0
       /\ next.iter = this.iter /\ next.retry = this.retry + 1 /\ next.node = this.node
    \/ /\ this.phase = "merged"
       /\ next.iter = this.iter + 1 /\ next.retry = 0

\* The chain, with what it needs to stay one: a merged attempt is of an
\* earlier iteration, its node has passed, and no other merged attempt has it.
Chained ==
    /\ att.iter = iteration
    /\ att.iter = 0 => past = <<>>
    /\ \A i \in 1..Len(past) : i # Len(past) => Link(past[i], past[i+1])
    /\ past # <<>> => Link(past[Len(past)], att)
    /\ \A i \in 1..Len(past) :
        /\ past[i].iter <= att.iter
        /\ past[i].phase = "merged" <=> past[i].decision = "approve"
        /\ past[i].phase = "merged" =>
            /\ past[i].iter < att.iter
            /\ past[i].node \in Nodes /\ graph.status[past[i].node] = "passed"
            /\ att.phase = "merged" => past[i].node # att.node
    /\ \A i, j \in 1..Len(past) : i < j =>
        /\ past[i].iter <= past[j].iter
        /\ past[i].phase = "merged" /\ past[j].phase = "merged" => past[i].node # past[j].node

\* The implementer may be run: at once, or as soon as the repair is prepared.
RunsImplementer ==
    \/ att.exit = "none" /\ pc \notin {"off", "implRun"}
    \/ pc \in {"repair", "repairRun"}

\* The repairs and the starts of the runner pay for the implementer runs, the
\* next one included.
Paid ==
    /\ pc # "off" => starts > 0
    /\ calls <= att.rrc + starts
    /\ RunsImplementer => calls < att.rrc + starts

Rejections == {i \in DOMAIN past : past[i].iter = att.iter /\ past[i].decision = "reject"}

Limits ==
    /\ iteration <= MaxIterations /\ att.retry <= MaxRetries
    /\ att.rrc <= MaxRecovery \/ att.rrc <= MaxMergeRecovery
    /\ MaxConsecutive > 0 => Cardinality(Rejections) < MaxConsecutive

----------------------------------------------------------------------------
(* What decide_auto_step spends.                                           *)

\* The loop repairs, resumes or goes on only while failures in a row are few.
LEMMA DecideUnderBudget == DecideAutoStep.step # "terminal" => ~BudgetStop
<1>1. BudgetStop => DecideAutoStep = Go("terminal", "budget_exhausted")
  BY DEF DecideAutoStep
<1> QED
  BY <1>1 DEF Go

\* A repair is within the budget of the failure it repairs.
LEMMA DecideRepairInBudget ==
    DecideAutoStep.step = "repair" =>
        /\ DecideAutoStep.report \in Repairable
        /\ RecoveryBudgetRemaining(att, DecideAutoStep.report)
<1>1. DecideApproved(att).step = "repair" =>
        RecoveryBudgetRemaining(att, DecideApproved(att).report)
  <2> DEFINE report == MergeReport(att.mergeErr)
  <2>1. \/ \E step \in {"terminal", "merge_retry"} : \E why : DecideApproved(att) = Go(step, why)
        \/ /\ RecoveryBudgetRemaining(att, report) /\ DecideApproved(att) = Go("repair", report)
    BY DEF DecideApproved, Recoverable
  <2> HIDE DEF report
  <2> QED
    BY <2>1 DEF Go
<1>2. DecideReported(att).step = "repair" =>
        RecoveryBudgetRemaining(att, DecideReported(att).report)
  <2> DEFINE outcome == AttemptReport(att)
             report  == IF outcome # "patch_not_captured" /\ ReviewerReport(att) # "none"
                        THEN ReviewerReport(att) ELSE outcome
  <2>1. \/ \E step \in {"terminal", "replan", "merge_retry", "run", "resume"} : \E why :
              DecideReported(att) = Go(step, why)
        \/ /\ RecoveryBudgetRemaining(att, report) /\ DecideReported(att) = Go("repair", report)
    BY DEF DecideReported, Repairable
  <2> HIDE DEF report
  <2> QED
    BY <2>1 DEF Go
<1>3. \/ \E step \in {"terminal", "done", "replan", "run"} : \E why : DecideAutoStep = Go(step, why)
      \/ DecideAutoStep = DecideApproved(att)
      \/ DecideAutoStep = DecideReported(att)
  BY DEF DecideAutoStep
<1> QED
  BY <1>1, <1>2, <1>3, DecisionFacts DEF Go

\* Merging again is not a repair: it is not counted as one.
LEMMA DecideMergeRetry ==
    ASSUME att \in Attempt, DecideAutoStep.step = "merge_retry"
    PROVE  \/ DecideAutoStep.report \notin Recoverable
           \/ DecideAutoStep.report = "merge_worktree_busy"
<1>1. DecideApproved(att).step = "merge_retry" => DecideApproved(att).report \notin Recoverable
  <2> DEFINE report == MergeReport(att.mergeErr)
  <2>1. \/ \E step \in {"terminal", "repair"} : \E why : DecideApproved(att) = Go(step, why)
        \/ DecideApproved(att) = Go("merge_retry", "none")
        \/ /\ att.mergeErr # "none" /\ report # "merge_conflict"
           /\ DecideApproved(att) = Go("merge_retry", report)
    BY DEF DecideApproved
  <2>2. att.mergeErr # "none" /\ report # "merge_conflict" => report \notin Recoverable
    BY DEF MergeReport, MergeErrs, Recoverable, Attempt
  <2>3. "none" \notin Recoverable
    BY DEF Recoverable
  <2> HIDE DEF report
  <2> QED
    BY <2>1, <2>2, <2>3 DEF Go
<1>2. DecideReported(att).step = "merge_retry" => DecideReported(att).report = "merge_worktree_busy"
  <2> DEFINE outcome == AttemptReport(att)
             report  == IF outcome # "patch_not_captured" /\ ReviewerReport(att) # "none"
                        THEN ReviewerReport(att) ELSE outcome
  <2>1. \/ \E step \in {"terminal", "replan", "repair", "run", "resume"} : \E why :
              DecideReported(att) = Go(step, why)
        \/ DecideReported(att) = Go("merge_retry", "merge_worktree_busy")
    BY DEF DecideReported
  <2> QED
    BY <2>1 DEF Go
<1>3. \/ \E step \in {"terminal", "done", "replan", "run"} : \E why : DecideAutoStep = Go(step, why)
      \/ DecideAutoStep = DecideApproved(att)
      \/ DecideAutoStep = DecideReported(att)
  BY DEF DecideAutoStep
<1> QED
  BY <1>1, <1>2, <1>3 DEF Go

----------------------------------------------------------------------------
(* The history. *)

\* The step leaves the history, and the place of the attempt in it, alone.
Settled ==
    /\ past' = past /\ iteration' = iteration
    /\ att'.iter = att.iter /\ att'.retry = att.retry /\ att'.rrc = att.rrc
    /\ att.node # 0 => att'.node = att.node
    /\ att'.phase = "merged" => att.phase = "merged"

\* Two actions begin an attempt, one merges it and one counts a repair of it.
LEMMA NextSettled ==
    TypeInv /\ [Next]_vars =>
        Settled \/ AutoRun \/ ResumeRetry \/ MergeRecorded \/ AutoRepair
<1> SUFFICES ASSUME TypeInv, [Next]_vars, ~(AutoRun \/ ResumeRetry \/ MergeRecorded \/ AutoRepair)
             PROVE  Settled
  OBVIOUS
<1>a. TypeInv /\ att \in Attempt /\ mem \in MemType
  BY DEF TypeInv, TypeOK
<1> USE <1>a DEF Settled, disk, Attempt
<1>1. CASE Start
  BY <1>1 DEF Start
<1>2. CASE Reconcile
  BY <1>2 DEF Reconcile, Reconciled
<1>3. CASE AutoDone
  BY <1>3 DEF AutoDone
<1>4. CASE AutoTerminal
  BY <1>4 DEF AutoTerminal
<1>5. CASE AutoRunRefused
  BY <1>5 DEF AutoRunRefused
<1>6. CASE ResumeFinalize
  <2>1. IncrementRecoveryCounter(att, DecideAutoStep.report).rrc = att.rrc
        \/ DecideAutoStep.step # "merge_retry"
    BY DecideMergeRetry, <1>a DEF IncrementRecoveryCounter
  <2> QED
    BY <1>6, <2>1, IncrementType DEF ResumeFinalize
<1>7. CASE ResumeFrom
  BY <1>7 DEF ResumeFrom
<1>8. CASE ResumeRefused
  BY <1>8 DEF ResumeRefused
<1>9. CASE AutoReplan
  BY <1>9 DEF AutoReplan
<1>10. CASE SoftReset
  BY <1>10 DEF SoftReset, MemType
<1>11. CASE HandleFailure
  BY <1>11 DEF HandleFailure
<1>12. CASE PlannerPlans
  <2>1. att.node = 0 /\ UNCHANGED <<past, iteration>>
    BY <1>12 DEF PlannerPlans, TypeInv, NodeChosen, MarkFailed
  <2>2. PICK planned \in PlannerGraphs :
          LET g == AfterScan(PlannedGraph(planned), MaxRetries, 1, {})
          IN  IF Runnable(g, MaxRetries, {}) = {}
              THEN MarkFailed(att, g, "planning", "refused")
              ELSE \E n \in NextRunnableNodes(g, MaxRetries, 1, {}) :
                     /\ graph' = SetStatus(g, n, "running")
                     /\ att' = [Planned(att, n) EXCEPT !.ftype = "none"]
                     /\ Goto("impl")
                     /\ UNCHANGED <<status, iteration, past, starts>>
    BY <1>12 DEF PlannerPlans
  <2> DEFINE g == AfterScan(PlannedGraph(planned), MaxRetries, 1, {})
  <2> HIDE DEF g
  <2>3. \/ MarkFailed(att, g, "planning", "refused")
        \/ \E n : att' = [Planned(att, n) EXCEPT !.ftype = "none"]
    BY <2>2 DEF g
  <2>4. ASSUME MarkFailed(att, g, "planning", "refused")
        PROVE  /\ att'.iter = att.iter /\ att'.retry = att.retry /\ att'.rrc = att.rrc
               /\ att'.phase = "failed"
    BY <2>4 DEF MarkFailed
  <2>5. ASSUME NEW n, att' = [Planned(att, n) EXCEPT !.ftype = "none"]
        PROVE  /\ att'.iter = att.iter /\ att'.retry = att.retry /\ att'.rrc = att.rrc
               /\ att'.phase = "worktree_created"
    BY <2>5 DEF Planned
  <2> QED
    BY <2>1, <2>3, <2>4, <2>5
<1>13. CASE PlannerFails
  BY <1>13 DEF PlannerFails, MarkFailed
<1>14. CASE NodeSetup
  <2>1. PICK n \in SetupNodes : att' = Planned(att, n)
    BY <1>14 DEF NodeSetup
  <2>2. att.node # 0 => n = att.node
    BY <2>1 DEF SetupNodes
  <2> QED
    BY <1>14, <2>1, <2>2 DEF NodeSetup, Planned
<1>15. CASE NoRunnableNode
  BY <1>15 DEF NoRunnableNode, MarkFailed
<1>16. CASE SetupFails
  <2>1. PICK n \in SetupNodes :
          MarkFailed([att EXCEPT !.node = n], SetupGraph, "planning", "refused")
    BY <1>16 DEF SetupFails
  <2>2. att.node # 0 => n = att.node
    BY <2>1 DEF SetupNodes
  <2> QED
    BY <2>1, <2>2 DEF MarkFailed
<1>17. CASE ImplStart
  BY <1>17 DEF ImplStart, StartImplementer
<1>18. CASE ImplAlreadyDone
  BY <1>18 DEF ImplAlreadyDone
<1>19. CASE ImplAlreadyFailed
  BY <1>19 DEF ImplAlreadyFailed, MarkFailed
<1>20. CASE ImplEnd
  BY <1>20 DEF ImplEnd, PatchRecorded
<1>21. CASE ImplFailed
  BY <1>21 DEF ImplFailed, MarkFailed
<1>22. CASE StopForPatch
  BY <1>22 DEF StopForPatch
<1>23. CASE TestStart
  BY <1>23 DEF TestStart
<1>24. CASE TestEnd
  BY <1>24 DEF TestEnd
<1>25. CASE TestAlreadyDone
  BY <1>25 DEF TestAlreadyDone
<1>26. CASE ReviewStart
  BY <1>26 DEF ReviewStart
<1>27. CASE ReviewEnd
  BY <1>27 DEF ReviewEnd
<1>28. CASE ReviewFails
  BY <1>28 DEF ReviewFails, MarkFailed
<1>29. CASE ReviewAlreadyDone
  BY <1>29 DEF ReviewAlreadyDone
<1>30. CASE FinalizeStop
  BY <1>30 DEF FinalizeStop
<1>31. CASE FinalizeReject
  BY <1>31 DEF FinalizeReject
<1>32. CASE FinalizeHold
  BY <1>32 DEF FinalizeHold
<1>33. CASE MergeInGit
  BY <1>33 DEF MergeInGit
<1>34. CASE MergeFails
  BY <1>34 DEF MergeFails
<1>35. CASE RepairSkipped
  BY <1>35 DEF RepairSkipped, Reconciled
<1>36. CASE RepairReset
  BY <1>36 DEF RepairReset, ResetDownstream
<1>37. CASE RepairStart
  BY <1>37 DEF RepairStart, StartImplementer
<1>38. CASE ReplanApplied
  BY <1>38 DEF ReplanApplied
<1>39. CASE ReplanFails
  BY <1>39 DEF ReplanFails
<1>40. CASE ImplWrite
  BY <1>40 DEF ImplWrite
<1>41. CASE OperatorCommits
  BY <1>41 DEF OperatorCommits
<1>42. CASE Crash
  BY <1>42 DEF Crash
<1>43. CASE UNCHANGED vars
  BY <1>43 DEF vars
<1> QED
  BY <1>1, <1>2, <1>3, <1>4, <1>5, <1>6, <1>7, <1>8, <1>9, <1>10, <1>11, <1>12, <1>13, <1>14, <1>15, <1>16, <1>17, <1>18, <1>19, <1>20, <1>21, <1>22, <1>23, <1>24, <1>25, <1>26, <1>27, <1>28, <1>29, <1>30, <1>31, <1>32, <1>33, <1>34, <1>35, <1>36, <1>37, <1>38, <1>39, <1>40, <1>41, <1>42, <1>43
     DEF Next, RunnerStep, LoopStep, DispatchStep, PhaseStep

\* A step that leaves the history alone keeps the chain; one that goes on to
\* the next attempt adds a link to it.
LEMMA NextChained == DeliveryInv /\ Chained /\ [Next]_vars => Chained'
<1> SUFFICES ASSUME DeliveryInv, Chained, [Next]_vars PROVE Chained'
  OBVIOUS
<1>a. /\ TypeInv /\ Approval /\ Landed /\ att \in Attempt /\ past \in Seq(Attempt) /\ iteration \in Nat
      /\ att.iter \in Nat /\ att.retry \in Nat /\ Len(past) \in Nat
      /\ \A i \in 1..Len(past) : past[i] \in Attempt /\ past[i].iter \in Nat
  <2>1. TypeInv /\ Approval /\ Landed /\ att \in Attempt /\ past \in Seq(Attempt) /\ iteration \in Nat
    BY DEF DeliveryInv, TypeInv, TypeOK
  <2>2. \A a \in Attempt : a.iter \in Nat /\ a.retry \in Nat
    BY DEF Attempt
  <2>3. Len(past) \in Nat /\ \A i \in 1..Len(past) : past[i] \in Attempt
    BY <2>1
  <2> QED
    BY <2>1, <2>2, <2>3
<1>b. /\ \A i \in 1..Len(past) : i # Len(past) => Link(past[i], past[i+1])
      /\ past # <<>> => Link(past[Len(past)], att)
  BY DEF Chained
<1>c. att.phase = "merged" => att.node # 0 /\ att.decision = "approve"
  BY <1>a DEF TypeInv, NodeChosen, Blank, Approval
<1>1. CASE Settled
  <2>1. past # <<>> => Link(past[Len(past)], att')
    BY <1>1, <1>b DEF Settled, Link
  <2>2. \A n \in Nodes : graph.status[n] = "passed" => graph'.status[n] = "passed"
    BY NextPassed
  <2> QED
    BY <1>1, <1>c, <2>1, <2>2 DEF Chained, Settled
<1>2. CASE AutoRepair
  <2>1. /\ past' = past /\ iteration' = iteration /\ graph' = graph
        /\ att'.iter = att.iter /\ att'.retry = att.retry /\ att'.node = att.node
        /\ att'.phase = att.phase
    BY <1>2, <1>a, IncrementType DEF AutoRepair
  <2>2. past # <<>> => Link(past[Len(past)], att')
    BY <2>1, <1>b DEF Link
  <2> QED
    BY <2>1, <2>2 DEF Chained
<1>3. CASE MergeRecorded
  <2>1. /\ past' = past /\ iteration' = iteration
        /\ att'.iter = att.iter /\ att'.retry = att.retry /\ att'.node = att.node
    BY <1>3, <1>a DEF MergeRecorded, Attempt
  <2>2. att.node \in graph.nodes /\ graph.status[att.node] # "passed"
    <3>1. Candidate /\ att.node \in graph.nodes /\ att.node # 0
      BY <1>3, <1>a DEF MergeRecorded, Approval, Landed, Grounded, TypeInv, TypeOK, Graph, Nodes
    <3> QED
      BY <3>1, <1>a DEF Landed, Grounded, Candidate
  <2>3. \A n \in Nodes : graph.status[n] = "passed" => graph'.status[n] = "passed"
    BY NextPassed
  <2>4. past # <<>> => Link(past[Len(past)], att')
    BY <2>1, <1>b DEF Link
  <2> QED
    BY <2>1, <2>2, <2>3, <2>4 DEF Chained
<1>4. ASSUME past' = Append(past, att), Link(att, att'), att'.iter = iteration', iteration' # 0,
             att'.phase # "merged", iteration' \in Nat, graph' = graph,
             att.phase \in {"rejected", "merged"}
      PROVE  Chained'
  <2>1. /\ Len(past') = Len(past) + 1 /\ past'[Len(past) + 1] = att /\ past' # <<>>
        /\ \A i \in 1..Len(past) : past'[i] = past[i]
    BY <1>4, <1>a
  <2>2. att.iter <= att'.iter /\ att'.iter \in Nat /\ (att.phase = "merged" => att.iter < att'.iter)
    BY <1>4, <1>a DEF Link
  <2>3. att.phase = "merged" <=> att.decision = "approve"
    BY <1>4, <1>a DEF Approval
  <2>4. att.phase = "merged" => att.node \in Nodes /\ graph.status[att.node] = "passed"
    BY <1>a, <1>c DEF TypeInv, TypeOK, NodeChosen, Landed, Grounded, Graph
  <2>5. \A i \in 1..Len(past') : i # Len(past') => Link(past'[i], past'[i+1])
    <3> SUFFICES ASSUME NEW i \in 1..Len(past), Len(past) # 0 PROVE Link(past'[i], past'[i+1])
      BY <2>1, <1>a
    <3>1. CASE i = Len(past)
      BY <1>a, <1>b, <2>1, <3>1
    <3>2. CASE i # Len(past)
      <4>1. i + 1 \in 1..Len(past)
        BY <1>a, <3>2
      <4> QED
        BY <1>b, <2>1, <3>2, <4>1
    <3> QED
      BY <3>1, <3>2
  <2>6. past' # <<>> => Link(past'[Len(past')], att')
    BY <1>4, <2>1
  <2>7. ASSUME NEW i \in 1..Len(past')
        PROVE  /\ past'[i].iter <= att'.iter
               /\ past'[i].phase = "merged" <=> past'[i].decision = "approve"
               /\ past'[i].phase = "merged" =>
                    /\ past'[i].iter < att'.iter
                    /\ past'[i].node \in Nodes /\ graph'.status[past'[i].node] = "passed"
                    /\ att'.phase = "merged" => past'[i].node # att'.node
    <3>1. CASE i = Len(past) + 1
      BY <1>4, <2>1, <2>2, <2>3, <2>4, <3>1
    <3>2. CASE i \in 1..Len(past)
      BY <1>4, <1>a, <2>1, <2>2, <3>2 DEF Chained
    <3> QED
      BY <1>a, <2>1, <3>1, <3>2
  <2>8. ASSUME NEW i \in 1..Len(past'), NEW j \in 1..Len(past'), i < j
        PROVE  /\ past'[i].iter <= past'[j].iter
               /\ past'[i].phase = "merged" /\ past'[j].phase = "merged" =>
                    past'[i].node # past'[j].node
    <3>1. i \in 1..Len(past)
      BY <2>1, <2>8, <1>a
    <3>2. CASE j = Len(past) + 1
      BY <2>1, <3>1, <3>2 DEF Chained
    <3>3. CASE j \in 1..Len(past)
      BY <2>1, <2>8, <3>1, <3>3 DEF Chained
    <3> QED
      BY <1>a, <2>1, <3>2, <3>3
  <2> QED
    BY <1>4, <2>5, <2>6, <2>7, <2>8 DEF Chained
<1>5. CASE AutoRun
  <2>1. /\ iteration' = iteration + 1 /\ att'.iter = iteration + 1 /\ att'.retry = 0
        /\ att'.phase # "merged" /\ graph' = graph
        /\ past' = IF att.iter = 0 THEN past ELSE Append(past, att)
    BY <1>5, <1>a DEF AutoRun, AutoRunOn, BeginAttempt
  <2>2. CASE att.iter = 0
    <3>1. past = <<>> /\ past' = <<>> /\ iteration' # 0
      BY <2>1, <2>2, <1>a DEF Chained
    <3> QED
      BY <2>1, <3>1 DEF Chained
  <2>3. CASE att.iter # 0
    <3>1. att.phase = "merged" /\ att.iter = iteration
      BY <1>5, <2>3, DecideRun DEF AutoRun, AutoRunOn, Dispatch, Chained
    <3> QED
      BY <1>4, <1>a, <2>1, <2>3, <3>1 DEF Link
  <2> QED
    BY <2>2, <2>3
<1>6. CASE ResumeRetry
  <2>1. /\ iteration' = iteration /\ att'.iter = att.iter /\ att'.retry = att.retry + 1
        /\ att'.node = att.node /\ att'.phase # "merged" /\ graph' = graph
        /\ past' = Append(past, att) /\ att.phase = "rejected"
    BY <1>6 DEF ResumeRetry, BeginAttempt
  <2>2. att.node # 0 /\ att.iter # 0 /\ att.iter = iteration
    BY <1>6, <2>1, <1>a DEF TypeInv, NodeChosen, Approval, Blank, Chained
  <2> QED
    BY <1>4, <1>a, <2>1, <2>2 DEF Link
<1> QED
  BY <1>1, <1>2, <1>3, <1>5, <1>6, NextSettled, <1>a

----------------------------------------------------------------------------
(* The effort. *)

\* Every implementer run is paid for: the first of an attempt and those after
\* a repair by the recovery count, those after a crash by the start.
LEMMA NextPaid == TypeInv /\ Paid /\ [Next]_vars => Paid'
<1> SUFFICES ASSUME TypeInv, Paid, [Next]_vars PROVE Paid'
  OBVIOUS
<1>a. /\ Paid /\ att \in Attempt /\ mem \in MemType
      /\ att.rrc \in Nat /\ calls \in Nat /\ starts \in Nat
  BY DEF TypeInv, TypeOK, Attempt
<1> USE <1>a DEF Paid, RunsImplementer, disk, world, Attempt
<1>1. CASE Start
  BY <1>1 DEF Start, Goto
<1>2. CASE Reconcile
  BY <1>2 DEF Reconcile, Reconciled
<1>3. CASE AutoDone
  BY <1>3 DEF AutoDone, Goto
<1>4. CASE AutoTerminal
  BY <1>4 DEF AutoTerminal, Goto
<1>5. CASE AutoRun
  <2>1. /\ att'.rrc = 0 /\ calls' = 0 /\ starts' = starts /\ pc' = "plan"
    BY <1>5 DEF AutoRun, AutoRunOn, BeginAttempt, NewWorktree, Goto
  <2>2. starts > 0
    BY <1>5 DEF AutoRun, AutoRunOn, Dispatch
  <2> QED
    BY <2>1, <2>2
<1>6. CASE AutoRunRefused
  BY <1>6 DEF AutoRunRefused, Goto
<1>7. CASE ResumeRetry
  <2>1. /\ att'.rrc = 0 /\ calls' = 0 /\ starts' = starts /\ pc' = "plan"
    BY <1>7 DEF ResumeRetry, BeginAttempt, NewWorktree, Goto
  <2>2. starts > 0
    BY <1>7 DEF ResumeRetry, Dispatch
  <2> QED
    BY <2>1, <2>2
<1>8. CASE ResumeFinalize
  <2>1. IncrementRecoveryCounter(att, DecideAutoStep.report).rrc = att.rrc
        \/ DecideAutoStep.step # "merge_retry"
    BY DecideMergeRetry, <1>a DEF IncrementRecoveryCounter
  <2>2. att'.rrc = att.rrc /\ att'.exit = att.exit
    BY <1>8, <2>1, IncrementType, <1>a DEF ResumeFinalize
  <2>3. pc = "loop" /\ pc' = "finalize" /\ UNCHANGED <<calls, starts>>
    BY <1>8 DEF ResumeFinalize, Dispatch, Goto
  <2> QED
    BY <2>2, <2>3
<1>9. CASE ResumeFrom
  <2>1. att.phase \notin {"approved", "rejected", "merged", "failed", "replanning"}
    BY <1>9, DecisionFacts DEF ResumeFrom, Dispatch, AttemptNeedsContinuation, TypeInv, Replans
  <2>2. pc' \in {"plan", "impl", "test", "review"}
    BY <1>9, <2>1 DEF ResumeFrom, ResumePoint, Goto, Phases
  <2>3. pc = "loop" /\ UNCHANGED <<att, calls, starts>>
    BY <1>9 DEF ResumeFrom, Dispatch
  <2> QED
    BY <2>2, <2>3
<1>10. CASE ResumeRefused
  BY <1>10 DEF ResumeRefused, Goto
<1>11. CASE AutoRepair
  <2>1. DecideAutoStep.report \in Repairable
    BY <1>11, DecideRepairInBudget DEF AutoRepair, Dispatch
  <2>2. att'.rrc = att.rrc + 1
    BY <1>11, <2>1 DEF AutoRepair, IncrementRecoveryCounter, Repairable, Recoverable
  <2>3. pc = "loop" /\ pc' = "repair" /\ UNCHANGED <<calls, starts>>
    BY <1>11 DEF AutoRepair, Dispatch
  <2> QED
    BY <2>2, <2>3
<1>12. CASE AutoReplan
  BY <1>12 DEF AutoReplan, Goto, Dispatch
<1>13. CASE SoftReset
  BY <1>13 DEF SoftReset
<1>14. CASE HandleFailure
  BY <1>14 DEF HandleFailure, Goto
<1>15. CASE PlannerPlans
  <2>1. pc = "plan" /\ UNCHANGED <<calls, starts>>
    BY <1>15 DEF PlannerPlans, MarkFailed
  <2>2. att'.rrc = att.rrc /\ att'.exit = att.exit /\ pc' \in {"reset", "impl"}
    <3>1. PICK planned \in PlannerGraphs :
            LET g == AfterScan(PlannedGraph(planned), MaxRetries, 1, {})
            IN  IF Runnable(g, MaxRetries, {}) = {}
                THEN MarkFailed(att, g, "planning", "refused")
                ELSE \E n \in NextRunnableNodes(g, MaxRetries, 1, {}) :
                       /\ graph' = SetStatus(g, n, "running")
                       /\ att' = [Planned(att, n) EXCEPT !.ftype = "none"]
                       /\ Goto("impl")
                       /\ UNCHANGED <<status, iteration, past, starts>>
      BY <1>15 DEF PlannerPlans
    <3> DEFINE g == AfterScan(PlannedGraph(planned), MaxRetries, 1, {})
    <3> HIDE DEF g
    <3>2. \/ MarkFailed(att, g, "planning", "refused")
          \/ \E n : att' = [Planned(att, n) EXCEPT !.ftype = "none"] /\ Goto("impl")
      BY <3>1 DEF g
    <3>3. ASSUME MarkFailed(att, g, "planning", "refused")
          PROVE  att'.rrc = att.rrc /\ att'.exit = att.exit /\ pc' = "reset"
      BY <3>3 DEF MarkFailed
    <3>4. ASSUME NEW n, att' = [Planned(att, n) EXCEPT !.ftype = "none"], Goto("impl")
          PROVE  att'.rrc = att.rrc /\ att'.exit = att.exit /\ pc' = "impl"
      BY <3>4 DEF Planned, Goto
    <3> QED
      BY <3>2, <3>3, <3>4
  <2> QED
    BY <2>1, <2>2
<1>16. CASE PlannerFails
  BY <1>16 DEF PlannerFails, MarkFailed
<1>17. CASE NodeSetup
  BY <1>17 DEF NodeSetup, Planned, Goto
<1>18. CASE NoRunnableNode
  BY <1>18 DEF NoRunnableNode, MarkFailed
<1>19. CASE SetupFails
  BY <1>19 DEF SetupFails, MarkFailed
<1>20. CASE ImplStart
  BY <1>20 DEF ImplStart, StartImplementer
<1>21. CASE ImplAlreadyDone
  BY <1>21 DEF ImplAlreadyDone, Goto
<1>22. CASE ImplAlreadyFailed
  BY <1>22 DEF ImplAlreadyFailed, MarkFailed
<1>23. CASE ImplEnd
  <2>1. att'.rrc = att.rrc /\ att'.exit # "none"
    BY <1>23, OutcomeAssumption DEF ImplEnd, PatchRecorded
  <2>2. pc' \in {"implFailed", "stopPatch", "test"} /\ pc # "off" /\ UNCHANGED <<calls, starts>>
    BY <1>23 DEF ImplEnd
  <2> QED
    BY <2>1, <2>2
<1>24. CASE ImplFailed
  BY <1>24 DEF ImplFailed, MarkFailed
<1>25. CASE StopForPatch
  BY <1>25 DEF StopForPatch, Goto
<1>26. CASE TestStart
  BY <1>26 DEF TestStart, Goto
<1>27. CASE TestEnd
  BY <1>27 DEF TestEnd, Goto
<1>28. CASE TestAlreadyDone
  BY <1>28 DEF TestAlreadyDone, Goto
<1>29. CASE ReviewStart
  BY <1>29 DEF ReviewStart, Goto
<1>30. CASE ReviewEnd
  BY <1>30 DEF ReviewEnd, Goto
<1>31. CASE ReviewFails
  BY <1>31 DEF ReviewFails, MarkFailed
<1>32. CASE ReviewAlreadyDone
  BY <1>32 DEF ReviewAlreadyDone, Goto
<1>33. CASE FinalizeStop
  BY <1>33 DEF FinalizeStop, Goto
<1>34. CASE FinalizeReject
  BY <1>34 DEF FinalizeReject, Goto
<1>35. CASE FinalizeHold
  BY <1>35 DEF FinalizeHold, Goto
<1>36. CASE MergeInGit
  BY <1>36 DEF MergeInGit, Goto
<1>37. CASE MergeRecorded
  BY <1>37 DEF MergeRecorded, Goto
<1>38. CASE MergeFails
  BY <1>38 DEF MergeFails, Goto
<1>39. CASE RepairSkipped
  BY <1>39 DEF RepairSkipped, Reconciled, Goto
<1>40. CASE RepairReset
  BY <1>40 DEF RepairReset, ResetDownstream
<1>41. CASE RepairStart
  BY <1>41 DEF RepairStart, StartImplementer
<1>42. CASE ReplanApplied
  BY <1>42 DEF ReplanApplied, Goto
<1>43. CASE ReplanFails
  BY <1>43 DEF ReplanFails
<1>44. CASE ImplWrite
  BY <1>44 DEF ImplWrite
<1>45. CASE OperatorCommits
  BY <1>45 DEF OperatorCommits
<1>46. CASE Crash
  BY <1>46 DEF Crash, Goto
<1>47. CASE UNCHANGED vars
  BY <1>47 DEF vars
<1> QED
  BY <1>1, <1>2, <1>3, <1>4, <1>5, <1>6, <1>7, <1>8, <1>9, <1>10, <1>11, <1>12, <1>13, <1>14, <1>15, <1>16, <1>17, <1>18, <1>19, <1>20, <1>21, <1>22, <1>23, <1>24, <1>25, <1>26, <1>27, <1>28, <1>29, <1>30, <1>31, <1>32, <1>33, <1>34, <1>35, <1>36, <1>37, <1>38, <1>39, <1>40, <1>41, <1>42, <1>43, <1>44, <1>45, <1>46, <1>47
     DEF Next, RunnerStep, LoopStep, DispatchStep, PhaseStep

\* No step goes over a limit of the configuration.
LEMMA NextLimits == DeliveryInv /\ Chained /\ Limits /\ [Next]_vars => Limits'
<1> SUFFICES ASSUME DeliveryInv, Chained, Limits, [Next]_vars PROVE Limits'
  OBVIOUS
<1>a. /\ TypeInv /\ Approval /\ att \in Attempt /\ past \in Seq(Attempt) /\ iteration \in Nat
      /\ att.iter \in Nat /\ att.retry \in Nat /\ att.rrc \in Nat /\ Len(past) \in Nat
      /\ \A i \in 1..Len(past) : past[i] \in Attempt /\ past[i].iter \in Nat
  <2>1. TypeInv /\ Approval /\ att \in Attempt /\ past \in Seq(Attempt) /\ iteration \in Nat
    BY DEF DeliveryInv, TypeInv, TypeOK
  <2>2. \A a \in Attempt : a.iter \in Nat /\ a.retry \in Nat /\ a.rrc \in Nat
    BY DEF Attempt
  <2>3. Len(past) \in Nat /\ \A i \in 1..Len(past) : past[i] \in Attempt
    BY <2>1
  <2> QED
    BY <2>1, <2>2, <2>3
<1>b. /\ MaxIterations \in Nat /\ MaxRetries \in Nat /\ MaxConsecutive \in Nat
      /\ MaxRecovery \in Nat /\ MaxMergeRecovery \in Nat
  BY LimitsAssumption
<1>1. CASE Settled
  BY <1>1 DEF Settled, Limits, Rejections
<1>2. CASE MergeRecorded
  BY <1>2, <1>a DEF MergeRecorded, Limits, Rejections, Attempt
<1>3. CASE AutoRepair
  <2>1. /\ DecideAutoStep.report \in Repairable
        /\ RecoveryBudgetRemaining(att, DecideAutoStep.report)
    BY <1>3, DecideRepairInBudget DEF AutoRepair, Dispatch
  <2>2. att.rrc < MaxRecovery \/ att.rrc < MaxMergeRecovery
    BY <2>1 DEF RecoveryBudgetRemaining, Repairable
  <2>3. att'.rrc = att.rrc + 1 /\ att'.iter = att.iter /\ att'.retry = att.retry
    BY <1>3, <1>a, <2>1 DEF AutoRepair, IncrementRecoveryCounter, Repairable, Recoverable, Attempt
  <2>4. past' = past /\ iteration' = iteration
    BY <1>3 DEF AutoRepair
  <2>5. att'.rrc <= MaxRecovery \/ att'.rrc <= MaxMergeRecovery
    BY <1>a, <1>b, <2>2, <2>3
  <2>6. Rejections' = Rejections
    BY <2>3, <2>4 DEF Rejections
  <2> QED
    BY <2>3, <2>4, <2>5, <2>6 DEF Limits
<1>4. CASE AutoRun
  <2>1. /\ iteration' = iteration + 1 /\ att'.iter = iteration + 1 /\ att'.retry = 0 /\ att'.rrc = 0
        /\ iteration < MaxIterations
        /\ past' = IF att.iter = 0 THEN past ELSE Append(past, att)
    BY <1>4 DEF AutoRun, AutoRunOn, BeginAttempt
  <2>2. \A i \in 1..Len(past) : past[i].iter <= iteration
    BY DEF Chained
  <2>3. \A i \in DOMAIN past' : past'[i].iter # att'.iter
    <3>1. CASE past' = past
      BY <1>a, <2>1, <2>2, <3>1
    <3>2. CASE past' = Append(past, att)
      <4>1. /\ DOMAIN past' = 1..Len(past) + 1 /\ past'[Len(past) + 1] = att
            /\ \A i \in 1..Len(past) : past'[i] = past[i]
        BY <1>a, <3>2
      <4>2. att.iter = iteration
        BY DEF Chained
      <4> QED
        BY <1>a, <2>1, <2>2, <4>1, <4>2
    <3> QED
      BY <2>1, <3>1, <3>2
  <2>4. Rejections' = {}
    BY <2>3 DEF Rejections
  <2>5. Cardinality(Rejections') = 0
    BY <2>4, FS_EmptySet
  <2> QED
    BY <1>a, <1>b, <2>1, <2>5 DEF Limits
<1>5. CASE ResumeRetry
  <2>1. /\ iteration' = iteration /\ att'.iter = att.iter /\ att'.retry = att.retry + 1 /\ att'.rrc = 0
        /\ past' = Append(past, att) /\ att.phase = "rejected" /\ att.retry < MaxRetries
    BY <1>5 DEF ResumeRetry, BeginAttempt
  <2>2. ~BudgetStop /\ att.iter # 0
    BY <1>5, DecideUnderBudget, DecideFirst DEF ResumeRetry, Dispatch
  <2> DEFINE history  == Append(past, att)
             Breaks(a) == ~CountsAsFailure(a) /\ (a.phase = "merged" \/ a.decision = "approve")
             failures == {i \in DOMAIN history :
                             /\ CountsAsFailure(history[i])
                             /\ \A j \in DOMAIN history : j > i => ~Breaks(history[j])}
  <2>3. MaxConsecutive > 0 => Cardinality(failures) < MaxConsecutive
    <3>1. ConsecutiveFailures = Cardinality(failures)
      BY DEF ConsecutiveFailures
    <3>2. IsFiniteSet(DOMAIN history)
      <4>1. DOMAIN history = 1..Len(past) + 1
        BY <1>a
      <4> QED
        BY <1>a, <4>1, FS_Interval
    <3>3. Cardinality(failures) \in Nat
      BY <3>2, FS_Subset, FS_CardinalityType
    <3> HIDE DEF failures, history
    <3> QED
      BY <1>a, <1>b, <2>2, <3>1, <3>3 DEF BudgetStop
  <2>4. /\ DOMAIN history = 1..Len(past) + 1 /\ history[Len(past) + 1] = att
        /\ \A i \in 1..Len(past) : history[i] = past[i]
    BY <1>a
  <2>5. Rejections' = {i \in DOMAIN history : history[i].iter = att.iter /\ history[i].decision = "reject"}
    BY <2>1 DEF Rejections
  <2>6. \A i \in DOMAIN history : history[i].decision = "reject" =>
            history[i].phase = "rejected" /\ CountsAsFailure(history[i])
    <3>1. \A i \in 1..Len(past) : past[i].phase \in {"rejected", "merged"}
      BY <1>a DEF Chained, Link
    <3>2. \A i \in 1..Len(past) : past[i].decision = "reject" => past[i].phase = "rejected"
      BY <3>1 DEF Chained
    <3> QED
      BY <2>1, <2>4, <3>2, <1>a DEF CountsAsFailure
  <2>7. ASSUME NEW i \in DOMAIN history, history[i].iter = att.iter, NEW j \in DOMAIN history, j > i
        PROVE  ~Breaks(history[j])
    <3>1. CASE j = Len(past) + 1
      BY <1>a, <2>1, <2>4, <3>1 DEF Approval
    <3>2. CASE j \in 1..Len(past)
      <4>1. i \in 1..Len(past)
        BY <1>a, <2>4, <2>7, <3>2
      <4>2. past[i].iter = att.iter /\ past[i].iter <= past[j].iter
        BY <2>4, <2>7, <3>2, <4>1 DEF Chained
      <4>3. past[j].phase # "merged" /\ past[j].decision # "approve"
        BY <1>a, <3>2, <4>2 DEF Chained
      <4> QED
        BY <2>4, <3>2, <4>3
    <3> QED
      BY <1>a, <2>4, <3>1, <3>2
  <2>8. Rejections' \subseteq failures
    <3> SUFFICES ASSUME NEW i \in Rejections' PROVE i \in failures
      OBVIOUS
    <3>1. i \in DOMAIN history /\ history[i].iter = att.iter /\ history[i].decision = "reject"
      BY <2>5
    <3> HIDE DEF history
    <3> QED
      BY <2>6, <2>7, <3>1
  <2>9. MaxConsecutive > 0 => Cardinality(Rejections') < MaxConsecutive
    <3>1. IsFiniteSet(failures)
      <4>1. IsFiniteSet(DOMAIN history)
        BY <1>a, <2>4, FS_Interval
      <4> QED
        BY <4>1, FS_Subset
    <3>2. /\ Cardinality(Rejections') <= Cardinality(failures)
          /\ Cardinality(Rejections') \in Nat /\ Cardinality(failures) \in Nat
      BY <2>8, <3>1, FS_Subset, FS_CardinalityType
    <3> HIDE DEF failures
    <3> QED
      BY <1>b, <2>3, <3>2
  <2> QED
    BY <1>a, <1>b, <2>1, <2>9 DEF Limits
<1> QED
  BY <1>1, <1>2, <1>3, <1>4, <1>5, NextSettled, <1>a

----------------------------------------------------------------------------
(* The theorems.                                                           *)

\* History and effort are as they should be in every state.
LEMMA HistoryInvariant == Spec => [](DeliveryInv /\ Chained /\ Paid /\ Limits)
<1>1. Init => Chained /\ Paid /\ Limits
  <2> SUFFICES ASSUME Init PROVE Chained /\ Paid /\ Limits
    OBVIOUS
  <2>1. /\ past = <<>> /\ iteration = 0 /\ att.iter = 0 /\ att.retry = 0 /\ att.rrc = 0
        /\ pc = "off" /\ calls = 0 /\ starts = 0
    BY DEF Init, BeginAttempt
  <2>2. Chained
    BY <2>1 DEF Chained
  <2>3. Paid
    BY <2>1 DEF Paid, RunsImplementer
  <2>4. Cardinality(Rejections) = 0
    <3>1. Rejections = {}
      BY <2>1 DEF Rejections
    <3> QED
      BY <3>1, FS_EmptySet
  <2>5. Limits
    BY <2>1, <2>4, LimitsAssumption DEF Limits
  <2> QED
    BY <2>2, <2>3, <2>5
<1>2. DeliveryInv /\ Chained /\ Paid /\ Limits /\ [Next]_vars => Chained' /\ Paid' /\ Limits'
  <2>1. DeliveryInv => TypeInv
    BY DEF DeliveryInv
  <2> QED
    BY <2>1, NextChained, NextPaid, NextLimits
<1> QED
  BY <1>1, <1>2, DeliveryInvariant, PTL DEF Spec

\* The history stays a chain of retries and iterations, and no node is merged
\* by two attempts.
THEOREM HistoryStaysSettled == Spec => []HistorySettled
<1>1. DeliveryInv /\ Chained => HistorySettled
  <2> SUFFICES ASSUME DeliveryInv, Chained PROVE HistorySettled
    OBVIOUS
  <2> DEFINE history == Append(past, att)
  <2>1. past \in Seq(Attempt) /\ Len(past) \in Nat /\ DOMAIN past = 1..Len(past)
    BY DEF DeliveryInv, TypeInv, TypeOK
  <2>2. /\ DOMAIN history = 1..Len(past) + 1 /\ history[Len(past) + 1] = att
        /\ \A i \in 1..Len(past) : history[i] = past[i]
    BY <2>1
  <2>3. \A i \in DOMAIN past : Link(history[i], history[i+1])
    <3> HIDE DEF history
    <3>a. Len(past) \in Nat
      BY <2>1
    <3> SUFFICES ASSUME NEW i \in 1..Len(past) PROVE Link(history[i], history[i+1])
      BY <2>1
    <3>1. CASE i = Len(past)
      <4>1. past # <<>>
        BY <3>a, <3>1
      <4>2. Link(past[Len(past)], att)
        BY <4>1 DEF Chained
      <4> QED
        BY <2>2, <3>1, <4>2
    <3>2. CASE i # Len(past)
      <4>1. i + 1 \in 1..Len(past)
        BY <3>a, <3>2
      <4>2. Link(past[i], past[i+1])
        BY <3>2 DEF Chained
      <4> QED
        BY <2>2, <4>1, <4>2
    <3> QED
      BY <3>1, <3>2
  <2>4. ASSUME NEW i \in DOMAIN history, NEW j \in DOMAIN history, i < j,
               history[i].phase = "merged", history[j].phase = "merged"
        PROVE  history[i].node # history[j].node
    <3>1. i \in 1..Len(past)
      BY <2>1, <2>2, <2>4
    <3>2. CASE j = Len(past) + 1
      BY <2>2, <2>4, <3>1, <3>2 DEF Chained
    <3>3. CASE j \in 1..Len(past)
      BY <2>2, <2>4, <3>1, <3>3 DEF Chained
    <3> QED
      BY <2>1, <2>2, <3>2, <3>3
  <2>5. \A i, j \in DOMAIN history :
            i # j /\ history[i].phase = "merged" /\ history[j].phase = "merged"
                => history[i].node # history[j].node
    <3>1. \A i, j \in DOMAIN history : i # j => i < j \/ j < i
      BY <2>1, <2>2
    <3> HIDE DEF history
    <3> QED
      BY <2>4, <3>1
  <2>6. att.iter = iteration
    BY DEF Chained
  <2> HIDE DEF history
  <2> QED
    BY <2>3, <2>5, <2>6 DEF HistorySettled, Link, history
<1> QED
  BY <1>1, HistoryInvariant, PTL

\* The limits of the configuration bound iterations, retries, repairs and the
\* implementer runs of an attempt, over any number of restarts.
THEOREM EffortStaysBounded == Spec => []EffortBounded
<1>1. Paid /\ Limits => EffortBounded
  BY DEF Paid, Limits, Rejections, EffortBounded
<1> QED
  BY <1>1, HistoryInvariant, PTL
=============================================================================
