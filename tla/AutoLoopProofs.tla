--------------------------- MODULE AutoLoopProofs ---------------------------
(***************************************************************************)
(* Theorems about AutoLoop, for every configuration, every graph and patch *)
(* a planner may send, and any number of crashes and restarts.             *)
(***************************************************************************)
EXTENDS AutoLoop, TaskGraphProofs

----------------------------------------------------------------------------
(* What decide_auto_step may decide. *)

\* An approved attempt of a stopped task: a conflict is repaired, and nothing
\* else.
LEMMA DecideApprovedFacts ==
    /\ DecideApproved(att).step \in {"terminal", "merge_retry", "repair"}
    /\ DecideApproved(att).step = "repair" => DecideApproved(att).report = "merge_conflict"
<1>1. \/ \E step \in {"terminal", "merge_retry"} : \E why : DecideApproved(att) = Go(step, why)
      \/ DecideApproved(att) = Go("repair", "merge_conflict")
  BY DEF DecideApproved
<1> QED
  BY <1>1 DEF Go

\* Any other attempt: it is replanned if and only if the reviewer said so, and
\* only what the implementer can repair is repaired.
LEMMA DecideReportedFacts ==
    /\ DecideReported(att).step = "replan" <=> att.decision = "replan"
    /\ DecideReported(att).step = "repair" => DecideReported(att).report \in Repairable
<1> DEFINE outcome == AttemptReport(att)
           report  == IF outcome # "patch_not_captured" /\ ReviewerReport(att) # "none"
                      THEN ReviewerReport(att) ELSE outcome
<1>1. CASE att.decision = "replan"
  <2>1. ReviewerReport(att) = "reviewer_reject"
    BY <1>1 DEF ReviewerReport
  <2>2. report # "none"
    BY <2>1
  <2>3. DecideReported(att) = Go("replan", report)
    BY <1>1, <2>2 DEF DecideReported
  <2> QED
    BY <1>1, <2>3 DEF Go
<1>2. CASE att.decision # "replan"
  <2>1. \/ \E step \in {"terminal", "merge_retry", "run", "resume"} : \E why :
              DecideReported(att) = Go(step, why)
        \/ report \in Repairable /\ DecideReported(att) = Go("repair", report)
    <3> HIDE DEF report
    <3> SUFFICES DecideReported(att) =
                    IF att.decision = "replan" /\ report # "none" THEN Go("replan", report)
                    ELSE IF status = "stopped" /\ att.phase = "rejected" /\ att.retry >= MaxRetries
                        THEN Go("terminal", "retry_exhausted")
                    ELSE IF report # "none" /\ report \notin Recoverable
                        THEN Go("terminal", report)
                    ELSE IF report # "none" /\ ~RecoveryBudgetRemaining(att, report)
                        THEN Go("terminal", "budget_exhausted")
                    ELSE IF report = "merge_worktree_busy" THEN Go("merge_retry", report)
                    ELSE IF report \in Repairable THEN Go("repair", report)
                    ELSE IF status = "stopped" /\ att.phase = "merged" THEN Go("run", report)
                    ELSE Go("resume", report)
      BY <1>2
    <3> QED
      BY DEF DecideReported, report
  <2> QED
    BY <1>2, <2>1 DEF Go
<1> QED
  BY <1>1, <1>2

\* Only what the implementer can repair is repaired, and a task that is
\* replanning, or is to be replanned, is neither repaired nor resumed.
LEMMA DecisionFacts ==
    /\ DecideAutoStep.step = "repair" =>
        /\ DecideAutoStep.report \in Repairable
        /\ status # "replanning" /\ att.decision # "replan"
    /\ DecideAutoStep.step = "replan" => status = "replanning" \/ att.decision = "replan"
    /\ DecideAutoStep.step \in {"resume", "merge_retry"} =>
        status # "replanning" /\ att.decision # "replan"
    /\ DecideAutoStep.step = "run" => status # "replanning"
<1>1. \/ \E step \in {"terminal", "done"} : \E why : DecideAutoStep = Go(step, why)
      \/ status = "replanning" /\ DecideAutoStep = Go("replan", "none")
      \/ status # "replanning" /\ DecideAutoStep = Go("run", "none")
      \/ /\ status # "replanning" /\ ReviewerGatePassed(att)
         /\ DecideAutoStep = DecideApproved(att)
      \/ status # "replanning" /\ DecideAutoStep = DecideReported(att)
  BY DEF DecideAutoStep
<1>2. "merge_conflict" \in Repairable
  BY DEF Repairable
<1> QED
  BY <1>1, <1>2, DecideApprovedFacts, DecideReportedFacts DEF Go, ReviewerGatePassed

\* Neither the tests nor the reviewer have judged the attempt.
NoVerdict(a) == a.test = "none" /\ a.decision = "none"

\* A blank attempt is not repaired, and not replanned.
LEMMA BlankIsNotRepaired ==
    ASSUME DecideAutoStep.step = "repair", status # "replanning"
    PROVE  \/ att.test # "none" \/ att.decision # "none" \/ att.mergeErr # "none"
           \/ att.ftype = "patch_not_captured"
<1> SUFFICES ASSUME NoVerdict(att), att.mergeErr = "none", att.ftype # "patch_not_captured"
             PROVE  FALSE
  BY DEF NoVerdict
<1>1. ReviewerReport(att) = "none" /\ ~ReviewerGatePassed(att) /\ ~PatchUnresolved(att)
  BY DEF NoVerdict, ReviewerReport, ReviewerGatePassed, PatchUnresolved
<1>2. AttemptReport(att) \in {"attempt_failed", "none"}
  BY <1>1 DEF AttemptReport, NoVerdict
<1>3. DecideAutoStep.step = "repair" => DecideAutoStep = DecideReported(att)
  BY <1>1 DEF DecideAutoStep, Go
<1>4. DecideReported(att).step # "repair"
  BY <1>1, <1>2, DecideReportedFacts DEF DecideReported, Go, Repairable
<1> QED
  BY <1>3, <1>4

----------------------------------------------------------------------------
(* The types.  MergeRecorded and MergeInGit take the node of the attempt   *)
(* for a node of the graph: NodeChosen is what makes TypeOK inductive.     *)

Blank(a) ==
    /\ a.phase \in {"preflight", "planning", "failed"}
    /\ a.exit = "none" /\ a.test = "none" /\ a.decision = "none" /\ a.mergeErr = "none"
    /\ a.ftype # "patch_not_captured"

\* The attempt has a node of the graph, or nothing has been done in it yet.
NodeChosen ==
    /\ att.node \in graph.nodes \cup {0}
    /\ att.node = 0 =>
        /\ Blank(att)
        /\ pc \in {"off", "loop", "plan", "handle", "reset"}
        /\ pc = "reset" => mem.phase = "planning"

\* A replan in progress: the phase, the status and the decision agree.
Replans ==
    /\ att.phase = "replanning" => status = "replanning"
    /\ status = "replanning" =>
        /\ att.phase = "replanning" /\ att.decision = "replan"
        /\ pc \in {"replan", "reset", "off", "loop"}
    /\ pc = "replan" => status = "replanning"

TypeInv == TypeOK /\ NodeChosen /\ Replans

\* _begin_attempt makes an attempt.
LEMMA BeginAttemptType ==
    ASSUME NEW i \in Nat, NEW r \in Nat, NEW n \in 0..MaxNodes, base \subseteq Nodes
    PROVE  BeginAttempt(i, r, n) \in Attempt
<1>1. "preflight" \in Phases /\ "planning" \in Phases
  BY DEF Phases
<1> QED
  BY <1>1 DEF BeginAttempt, Attempt

\* A new task satisfies the strengthened type invariant.
LEMMA InitTypeInv == Init => TypeInv
<1> SUFFICES ASSUME Init PROVE TypeInv
  OBVIOUS
<1>1. EmptyGraph \in Graph
  BY EmptyGraphType
<1>2. BeginAttempt(0, 0, 0) \in Attempt
  BY BeginAttemptType, MaxNodesAssumption DEF Init
<1>3. TypeOK
  <2>1. past \in Seq(Attempt) /\ graph \in Graph /\ att \in Attempt
    BY <1>1, <1>2 DEF Init
  <2>2. mem = NoMem /\ NoMem \in MemType
    BY DEF Init, NoMem, MemType, Faults
  <2>3. pc \in PCs /\ content \in Contents
    BY DEF Init, PCs, Contents
  <2> QED
    BY <2>1, <2>2, <2>3 DEF Init, TypeOK
<1>4. NodeChosen
  BY DEF Init, NodeChosen, Blank, BeginAttempt
<1>5. Replans
  BY DEF Init, Replans, BeginAttempt
<1> QED
  BY <1>3, <1>4, <1>5 DEF TypeInv

\* What the runner carries when it carries nothing.
LEMMA NoMemType == NoMem \in MemType
BY DEF NoMem, MemType, Faults

\* increment_recovery_counter moves a counter of the attempt and nothing else.
LEMMA IncrementType ==
    ASSUME NEW a \in Attempt, NEW report
    PROVE  LET b == IncrementRecoveryCounter(a, report)
           IN  /\ b \in Attempt
               /\ b.iter = a.iter /\ b.retry = a.retry /\ b.base = a.base
               /\ b.node = a.node /\ b.phase = a.phase /\ b.exit = a.exit /\ b.test = a.test
               /\ b.decision = a.decision /\ b.mergeErr = a.mergeErr /\ b.ftype = a.ftype
<1>1. a.rrc + 1 \in Nat /\ a.mrc + 1 \in Nat
  <2>1. a.rrc \in Nat /\ a.mrc \in Nat
    BY DEF Attempt
  <2> QED
    BY <2>1
<1>2. CASE report = "merge_worktree_busy"
  BY <1>1, <1>2 DEF IncrementRecoveryCounter, Attempt
<1>3. CASE report # "merge_worktree_busy" /\ report \in Recoverable
  BY <1>1, <1>3 DEF IncrementRecoveryCounter, Attempt
<1>4. CASE report # "merge_worktree_busy" /\ report \notin Recoverable
  BY <1>4 DEF IncrementRecoveryCounter
<1> QED
  BY <1>2, <1>3, <1>4

\* A failed phase: the attempt and the graph it is given may be those to come.
LEMMA MarkFailedType ==
    ASSUME TypeOK, NEW a \in Attempt, NEW g \in Graph, NEW phase \in {"planning", "executing", "reviewing"},
           NEW kind \in Faults, MarkFailed(a, g, phase, kind), UNCHANGED world
    PROVE  TypeOK'
<1>1. graph' \in Graph
  BY SetStatusType DEF MarkFailed, NodeStatus
<1>2. att' \in Attempt
  <2>1. att' = [a EXCEPT !.phase = "failed", !.ftype = att'.ftype]
    BY DEF MarkFailed, Attempt
  <2>2. att'.ftype \in {"none", "patch_not_captured", "other"}
    BY DEF MarkFailed, Attempt
  <2>3. "failed" \in Phases
    BY DEF Phases
  <2> QED
    BY <2>1, <2>2, <2>3 DEF Attempt
<1>3. mem' \in MemType /\ pc' \in PCs
  BY DEF MarkFailed, MemType, NoMem, PCs
<1> QED
  BY <1>1, <1>2, <1>3 DEF MarkFailed, TypeOK, world

\* The same for the node: an attempt that fails keeps the one it has.
LEMMA MarkFailedNode ==
    ASSUME NEW a \in Attempt, NEW g \in Graph, NEW phase, NEW kind, MarkFailed(a, g, phase, kind),
           a.node \in g.nodes \cup {0}, a.node = 0 => Blank(a) /\ phase = "planning"
    PROVE  NodeChosen' /\ Replans'
<1>1. graph'.nodes = g.nodes
  BY SetStatusType DEF MarkFailed, NodeStatus
<1>2. att'.node = a.node /\ att'.phase = "failed" /\ (Blank(a) => Blank(att'))
  BY DEF MarkFailed, Attempt, Blank
<1>3. status' = "failed" /\ pc' = "reset" /\ mem'.phase = phase
  BY DEF MarkFailed, NoMem
<1> QED
  BY <1>1, <1>2, <1>3 DEF NodeChosen, Replans

\* What run_graph_node_setup works on.
LEMMA SetupType ==
    ASSUME TypeOK, NodeChosen
    PROVE  /\ SetupGraph \in Graph /\ SetupGraph.nodes = graph.nodes
           /\ SetupNodes \subseteq graph.nodes /\ SetupNodes \subseteq 0..MaxNodes
<1>1. graph \in Graph /\ graph.nodes \subseteq Nodes
  BY DEF TypeOK, Graph
<1>2. NextRunnableNodes(graph, MaxRetries, 1, {}) \subseteq graph.nodes
  BY <1>1, NextRunnableNodesType
<1>3. SetupNodes \subseteq graph.nodes
  BY <1>2 DEF SetupNodes, NodeChosen
<1>4. Nodes \subseteq 0..MaxNodes
  BY MaxNodesAssumption DEF Nodes
<1>5. CASE att.node # 0
  BY <1>1, <1>3, <1>4, <1>5 DEF SetupGraph
<1>6. CASE att.node = 0
  <2>1. SetupGraph = AfterScan(graph, MaxRetries, 1, {})
    BY <1>6 DEF SetupGraph
  <2>2. SetupGraph \in Graph /\ SetupGraph.nodes = graph.nodes
    BY <1>1, <2>1, AfterScanType
  <2> QED
    BY <1>1, <1>3, <1>4, <2>2
<1> QED
  BY <1>5, <1>6

\* Every step keeps the types: one case per action.
LEMMA NextTypeOK == TypeInv /\ [Next]_vars => TypeOK'
<1> SUFFICES ASSUME TypeOK, NodeChosen, Replans, [Next]_vars PROVE TypeOK'
  BY DEF TypeInv
<1> USE DEF TypeOK, disk, world
<1>1. CASE Start
  BY <1>1, NoMemType DEF Start, Goto, PCs
<1>2. CASE Reconcile
  BY <1>2 DEF Reconcile, Reconciled, Attempt
<1>3. CASE AutoDone
  BY <1>3, NoMemType DEF AutoDone, Goto, PCs
<1>4. CASE AutoTerminal
  BY <1>4, NoMemType DEF AutoTerminal, Goto, PCs, Attempt
<1>5. CASE AutoRun
  <2>1. past' \in Seq(Attempt)
    BY <1>5 DEF AutoRun, AutoRunOn
  <2>2. att' \in Attempt
    <3>1. iteration + 1 \in Nat /\ 0 \in 0..MaxNodes
      BY MaxNodesAssumption
    <3> QED
      BY <1>5, <3>1, BeginAttemptType DEF AutoRun, AutoRunOn
  <2> QED
    BY <1>5, <2>1, <2>2, NoMemType DEF AutoRun, AutoRunOn, NewWorktree, Goto, PCs, Contents
<1>6. CASE AutoRunRefused
  BY <1>6, NoMemType DEF AutoRunRefused, Goto, PCs
<1>7. CASE ResumeRetry
  <2>1. att.iter \in Nat /\ att.retry \in Nat /\ att.node \in 0..MaxNodes
    BY DEF Attempt
  <2>2. past' \in Seq(Attempt) /\ att' \in Attempt
    <3>1. att.retry + 1 \in Nat
      BY <2>1
    <3> QED
      BY <1>7, <2>1, <3>1, BeginAttemptType DEF ResumeRetry
  <2> QED
    BY <1>7, <2>2, NoMemType DEF ResumeRetry, NewWorktree, Goto, PCs, Contents
<1>8. CASE ResumeFinalize
  BY <1>8, NoMemType, IncrementType DEF ResumeFinalize, Goto, PCs
<1>9. CASE ResumeFrom
  <2>1. att.phase \notin {"approved", "rejected", "merged", "failed"}
    BY <1>9 DEF ResumeFrom, AttemptNeedsContinuation
  <2>2. att.phase # "replanning"
    BY <1>9, DecisionFacts DEF ResumeFrom, Dispatch, Replans
  <2>3. ResumePoint(att.phase) \in PCs
    BY <2>1, <2>2 DEF Attempt, Phases, ResumePoint, PCs
  <2> QED
    BY <1>9, <2>3, NoMemType DEF ResumeFrom, Goto
<1>10. CASE ResumeRefused
  BY <1>10, NoMemType DEF ResumeRefused, Goto, PCs
<1>11. CASE AutoRepair
  <2>1. mem' \in MemType
    BY <1>11, DecisionFacts, NoMemType DEF AutoRepair, Dispatch, MemType, Repairable
  <2> QED
    BY <1>11, <2>1, IncrementType DEF AutoRepair, PCs
<1>12. CASE AutoReplan
  BY <1>12, NoMemType DEF AutoReplan, Goto, PCs, Attempt, Phases
<1>13. CASE SoftReset
  <2>1. mem.phase \in Phases
    BY DEF MemType, Phases
  <2>2. att' \in Attempt
    BY <1>13, <2>1 DEF SoftReset, Attempt
  <2> QED
    BY <1>13, <2>2 DEF SoftReset, PCs
<1>14. CASE HandleFailure
  BY <1>14, NoMemType DEF HandleFailure, Goto, PCs, Attempt
<1>15. CASE PlannerPlans
  <2>1. PICK planned \in PlannerGraphs :
          LET g == AfterScan(PlannedGraph(planned), MaxRetries, 1, {})
          IN  IF Runnable(g, MaxRetries, {}) = {}
              THEN MarkFailed(att, g, "planning", "refused")
              ELSE \E n \in NextRunnableNodes(g, MaxRetries, 1, {}) :
                     /\ graph' = SetStatus(g, n, "running")
                     /\ att' = [Planned(att, n) EXCEPT !.ftype = "none"]
                     /\ Goto("impl")
                     /\ UNCHANGED <<status, iteration, past, starts>>
    BY <1>15 DEF PlannerPlans
  <2> DEFINE g == AfterScan(PlannedGraph(planned), MaxRetries, 1, {})
  <2>2. g \in Graph
    BY PlannerAssumption, PlannedGraphType, AfterScanType
  <2>3. UNCHANGED world
    BY <1>15 DEF PlannerPlans
  <2> HIDE DEF g
  <2>4. CASE Runnable(g, MaxRetries, {}) = {}
    BY <2>1, <2>2, <2>3, <2>4, MarkFailedType DEF g, Faults, TypeOK
  <2>5. CASE Runnable(g, MaxRetries, {}) # {}
    <3>1. PICK n \in NextRunnableNodes(g, MaxRetries, 1, {}) :
            /\ graph' = SetStatus(g, n, "running")
            /\ att' = [Planned(att, n) EXCEPT !.ftype = "none"]
            /\ Goto("impl")
            /\ UNCHANGED <<status, iteration, past, starts>>
      BY <2>1, <2>5 DEF g
    <3>2. n \in Nodes /\ n \in 0..MaxNodes
      <4>1. n \in Nodes
        BY <2>2, NextRunnableNodesType DEF Graph
      <4> QED
        BY <4>1, MaxNodesAssumption DEF Nodes
    <3>3. graph' \in Graph
      BY <2>2, <3>1, SetStatusType DEF NodeStatus
    <3>4. att' \in Attempt
      BY <3>1, <3>2 DEF Planned, Attempt, Phases
    <3> QED
      BY <2>3, <3>1, <3>3, <3>4, NoMemType DEF Goto, PCs
  <2> QED
    BY <2>4, <2>5
<1>16. CASE PlannerFails
  <2>1. UNCHANGED world
    BY <1>16 DEF PlannerFails
  <2> QED
    BY <1>16, <2>1, MarkFailedType DEF PlannerFails, Faults
<1>17. CASE NodeSetup
  <2>1. PICK n \in SetupNodes : graph' = SetStatus(SetupGraph, n, "running") /\ att' = Planned(att, n)
    BY <1>17 DEF NodeSetup
  <2>2. n \in 0..MaxNodes /\ SetupGraph \in Graph
    BY SetupType
  <2>3. graph' \in Graph
    BY <2>1, <2>2, SetStatusType DEF NodeStatus
  <2>4. att' \in Attempt
    BY <2>1, <2>2 DEF Planned, Attempt, Phases
  <2> QED
    BY <1>17, <2>3, <2>4, NoMemType DEF NodeSetup, Goto, PCs
<1>18. CASE NoRunnableNode
  <2>1. UNCHANGED world /\ SetupGraph \in Graph
    BY <1>18, SetupType DEF NoRunnableNode
  <2> QED
    BY <1>18, <2>1, MarkFailedType DEF NoRunnableNode, Faults
<1>19. CASE SetupFails
  <2>1. PICK n \in SetupNodes :
          MarkFailed([att EXCEPT !.node = n], SetupGraph, "planning", "refused")
    BY <1>19 DEF SetupFails
  <2>2. UNCHANGED world /\ n \in 0..MaxNodes /\ SetupGraph \in Graph
    BY <1>19, SetupType DEF SetupFails
  <2>3. [att EXCEPT !.node = n] \in Attempt
    BY <2>2 DEF Attempt
  <2> QED
    BY <2>1, <2>2, <2>3, MarkFailedType DEF Faults
<1>20. CASE ImplStart
  <2>1. mem' \in MemType /\ pc' \in PCs
    BY <1>20, NoMemType DEF ImplStart, StartImplementer, MemType, PCs
  <2>2. att' \in Attempt
    BY <1>20 DEF ImplStart, StartImplementer, Attempt, Phases
  <2>3. calls' = calls + 1 /\ UNCHANGED <<status, iteration, graph, past, content, base, fresh, merges, starts>>
    BY <1>20 DEF ImplStart, StartImplementer
  <2> QED
    BY <2>1, <2>2, <2>3
<1>21. CASE ImplAlreadyDone
  BY <1>21, NoMemType DEF ImplAlreadyDone, Goto, PCs
<1>22. CASE ImplAlreadyFailed
  <2>1. UNCHANGED world
    BY <1>22 DEF ImplAlreadyFailed
  <2> QED
    BY <1>22, <2>1, MarkFailedType DEF ImplAlreadyFailed, Faults
<1>23. CASE ImplEnd
  <2>1. PICK exit \in Implementer : att' = PatchRecorded([att EXCEPT !.exit = exit])
    BY <1>23 DEF ImplEnd
  <2>2. [att EXCEPT !.exit = exit] \in Attempt
    BY OutcomeAssumption DEF Attempt
  <2>3. att' \in Attempt
    BY <2>1, <2>2 DEF PatchRecorded, Attempt
  <2>4. pc' \in PCs /\ mem' \in MemType
    BY <1>23 DEF ImplEnd, PCs, MemType
  <2> QED
    BY <1>23, <2>3, <2>4 DEF ImplEnd
<1>24. CASE ImplFailed
  <2>1. UNCHANGED world
    BY <1>24 DEF ImplFailed
  <2> QED
    BY <1>24, <2>1, MarkFailedType DEF ImplFailed, Faults
<1>25. CASE StopForPatch
  BY <1>25, NoMemType DEF StopForPatch, Goto, PCs
<1>26. CASE TestStart
  BY <1>26, NoMemType DEF TestStart, Goto, PCs, Attempt, Phases
<1>27. CASE TestEnd
  <2>1. PICK result \in TestEnds \cup {"skipped"} : att' = [att EXCEPT !.test = result]
    BY <1>27, OutcomeAssumption DEF TestEnd
  <2>2. att' \in Attempt
    BY <2>1 DEF Attempt
  <2> QED
    BY <1>27, <2>2, NoMemType DEF TestEnd, Goto, PCs
<1>28. CASE TestAlreadyDone
  BY <1>28, NoMemType DEF TestAlreadyDone, Goto, PCs
<1>29. CASE ReviewStart
  BY <1>29, NoMemType DEF ReviewStart, Goto, PCs, Attempt, Phases
<1>30. CASE ReviewEnd
  <2>1. PICK d \in Decisions :
          att' = IF d = "approve" THEN [att EXCEPT !.decision = d, !.phase = "approved", !.ftype = "none"]
                 ELSE [att EXCEPT !.decision = d, !.phase = "rejected"]
    BY <1>30 DEF ReviewEnd
  <2>2. att' \in Attempt
    BY <2>1 DEF Attempt, Phases
  <2> QED
    BY <1>30, <2>2, NoMemType DEF ReviewEnd, Goto, PCs
<1>31. CASE ReviewFails
  <2>1. UNCHANGED world
    BY <1>31 DEF ReviewFails
  <2> QED
    BY <1>31, <2>1, MarkFailedType DEF ReviewFails, Faults
<1>32. CASE ReviewAlreadyDone
  BY <1>32, NoMemType DEF ReviewAlreadyDone, Goto, PCs
<1>33. CASE FinalizeStop
  BY <1>33, NoMemType DEF FinalizeStop, Goto, PCs
<1>34. CASE FinalizeReject
  <2>1. graph' \in Graph
    BY <1>34, MarkRejectedType DEF FinalizeReject, Graph
  <2> QED
    BY <1>34, <2>1, NoMemType DEF FinalizeReject, Goto, PCs
<1>35. CASE FinalizeHold
  BY <1>35, NoMemType DEF FinalizeHold, Goto, PCs, Attempt
<1>36. CASE MergeInGit
  <2>1. att.node \in Nodes
    BY <1>36 DEF MergeInGit, NodeChosen, Graph
  <2> QED
    BY <1>36, <2>1, NoMemType DEF MergeInGit, CountMerge, CommitWorktree, Contents, Goto, PCs
<1>37. CASE MergeRecorded
  BY <1>37, NoMemType, SetStatusType DEF MergeRecorded, Goto, PCs, Attempt, Phases, NodeStatus
<1>38. CASE MergeFails
  <2>1. PICK err \in MergeErrs : att' = [att EXCEPT !.mergeErr = err, !.ftype = "other"]
    BY <1>38 DEF MergeFails
  <2>2. att' \in Attempt
    BY <2>1 DEF Attempt
  <2> QED
    BY <1>38, <2>2, NoMemType DEF MergeFails, CountMerge, CommitWorktree, Contents, Goto, PCs
<1>39. CASE RepairSkipped
  BY <1>39, NoMemType DEF RepairSkipped, Goto, PCs, Attempt, Reconciled
<1>40. CASE RepairReset
  <2>1. att' \in Attempt
    BY <1>40 DEF RepairReset, ResetDownstream, Attempt
  <2> QED
    BY <1>40, <2>1 DEF RepairReset, PCs
<1>41. CASE RepairStart
  <2>1. mem' \in MemType /\ pc' \in PCs
    BY <1>41, NoMemType DEF RepairStart, StartImplementer, MemType, PCs
  <2>2. att' \in Attempt
    BY <1>41 DEF RepairStart, StartImplementer, Attempt, Phases
  <2>3. calls' = calls + 1 /\ UNCHANGED <<status, iteration, graph, past, content, base, fresh, merges, starts>>
    BY <1>41 DEF RepairStart, StartImplementer
  <2> QED
    BY <2>1, <2>2, <2>3
<1>42. CASE ReplanApplied
  BY <1>42, NoMemType, ApplyPatchType, PlannerAssumption DEF ReplanApplied, Goto, PCs, Attempt, Phases
<1>43. CASE ReplanFails
  BY <1>43, NoMemType DEF ReplanFails, PCs
<1>44. CASE ImplWrite
  BY <1>44, OutcomeAssumption DEF ImplWrite, Contents
<1>45. CASE OperatorCommits
  BY <1>45 DEF OperatorCommits, Contents
<1>46. CASE Crash
  BY <1>46, NoMemType DEF Crash, Goto, PCs
<1>47. CASE UNCHANGED vars
  BY <1>47 DEF vars
<1> QED
  BY <1>1, <1>2, <1>3, <1>4, <1>5, <1>6, <1>7, <1>8, <1>9, <1>10, <1>11, <1>12, <1>13, <1>14, <1>15, <1>16, <1>17, <1>18, <1>19, <1>20, <1>21, <1>22, <1>23, <1>24, <1>25, <1>26, <1>27, <1>28, <1>29, <1>30, <1>31, <1>32, <1>33, <1>34, <1>35, <1>36, <1>37, <1>38, <1>39, <1>40, <1>41, <1>42, <1>43, <1>44, <1>45, <1>46, <1>47
     DEF Next, RunnerStep, LoopStep, DispatchStep, PhaseStep

\* Every step keeps an attempt past its planning on a node of the graph.
LEMMA NextNodeChosen == TypeInv /\ [Next]_vars => NodeChosen'
<1> SUFFICES ASSUME TypeInv, [Next]_vars PROVE NodeChosen'
  OBVIOUS
<1>a. NodeChosen /\ Replans /\ TypeOK /\ att \in Attempt /\ graph \in Graph
  BY DEF TypeInv, TypeOK
<1> USE <1>a DEF NodeChosen, disk
<1>1. CASE Start
  BY <1>1 DEF Start, Goto, Blank
<1>2. CASE Reconcile
  BY <1>2 DEF Reconcile, Reconciled, ReconcilePending, Blank, Attempt
<1>3. CASE AutoDone
  BY <1>3 DEF AutoDone, Goto, Blank
<1>4. CASE AutoTerminal
  BY <1>4 DEF AutoTerminal, Goto, Blank, Attempt
<1>5. CASE AutoRun
  BY <1>5 DEF AutoRun, AutoRunOn, BeginAttempt, Goto, Blank
<1>6. CASE AutoRunRefused
  BY <1>6 DEF AutoRunRefused, Goto, Blank
<1>7. CASE ResumeRetry
  <2>1. att.node # 0
    BY <1>7 DEF ResumeRetry, Blank
  <2> QED
    BY <1>7, <2>1 DEF ResumeRetry, BeginAttempt
<1>8. CASE ResumeFinalize
  <2>1. att.node # 0
    BY <1>8 DEF ResumeFinalize, Blank
  <2> QED
    BY <1>8, <2>1, IncrementType DEF ResumeFinalize
<1>9. CASE ResumeFrom
  <2>1. att.node = 0 => pc' = "plan"
    BY <1>9 DEF ResumeFrom, AttemptNeedsContinuation, ResumePoint, Goto, Blank
  <2> QED
    BY <1>9, <2>1 DEF ResumeFrom
<1>10. CASE ResumeRefused
  BY <1>10 DEF ResumeRefused, Goto, Blank
<1>11. CASE AutoRepair
  <2>1. att.node # 0
    BY <1>11, BlankIsNotRepaired, DecisionFacts DEF AutoRepair, Dispatch, Blank
  <2> QED
    BY <1>11, <2>1, IncrementType DEF AutoRepair
<1>12. CASE AutoReplan
  <2>1. att.node # 0
    BY <1>12, DecisionFacts DEF AutoReplan, Dispatch, Replans, Blank
  <2> QED
    BY <1>12, <2>1 DEF AutoReplan
<1>13. CASE SoftReset
  BY <1>13 DEF SoftReset, Blank, Attempt
<1>14. CASE HandleFailure
  BY <1>14 DEF HandleFailure, Goto, Blank, Attempt
<1>15. CASE PlannerPlans
  <2>1. PICK planned \in PlannerGraphs :
          LET g == AfterScan(PlannedGraph(planned), MaxRetries, 1, {})
          IN  IF Runnable(g, MaxRetries, {}) = {}
              THEN MarkFailed(att, g, "planning", "refused")
              ELSE \E n \in NextRunnableNodes(g, MaxRetries, 1, {}) :
                     /\ graph' = SetStatus(g, n, "running")
                     /\ att' = [Planned(att, n) EXCEPT !.ftype = "none"]
                     /\ Goto("impl")
                     /\ UNCHANGED <<status, iteration, past, starts>>
    BY <1>15 DEF PlannerPlans
  <2> DEFINE g == AfterScan(PlannedGraph(planned), MaxRetries, 1, {})
  <2>2. g \in Graph
    BY PlannerAssumption, PlannedGraphType, AfterScanType
  <2>3. att.node = 0
    BY <1>15 DEF PlannerPlans
  <2> HIDE DEF g
  <2>4. CASE Runnable(g, MaxRetries, {}) = {}
    BY <2>1, <2>2, <2>3, <2>4, MarkFailedNode DEF g
  <2>5. CASE Runnable(g, MaxRetries, {}) # {}
    <3>1. PICK n \in NextRunnableNodes(g, MaxRetries, 1, {}) :
            graph' = SetStatus(g, n, "running") /\ att' = [Planned(att, n) EXCEPT !.ftype = "none"]
      BY <2>1, <2>5 DEF g
    <3>2. n \in g.nodes /\ n # 0
      <4>1. n \in g.nodes /\ g.nodes \subseteq Nodes
        BY <2>2, NextRunnableNodesType DEF Graph
      <4> QED
        BY <4>1 DEF Nodes
    <3>4. graph'.nodes = g.nodes
      BY <2>2, <3>1, SetStatusType DEF NodeStatus
    <3>3. att'.node = n
      BY <3>1 DEF Planned, Attempt
    <3> QED
      BY <3>2, <3>3, <3>4
  <2> QED
    BY <2>4, <2>5
<1>16. CASE PlannerFails
  BY <1>16, MarkFailedNode DEF PlannerFails
<1>17. CASE NodeSetup
  <2>1. PICK n \in SetupNodes : graph' = SetStatus(SetupGraph, n, "running") /\ att' = Planned(att, n)
    BY <1>17 DEF NodeSetup
  <2>2. n \in graph.nodes /\ n # 0
    BY SetupType DEF Graph, Nodes
  <2>3. graph'.nodes = graph.nodes
    BY <2>1, SetupType, SetStatusType DEF NodeStatus
  <2>4. att'.node = n
    BY <2>1 DEF Planned, Attempt
  <2> QED
    BY <2>2, <2>3, <2>4
<1>18. CASE NoRunnableNode
  <2>1. att.node \in SetupGraph.nodes \cup {0}
    BY SetupType
  <2> QED
    BY <1>18, <2>1, SetupType, MarkFailedNode DEF NoRunnableNode
<1>19. CASE SetupFails
  <2>1. PICK n \in SetupNodes :
          MarkFailed([att EXCEPT !.node = n], SetupGraph, "planning", "refused")
    BY <1>19 DEF SetupFails
  <2>2. n \in SetupGraph.nodes /\ SetupGraph \in Graph /\ n \in 0..MaxNodes /\ n # 0
    BY SetupType DEF Graph, Nodes
  <2>3. [att EXCEPT !.node = n] \in Attempt /\ [att EXCEPT !.node = n].node = n
    BY <2>2 DEF Attempt
  <2> QED
    BY <2>1, <2>2, <2>3, MarkFailedNode
<1>20. CASE ImplStart
  BY <1>20 DEF ImplStart, StartImplementer, Blank, Attempt
<1>21. CASE ImplAlreadyDone
  BY <1>21 DEF ImplAlreadyDone, Goto, Blank
<1>22. CASE ImplAlreadyFailed
  BY <1>22, MarkFailedNode DEF ImplAlreadyFailed
<1>23. CASE ImplEnd
  BY <1>23 DEF ImplEnd, PatchRecorded, Blank, Attempt
<1>24. CASE ImplFailed
  BY <1>24, MarkFailedNode DEF ImplFailed
<1>25. CASE StopForPatch
  BY <1>25 DEF StopForPatch, Goto, Blank
<1>26. CASE TestStart
  BY <1>26 DEF TestStart, Goto, Blank, Attempt
<1>27. CASE TestEnd
  BY <1>27 DEF TestEnd, Goto, Blank
<1>28. CASE TestAlreadyDone
  BY <1>28 DEF TestAlreadyDone, Goto, Blank
<1>29. CASE ReviewStart
  BY <1>29 DEF ReviewStart, Goto, Blank, Attempt
<1>30. CASE ReviewEnd
  BY <1>30 DEF ReviewEnd, Goto, Blank
<1>31. CASE ReviewFails
  BY <1>31, MarkFailedNode DEF ReviewFails
<1>32. CASE ReviewAlreadyDone
  BY <1>32 DEF ReviewAlreadyDone, Goto, Blank
<1>33. CASE FinalizeStop
  BY <1>33 DEF FinalizeStop, Goto, Blank
<1>34. CASE FinalizeReject
  <2>1. graph'.nodes = graph.nodes
    BY <1>34, MarkRejectedType DEF FinalizeReject, Graph
  <2> QED
    BY <1>34, <2>1 DEF FinalizeReject, Goto
<1>35. CASE FinalizeHold
  BY <1>35 DEF FinalizeHold, Goto, Blank, Attempt
<1>36. CASE MergeInGit
  BY <1>36 DEF MergeInGit, Goto, Blank
<1>37. CASE MergeRecorded
  <2>1. graph'.nodes = graph.nodes
    BY <1>37, SetStatusType DEF MergeRecorded, NodeStatus
  <2> QED
    BY <1>37, <2>1 DEF MergeRecorded, Attempt
<1>38. CASE MergeFails
  BY <1>38 DEF MergeFails, Goto, Blank, Attempt
<1>39. CASE RepairSkipped
  BY <1>39 DEF RepairSkipped, Goto, Reconciled, Blank
<1>40. CASE RepairReset
  BY <1>40 DEF RepairReset, ResetDownstream, Blank
<1>41. CASE RepairStart
  BY <1>41 DEF RepairStart, StartImplementer, Blank, Attempt
<1>42. CASE ReplanApplied
  <2>1. graph.nodes \subseteq graph'.nodes
    BY <1>42, ApplyPatchType, PlannerAssumption DEF ReplanApplied
  <2>2. att.node # 0 /\ att'.node = att.node
    BY <1>42 DEF ReplanApplied, Attempt
  <2> QED
    BY <2>1, <2>2
<1>43. CASE ReplanFails
  BY <1>43 DEF ReplanFails
<1>44. CASE ImplWrite
  BY <1>44 DEF ImplWrite, Blank
<1>45. CASE OperatorCommits
  BY <1>45 DEF OperatorCommits, Blank
<1>46. CASE Crash
  BY <1>46 DEF Crash, Goto, Blank
<1>47. CASE UNCHANGED vars
  BY <1>47 DEF vars
<1> QED
  BY <1>1, <1>2, <1>3, <1>4, <1>5, <1>6, <1>7, <1>8, <1>9, <1>10, <1>11, <1>12, <1>13, <1>14, <1>15, <1>16, <1>17, <1>18, <1>19, <1>20, <1>21, <1>22, <1>23, <1>24, <1>25, <1>26, <1>27, <1>28, <1>29, <1>30, <1>31, <1>32, <1>33, <1>34, <1>35, <1>36, <1>37, <1>38, <1>39, <1>40, <1>41, <1>42, <1>43, <1>44, <1>45, <1>46, <1>47
     DEF Next, RunnerStep, LoopStep, DispatchStep, PhaseStep

\* A failed phase does not leave the task replanning.
LEMMA MarkFailedReplans ==
    ASSUME NEW a \in Attempt, NEW g, NEW phase, NEW kind, MarkFailed(a, g, phase, kind)
    PROVE  Replans'
<1>1. status' = "failed" /\ pc' = "reset" /\ att'.phase = "failed"
  BY DEF MarkFailed, Attempt
<1> QED
  BY <1>1 DEF Replans

\* Every step keeps what is known of a task that is replanning.
LEMMA NextReplans == TypeInv /\ [Next]_vars => Replans'
<1> SUFFICES ASSUME TypeInv, [Next]_vars PROVE Replans'
  OBVIOUS
<1>a. Replans /\ TypeOK /\ att \in Attempt
  BY DEF TypeInv, TypeOK
<1> USE <1>a DEF Replans, disk
<1>1. CASE Start
  BY <1>1 DEF Start, Goto
<1>2. CASE Reconcile
  BY <1>2 DEF Reconcile, Reconciled, ReconcilePending, Attempt
<1>3. CASE AutoDone
  BY <1>3 DEF AutoDone, Goto
<1>4. CASE AutoTerminal
  BY <1>4 DEF AutoTerminal, Goto, Attempt
<1>5. CASE AutoRun
  BY <1>5 DEF AutoRun, AutoRunOn, BeginAttempt, Goto
<1>6. CASE AutoRunRefused
  BY <1>6 DEF AutoRunRefused, Goto
<1>7. CASE ResumeRetry
  BY <1>7 DEF ResumeRetry, BeginAttempt, Goto
<1>8. CASE ResumeFinalize
  BY <1>8, IncrementType DEF ResumeFinalize, Goto
<1>9. CASE ResumeFrom
  <2>1. status # "replanning" /\ att.phase # "replanning"
    BY <1>9, DecisionFacts DEF ResumeFrom, Dispatch
  <2>2. pc' # "replan"
    BY <1>9, <2>1 DEF ResumeFrom, ResumePoint, AttemptNeedsContinuation, Goto, Attempt, Phases
  <2> QED
    BY <1>9, <2>1, <2>2 DEF ResumeFrom
<1>10. CASE ResumeRefused
  BY <1>10 DEF ResumeRefused, Goto
<1>11. CASE AutoRepair
  <2>1. status # "replanning"
    BY <1>11, DecisionFacts DEF AutoRepair, Dispatch
  <2> QED
    BY <1>11, <2>1, IncrementType DEF AutoRepair
<1>12. CASE AutoReplan
  <2>1. att.decision = "replan"
    BY <1>12, DecisionFacts DEF AutoReplan, Dispatch
  <2> QED
    BY <1>12, <2>1 DEF AutoReplan, Goto, Attempt
<1>13. CASE SoftReset
  <2>1. mem.phase # "replanning"
    BY DEF TypeOK, MemType
  <2> QED
    BY <1>13, <2>1 DEF SoftReset, Attempt
<1>14. CASE HandleFailure
  BY <1>14 DEF HandleFailure, Goto, Attempt
<1>15. CASE PlannerPlans
  <2>1. PICK planned \in PlannerGraphs :
          LET g == AfterScan(PlannedGraph(planned), MaxRetries, 1, {})
          IN  IF Runnable(g, MaxRetries, {}) = {}
              THEN MarkFailed(att, g, "planning", "refused")
              ELSE \E n \in NextRunnableNodes(g, MaxRetries, 1, {}) :
                     /\ graph' = SetStatus(g, n, "running")
                     /\ att' = [Planned(att, n) EXCEPT !.ftype = "none"]
                     /\ Goto("impl")
                     /\ UNCHANGED <<status, iteration, past, starts>>
    BY <1>15 DEF PlannerPlans
  <2>2. CASE MarkFailed(att, AfterScan(PlannedGraph(planned), MaxRetries, 1, {}), "planning", "refused")
    BY <2>2, MarkFailedReplans
  <2>3. CASE \E n : /\ att' = [Planned(att, n) EXCEPT !.ftype = "none"]
                    /\ Goto("impl") /\ UNCHANGED status
    BY <1>15, <2>3 DEF PlannerPlans, Planned, Goto, Attempt
  <2> QED
    BY <2>1, <2>2, <2>3
<1>16. CASE PlannerFails
  BY <1>16, MarkFailedReplans DEF PlannerFails
<1>17. CASE NodeSetup
  BY <1>17 DEF NodeSetup, Planned, Goto, Attempt
<1>18. CASE NoRunnableNode
  BY <1>18, MarkFailedReplans DEF NoRunnableNode
<1>19. CASE SetupFails
  <2>1. PICK n \in SetupNodes :
          MarkFailed([att EXCEPT !.node = n], SetupGraph, "planning", "refused")
    BY <1>19 DEF SetupFails
  <2>2. n \in 0..MaxNodes
    BY SetupType DEF TypeInv
  <2>3. [att EXCEPT !.node = n] \in Attempt
    BY <2>2 DEF Attempt
  <2> QED
    BY <2>1, <2>3, MarkFailedReplans
<1>20. CASE ImplStart
  BY <1>20 DEF ImplStart, StartImplementer, Attempt
<1>21. CASE ImplAlreadyDone
  BY <1>21 DEF ImplAlreadyDone, Goto
<1>22. CASE ImplAlreadyFailed
  BY <1>22, MarkFailedReplans DEF ImplAlreadyFailed
<1>23. CASE ImplEnd
  <2>1. att'.phase = att.phase
    BY <1>23 DEF ImplEnd, PatchRecorded, Attempt
  <2> QED
    BY <1>23, <2>1 DEF ImplEnd
<1>24. CASE ImplFailed
  BY <1>24, MarkFailedReplans DEF ImplFailed
<1>25. CASE StopForPatch
  BY <1>25 DEF StopForPatch, Goto
<1>26. CASE TestStart
  BY <1>26 DEF TestStart, Goto, Attempt
<1>27. CASE TestEnd
  BY <1>27 DEF TestEnd, Goto, Attempt
<1>28. CASE TestAlreadyDone
  BY <1>28 DEF TestAlreadyDone, Goto
<1>29. CASE ReviewStart
  BY <1>29 DEF ReviewStart, Goto, Attempt
<1>30. CASE ReviewEnd
  BY <1>30 DEF ReviewEnd, Goto, Attempt
<1>31. CASE ReviewFails
  BY <1>31, MarkFailedReplans DEF ReviewFails
<1>32. CASE ReviewAlreadyDone
  BY <1>32 DEF ReviewAlreadyDone, Goto
<1>33. CASE FinalizeStop
  BY <1>33 DEF FinalizeStop, Goto
<1>34. CASE FinalizeReject
  BY <1>34 DEF FinalizeReject, Goto
<1>35. CASE FinalizeHold
  BY <1>35 DEF FinalizeHold, Goto, Attempt
<1>36. CASE MergeInGit
  BY <1>36 DEF MergeInGit, Goto
<1>37. CASE MergeRecorded
  BY <1>37 DEF MergeRecorded, Goto, Attempt
<1>38. CASE MergeFails
  BY <1>38 DEF MergeFails, Goto, Attempt
<1>39. CASE RepairSkipped
  BY <1>39 DEF RepairSkipped, Goto, Reconciled, Attempt
<1>40. CASE RepairReset
  BY <1>40 DEF RepairReset, ResetDownstream, Attempt
<1>41. CASE RepairStart
  BY <1>41 DEF RepairStart, StartImplementer, Attempt
<1>42. CASE ReplanApplied
  BY <1>42 DEF ReplanApplied, Goto, Attempt
<1>43. CASE ReplanFails
  BY <1>43 DEF ReplanFails, NoMem
<1>44. CASE ImplWrite
  BY <1>44 DEF ImplWrite
<1>45. CASE OperatorCommits
  BY <1>45 DEF OperatorCommits
<1>46. CASE Crash
  BY <1>46 DEF Crash, Goto
<1>47. CASE UNCHANGED vars
  BY <1>47 DEF vars
<1> QED
  BY <1>1, <1>2, <1>3, <1>4, <1>5, <1>6, <1>7, <1>8, <1>9, <1>10, <1>11, <1>12, <1>13, <1>14, <1>15, <1>16, <1>17, <1>18, <1>19, <1>20, <1>21, <1>22, <1>23, <1>24, <1>25, <1>26, <1>27, <1>28, <1>29, <1>30, <1>31, <1>32, <1>33, <1>34, <1>35, <1>36, <1>37, <1>38, <1>39, <1>40, <1>41, <1>42, <1>43, <1>44, <1>45, <1>46, <1>47
     DEF Next, RunnerStep, LoopStep, DispatchStep, PhaseStep

\* The variables keep their types, whatever the planner plans, the providers
\* answer and the operator restarts.
THEOREM TypeCorrect == Spec => []TypeOK
<1>1. TypeInv /\ [Next]_vars => TypeInv'
  BY NextTypeOK, NextNodeChosen, NextReplans DEF TypeInv
<1>2. TypeInv => TypeOK
  BY DEF TypeInv
<1> QED
  BY InitTypeInv, <1>1, <1>2, PTL DEF Spec

----------------------------------------------------------------------------
(* What is merged has been judged.  The verdicts on the attempt are those  *)
(* on its worktree as it is: none are there when an implementer runs, and  *)
(* none when a phase is resumed that leads to an implementer run.          *)

\* The attempt may be resumed in this phase.
Resumable(phase) ==
    \/ att.decision = "replan"
    \/ /\ phase \in {"preflight", "planning"} => NoVerdict(att)
       /\ phase \in {"worktree_created", "executing"} => att.exit # "none" \/ NoVerdict(att)

Judged ==
    /\ att.test # "none" => "test" \in fresh
    /\ att.decision # "none" => "review" \in fresh
    /\ pc \in {"plan", "implRun", "repairRun"} => NoVerdict(att)
    /\ pc = "impl" => att.exit # "none" \/ NoVerdict(att)
    /\ pc = "implFailed" => att.exit = "error"
    /\ pc = "testRun" => att.phase = "testing"
    /\ Resumable(att.phase)
    /\ pc = "reset" => Resumable(mem.phase)
    /\ pc = "merged" => CanAutoMerge(att)

\* A failed phase leaves an attempt that may be resumed where it failed.
LEMMA MarkFailedJudged ==
    ASSUME Judged, NEW a \in Attempt, NEW g, NEW phase, NEW kind, MarkFailed(a, g, phase, kind),
           UNCHANGED world, a.exit = att.exit, a.test = att.test, a.decision = att.decision,
           Resumable(phase)
    PROVE  Judged'
<1>1. /\ att'.exit = att.exit /\ att'.test = att.test /\ att'.decision = att.decision
      /\ att'.phase = "failed" /\ pc' = "reset" /\ mem'.phase = phase /\ fresh' = fresh
  BY DEF MarkFailed, Attempt, NoMem, world
<1> QED
  BY <1>1 DEF Judged, Resumable, NoVerdict

\* Every step keeps the verdicts tied to the worktree they were given on.
LEMMA NextJudged == TypeInv /\ Judged /\ [Next]_vars => Judged'
<1> SUFFICES ASSUME TypeInv, Judged, [Next]_vars PROVE Judged'
  OBVIOUS
<1>a. Judged /\ NodeChosen /\ TypeOK /\ att \in Attempt
  BY DEF TypeInv, TypeOK
<1> USE <1>a DEF Judged, Resumable, NoVerdict, disk, world
<1>1. CASE Start
  BY <1>1 DEF Start, Goto
<1>2. CASE Reconcile
  BY <1>2 DEF Reconcile, Reconciled, ReconcilePending, Attempt
<1>3. CASE AutoDone
  BY <1>3 DEF AutoDone, Goto
<1>4. CASE AutoTerminal
  BY <1>4 DEF AutoTerminal, Goto, Attempt
<1>5. CASE AutoRun
  BY <1>5 DEF AutoRun, AutoRunOn, BeginAttempt, NewWorktree, Goto
<1>6. CASE AutoRunRefused
  BY <1>6 DEF AutoRunRefused, Goto
<1>7. CASE ResumeRetry
  BY <1>7 DEF ResumeRetry, BeginAttempt, NewWorktree, Goto
<1>8. CASE ResumeFinalize
  BY <1>8, IncrementType DEF ResumeFinalize, Goto
<1>9. CASE ResumeFrom
  <2>1. att.decision # "replan"
    BY <1>9, DecisionFacts DEF ResumeFrom, Dispatch
  <2>2. att.phase \in {"preflight", "planning", "worktree_created", "executing", "testing", "reviewing"}
    <3>1. att.phase # "replanning"
      BY <1>9, DecisionFacts DEF ResumeFrom, Dispatch, TypeInv, Replans
    <3> QED
      BY <1>9, <3>1 DEF ResumeFrom, AttemptNeedsContinuation, Attempt, Phases
  <2>3. /\ pc' \in {"plan", "impl", "test", "review"}
        /\ pc' = "plan" => att.phase \in {"preflight", "planning"}
        /\ pc' = "impl" => att.phase \in {"worktree_created", "executing"}
    BY <1>9, <2>2 DEF ResumeFrom, ResumePoint, Goto
  <2>4. UNCHANGED <<att, fresh>>
    BY <1>9 DEF ResumeFrom
  <2> QED
    BY <2>1, <2>3, <2>4
<1>10. CASE ResumeRefused
  BY <1>10 DEF ResumeRefused, Goto
<1>11. CASE AutoRepair
  BY <1>11, IncrementType DEF AutoRepair
<1>12. CASE AutoReplan
  BY <1>12 DEF AutoReplan, Goto, Attempt
<1>13. CASE SoftReset
  BY <1>13 DEF SoftReset, Attempt
<1>14. CASE HandleFailure
  BY <1>14 DEF HandleFailure, Goto, Attempt
<1>15. CASE PlannerPlans
  <2>1. PICK planned \in PlannerGraphs :
          LET g == AfterScan(PlannedGraph(planned), MaxRetries, 1, {})
          IN  IF Runnable(g, MaxRetries, {}) = {}
              THEN MarkFailed(att, g, "planning", "refused")
              ELSE \E n \in NextRunnableNodes(g, MaxRetries, 1, {}) :
                     /\ graph' = SetStatus(g, n, "running")
                     /\ att' = [Planned(att, n) EXCEPT !.ftype = "none"]
                     /\ Goto("impl")
                     /\ UNCHANGED <<status, iteration, past, starts>>
    BY <1>15 DEF PlannerPlans
  <2>2. UNCHANGED world /\ NoVerdict(att)
    BY <1>15 DEF PlannerPlans
  <2>3. CASE MarkFailed(att, AfterScan(PlannedGraph(planned), MaxRetries, 1, {}), "planning", "refused")
    BY <2>2, <2>3, MarkFailedJudged
  <2>4. CASE \E n : att' = [Planned(att, n) EXCEPT !.ftype = "none"] /\ Goto("impl")
    BY <2>2, <2>4 DEF Planned, Goto, Attempt
  <2> QED
    BY <2>1, <2>3, <2>4
<1>16. CASE PlannerFails
  <2>1. UNCHANGED world
    BY <1>16 DEF PlannerFails
  <2> QED
    BY <1>16, <2>1, MarkFailedJudged DEF PlannerFails
<1>17. CASE NodeSetup
  <2>1. PICK n : att' = Planned(att, n)
    BY <1>17 DEF NodeSetup
  <2>2. att'.exit = att.exit /\ att'.test = att.test /\ att'.decision = att.decision
    BY <2>1 DEF Planned, Attempt
  <2> QED
    BY <1>17, <2>2 DEF NodeSetup, Goto
<1>18. CASE NoRunnableNode
  <2>1. UNCHANGED world
    BY <1>18 DEF NoRunnableNode
  <2> QED
    BY <1>18, <2>1, MarkFailedJudged DEF NoRunnableNode
<1>19. CASE SetupFails
  <2>1. PICK n \in SetupNodes :
          MarkFailed([att EXCEPT !.node = n], SetupGraph, "planning", "refused")
    BY <1>19 DEF SetupFails
  <2>2. n \in 0..MaxNodes
    BY SetupType DEF TypeInv
  <2> DEFINE a == [att EXCEPT !.node = n]
  <2>3. a \in Attempt /\ a.exit = att.exit /\ a.test = att.test /\ a.decision = att.decision
    BY <2>2 DEF Attempt
  <2>4. UNCHANGED world /\ Resumable("planning")
    BY <1>19 DEF SetupFails
  <2> HIDE DEF a
  <2> QED
    BY <2>1, <2>3, <2>4, MarkFailedJudged DEF a
<1>20. CASE ImplStart
  BY <1>20 DEF ImplStart, StartImplementer, Attempt
<1>21. CASE ImplAlreadyDone
  BY <1>21 DEF ImplAlreadyDone, Goto
<1>22. CASE ImplAlreadyFailed
  <2>1. UNCHANGED world
    BY <1>22 DEF ImplAlreadyFailed
  <2> QED
    BY <1>22, <2>1, MarkFailedJudged DEF ImplAlreadyFailed
<1>23. CASE ImplEnd
  <2>1. PICK exit \in Implementer :
          /\ att' = PatchRecorded([att EXCEPT !.exit = exit])
          /\ pc' \in {"stopPatch", "test"} \/ (pc' = "implFailed" /\ exit = "error")
    BY <1>23 DEF ImplEnd
  <2>2. att'.exit = exit /\ att'.test = att.test /\ att'.decision = att.decision /\ att'.phase = att.phase
    BY <2>1 DEF PatchRecorded, Attempt
  <2>3. NoVerdict(att) /\ UNCHANGED fresh
    BY <1>23 DEF ImplEnd
  <2> QED
    BY <2>1, <2>2, <2>3
<1>24. CASE ImplFailed
  <2>1. UNCHANGED world
    BY <1>24 DEF ImplFailed
  <2> QED
    BY <1>24, <2>1, MarkFailedJudged DEF ImplFailed
<1>25. CASE StopForPatch
  BY <1>25 DEF StopForPatch, Goto
<1>26. CASE TestStart
  BY <1>26 DEF TestStart, Goto, Attempt
<1>27. CASE TestEnd
  BY <1>27 DEF TestEnd, Goto, Attempt
<1>28. CASE TestAlreadyDone
  BY <1>28 DEF TestAlreadyDone, Goto
<1>29. CASE ReviewStart
  BY <1>29 DEF ReviewStart, Goto, Attempt
<1>30. CASE ReviewEnd
  BY <1>30 DEF ReviewEnd, Goto, Attempt
<1>31. CASE ReviewFails
  <2>1. UNCHANGED world
    BY <1>31 DEF ReviewFails
  <2> QED
    BY <1>31, <2>1, MarkFailedJudged DEF ReviewFails
<1>32. CASE ReviewAlreadyDone
  BY <1>32 DEF ReviewAlreadyDone, Goto
<1>33. CASE FinalizeStop
  BY <1>33 DEF FinalizeStop, Goto
<1>34. CASE FinalizeReject
  BY <1>34 DEF FinalizeReject, Goto
<1>35. CASE FinalizeHold
  BY <1>35 DEF FinalizeHold, Goto, Attempt
<1>36. CASE MergeInGit
  BY <1>36 DEF MergeInGit, Goto, CanAutoMerge, NoTestsAllowed
<1>37. CASE MergeRecorded
  BY <1>37 DEF MergeRecorded, Goto, Attempt
<1>38. CASE MergeFails
  BY <1>38 DEF MergeFails, Goto, Attempt
<1>39. CASE RepairSkipped
  BY <1>39 DEF RepairSkipped, Goto, Reconciled, Attempt
<1>40. CASE RepairReset
  BY <1>40 DEF RepairReset, ResetDownstream, Attempt
<1>41. CASE RepairStart
  BY <1>41 DEF RepairStart, StartImplementer, Attempt
<1>42. CASE ReplanApplied
  <2>1. att.decision = "replan"
    BY <1>42 DEF ReplanApplied, TypeInv, Replans
  <2> QED
    BY <1>42, <2>1 DEF ReplanApplied, Goto, Attempt
<1>43. CASE ReplanFails
  <2>1. att.decision = "replan"
    BY <1>43 DEF ReplanFails, TypeInv, Replans
  <2> QED
    BY <1>43, <2>1 DEF ReplanFails
<1>44. CASE ImplWrite
  BY <1>44 DEF ImplWrite
<1>45. CASE OperatorCommits
  BY <1>45 DEF OperatorCommits, CanAutoMerge, NoTestsAllowed
<1>46. CASE Crash
  BY <1>46 DEF Crash, Goto
<1>47. CASE UNCHANGED vars
  BY <1>47 DEF vars, CanAutoMerge, NoTestsAllowed
<1> QED
  BY <1>1, <1>2, <1>3, <1>4, <1>5, <1>6, <1>7, <1>8, <1>9, <1>10, <1>11, <1>12, <1>13, <1>14, <1>15, <1>16, <1>17, <1>18, <1>19, <1>20, <1>21, <1>22, <1>23, <1>24, <1>25, <1>26, <1>27, <1>28, <1>29, <1>30, <1>31, <1>32, <1>33, <1>34, <1>35, <1>36, <1>37, <1>38, <1>39, <1>40, <1>41, <1>42, <1>43, <1>44, <1>45, <1>46, <1>47
     DEF Next, RunnerStep, LoopStep, DispatchStep, PhaseStep

\* What is merged was approved by the reviewer as it is, and judged by the
\* tests if they were run, whatever crashes, repairs and retries came before.
THEOREM JudgedWorkMerges == Spec => []OnlyJudgedWorkMerges
<1>1. Init => Judged
  <2> SUFFICES ASSUME Init PROVE Judged
    OBVIOUS
  <2>1. NoVerdict(att) /\ att.phase = "preflight" /\ pc = "off"
    BY DEF Init, NoVerdict, BeginAttempt
  <2> QED
    BY <2>1 DEF Judged, Resumable, NoVerdict
<1>2. TypeInv /\ [Next]_vars => TypeInv'
  BY NextTypeOK, NextNodeChosen, NextReplans DEF TypeInv
<1>3. TypeInv /\ Judged => OnlyJudgedWorkMerges
  <2> SUFFICES ASSUME TypeInv, Judged, pc = "merged" PROVE OnlyJudgedWorkMerges
    BY DEF OnlyJudgedWorkMerges
  <2>1. att.node \in graph.nodes /\ graph.allow[att.node] \in Allowance
    BY DEF TypeInv, TypeOK, NodeChosen, Graph
  <2>2. CanAutoMerge(att)
    BY DEF Judged
  <2>3. att.test \in {"none", "passed", "skipped"}
    BY <2>2 DEF CanAutoMerge, TypeInv, TypeOK, Attempt, TestEnds
  <2>4. att.test = "skipped" =>
          /\ graph.allow[att.node] # "forbid"
          /\ AllowNoTests \/ (AllowWeakening /\ graph.allow[att.node] = "allow")
    BY <2>1, <2>2 DEF CanAutoMerge, NoTestsAllowed, AllowsMergeWithoutTests, Allowance
  <2> QED
    BY <2>1, <2>2, <2>3, <2>4 DEF OnlyJudgedWorkMerges, CanAutoMerge, Judged
<1> QED
  BY InitTypeInv, <1>1, <1>2, <1>3, NextJudged, PTL DEF Spec
=============================================================================
