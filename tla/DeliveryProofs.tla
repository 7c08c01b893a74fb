--------------------------- MODULE DeliveryProofs ---------------------------
(***************************************************************************)
(* The orchestrator keeps what Delivery promises: the graph, the base      *)
(* branch and the approved attempt of AutoLoop agree, in every state, for  *)
(* every configuration and any number of crashes and restarts.             *)
(***************************************************************************)
EXTENDS AutoLoopProofs

\* The attempt is approved, and not known to be merged.
Candidate == att.phase = "approved" /\ att.decision = "approve"

\* Where the runner may be while the reviewer's word on the attempt stands: an
\* approval is taken back by the repair of a conflict only, a merge error is
\* kept until then, and a merged attempt is left alone.
Approval ==
    /\ att.iter = 0 => att.node = 0 /\ Blank(att) /\ pc \in {"off", "loop"}
    /\ att.decision = "approve" => att.phase \in {"approved", "merged"}
    /\ att.phase = "merged" =>
        /\ att.decision = "approve" /\ att.exit = "ok" /\ att.mergeErr = "none"
        /\ pc \in {"off", "loop"} /\ status \in {"stopped", "done"}
    /\ Candidate =>
        \/ pc \in {"off", "loop", "finalize", "merged"}
        \/ pc = "repair" /\ mem.repair = "merge_conflict" /\ att.mergeErr = "conflict"
    /\ pc = "merged" => Candidate /\ att.exit = "ok"
    /\ att.mergeErr # "none" => Candidate /\ status = "stopped"
    /\ att.mergeErr = "conflict" => pc \in {"off", "loop", "repair"}
    /\ att.decision = "replan" => pc \in {"off", "loop", "finalize", "replan", "reset", "handle"}
    /\ status = "done" => att.phase = "merged"

\* What the graph says has passed is in the base branch with all it depends
\* on, and the node of the attempt is one that still has to pass, on a base it
\* can build on.
Grounded ==
    /\ base \subseteq graph.nodes
    /\ \A n \in Nodes : graph.status[n] = "passed" => n \in base /\ graph.deps[n] \subseteq base
    /\ att.node # 0 =>
        /\ graph.status[att.node] = "passed" <=> att.phase = "merged"
        /\ graph.status[att.node] = "skipped" => att.decision = "replan"
        /\ graph.deps[att.node] \subseteq att.base
    /\ att.base \subseteq base
    /\ att.node = 0 => att.base = base
    /\ pc = "merged" => att.node \in base
    /\ att.mergeErr = "conflict" => att.node \notin base
    /\ status = "done" => GraphComplete(graph)

\* Moreover what is in the base branch has passed, or is the candidate.
Landed == Grounded /\ \A n \in base : graph.status[n] = "passed" \/ (n = att.node /\ Candidate)

DeliveryInv == TypeInv /\ Approval /\ Landed

----------------------------------------------------------------------------
(* What decide_auto_step decides for an attempt that stands.               *)

\* A new iteration is started only where there is no attempt, or a merged one.
LEMMA DecideRun ==
    DecideAutoStep.step = "run" => att.iter = 0 \/ (status = "stopped" /\ att.phase = "merged")
<1>1. DecideReported(att).step = "run" => status = "stopped" /\ att.phase = "merged"
  <2> DEFINE outcome == AttemptReport(att)
             report  == IF outcome # "patch_not_captured" /\ ReviewerReport(att) # "none"
                        THEN ReviewerReport(att) ELSE outcome
  <2>1. \/ \E step \in {"replan", "terminal", "merge_retry", "repair", "resume"} : \E why :
              DecideReported(att) = Go(step, why)
        \/ status = "stopped" /\ att.phase = "merged" /\ DecideReported(att) = Go("run", report)
    BY DEF DecideReported
  <2> QED
    BY <2>1 DEF Go
<1>2. \/ \E step \in {"terminal", "done", "replan"} : \E why : DecideAutoStep = Go(step, why)
      \/ att.iter = 0
      \/ DecideAutoStep = DecideApproved(att)
      \/ DecideAutoStep = DecideReported(att)
  BY DEF DecideAutoStep
<1> QED
  BY <1>1, <1>2, DecideApprovedFacts DEF Go

\* Without an attempt nothing is resumed or repaired.
LEMMA DecideFirst ==
    att.iter = 0 => DecideAutoStep.step \in {"terminal", "replan", "done", "run"}
<1>1. att.iter = 0 => \E step \in {"terminal", "replan", "done", "run"} : \E why :
                          DecideAutoStep = Go(step, why)
  BY DEF DecideAutoStep, BudgetStop
<1> QED
  BY <1>1 DEF Go

\* Work that is approved is repaired only to resolve a conflict.
LEMMA DecideRepairOfApproved ==
    ASSUME att.decision = "approve", DecideAutoStep.step = "repair",
           att.mergeErr \in {"none"} \cup MergeErrs
    PROVE  DecideAutoStep.report = "merge_conflict" /\ att.mergeErr = "conflict"
<1> DEFINE outcome == AttemptReport(att)
           report  == IF outcome # "patch_not_captured" /\ ReviewerReport(att) # "none"
                      THEN ReviewerReport(att) ELSE outcome
<1>1. /\ MergeReport("busy") = "merge_unknown" /\ MergeReport("gone") = "merge_branch_missing"
      /\ MergeReport("conflict") = "merge_conflict"
  BY DEF MergeReport
<1>2. CASE DecideAutoStep = DecideApproved(att)
  <2>1. DecideApproved(att).step = "repair" =>
          att.mergeErr # "none" /\ MergeReport(att.mergeErr) = "merge_conflict"
    <3>1. \/ \E step \in {"terminal", "merge_retry"} : \E why : DecideApproved(att) = Go(step, why)
          \/ att.mergeErr # "none" /\ MergeReport(att.mergeErr) = "merge_conflict"
      BY DEF DecideApproved
    <3> QED
      BY <3>1 DEF Go
  <2> QED
    BY <1>1, <1>2, <2>1, DecideApprovedFacts DEF MergeErrs
<1>3. CASE DecideAutoStep = DecideReported(att)
  <2>1. ReviewerReport(att) = "none" /\ ReviewerGatePassed(att)
    BY DEF ReviewerReport, ReviewerGatePassed
  <2>2. report = outcome
    BY <2>1
  <2>3. outcome \in {"test_gate_blocked", "none"} \/ (att.mergeErr # "none" /\ outcome = MergeReport(att.mergeErr))
    BY <2>1 DEF AttemptReport
  <2>4. \/ \E step \in {"replan", "terminal", "merge_retry", "run", "resume"} : \E why :
              DecideReported(att) = Go(step, why)
        \/ report \in Repairable /\ DecideReported(att) = Go("repair", report)
    BY DEF DecideReported
  <2>5. report \in Repairable /\ DecideReported(att) = Go("repair", report)
    BY <1>3, <2>4 DEF Go
  <2> HIDE DEF outcome, report
  <2> QED
    BY <1>1, <1>3, <2>2, <2>3, <2>5 DEF Go, Repairable, MergeErrs
<1>4. \/ \E step \in {"terminal", "done", "replan", "run"} : \E why : DecideAutoStep = Go(step, why)
      \/ DecideAutoStep = DecideApproved(att)
      \/ DecideAutoStep = DecideReported(att)
  BY DEF DecideAutoStep
<1> QED
  BY <1>2, <1>3, <1>4 DEF Go

\* A conflict is repaired, or the loop stops: it is not merged again as it is.
LEMMA DecideConflict ==
    ASSUME Candidate, status = "stopped", att.mergeErr = "conflict"
    PROVE  DecideAutoStep.step \in {"terminal", "repair", "run"}
<1>1. \/ DecideAutoStep = Go("terminal", "budget_exhausted")
      \/ DecideAutoStep = Go("run", "none")
      \/ DecideAutoStep = DecideApproved(att)
  BY DEF DecideAutoStep, Candidate, ReviewerGatePassed
<1>2. \E step \in {"terminal", "repair"} : \E why : DecideApproved(att) = Go(step, why)
  BY DEF DecideApproved, MergeReport
<1> QED
  BY <1>1, <1>2 DEF Go

\* A finished task is left as it is.
LEMMA DecideDone ==
    ASSUME status = "done"
    PROVE  DecideAutoStep.step \in {"terminal", "done"}
<1>1. \E step \in {"terminal", "done"} : \E why : DecideAutoStep = Go(step, why)
  BY DEF DecideAutoStep
<1> QED
  BY <1>1 DEF Go

----------------------------------------------------------------------------
(* The reviewer's word stands. *)

\* A phase that fails leaves an attempt nobody has approved.
LEMMA MarkFailedApproval ==
    ASSUME TypeInv, Approval, NEW a \in Attempt, NEW g, NEW phase, NEW kind, MarkFailed(a, g, phase, kind),
           pc \in {"plan", "impl", "implFailed", "reviewRun"},
           a.iter = att.iter, a.decision = att.decision, a.mergeErr = att.mergeErr
    PROVE  Approval'
<1>1. /\ att'.iter = att.iter /\ att'.decision = att.decision /\ att'.mergeErr = att.mergeErr
      /\ att'.phase = "failed" /\ pc' = "reset" /\ status' = "failed"
  BY DEF MarkFailed, Attempt
<1>2. att.iter # 0 /\ att.decision \notin {"approve", "replan"} /\ att.mergeErr = "none"
  BY DEF Approval, Candidate
<1> QED
  BY <1>1, <1>2 DEF Approval, Candidate

\* Every step leaves an approval in place, or is the repair of a conflict.
LEMMA NextApproval == TypeInv /\ Approval /\ [Next]_vars => Approval'
<1> SUFFICES ASSUME TypeInv, Approval, [Next]_vars PROVE Approval'
  OBVIOUS
<1>a. Approval /\ att \in Attempt /\ mem \in MemType
  BY DEF TypeInv, TypeOK
<1> USE <1>a DEF Approval, Candidate, Blank, disk, Attempt, MemType
<1>1. CASE Start
  BY <1>1 DEF Start, Goto
<1>2. CASE Reconcile
  BY <1>2 DEF Reconcile, Reconciled, ReconcilePending
<1>3. CASE AutoDone
  BY <1>3 DEF AutoDone, Goto
<1>4. CASE AutoTerminal
  BY <1>4 DEF AutoTerminal, Goto
<1>5. CASE AutoRun
  <2>1. iteration + 1 # 0
    BY DEF TypeInv, TypeOK
  <2> QED
    BY <1>5, <2>1 DEF AutoRun, AutoRunOn, BeginAttempt, Goto
<1>6. CASE AutoRunRefused
  BY <1>6 DEF AutoRunRefused, Goto
<1>7. CASE ResumeRetry
  <2>1. att.iter # 0 /\ status # "done"
    BY <1>7, DecideFirst, DecideDone DEF ResumeRetry, Dispatch
  <2> QED
    BY <1>7, <2>1 DEF ResumeRetry, BeginAttempt, Goto
<1>8. CASE ResumeFinalize
  <2>1. att.iter # 0 /\ att.phase = "approved" /\ att.decision # "replan"
    BY <1>8, DecideFirst, DecisionFacts DEF ResumeFinalize, Dispatch
  <2>2. att.mergeErr # "conflict"
    BY <1>8, DecideConflict DEF ResumeFinalize, Dispatch
  <2>3. /\ att'.phase = att.phase /\ att'.decision = att.decision /\ att'.mergeErr = att.mergeErr
        /\ att'.iter = att.iter
    BY <1>8, IncrementType DEF ResumeFinalize
  <2>4. pc' = "finalize" /\ UNCHANGED status
    BY <1>8 DEF ResumeFinalize, Goto
  <2> QED
    BY <2>1, <2>2, <2>3, <2>4
<1>9. CASE ResumeFrom
  <2>1. att.iter # 0 /\ att.phase \notin {"approved", "merged"} /\ att.decision # "replan"
    BY <1>9, DecideFirst, DecisionFacts DEF ResumeFrom, Dispatch, AttemptNeedsContinuation
  <2>2. status # "replanning" /\ att.phase # "replanning"
    BY <1>9, DecisionFacts DEF ResumeFrom, Dispatch, TypeInv, Replans
  <2>3. pc' \in {"plan", "impl", "test", "review"} /\ status' = "running" /\ UNCHANGED att
    BY <1>9, <2>1, <2>2 DEF ResumeFrom, AttemptNeedsContinuation, ResumePoint, Goto, Phases
  <2> QED
    BY <2>1, <2>3
<1>10. CASE ResumeRefused
  BY <1>10 DEF ResumeRefused, Goto
<1>11. CASE AutoRepair
  <2>1. att.iter # 0 /\ att.phase # "merged" /\ att.decision # "replan"
    BY <1>11, DecideFirst, DecisionFacts, DecideRepairOfApproved DEF AutoRepair, Dispatch
  <2>2. att.decision = "approve" => DecideAutoStep.report = "merge_conflict" /\ att.mergeErr = "conflict"
    BY <1>11, DecideRepairOfApproved DEF AutoRepair, Dispatch, Attempt
  <2>3. /\ att'.phase = att.phase /\ att'.decision = att.decision /\ att'.mergeErr = att.mergeErr
        /\ att'.iter = att.iter
    BY <1>11, IncrementType DEF AutoRepair
  <2>4. pc' = "repair" /\ mem'.repair = DecideAutoStep.report /\ UNCHANGED status
    BY <1>11 DEF AutoRepair, NoMem
  <2> QED
    BY <2>1, <2>2, <2>3, <2>4
<1>12. CASE AutoReplan
  <2>1. att.decision = "replan"
    BY <1>12, DecisionFacts DEF AutoReplan, Dispatch, TypeInv, Replans
  <2> QED
    BY <1>12, <2>1 DEF AutoReplan, Goto
<1>13. CASE SoftReset
  BY <1>13 DEF SoftReset
<1>14. CASE HandleFailure
  BY <1>14 DEF HandleFailure, Goto
<1>15. CASE PlannerPlans
  <2>1. PICK planned \in PlannerGraphs :
          LET g == AfterScan(PlannedGraph(planned), MaxRetries, 1, {})
          IN  IF Runnable(g, MaxRetries, {}) = {}
              THEN MarkFailed(att, g, "planning", "refused")
              ELSE \E n \in NextRunnableNodes(g, MaxRetries, 1, {}) :
                     /\ graph' = SetStatus(g, n, "running")
                     /\ att' = [Planned(att, n) EXCEPT !.ftype = "none"]
                     /\ Goto("impl")
                     /\ UNCHANGED <<status, iteration, past, starts>>
    BY <1>15 DEF PlannerPlans
  <2>a. pc = "plan"
    BY <1>15 DEF PlannerPlans
  <2>2. CASE MarkFailed(att, AfterScan(PlannedGraph(planned), MaxRetries, 1, {}), "planning", "refused")
    BY <2>a, <2>2, MarkFailedApproval
  <2>3. CASE \E n : /\ att' = [Planned(att, n) EXCEPT !.ftype = "none"]
                    /\ Goto("impl") /\ UNCHANGED status
    BY <2>a, <2>3 DEF Planned, Goto
  <2> QED
    BY <2>1, <2>2, <2>3
<1>16. CASE PlannerFails
  BY <1>16, MarkFailedApproval DEF PlannerFails
<1>17. CASE NodeSetup
  BY <1>17 DEF NodeSetup, Planned, Goto
<1>18. CASE NoRunnableNode
  BY <1>18, MarkFailedApproval DEF NoRunnableNode
<1>19. CASE SetupFails
  <2>1. PICK n \in SetupNodes :
          MarkFailed([att EXCEPT !.node = n], SetupGraph, "planning", "refused")
    BY <1>19 DEF SetupFails
  <2>2. n \in 0..MaxNodes
    BY SetupType DEF TypeInv
  <2> DEFINE a == [att EXCEPT !.node = n]
  <2>3. /\ a \in Attempt /\ a.iter = att.iter
        /\ a.decision = att.decision /\ a.mergeErr = att.mergeErr
    BY <2>2 DEF Attempt
  <2>4. pc = "plan"
    BY <1>19 DEF SetupFails
  <2> HIDE DEF a
  <2> QED
    BY <2>1, <2>3, <2>4, MarkFailedApproval DEF a
<1>20. CASE ImplStart
  BY <1>20 DEF ImplStart, StartImplementer, NoMem
<1>21. CASE ImplAlreadyDone
  BY <1>21 DEF ImplAlreadyDone, Goto
<1>22. CASE ImplAlreadyFailed
  BY <1>22, MarkFailedApproval DEF ImplAlreadyFailed
<1>23. CASE ImplEnd
  <2>1. /\ att'.phase = att.phase /\ att'.decision = att.decision /\ att'.mergeErr = att.mergeErr
        /\ att'.iter = att.iter
    BY <1>23 DEF ImplEnd, PatchRecorded
  <2>2. pc = "implRun" /\ pc' \in {"implFailed", "stopPatch", "test"} /\ UNCHANGED status
    BY <1>23 DEF ImplEnd
  <2> QED
    BY <2>1, <2>2
<1>24. CASE ImplFailed
  BY <1>24, MarkFailedApproval DEF ImplFailed
<1>25. CASE StopForPatch
  BY <1>25 DEF StopForPatch, Goto
<1>26. CASE TestStart
  BY <1>26 DEF TestStart, Goto
<1>27. CASE TestEnd
  BY <1>27 DEF TestEnd, Goto
<1>28. CASE TestAlreadyDone
  BY <1>28 DEF TestAlreadyDone, Goto
<1>29. CASE ReviewStart
  BY <1>29 DEF ReviewStart, Goto
<1>30. CASE ReviewEnd
  <2>1. PICK d \in Decisions :
          att' = IF d = "approve" THEN [att EXCEPT !.decision = d, !.phase = "approved", !.ftype = "none"]
                 ELSE [att EXCEPT !.decision = d, !.phase = "rejected"]
    BY <1>30 DEF ReviewEnd
  <2>2. pc = "reviewRun" /\ pc' = "finalize" /\ UNCHANGED status
    BY <1>30 DEF ReviewEnd, Goto
  <2> QED
    BY <2>1, <2>2
<1>31. CASE ReviewFails
  BY <1>31, MarkFailedApproval DEF ReviewFails
<1>32. CASE ReviewAlreadyDone
  BY <1>32 DEF ReviewAlreadyDone, Goto
<1>33. CASE FinalizeStop
  BY <1>33 DEF FinalizeStop, Goto
<1>34. CASE FinalizeReject
  BY <1>34 DEF FinalizeReject, Goto
<1>35. CASE FinalizeHold
  BY <1>35 DEF FinalizeHold, Goto
<1>36. CASE MergeInGit
  BY <1>36 DEF MergeInGit, CanAutoMerge, Goto
<1>37. CASE MergeRecorded
  BY <1>37 DEF MergeRecorded, Goto
<1>38. CASE MergeFails
  <2>1. PICK err \in MergeErrs : att' = [att EXCEPT !.mergeErr = err, !.ftype = "other"]
    BY <1>38 DEF MergeFails
  <2>2. Candidate /\ pc' = "loop" /\ status' = "stopped"
    BY <1>38 DEF MergeFails, CanAutoMerge, Goto
  <2> QED
    BY <2>1, <2>2 DEF MergeErrs
<1>39. CASE RepairSkipped
  BY <1>39 DEF RepairSkipped, Goto, Reconciled
<1>40. CASE RepairReset
  BY <1>40 DEF RepairReset, ResetDownstream
<1>41. CASE RepairStart
  BY <1>41 DEF RepairStart, StartImplementer
<1>42. CASE ReplanApplied
  <2>1. att.decision = "replan"
    BY <1>42 DEF ReplanApplied, TypeInv, Replans
  <2> QED
    BY <1>42, <2>1 DEF ReplanApplied, Goto
<1>43. CASE ReplanFails
  BY <1>43 DEF ReplanFails
<1>44. CASE ImplWrite
  BY <1>44 DEF ImplWrite
<1>45. CASE OperatorCommits
  BY <1>45 DEF OperatorCommits
<1>46. CASE Crash
  BY <1>46 DEF Crash, Goto
<1>47. CASE UNCHANGED vars
  BY <1>47 DEF vars
<1> QED
  BY <1>1, <1>2, <1>3, <1>4, <1>5, <1>6, <1>7, <1>8, <1>9, <1>10, <1>11, <1>12, <1>13, <1>14, <1>15, <1>16, <1>17, <1>18, <1>19, <1>20, <1>21, <1>22, <1>23, <1>24, <1>25, <1>26, <1>27, <1>28, <1>29, <1>30, <1>31, <1>32, <1>33, <1>34, <1>35, <1>36, <1>37, <1>38, <1>39, <1>40, <1>41, <1>42, <1>43, <1>44, <1>45, <1>46, <1>47
     DEF Next, RunnerStep, LoopStep, DispatchStep, PhaseStep

----------------------------------------------------------------------------
(* What has landed.  The node of an attempt that fails, or is set up, is   *)
(* the one it had, or one the scan found ready.                            *)

\* The graph run_graph_node_setup works on is the graph with, at most, some
\* pending nodes blocked.
LEMMA SetupKeeps ==
    ASSUME TypeInv
    PROVE  /\ SetupGraph \in Graph /\ SetupGraph.deps = graph.deps /\ SetupGraph.nodes = graph.nodes
           /\ \A m \in Nodes : \/ SetupGraph.status[m] = graph.status[m]
                               \/ graph.status[m] = "pending" /\ SetupGraph.status[m] = "blocked"
<1>1. graph \in Graph /\ SetupGraph \in Graph /\ SetupGraph.nodes = graph.nodes
  BY SetupType DEF TypeInv, TypeOK
<1> QED
  BY <1>1, AfterScanKeeps DEF SetupGraph

\* The node it sets up has neither passed nor been skipped, and the base
\* commit of the attempt holds all it depends on.
LEMMA SetupReady ==
    ASSUME TypeInv, Approval, Grounded, pc = "plan", NEW n \in SetupNodes
    PROVE  /\ n \in Nodes /\ n \in 0..MaxNodes
           /\ graph.status[n] \notin {"passed", "skipped"}
           /\ graph.deps[n] \subseteq att.base
           /\ att.node # 0 => n = att.node
<1>1. graph \in Graph /\ n \in 0..MaxNodes
  BY SetupType DEF TypeInv, TypeOK
<1>2. att.phase # "merged" /\ att.decision # "replan"
  BY DEF Approval
<1>3. CASE att.node # 0
  <2>1. n = att.node /\ n \in Nodes
    BY <1>3, SetupType DEF SetupNodes, TypeInv, NodeChosen, Graph
  <2> QED
    BY <1>1, <1>2, <1>3, <2>1 DEF Grounded
<1>4. CASE att.node = 0
  <2>1. n \in NextRunnableNodes(graph, MaxRetries, 1, {})
    BY <1>4 DEF SetupNodes
  <2>2. /\ n \in Nodes /\ graph.status[n] \in {"pending", "rejected"} /\ graph.deps[n] \subseteq Nodes
        /\ \A d \in graph.deps[n] : graph.status[d] = "passed"
    BY <1>1, <2>1, NextRunnableNodesReady
  <2>3. graph.deps[n] \subseteq base /\ att.base = base
    BY <1>4, <2>2 DEF Grounded
  <2> QED
    BY <1>1, <1>4, <2>2, <2>3
<1> QED
  BY <1>3, <1>4

\* The step changes nothing that Delivery speaks of: neither what is required
\* and what it depends on, nor what has landed, nor the candidate.
Steady ==
    /\ graph'.nodes = graph.nodes /\ graph'.deps = graph.deps
    /\ \A m \in Nodes : graph'.status[m] = "passed" <=> graph.status[m] = "passed"
    /\ \A m \in Nodes : graph'.status[m] = "skipped" <=> graph.status[m] = "skipped"
    /\ base' = base
    /\ Candidate' <=> Candidate
    /\ Candidate => att'.node = att.node /\ SameAttempt
    /\ status' = "done" <=> status = "done"

\* The node a failing phase marks has neither passed nor been skipped.
LEMMA MarkFailedGraph ==
    ASSUME TypeInv, Approval, Grounded,
           NEW a \in Attempt, NEW g \in Graph, NEW phase, NEW kind, MarkFailed(a, g, phase, kind),
           pc \in {"plan", "impl", "implFailed", "reviewRun"},
           \/ a.node = att.node
           \/ /\ att.node = 0 /\ a.node \in Nodes
              /\ graph.status[a.node] \notin {"passed", "skipped"}
              /\ graph.deps[a.node] \subseteq att.base,
           g.deps = graph.deps, g.nodes = graph.nodes,
           \A m \in Nodes : \/ g.status[m] = graph.status[m]
                            \/ graph.status[m] = "pending" /\ g.status[m] = "blocked"
    PROVE  /\ ~Candidate /\ att.phase # "merged" /\ att.mergeErr = "none" /\ att.decision # "replan"
           /\ a.node # 0 => /\ a.node \in Nodes
                            /\ graph.status[a.node] \notin {"passed", "skipped"}
                            /\ graph.deps[a.node] \subseteq att.base
           /\ graph'.deps = graph.deps /\ graph'.nodes = graph.nodes
           /\ \A m \in Nodes : graph'.status[m] = "passed" <=> graph.status[m] = "passed"
           /\ \A m \in Nodes : graph'.status[m] = "skipped" <=> graph.status[m] = "skipped"
<1>1. ~Candidate /\ att.phase # "merged" /\ att.mergeErr = "none" /\ att.decision # "replan"
  BY DEF Approval, Candidate
<1>2. a.node # 0 => /\ a.node \in Nodes
                    /\ graph.status[a.node] \notin {"passed", "skipped"}
                    /\ graph.deps[a.node] \subseteq att.base
  BY <1>1 DEF Grounded, TypeInv, TypeOK, NodeChosen, Graph
<1>3. CASE a.node \in g.nodes
  <2>1. a.node \in Nodes /\ a.node # 0
    BY <1>3 DEF Graph, Nodes
  <2>2. graph' = SetStatus(g, a.node, "failed")
    BY <1>3 DEF MarkFailed
  <2>3. /\ graph'.deps = g.deps /\ graph'.nodes = g.nodes
        /\ \A m \in Nodes : graph'.status[m] = IF m = a.node THEN "failed" ELSE g.status[m]
    BY <2>1, <2>2, SetStatusKeeps
  <2> QED
    BY <1>1, <1>2, <2>1, <2>3
<1>4. CASE a.node \notin g.nodes
  <2>1. graph' = g
    BY <1>4 DEF MarkFailed
  <2> QED
    BY <1>1, <1>2, <2>1
<1> QED
  BY <1>3, <1>4

\* A phase that fails leaves what has landed as it is.
LEMMA MarkFailedGrounded ==
    ASSUME TypeInv, Approval, Grounded,
           NEW a \in Attempt, NEW g \in Graph, NEW phase, NEW kind, MarkFailed(a, g, phase, kind),
           UNCHANGED world, pc \in {"plan", "impl", "implFailed", "reviewRun"},
           a.decision = att.decision, a.mergeErr = att.mergeErr, a.base = att.base,
           \/ a.node = att.node
           \/ /\ att.node = 0 /\ a.node \in Nodes
              /\ graph.status[a.node] \notin {"passed", "skipped"}
              /\ graph.deps[a.node] \subseteq att.base,
           g.deps = graph.deps, g.nodes = graph.nodes,
           \A m \in Nodes : \/ g.status[m] = graph.status[m]
                            \/ graph.status[m] = "pending" /\ g.status[m] = "blocked"
    PROVE  Grounded'
<1>1. /\ att'.node = a.node /\ att'.base = a.base /\ att'.mergeErr = a.mergeErr
      /\ att'.decision = a.decision /\ att'.phase = "failed"
      /\ pc' = "reset" /\ status' = "failed" /\ base' = base
  BY DEF MarkFailed, Attempt, world
<1>2. base \subseteq Nodes
  BY DEF TypeInv, TypeOK
<1> QED
  BY <1>1, <1>2, MarkFailedGraph DEF Grounded, Candidate

\* Nothing changes that a phase that fails could change for the promise.
LEMMA MarkFailedSteady ==
    ASSUME TypeInv, Approval, Grounded,
           NEW a \in Attempt, NEW g \in Graph, NEW phase, NEW kind, MarkFailed(a, g, phase, kind),
           UNCHANGED world, pc \in {"plan", "impl", "implFailed", "reviewRun"},
           \/ a.node = att.node
           \/ /\ att.node = 0 /\ a.node \in Nodes
              /\ graph.status[a.node] \notin {"passed", "skipped"}
              /\ graph.deps[a.node] \subseteq att.base,
           g.deps = graph.deps, g.nodes = graph.nodes,
           \A m \in Nodes : \/ g.status[m] = graph.status[m]
                            \/ graph.status[m] = "pending" /\ g.status[m] = "blocked"
    PROVE  Steady
<1>1. att'.phase = "failed" /\ status' = "failed" /\ base' = base
  BY DEF MarkFailed, Attempt, world
<1>2. status # "done"
  BY DEF Approval
<1> QED
  BY <1>1, <1>2, MarkFailedGraph DEF Steady, Candidate

\* Every step keeps the graph, the base branch and the attempt in agreement.
LEMMA NextGrounded == TypeInv /\ Approval /\ Grounded /\ [Next]_vars => Grounded'
<1> SUFFICES ASSUME TypeInv, Approval, Grounded, [Next]_vars PROVE Grounded'
  OBVIOUS
<1>a. /\ Approval /\ Grounded /\ Approval' /\ att \in Attempt /\ graph \in Graph
      /\ base \subseteq Nodes
  BY NextApproval DEF TypeInv, TypeOK
<1> USE <1>a DEF Grounded, Approval, Candidate, disk, world, Attempt
<1>1. CASE Start
  BY <1>1 DEF Start, Goto
<1>2. CASE Reconcile
  BY <1>2 DEF Reconcile, Reconciled, ReconcilePending
<1>3. CASE AutoDone
  BY <1>3 DEF AutoDone, Goto
<1>4. CASE AutoTerminal
  BY <1>4 DEF AutoTerminal, Goto
<1>5. CASE AutoRun
  <2>1. ~Candidate
    BY <1>5, DecideRun DEF AutoRun, AutoRunOn, Dispatch, Blank
  <2> QED
    BY <1>5, <2>1 DEF AutoRun, AutoRunOn, BeginAttempt, NewWorktree, Goto
<1>6. CASE AutoRunRefused
  BY <1>6 DEF AutoRunRefused, Goto
<1>7. CASE ResumeRetry
  <2>1. att.decision # "replan" /\ ~Candidate /\ att.phase # "merged" /\ att.phase = "rejected"
    BY <1>7, DecisionFacts DEF ResumeRetry, Dispatch
  <2>2. att.node # 0
    BY <2>1 DEF TypeInv, NodeChosen, Blank
  <2> QED
    BY <1>7, <2>1, <2>2 DEF ResumeRetry, BeginAttempt, NewWorktree, Goto
<1>8. CASE ResumeFinalize
  <2>1. /\ att'.phase = att.phase /\ att'.decision = att.decision /\ att'.mergeErr = att.mergeErr
        /\ att'.node = att.node /\ att'.base = att.base
    BY <1>8, IncrementType DEF ResumeFinalize
  <2>2. pc' = "finalize" /\ UNCHANGED <<status, graph, base>>
    BY <1>8 DEF ResumeFinalize, Goto
  <2> QED
    BY <2>1, <2>2
<1>9. CASE ResumeFrom
  <2>1. pc' # "merged" /\ status' = "running" /\ UNCHANGED <<att, graph, base>>
    <3>1. Approval' /\ att'.phase # "approved"
      BY <1>9 DEF ResumeFrom
    <3> QED
      BY <1>9, <3>1 DEF ResumeFrom, Approval, Candidate
  <2> QED
    BY <2>1
<1>10. CASE ResumeRefused
  BY <1>10 DEF ResumeRefused, Goto
<1>11. CASE AutoRepair
  <2>1. /\ att'.phase = att.phase /\ att'.decision = att.decision /\ att'.mergeErr = att.mergeErr
        /\ att'.node = att.node /\ att'.base = att.base
    BY <1>11, IncrementType DEF AutoRepair
  <2>2. pc' = "repair" /\ UNCHANGED <<status, graph, base>>
    BY <1>11 DEF AutoRepair
  <2> QED
    BY <2>1, <2>2
<1>12. CASE AutoReplan
  <2>1. att.decision = "replan"
    BY <1>12, DecisionFacts DEF AutoReplan, Dispatch, TypeInv, Replans
  <2> QED
    BY <1>12, <2>1 DEF AutoReplan, Goto
<1>13. CASE SoftReset
  BY <1>13 DEF SoftReset
<1>14. CASE HandleFailure
  BY <1>14 DEF HandleFailure, Goto
<1>15. CASE PlannerPlans
  <2>1. PICK planned \in PlannerGraphs :
          LET g == AfterScan(PlannedGraph(planned), MaxRetries, 1, {})
          IN  IF Runnable(g, MaxRetries, {}) = {}
              THEN MarkFailed(att, g, "planning", "refused")
              ELSE \E n \in NextRunnableNodes(g, MaxRetries, 1, {}) :
                     /\ graph' = SetStatus(g, n, "running")
                     /\ att' = [Planned(att, n) EXCEPT !.ftype = "none"]
                     /\ Goto("impl")
                     /\ UNCHANGED <<status, iteration, past, starts>>
    BY <1>15 DEF PlannerPlans
  <2> DEFINE g == AfterScan(PlannedGraph(planned), MaxRetries, 1, {})
  <2>2. g \in Graph /\ \A n \in Nodes : g.status[n] \in {"pending", "blocked"}
    BY PlannerAssumption, PlannedGraphType, PlannedGraphKeeps, AfterScanType, AfterScanKeeps
  <2>3. base = {} /\ base' = {} /\ att.base = {} /\ att.node = 0 /\ att.decision = "none" /\ pc = "plan"
    BY <1>15 DEF PlannerPlans, TypeInv, NodeChosen, Blank
  <2> HIDE DEF g
  <2>4. CASE MarkFailed(att, g, "planning", "refused")
    <3>1. /\ att'.node = 0 /\ att'.base = {} /\ att'.phase = "failed" /\ att'.mergeErr = att.mergeErr
          /\ pc' = "reset" /\ status' = "failed" /\ graph' = g
      <4>1. att.node \notin g.nodes
        BY <2>2, <2>3 DEF Graph, Nodes
      <4> QED
        BY <2>3, <2>4, <4>1 DEF MarkFailed
    <3> QED
      BY <2>2, <2>3, <3>1
  <2>5. CASE \E n \in NextRunnableNodes(g, MaxRetries, 1, {}) :
               /\ graph' = SetStatus(g, n, "running")
               /\ att' = [Planned(att, n) EXCEPT !.ftype = "none"]
               /\ Goto("impl") /\ UNCHANGED status
    <3>1. PICK n \in NextRunnableNodes(g, MaxRetries, 1, {}) :
               /\ graph' = SetStatus(g, n, "running")
               /\ att' = [Planned(att, n) EXCEPT !.ftype = "none"]
               /\ Goto("impl") /\ UNCHANGED status
      BY <2>5
    <3>2. n \in Nodes /\ g.deps[n] = {}
      BY <2>2, NextRunnableNodesReady
    <3>3. graph'.deps[n] = {} /\ \A m \in Nodes : graph'.status[m] \in {"pending", "blocked", "running"}
                            /\ graph'.status[n] = "running"
      BY <2>2, <3>1, <3>2, SetStatusKeeps
    <3>4. /\ att'.node = n /\ att'.base = {} /\ att'.phase = "worktree_created"
          /\ att'.mergeErr = att.mergeErr /\ pc' = "impl" /\ status' = status
      BY <2>3, <3>1 DEF Planned, Goto
    <3> QED
      BY <2>3, <3>2, <3>3, <3>4
  <2> QED
    BY <2>1, <2>4, <2>5 DEF g
<1>16. CASE PlannerFails
  <2>1. PICK kind : MarkFailed(att, graph, "planning", kind) /\ UNCHANGED world
    BY <1>16 DEF PlannerFails
  <2> QED
    BY <1>16, <2>1, MarkFailedGrounded DEF PlannerFails
<1>17. CASE NodeSetup
  <2>1. PICK n \in SetupNodes : graph' = SetStatus(SetupGraph, n, "running") /\ att' = Planned(att, n)
    BY <1>17 DEF NodeSetup
  <2>2. /\ pc = "plan" /\ pc' = "impl" /\ UNCHANGED <<status, base>>
        /\ att'.node = n /\ att'.base = att.base /\ att'.phase = "worktree_created"
        /\ att'.mergeErr = att.mergeErr /\ att'.decision = att.decision
    BY <1>17, <2>1 DEF NodeSetup, Planned, Goto
  <2>3. /\ n \in Nodes /\ graph.status[n] \notin {"passed", "skipped"} /\ graph.deps[n] \subseteq att.base
        /\ att.node # 0 => n = att.node
    BY <2>2, SetupReady
  <2>4. /\ SetupGraph \in Graph /\ SetupGraph.deps = graph.deps /\ SetupGraph.nodes = graph.nodes
        /\ \A m \in Nodes : \/ SetupGraph.status[m] = graph.status[m]
                            \/ graph.status[m] = "pending" /\ SetupGraph.status[m] = "blocked"
    BY SetupKeeps
  <2>5. /\ graph'.deps = graph.deps /\ graph'.nodes = graph.nodes /\ graph'.status[n] = "running"
        /\ \A m \in Nodes : graph'.status[m] = "passed" <=> graph.status[m] = "passed"
    BY <2>1, <2>3, <2>4, SetStatusKeeps
  <2> QED
    BY <2>2, <2>3, <2>5
<1>18. CASE NoRunnableNode
  <2>1. MarkFailed(att, SetupGraph, "planning", "refused") /\ UNCHANGED world /\ pc = "plan"
    BY <1>18 DEF NoRunnableNode
  <2> QED
    BY <2>1, SetupKeeps, MarkFailedGrounded
<1>19. CASE SetupFails
  <2>1. PICK n \in SetupNodes :
          MarkFailed([att EXCEPT !.node = n], SetupGraph, "planning", "refused")
    BY <1>19 DEF SetupFails
  <2>2. UNCHANGED world /\ pc = "plan"
    BY <1>19 DEF SetupFails
  <2>3. /\ n \in Nodes /\ n \in 0..MaxNodes
        /\ graph.status[n] \notin {"passed", "skipped"} /\ graph.deps[n] \subseteq att.base
        /\ att.node # 0 => n = att.node
    BY <2>2, SetupReady
  <2> DEFINE a == [att EXCEPT !.node = n]
  <2>4. /\ a \in Attempt /\ a.node = n /\ a.base = att.base
        /\ a.decision = att.decision /\ a.mergeErr = att.mergeErr
    BY <2>3 DEF Attempt
  <2> HIDE DEF a
  <2> QED
    BY <2>1, <2>2, <2>3, <2>4, SetupKeeps, MarkFailedGrounded DEF a
<1>20. CASE ImplStart
  BY <1>20 DEF ImplStart, StartImplementer, NoMem
<1>21. CASE ImplAlreadyDone
  BY <1>21 DEF ImplAlreadyDone, Goto
<1>22. CASE ImplAlreadyFailed
  BY <1>22, MarkFailedGrounded DEF ImplAlreadyFailed
<1>23. CASE ImplEnd
  <2>1. /\ att'.phase = att.phase /\ att'.decision = att.decision /\ att'.mergeErr = att.mergeErr
        /\ att'.node = att.node /\ att'.base = att.base
    BY <1>23 DEF ImplEnd, PatchRecorded
  <2>2. pc' \in {"implFailed", "stopPatch", "test"} /\ UNCHANGED <<status, graph, base>>
    BY <1>23 DEF ImplEnd
  <2> QED
    BY <2>1, <2>2
<1>24. CASE ImplFailed
  <2>1. PICK kind : MarkFailed(att, graph, "executing", kind) /\ UNCHANGED world /\ pc = "implFailed"
    BY <1>24 DEF ImplFailed
  <2> QED
    BY <2>1, MarkFailedGrounded
<1>25. CASE StopForPatch
  BY <1>25 DEF StopForPatch, Goto
<1>26. CASE TestStart
  BY <1>26 DEF TestStart, Goto
<1>27. CASE TestEnd
  BY <1>27 DEF TestEnd, Goto
<1>28. CASE TestAlreadyDone
  BY <1>28 DEF TestAlreadyDone, Goto
<1>29. CASE ReviewStart
  BY <1>29 DEF ReviewStart, Goto
<1>30. CASE ReviewEnd
  <2>1. PICK d \in Decisions :
          att' = IF d = "approve" THEN [att EXCEPT !.decision = d, !.phase = "approved", !.ftype = "none"]
                 ELSE [att EXCEPT !.decision = d, !.phase = "rejected"]
    BY <1>30 DEF ReviewEnd
  <2>2. pc = "reviewRun" /\ pc' = "finalize" /\ UNCHANGED <<status, graph, base>>
    BY <1>30 DEF ReviewEnd, Goto
  <2> QED
    BY <2>1, <2>2
<1>31. CASE ReviewFails
  <2>1. PICK kind : MarkFailed(att, graph, "reviewing", kind) /\ UNCHANGED world /\ pc = "reviewRun"
    BY <1>31 DEF ReviewFails
  <2> QED
    BY <2>1, MarkFailedGrounded
<1>32. CASE ReviewAlreadyDone
  BY <1>32 DEF ReviewAlreadyDone, Goto
<1>33. CASE FinalizeStop
  BY <1>33 DEF FinalizeStop, Goto
<1>34. CASE FinalizeReject
  <2>1. att.decision = "reject" /\ att.node # 0
    BY <1>34 DEF FinalizeReject, TypeInv, NodeChosen
  <2>2. att.node \in graph.nodes /\ att.node \in Nodes
    BY <2>1 DEF TypeInv, NodeChosen, Graph
  <2>3. graph' = MarkRejected(graph, att.node) /\ status' = "stopped" /\ pc' = "loop" /\ UNCHANGED <<att, base>>
    BY <1>34, <2>2 DEF FinalizeReject, Goto
  <2>4. graph.status[att.node] # "passed"
    BY <2>1
  <2> QED
    BY <2>1, <2>2, <2>3, <2>4, MarkRejectedKeeps
<1>35. CASE FinalizeHold
  BY <1>35 DEF FinalizeHold, Goto
<1>36. CASE MergeInGit
  <2>1. Candidate /\ att.node \in graph.nodes /\ att.mergeErr # "conflict"
    BY <1>36 DEF MergeInGit, CanAutoMerge, TypeInv, NodeChosen, Blank
  <2>2. base' = base \cup {att.node} /\ pc' = "merged" /\ UNCHANGED <<status, graph, att>>
    BY <1>36 DEF MergeInGit, Goto
  <2>3. att.node # 0
    BY <2>1, <1>a DEF Nodes, Graph
  <2> QED
    BY <2>1, <2>2, <2>3
<1>37. CASE MergeRecorded
  <2>1. Candidate /\ att.node \in base /\ att.node \in graph.nodes /\ att.node \in Nodes /\ att.node # 0
    BY <1>37 DEF MergeRecorded, Nodes, Graph
  <2>2. /\ graph' = SetStatus(graph, att.node, "passed") /\ pc' = "loop" /\ UNCHANGED base
        /\ att'.phase = "merged" /\ att'.mergeErr = "none" /\ att'.node = att.node /\ att'.base = att.base
        /\ status' = "done" => GraphComplete(graph')
    BY <1>37 DEF MergeRecorded, Goto
  <2>3. /\ graph'.deps = graph.deps /\ graph'.nodes = graph.nodes
        /\ \A m \in Nodes : graph'.status[m] = IF m = att.node THEN "passed" ELSE graph.status[m]
    BY <2>1, <2>2, SetStatusKeeps
  <2>4. graph.deps[att.node] \subseteq base
    BY <2>1
  <2> QED
    BY <2>1, <2>2, <2>3, <2>4
<1>38. CASE MergeFails
  <2>1. PICK err \in MergeErrs :
          /\ err = "conflict" => att.node \notin base
          /\ att' = [att EXCEPT !.mergeErr = err, !.ftype = "other"]
    BY <1>38 DEF MergeFails
  <2>2. pc' = "loop" /\ status' = "stopped" /\ UNCHANGED <<graph, base>>
    BY <1>38 DEF MergeFails, Goto
  <2> QED
    BY <2>1, <2>2
<1>39. CASE RepairSkipped
  BY <1>39 DEF RepairSkipped, Goto, Reconciled
<1>40. CASE RepairReset
  <2>1. Candidate => att.node \notin base
    BY <1>40 DEF RepairReset
  <2> QED
    BY <1>40, <2>1 DEF RepairReset, ResetDownstream
<1>41. CASE RepairStart
  BY <1>41 DEF RepairStart, StartImplementer
<1>42. CASE ReplanApplied
  <2>1. PICK patch \in Patches : PatchValid(graph, patch) /\ graph' = ApplyPatch(graph, patch)
    BY <1>42 DEF ReplanApplied
  <2>2. /\ att.decision = "replan" /\ att'.decision = "replan" /\ att'.phase = "worktree_created"
        /\ att'.node = att.node /\ att'.base = att.base /\ att'.mergeErr = att.mergeErr
        /\ status' = "stopped" /\ pc' = "loop" /\ UNCHANGED base
    BY <1>42 DEF ReplanApplied, TypeInv, Replans, Goto
  <2>3. graph.nodes \subseteq graph'.nodes
    BY <2>1, ApplyPatchType, PlannerAssumption
  <2>4. /\ \A n \in Nodes : graph'.status[n] = "passed" <=> graph.status[n] = "passed"
        /\ \A n \in graph.nodes :
             /\ graph'.deps[n] \subseteq graph.deps[n]
             /\ graph.status[n] = "passed" => graph'.deps[n] = graph.deps[n]
    BY <2>1, PatchKeepsPassed, PlannerAssumption
  <2>5. att.node # 0 => att.node \in graph.nodes /\ att.node \in Nodes
    BY DEF TypeInv, NodeChosen, Graph
  <2> QED
    BY <2>2, <2>3, <2>4, <2>5
<1>43. CASE ReplanFails
  BY <1>43 DEF ReplanFails
<1>44. CASE ImplWrite
  BY <1>44 DEF ImplWrite
<1>45. CASE OperatorCommits
  BY <1>45 DEF OperatorCommits
<1>46. CASE Crash
  BY <1>46 DEF Crash, Goto
<1>47. CASE UNCHANGED vars
  BY <1>47 DEF vars
<1> QED
  BY <1>1, <1>2, <1>3, <1>4, <1>5, <1>6, <1>7, <1>8, <1>9, <1>10, <1>11, <1>12, <1>13, <1>14, <1>15, <1>16, <1>17, <1>18, <1>19, <1>20, <1>21, <1>22, <1>23, <1>24, <1>25, <1>26, <1>27, <1>28, <1>29, <1>30, <1>31, <1>32, <1>33, <1>34, <1>35, <1>36, <1>37, <1>38, <1>39, <1>40, <1>41, <1>42, <1>43, <1>44, <1>45, <1>46, <1>47
     DEF Next, RunnerStep, LoopStep, DispatchStep, PhaseStep

----------------------------------------------------------------------------
(* The steps that count for Delivery.                                     *)

\* Six actions move what Delivery speaks of; every other step leaves it alone.
LEMMA NextSteady ==
    TypeInv /\ Approval /\ Grounded /\ [Next]_vars =>
        \/ Steady
        \/ PlannerPlans \/ ReviewEnd \/ RepairReset
        \/ MergeInGit \/ MergeRecorded \/ ReplanApplied
<1> SUFFICES ASSUME TypeInv, Approval, Grounded, [Next]_vars,
                    ~(PlannerPlans \/ ReviewEnd \/ RepairReset
                      \/ MergeInGit \/ MergeRecorded \/ ReplanApplied)
             PROVE  Steady
  OBVIOUS
<1>a. TypeInv /\ Approval /\ Grounded /\ att \in Attempt /\ graph \in Graph
  BY DEF TypeInv, TypeOK
<1> USE <1>a DEF Grounded, Approval, Candidate, Steady, SameAttempt, disk, world, Attempt
<1>1. CASE Start
  BY <1>1 DEF Start, Goto
<1>2. CASE Reconcile
  <2>1. /\ att'.phase = att.phase /\ att'.decision = att.decision /\ att'.node = att.node
        /\ att'.iter = att.iter /\ att'.retry = att.retry
    BY <1>2 DEF Reconcile, Reconciled
  <2> QED
    BY <1>2, <2>1 DEF Reconcile
<1>3. CASE AutoDone
  BY <1>3 DEF AutoDone, Goto
<1>4. CASE AutoTerminal
  BY <1>4 DEF AutoTerminal, Goto
<1>5. CASE AutoRun
  <2>1. ~Candidate /\ status # "done"
    BY <1>5, DecideRun, DecideDone DEF AutoRun, AutoRunOn, Dispatch, Blank
  <2>2. att'.decision = "none" /\ status' = "running" /\ UNCHANGED <<graph, base>>
    BY <1>5 DEF AutoRun, AutoRunOn, BeginAttempt, NewWorktree
  <2> QED
    BY <2>1, <2>2
<1>6. CASE AutoRunRefused
  BY <1>6 DEF AutoRunRefused, Goto
<1>7. CASE ResumeRetry
  <2>1. ~Candidate /\ status # "done"
    BY <1>7, DecideDone DEF ResumeRetry, Dispatch
  <2>2. att'.decision = "none" /\ status' = "running" /\ UNCHANGED <<graph, base>>
    BY <1>7 DEF ResumeRetry, BeginAttempt, NewWorktree
  <2> QED
    BY <2>1, <2>2
<1>8. CASE ResumeFinalize
  <2>1. /\ att'.phase = att.phase /\ att'.decision = att.decision /\ att'.node = att.node
        /\ att'.iter = att.iter /\ att'.retry = att.retry
    BY <1>8, IncrementType DEF ResumeFinalize
  <2>2. UNCHANGED <<status, graph, base>>
    BY <1>8 DEF ResumeFinalize
  <2> QED
    BY <2>1, <2>2
<1>9. CASE ResumeFrom
  <2>1. status # "done" /\ status' = "running" /\ UNCHANGED <<att, graph, base>>
    BY <1>9, DecideDone DEF ResumeFrom, Dispatch
  <2> QED
    BY <2>1
<1>10. CASE ResumeRefused
  BY <1>10 DEF ResumeRefused, Goto
<1>11. CASE AutoRepair
  <2>1. /\ att'.phase = att.phase /\ att'.decision = att.decision /\ att'.node = att.node
        /\ att'.iter = att.iter /\ att'.retry = att.retry
    BY <1>11, IncrementType DEF AutoRepair
  <2>2. UNCHANGED <<status, graph, base>>
    BY <1>11 DEF AutoRepair
  <2> QED
    BY <2>1, <2>2
<1>12. CASE AutoReplan
  <2>1. att.decision = "replan" /\ status # "done"
    BY <1>12, DecisionFacts, DecideDone DEF AutoReplan, Dispatch, TypeInv, Replans
  <2> QED
    BY <1>12, <2>1 DEF AutoReplan
<1>13. CASE SoftReset
  BY <1>13 DEF SoftReset
<1>14. CASE HandleFailure
  BY <1>14 DEF HandleFailure, Goto
<1>15. CASE PlannerFails
  <2>1. UNCHANGED world /\ pc \in {"plan", "impl", "implFailed", "reviewRun"}
    BY <1>15 DEF PlannerFails
  <2>2. PICK kind : MarkFailed(att, graph, "planning", kind)
    BY <1>15 DEF PlannerFails
  <2> QED
    BY <2>1, <2>2, MarkFailedSteady
<1>16. CASE NodeSetup
  <2>1. PICK n \in SetupNodes : graph' = SetStatus(SetupGraph, n, "running") /\ att' = Planned(att, n)
    BY <1>16 DEF NodeSetup
  <2>2. /\ pc = "plan" /\ UNCHANGED <<status, base>> /\ att'.phase = "worktree_created"
    BY <1>16, <2>1 DEF NodeSetup, Planned
  <2>3. n \in Nodes /\ graph.status[n] \notin {"passed", "skipped"}
    BY <2>2, SetupReady
  <2>4. /\ SetupGraph \in Graph /\ SetupGraph.deps = graph.deps /\ SetupGraph.nodes = graph.nodes
        /\ \A m \in Nodes : \/ SetupGraph.status[m] = graph.status[m]
                            \/ graph.status[m] = "pending" /\ SetupGraph.status[m] = "blocked"
    BY SetupKeeps
  <2>5. /\ graph'.deps = SetupGraph.deps /\ graph'.nodes = SetupGraph.nodes
        /\ \A m \in Nodes : graph'.status[m] = IF m = n THEN "running" ELSE SetupGraph.status[m]
    BY <2>1, <2>3, <2>4, SetStatusKeeps
  <2> QED
    BY <2>2, <2>3, <2>4, <2>5
<1>17. CASE NoRunnableNode
  <2>1. MarkFailed(att, SetupGraph, "planning", "refused") /\ UNCHANGED world /\ pc = "plan"
    BY <1>17 DEF NoRunnableNode
  <2> QED
    BY <2>1, SetupKeeps, MarkFailedSteady
<1>18. CASE SetupFails
  <2>1. PICK n \in SetupNodes :
          MarkFailed([att EXCEPT !.node = n], SetupGraph, "planning", "refused")
    BY <1>18 DEF SetupFails
  <2>2. UNCHANGED world /\ pc = "plan"
    BY <1>18 DEF SetupFails
  <2>3. /\ n \in Nodes /\ n \in 0..MaxNodes
        /\ graph.status[n] \notin {"passed", "skipped"} /\ graph.deps[n] \subseteq att.base
        /\ att.node # 0 => n = att.node
    BY <2>2, SetupReady
  <2> DEFINE a == [att EXCEPT !.node = n]
  <2>4. a \in Attempt /\ a.node = n
    BY <2>3 DEF Attempt
  <2> HIDE DEF a
  <2> QED
    BY <2>1, <2>2, <2>3, <2>4, SetupKeeps, MarkFailedSteady DEF a
<1>19. CASE ImplStart
  BY <1>19 DEF ImplStart, StartImplementer, NoMem
<1>20. CASE ImplAlreadyDone
  BY <1>20 DEF ImplAlreadyDone, Goto
<1>21. CASE ImplAlreadyFailed
  <2>1. UNCHANGED world /\ pc \in {"plan", "impl", "implFailed", "reviewRun"}
    BY <1>21 DEF ImplAlreadyFailed
  <2>2. PICK kind : MarkFailed(att, graph, "executing", kind)
    BY <1>21 DEF ImplAlreadyFailed
  <2> QED
    BY <2>1, <2>2, MarkFailedSteady
<1>22. CASE ImplEnd
  <2>1. att'.phase = att.phase /\ att'.decision = att.decision
    BY <1>22 DEF ImplEnd, PatchRecorded
  <2>2. ~Candidate /\ UNCHANGED <<status, graph, base>>
    BY <1>22 DEF ImplEnd
  <2> QED
    BY <2>1, <2>2
<1>23. CASE ImplFailed
  <2>1. UNCHANGED world /\ pc \in {"plan", "impl", "implFailed", "reviewRun"}
    BY <1>23 DEF ImplFailed
  <2>2. PICK kind : MarkFailed(att, graph, "executing", kind)
    BY <1>23 DEF ImplFailed
  <2> QED
    BY <2>1, <2>2, MarkFailedSteady
<1>24. CASE StopForPatch
  BY <1>24 DEF StopForPatch, Goto
<1>25. CASE TestStart
  BY <1>25 DEF TestStart, Goto
<1>26. CASE TestEnd
  BY <1>26 DEF TestEnd, Goto
<1>27. CASE TestAlreadyDone
  BY <1>27 DEF TestAlreadyDone, Goto
<1>28. CASE ReviewStart
  BY <1>28 DEF ReviewStart, Goto
<1>29. CASE ReviewFails
  <2>1. UNCHANGED world /\ pc \in {"plan", "impl", "implFailed", "reviewRun"}
    BY <1>29 DEF ReviewFails
  <2>2. PICK kind : MarkFailed(att, graph, "reviewing", kind)
    BY <1>29 DEF ReviewFails
  <2> QED
    BY <2>1, <2>2, MarkFailedSteady
<1>30. CASE ReviewAlreadyDone
  BY <1>30 DEF ReviewAlreadyDone, Goto
<1>31. CASE FinalizeStop
  BY <1>31 DEF FinalizeStop, Goto
<1>32. CASE FinalizeReject
  <2>1. att.decision = "reject" /\ att.node # 0
    BY <1>32 DEF FinalizeReject, TypeInv, NodeChosen
  <2>2. att.node \in graph.nodes /\ att.node \in Nodes
    BY <2>1 DEF TypeInv, NodeChosen, Graph
  <2>3. /\ graph' = MarkRejected(graph, att.node) /\ status' = "stopped" /\ status # "done"
        /\ UNCHANGED <<att, base>>
    BY <1>32, <2>2 DEF FinalizeReject
  <2>4. graph.status[att.node] \notin {"passed", "skipped"}
    BY <2>1
  <2> QED
    BY <2>1, <2>2, <2>3, <2>4, MarkRejectedKeeps
<1>33. CASE FinalizeHold
  BY <1>33 DEF FinalizeHold, Goto
<1>34. CASE MergeFails
  <2>1. /\ att'.phase = att.phase /\ att'.decision = att.decision /\ att'.node = att.node
        /\ att'.iter = att.iter /\ att'.retry = att.retry
    BY <1>34 DEF MergeFails
  <2>2. status' = "stopped" /\ status # "done" /\ UNCHANGED <<graph, base>>
    BY <1>34 DEF MergeFails
  <2> QED
    BY <2>1, <2>2
<1>35. CASE RepairSkipped
  BY <1>35 DEF RepairSkipped, Reconciled
<1>36. CASE RepairStart
  BY <1>36 DEF RepairStart, StartImplementer
<1>37. CASE ReplanFails
  BY <1>37 DEF ReplanFails
<1>38. CASE ImplWrite
  BY <1>38 DEF ImplWrite
<1>39. CASE OperatorCommits
  BY <1>39 DEF OperatorCommits
<1>40. CASE Crash
  BY <1>40 DEF Crash, Goto
<1>41. CASE UNCHANGED vars
  BY <1>41 DEF vars
<1> QED
  BY <1>1, <1>2, <1>3, <1>4, <1>5, <1>6, <1>7, <1>8, <1>9, <1>10, <1>11, <1>12, <1>13, <1>14, <1>15, <1>16, <1>17, <1>18, <1>19, <1>20, <1>21, <1>22, <1>23, <1>24, <1>25, <1>26, <1>27, <1>28, <1>29, <1>30, <1>31, <1>32, <1>33, <1>34, <1>35, <1>36, <1>37, <1>38, <1>39, <1>40, <1>41
     DEF Next, RunnerStep, LoopStep, DispatchStep, PhaseStep

\* What is in the base branch has passed, or waits for its merge to be recorded.
LEMMA NextLanded == TypeInv /\ Approval /\ Landed /\ [Next]_vars => Landed'
<1> SUFFICES ASSUME TypeInv, Approval, Landed, [Next]_vars PROVE Landed'
  OBVIOUS
<1>a. /\ Grounded /\ att \in Attempt /\ graph \in Graph /\ base \subseteq Nodes
      /\ \A n \in base : graph.status[n] = "passed" \/ (n = att.node /\ Candidate)
  BY DEF Landed, TypeInv, TypeOK
<1>b. Grounded'
  BY <1>a, NextGrounded
<1> SUFFICES \A n \in base' : graph'.status[n] = "passed" \/ (n = att'.node /\ Candidate')
  BY <1>b DEF Landed
<1>1. CASE Steady
  BY <1>1, <1>a DEF Steady
<1>2. CASE PlannerPlans
  BY <1>2, <1>a DEF PlannerPlans, Grounded, world
<1>3. CASE ReviewEnd
  BY <1>3, <1>a DEF ReviewEnd, Approval, Candidate
<1>4. CASE RepairReset
  BY <1>4, <1>a DEF RepairReset, Approval, Grounded, Candidate, world
<1>5. CASE MergeInGit
  <2>1. Candidate /\ base' = base \cup {att.node} /\ UNCHANGED <<graph, att>>
    BY <1>5 DEF MergeInGit, CanAutoMerge, Approval, Candidate, disk
  <2> QED
    BY <1>a, <2>1 DEF Candidate
<1>6. CASE MergeRecorded
  <2>1. graph' = SetStatus(graph, att.node, "passed") /\ base' = base
    BY <1>6 DEF MergeRecorded, world
  <2>2. att.node \in base
    BY <1>6, <1>a DEF MergeRecorded, Grounded
  <2>3. \A m \in Nodes : graph'.status[m] = IF m = att.node THEN "passed" ELSE graph.status[m]
    BY <1>a, <2>1, <2>2, SetStatusKeeps
  <2> QED
    BY <1>a, <2>1, <2>3
<1>7. CASE ReplanApplied
  <2>1. PICK patch \in Patches : PatchValid(graph, patch) /\ graph' = ApplyPatch(graph, patch)
    BY <1>7 DEF ReplanApplied
  <2>2. \A n \in Nodes : graph'.status[n] = "passed" <=> graph.status[n] = "passed"
    BY <1>a, <2>1, PatchKeepsPassed, PlannerAssumption
  <2>3. ~Candidate /\ base' = base
    BY <1>7 DEF ReplanApplied, TypeInv, Replans, Candidate, world
  <2> QED
    BY <1>a, <2>2, <2>3
<1> QED
  BY <1>a, <1>1, <1>2, <1>3, <1>4, <1>5, <1>6, <1>7, NextSteady

----------------------------------------------------------------------------
(* The theorems.                                                           *)

\* A new task is delivering nothing yet.
LEMMA InitDelivery == Init => DeliveryInv
<1> SUFFICES ASSUME Init PROVE DeliveryInv
  OBVIOUS
<1>1. /\ att.iter = 0 /\ att.node = 0 /\ att.phase = "preflight" /\ att.decision = "none"
      /\ att.mergeErr = "none" /\ att.base = {} /\ Blank(att)
  BY DEF Init, BeginAttempt, Blank
<1>2. base = {} /\ graph = EmptyGraph /\ pc = "off" /\ status = "initialized"
  BY DEF Init
<1>3. \A n \in Nodes : graph.status[n] = "pending"
  BY <1>2 DEF EmptyGraph
<1>4. Approval
  BY <1>1, <1>2 DEF Approval, Candidate
<1>5. Landed
  BY <1>1, <1>2, <1>3 DEF Landed, Grounded
<1> QED
  BY <1>4, <1>5, InitTypeInv DEF DeliveryInv

\* The graph, the base branch and the attempt agree in every state, after any
\* crashes, repairs, retries and replans.
LEMMA DeliveryInvariant == Spec => []DeliveryInv
<1>1. DeliveryInv /\ [Next]_vars => DeliveryInv'
  BY NextTypeOK, NextNodeChosen, NextReplans, NextApproval, NextLanded DEF DeliveryInv, TypeInv
<1> QED
  BY <1>1, InitDelivery, PTL DEF Spec

\* An attempt only ever works on a base that holds all its node depends on.
THEOREM DependenciesAreInBase == Spec => []DependenciesInBase
<1>1. DeliveryInv => DependenciesInBase
  BY DEF DeliveryInv, Landed, Grounded, DependenciesInBase
<1> QED
  BY <1>1, DeliveryInvariant, PTL

\* What the graph says has passed is merged, and what is merged has passed or
\* is the approved attempt whose merge is not recorded yet.
THEOREM PassedNodesAreMerged == Spec => []PassedIsMerged
<1>1. DeliveryInv => PassedIsMerged
  <2>1. DeliveryInv => graph.nodes \subseteq Nodes
    BY DEF DeliveryInv, TypeInv, TypeOK, Graph
  <2> QED
    BY <2>1 DEF DeliveryInv, Landed, Grounded, Candidate, PassedIsMerged
<1> QED
  BY <1>1, DeliveryInvariant, PTL

\* A task that is done is delivered: each of its nodes was skipped, or is in
\* the base branch with all it depends on.
THEOREM DoneIsDelivered == Spec => []DoneMeansDelivered
<1>1. DeliveryInv => DoneMeansDelivered
  <2> SUFFICES ASSUME DeliveryInv, status = "done", NEW n \in graph.nodes, graph.status[n] # "skipped"
               PROVE  graph.status[n] = "passed" /\ graph.deps[n] \cup {n} \subseteq base
    BY DEF DoneMeansDelivered
  <2>1. n \in Nodes /\ graph.status[n] = "passed"
    BY DEF DeliveryInv, TypeInv, TypeOK, Graph, Landed, Grounded, GraphComplete
  <2> QED
    BY <2>1 DEF DeliveryInv, Landed, Grounded
<1> QED
  BY <1>1, DeliveryInvariant, PTL

\* A step leaves a passed node passed.
LEMMA NextPassed ==
    ASSUME DeliveryInv, [Next]_vars, NEW n \in Nodes, graph.status[n] = "passed"
    PROVE  graph'.status[n] = "passed"
<1>a. TypeInv /\ Approval /\ Landed /\ Grounded /\ graph \in Graph
  BY DEF DeliveryInv, TypeInv, TypeOK, Landed
<1>1. CASE Steady
  BY <1>1 DEF Steady
<1>2. CASE PlannerPlans
  BY <1>2, <1>a DEF PlannerPlans, Landed, Grounded
<1>3. CASE ReviewEnd \/ RepairReset \/ MergeInGit
  BY <1>3 DEF ReviewEnd, RepairReset, MergeInGit, disk
<1>4. CASE MergeRecorded
  <2>1. att.node \in Nodes
    BY <1>4, <1>a DEF MergeRecorded, Landed, Grounded, Graph
  <2> QED
    BY <1>4, <1>a, <2>1, SetStatusKeeps DEF MergeRecorded
<1>5. CASE ReplanApplied
  BY <1>5, <1>a, PatchKeepsPassed, PlannerAssumption DEF ReplanApplied
<1> QED
  BY <1>a, <1>1, <1>2, <1>3, <1>4, <1>5, NextSteady

\* No step, and no patch of the planner, undoes a node that has passed.
THEOREM PassedStaysPassed == Spec => PassedIsFinal
<1>1. DeliveryInv /\ [Next]_vars =>
          [\A n \in Nodes : graph.status[n] = "passed" => graph'.status[n] = "passed"]_vars
  BY NextPassed
<1> QED
  BY <1>1, DeliveryInvariant, PTL DEF Spec, PassedIsFinal

\* Approved work is merged or stays approved, but for the repair of a conflict.
THEOREM ApprovedWorkStays == Spec => ApprovedStays
<1>1. DeliveryInv /\ [Next]_vars =>
          [att.phase = "approved" /\ att.decision = "approve" =>
              /\ SameAttempt
              /\ \/ att'.phase \in {"approved", "merged"} /\ att'.decision = "approve"
                 \/ att.mergeErr = "conflict" /\ mem.repair = "merge_conflict"]_vars
  <2> SUFFICES ASSUME DeliveryInv, [Next]_vars, Candidate
               PROVE  /\ SameAttempt
                      /\ \/ att'.phase \in {"approved", "merged"} /\ att'.decision = "approve"
                         \/ att.mergeErr = "conflict" /\ mem.repair = "merge_conflict"
    BY DEF Candidate
  <2>a. TypeInv /\ Approval /\ Landed /\ Grounded /\ att \in Attempt
    BY DEF DeliveryInv, TypeInv, TypeOK, Landed
  <2>1. CASE Steady
    BY <2>1 DEF Steady, Candidate
  <2>2. CASE PlannerPlans \/ ReviewEnd \/ ReplanApplied
    BY <2>2, <2>a DEF PlannerPlans, ReviewEnd, ReplanApplied, Approval
  <2>3. CASE RepairReset
    BY <2>3, <2>a DEF RepairReset, ResetDownstream, Approval, SameAttempt, Attempt
  <2>4. CASE MergeInGit
    BY <2>4 DEF MergeInGit, disk, SameAttempt, Candidate
  <2>5. CASE MergeRecorded
    BY <2>5, <2>a DEF MergeRecorded, SameAttempt, Candidate, Attempt
  <2> QED
    BY <2>a, <2>1, <2>2, <2>3, <2>4, <2>5, NextSteady
<1> QED
  BY <1>1, DeliveryInvariant, PTL DEF Spec, ApprovedStays

----------------------------------------------------------------------------
(* The orchestrator implements Delivery: six actions are steps of it, and  *)
(* all others stutter.  The lemmas about the six do not ask for Landed, so *)
(* that they are of use beside batches too.                                *)

\* What Promise maps the variables of Delivery to.
Required   == {n \in graph.nodes : graph.status[n] # "skipped"}
Candidates == IF Candidate THEN {att.node} ELSE {}

\* A steady step leaves all of it alone.
LEMMA SteadyKeeps ==
    ASSUME TypeInv, Steady
    PROVE  /\ Required' = Required /\ graph'.deps = graph.deps /\ base' = base
           /\ Candidates' = Candidates
           /\ (status = "done")' = (status = "done")
<1>1. graph.nodes \subseteq Nodes
  BY DEF TypeInv, TypeOK, Graph
<1>2. Required' = Required
  BY <1>1 DEF Steady, Required
<1>3. Candidates' = Candidates
  BY DEF Steady, Candidates
<1>4. (status = "done")' = (status = "done")
  BY DEF Steady
<1> QED
  BY <1>2, <1>3, <1>4 DEF Steady

\* The first plan finds nothing landed and nothing approved.
LEMMA PlannerPlansFacts ==
    ASSUME TypeInv, Approval, Grounded, PlannerPlans, TypeOK'
    PROVE  /\ ~Candidate /\ ~Candidate' /\ status # "done" /\ status' # "done"
           /\ graph.nodes = {} /\ base = {} /\ base' = base /\ past' = past
           /\ Required' \subseteq Nodes /\ graph'.deps \in [Nodes -> SUBSET Nodes]
<1>1. /\ graph.nodes = {} /\ base = {} /\ base' = base /\ ~Candidate /\ status # "done"
      /\ att \in Attempt
  BY DEF PlannerPlans, world, TypeInv, TypeOK, Grounded, Approval
<1>2. PICK planned \in PlannerGraphs :
        LET g == AfterScan(PlannedGraph(planned), MaxRetries, 1, {})
        IN  IF Runnable(g, MaxRetries, {}) = {}
            THEN MarkFailed(att, g, "planning", "refused")
            ELSE \E n \in NextRunnableNodes(g, MaxRetries, 1, {}) :
                   /\ graph' = SetStatus(g, n, "running")
                   /\ att' = [Planned(att, n) EXCEPT !.ftype = "none"]
                   /\ Goto("impl")
                   /\ UNCHANGED <<status, iteration, past, starts>>
  BY DEF PlannerPlans
<1> DEFINE g == AfterScan(PlannedGraph(planned), MaxRetries, 1, {})
<1> HIDE DEF g
<1>3. \/ MarkFailed(att, g, "planning", "refused")
      \/ \E n : att' = [Planned(att, n) EXCEPT !.ftype = "none"] /\ UNCHANGED <<status, past>>
  BY <1>2 DEF g
<1>4. ASSUME MarkFailed(att, g, "planning", "refused")
      PROVE  status' = "failed" /\ att'.phase = "failed" /\ past' = past
  BY <1>1, <1>4 DEF MarkFailed, Attempt
<1>5. ASSUME NEW n, att' = [Planned(att, n) EXCEPT !.ftype = "none"]
      PROVE  att'.phase = "worktree_created"
  BY <1>1, <1>5 DEF Planned, Attempt
<1>6. ~Candidate' /\ status' # "done" /\ past' = past
  BY <1>1, <1>3, <1>4, <1>5 DEF Candidate
<1>7. Required' \subseteq Nodes /\ graph'.deps \in [Nodes -> SUBSET Nodes]
  BY DEF TypeOK, Graph, Required
<1> QED
  BY <1>1, <1>6, <1>7

\* A patch plans anew around the passed nodes, and no node that was there is
\* made to wait for more.
LEMMA ReplanFacts ==
    ASSUME TypeInv, Approval, Grounded, ReplanApplied, TypeOK'
    PROVE  /\ ~Candidate /\ ~Candidate' /\ status # "done" /\ status' # "done"
           /\ base' = base /\ past' = past
           /\ Required' \subseteq Nodes /\ graph'.deps \in [Nodes -> SUBSET Nodes]
           /\ graph.nodes \subseteq graph'.nodes
           /\ \A n \in graph.nodes :
                /\ graph'.status[n] = "passed" <=> graph.status[n] = "passed"
                /\ graph.status[n] = "passed" => graph'.deps[n] = graph.deps[n]
                /\ graph'.deps[n] \subseteq graph.deps[n]
<1>1. /\ ~Candidate /\ ~Candidate' /\ status # "done" /\ status' # "done" /\ base' = base
      /\ past' = past
  BY DEF ReplanApplied, TypeInv, TypeOK, Replans, Attempt, Candidate, world
<1>2. graph \in Graph /\ graph.nodes \subseteq Nodes
  BY DEF TypeInv, TypeOK, Graph
<1>3. PICK patch \in Patches : PatchValid(graph, patch) /\ graph' = ApplyPatch(graph, patch)
  BY DEF ReplanApplied
<1>4. graph.nodes \subseteq graph'.nodes
  BY <1>2, <1>3, ApplyPatchType, PlannerAssumption
<1>5. /\ \A n \in Nodes : graph'.status[n] = "passed" <=> graph.status[n] = "passed"
      /\ \A n \in graph.nodes : graph.status[n] = "passed" => graph'.deps[n] = graph.deps[n]
      /\ \A n \in graph.nodes : graph'.deps[n] \subseteq graph.deps[n]
  BY <1>2, <1>3, PatchKeepsPassed, PlannerAssumption
<1>6. Required' \subseteq Nodes /\ graph'.deps \in [Nodes -> SUBSET Nodes]
  BY DEF TypeOK, Graph, Required
<1> QED
  BY <1>1, <1>2, <1>4, <1>5, <1>6

\* A review is of a node that is required, whose dependencies have all landed.
LEMMA ReviewFacts ==
    ASSUME TypeInv, Approval, Grounded, ReviewEnd
    PROVE  /\ UNCHANGED <<status, graph, base, past>> /\ status # "done"
           /\ ~Candidate /\ att'.node = att.node
           /\ att.node \in Required /\ att.node \in Nodes
           /\ graph.status[att.node] # "passed" /\ graph.deps[att.node] \subseteq base
<1>1. pc = "reviewRun" /\ UNCHANGED <<status, graph, base, past>>
  BY DEF ReviewEnd
<1>2. att \in Attempt
  BY DEF TypeInv, TypeOK
<1>3. ~Candidate /\ status # "done" /\ att.phase # "merged" /\ att.decision # "replan"
  BY <1>1 DEF Approval
<1>4. att'.node = att.node
  BY <1>2 DEF ReviewEnd, Attempt
<1>5. /\ att.node \in graph.nodes /\ att.node \in Nodes /\ att.node # 0
  BY <1>1 DEF TypeInv, TypeOK, NodeChosen, Graph
<1>6. graph.status[att.node] \notin {"passed", "skipped"} /\ graph.deps[att.node] \subseteq base
  BY <1>3, <1>5 DEF Grounded
<1> QED
  BY <1>1, <1>3, <1>4, <1>5, <1>6 DEF Required

\* The repair of a conflict withdraws a candidate that has not landed.
LEMMA RepairFacts ==
    ASSUME TypeInv, Approval, Grounded, RepairReset
    PROVE  /\ status # "done" /\ status' # "done" /\ UNCHANGED <<graph, base, past>>
           /\ ~Candidate'
           /\ Candidate => att.node \in Nodes \ base
<1>1. pc = "repair" /\ status' = "running" /\ UNCHANGED <<graph, base, past>>
  BY DEF RepairReset, world
<1>2. status # "done"
  BY <1>1 DEF Approval
<1>3. ~Candidate'
  BY DEF RepairReset, ResetDownstream, TypeInv, TypeOK, Attempt, Candidate
<1>4. Candidate => att.node \in Nodes \ base
  BY <1>1 DEF TypeInv, TypeOK, NodeChosen, Approval, Grounded, Graph, Blank, Candidate
<1> QED
  BY <1>1, <1>2, <1>3, <1>4

\* Only the candidate lands.
LEMMA MergeFacts ==
    ASSUME TypeInv, Approval, MergeInGit
    PROVE  /\ Candidate /\ Candidate' /\ att.node \in Nodes
           /\ base' = base \cup {att.node} /\ UNCHANGED <<status, graph, att, past>>
<1>1. Candidate /\ att.node \in Nodes
  <2>1. att.decision = "approve" /\ pc = "finalize"
    BY DEF MergeInGit, CanAutoMerge
  <2>2. Candidate
    BY <2>1 DEF Approval, Candidate
  <2> QED
    BY <2>1, <2>2 DEF TypeInv, TypeOK, NodeChosen, Graph, Blank, Candidate
<1>2. base' = base \cup {att.node} /\ UNCHANGED <<status, graph, att, past>>
  BY DEF MergeInGit, disk
<1> QED
  BY <1>1, <1>2 DEF Candidate

\* The save after the merge is of a required node.
LEMMA RecordFacts ==
    ASSUME TypeInv, Approval, Grounded, MergeRecorded
    PROVE  /\ Candidate /\ ~Candidate' /\ att.node \in base /\ att.node \in Nodes
           /\ att.node \in Required /\ Required' = Required
           /\ graph'.deps = graph.deps /\ graph'.nodes = graph.nodes /\ graph.nodes \subseteq Nodes
           /\ \A m \in Nodes :
                graph'.status[m] = IF m = att.node THEN "passed" ELSE graph.status[m]
           /\ base' = base /\ past' = past
           /\ status' = IF GraphComplete(graph') THEN "done" ELSE "stopped"
<1>1. /\ Candidate /\ att.node \in base /\ att.node \in graph.nodes /\ att.node \in Nodes
      /\ graph.nodes \subseteq Nodes /\ graph \in Graph
  BY DEF MergeRecorded, TypeInv, TypeOK, Approval, Grounded, Graph
<1>2. /\ graph' = SetStatus(graph, att.node, "passed") /\ base' = base /\ past' = past
      /\ status' = IF GraphComplete(graph') THEN "done" ELSE "stopped"
  BY DEF MergeRecorded, world
<1>3. ~Candidate'
  BY DEF MergeRecorded, Candidate, TypeInv, TypeOK, Attempt
<1>4. /\ graph'.deps = graph.deps /\ graph'.nodes = graph.nodes
      /\ \A m \in Nodes : graph'.status[m] = IF m = att.node THEN "passed" ELSE graph.status[m]
  BY <1>1, <1>2, SetStatusKeeps
<1>5. graph.status[att.node] # "skipped"
  <2>1. att.node # 0
    BY <1>1 DEF Nodes
  <2> QED
    BY <1>1, <2>1 DEF Grounded, Candidate
<1>6. Required' = Required /\ att.node \in Required
  BY <1>1, <1>4, <1>5 DEF Required
<1> QED
  BY <1>1, <1>2, <1>3, <1>4, <1>6

\* Every step of the sequential loop is one of Delivery's, or a stutter.
LEMMA StepDelivers ==
    ASSUME DeliveryInv, [Next]_vars, DeliveryInv'
    PROVE  Promise!AloneNext \/ UNCHANGED Promise!vars
<1>1. TypeInv /\ Approval /\ Grounded /\ TypeOK'
  BY DEF DeliveryInv, TypeInv, Landed
<1>2. CASE Steady
  BY <1>1, <1>2, SteadyKeeps DEF Promise!vars, Required, Candidates, Candidate
<1>3. CASE PlannerPlans
  <2>1. Promise!Plan
    BY <1>1, <1>3, PlannerPlansFacts DEF Promise!Plan, Required, Candidate
  <2> QED
    BY <1>1, <1>3, <2>1, PlannerPlansFacts DEF Promise!AloneNext, Candidate
<1>4. CASE ReplanApplied
  <2>1. base \subseteq graph.nodes /\ \A n \in base : graph.status[n] = "passed"
    BY <1>1, <1>4, ReplanFacts DEF DeliveryInv, Landed, Grounded
  <2>2. base \subseteq Required' /\ \A n \in base : graph'.deps[n] = graph.deps[n]
    BY <1>1, <1>4, <2>1, ReplanFacts DEF Required
  <2>3. Promise!Plan
    BY <1>1, <1>4, <2>2, ReplanFacts DEF Promise!Plan, Required, Candidate
  <2> QED
    BY <1>1, <1>4, <2>3, ReplanFacts DEF Promise!AloneNext, Candidate
<1>5. CASE ReviewEnd
  <2>1. att.node \notin base
    BY <1>1, <1>5, ReviewFacts DEF DeliveryInv, Landed
  <2>2. CASE Candidate'
    <3>1. Promise!Approve(att.node)
      BY <1>1, <1>5, <2>1, <2>2, ReviewFacts DEF Promise!Approve, Required, Candidate
    <3> QED
      BY <1>1, <1>5, <3>1, ReviewFacts DEF Promise!AloneNext, Promise!Step, Candidate
  <2>3. CASE ~Candidate'
    BY <1>1, <1>5, <2>3, ReviewFacts DEF Promise!vars, Candidate
  <2> QED
    BY <2>2, <2>3
<1>6. CASE RepairReset
  <2>1. CASE Candidate
    <3>1. Promise!Withdraw(att.node)
      BY <1>1, <1>6, <2>1, RepairFacts DEF Promise!Withdraw, Candidate
    <3> QED
      BY <1>1, <1>6, <2>1, <3>1, RepairFacts DEF Promise!AloneNext, Promise!Step, Candidate
  <2>2. CASE ~Candidate
    BY <1>1, <1>6, <2>2, RepairFacts DEF Promise!vars, Candidate
  <2> QED
    BY <2>1, <2>2
<1>7. CASE MergeInGit
  <2>1. Promise!Land(att.node)
    BY <1>1, <1>7, MergeFacts DEF Promise!Land, Candidate
  <2> QED
    BY <1>1, <1>7, <2>1, MergeFacts DEF Promise!AloneNext, Promise!Step, Candidate
<1>8. CASE MergeRecorded
  <2>1. GraphComplete(graph') <=> Required \subseteq base
    <3>1. \A m \in graph.nodes : graph'.status[m] = "passed" <=> m \in base
      BY <1>1, <1>8, RecordFacts DEF DeliveryInv, Landed, Grounded
    <3>2. Required = {m \in graph.nodes : graph'.status[m] # "skipped"}
      BY <1>1, <1>8, RecordFacts DEF Required
    <3>3. graph'.nodes = graph.nodes /\ graph.nodes # {}
      BY <1>1, <1>8, RecordFacts DEF Required
    <3> QED
      BY <3>1, <3>2, <3>3 DEF GraphComplete
  <2>2. (status' = "done") = (Required' \subseteq base \ Candidates')
    <3>1. Candidates' = {} /\ Required' = Required
      BY <1>1, <1>8, RecordFacts DEF Candidates
    <3>2. Required' \subseteq base \ Candidates' <=> Required \subseteq base
      BY <3>1
    <3> QED
      BY <1>1, <1>8, <2>1, <3>2, RecordFacts
  <2>3. Required' = Required \cup {att.node}
    BY <1>1, <1>8, RecordFacts
  <2>4. PICK n \in Nodes : n = att.node
    BY <1>1, <1>8, RecordFacts
  <2>5. Promise!Record(n)
    BY <1>1, <1>8, <2>2, <2>3, <2>4, RecordFacts
    DEF Promise!Record, Required, Candidates, Candidate
  <2>6. Candidates \subseteq {n}
    BY <2>4 DEF Candidates
  <2> QED
    BY <2>5, <2>6 DEF Promise!AloneNext, Promise!Step, Candidates, Candidate
<1> QED
  BY <1>1, <1>2, <1>3, <1>4, <1>5, <1>6, <1>7, <1>8, NextSteady

\* The orchestrator delivers as Delivery promises, one node after the other.
THEOREM OrchestratorDelivers == Spec => DeliveryImplemented
<1>1. Init => Promise!Init
  <2> SUFFICES ASSUME Init PROVE Promise!Init
    OBVIOUS
  <2>1. /\ base = {} /\ graph = EmptyGraph /\ status = "initialized" /\ att.phase = "preflight"
    BY DEF Init, BeginAttempt
  <2> QED
    BY <2>1 DEF Promise!Init, EmptyGraph
<1>2. DeliveryInv /\ [Next]_vars /\ DeliveryInv' => [Promise!AloneNext]_(Promise!vars)
  BY StepDelivers
<1> QED
  BY <1>1, <1>2, DeliveryInvariant, PTL DEF Spec, DeliveryImplemented, Promise!AloneSpec
=============================================================================
