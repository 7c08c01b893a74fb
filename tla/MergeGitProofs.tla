--------------------------- MODULE MergeGitProofs ---------------------------
(***************************************************************************)
(* What a merge leaves behind, for any number of attempts, of kills and of *)
(* commands that run into their timeout.                                   *)
(***************************************************************************)
EXTENDS MergeGit, TLAPS

\* How far the merge in progress is: an attempt is committed before it is
\* merged, and merged where the base branch is; its result is known before
\* the worktree is removed; what says it is merged has landed.
Progress ==
    /\ op.step # "idle" => op.attempt \in Attempts
    /\ op.step = "idle" => op = Idle
    /\ op.step \in {"target", "add", "merge", "head"} => op.attempt \notin dirty
    /\ op.step \in {"merge", "head"} => IntoBase
    /\ op.step \in {"remove", "report"} => op.result # "none"
    /\ op.step \in {"commit", "target", "add"} => ~op.tree
    /\ op.step = "head" \/ op.result = "merged" => op.attempt \in landed

\* As long as no command is cut off, the only merge worktree is the one the
\* merge in progress has added.
Trees ==
    kills = 0 /\ timeouts = 0 =>
        trees = IF op.tree /\ op.step # "report" THEN {op.attempt} ELSE {}

\* A conflict is left unresolved in a checkout of the base branch only.
Unmerged == unmerged # 0 => checkout = "base"

MergeInv == TypeOK /\ Progress /\ Trees /\ Unmerged /\ MergedIsInBase

OpType == [attempt : Attempts \cup {0}, step : Steps, tree : BOOLEAN, result : Outcomes]

----------------------------------------------------------------------------
(* What a git command does, whether it is cut off or not. *)

\* A command leaves the checkout on its branch, commits nothing away, and takes
\* nothing off the base branch; into another branch, or into its working tree,
\* it merges only where the base branch is not.
Orderly ==
    /\ checkout' = checkout
    /\ unmerged' \in Attempts \cup {0}
    /\ trees' \subseteq Attempts /\ dirty' \subseteq dirty /\ conflicts' \subseteq Attempts
    /\ landed' \subseteq Attempts /\ landed \subseteq landed'
    /\ strayed' \subseteq Attempts
    /\ unmerged' # unmerged \/ strayed' # strayed => checkout = "base"

\* The commands of a merge in progress are orderly.
LEMMA CommandsOrderly ==
    ASSUME TypeOK, Progress, Unmerged, op.step # "idle",
           \/ UNCHANGED world
           \/ op.step = "commit" /\ CommitAll
           \/ op.step = "add" /\ AddTree
           \/ op.step = "merge" /\ (Conflict \/ Land)
           \/ RemoveTree
    PROVE  Orderly
<1>1. op.attempt \in Attempts
  BY DEF Progress
<1>2. /\ trees \subseteq Attempts /\ dirty \subseteq Attempts /\ conflicts \subseteq Attempts
      /\ landed \subseteq Attempts /\ strayed \subseteq Attempts /\ unmerged \in Attempts \cup {0}
  BY DEF TypeOK
<1>3. CASE UNCHANGED world
  BY <1>2, <1>3 DEF world, Orderly
<1>4. CASE op.step = "commit" /\ CommitAll
  BY <1>2, <1>4 DEF CommitAll, Orderly
<1>5. CASE op.step = "add" /\ AddTree
  BY <1>1, <1>2, <1>5 DEF AddTree, Orderly
<1>6. CASE op.step = "merge" /\ Conflict
  BY <1>1, <1>2, <1>6 DEF Conflict, Orderly, Progress, IntoBase
<1>7. CASE op.step = "merge" /\ Land
  <2>1. IntoBase
    BY <1>7 DEF Progress
  <2>2. strayed' = strayed /\ UNCHANGED <<checkout, unmerged, trees, dirty>>
    BY <1>7, <2>1 DEF Land
  <2>3. landed \subseteq landed' /\ landed' \subseteq Attempts /\ conflicts' \subseteq Attempts
    BY <1>1, <1>2, <1>7 DEF Land
  <2> QED
    BY <1>2, <2>2, <2>3 DEF Orderly
<1>8. CASE RemoveTree
  BY <1>2, <1>8 DEF RemoveTree, Orderly
<1> QED
  BY <1>3, <1>4, <1>5, <1>6, <1>7, <1>8

\* A merge that succeeds lands all of the attempt.
LEMMA LandLands ==
    ASSUME Progress, op.step = "merge", Land
    PROVE  op.attempt \in landed'
BY DEF Progress, Land

\* What is cut off is a command of the merge.
LEMMA CutOffOrderly ==
    ASSUME TypeOK, Progress, Unmerged, op.step # "idle", CutOff
    PROVE  Orderly
BY CommandsOrderly DEF CutOff

\* So is every step of a merge in progress.
LEMMA MergeOrderly ==
    ASSUME TypeOK, Progress, Unmerged,
           \/ Commit \/ MergeHere \/ PathExists \/ MergeInTree \/ TreeRefused \/ TreeAdded
           \/ MergeFails \/ MergeSucceeds \/ HeadRead \/ TreeRemoved \/ Report
           \/ TimesOut \/ Crash
    PROVE  Orderly
<1>1. op.step = "idle" => op = Idle
  BY DEF Progress
<1>2. CASE TimesOut \/ Crash
  BY <1>1, <1>2, CutOffOrderly DEF TimesOut, Crash, Idle
<1>3. CASE Commit
  BY <1>3, CommandsOrderly DEF Commit
<1>4. CASE TreeAdded
  BY <1>4, CommandsOrderly DEF TreeAdded
<1>5. CASE MergeFails \/ MergeSucceeds
  BY <1>5, CommandsOrderly DEF MergeFails, MergeSucceeds
<1>6. CASE TreeRemoved
  BY <1>6, CommandsOrderly DEF TreeRemoved
<1>7. CASE MergeHere \/ PathExists \/ MergeInTree \/ TreeRefused \/ HeadRead \/ Report
  BY <1>7, CommandsOrderly DEF MergeHere, PathExists, MergeInTree, TreeRefused, HeadRead, Report
<1> QED
  BY <1>2, <1>3, <1>4, <1>5, <1>6, <1>7

----------------------------------------------------------------------------
(* The invariant, conjunct by conjunct. *)

\* What a merge does to its own record.
LEMMA GoesType ==
    ASSUME op \in OpType, NEW step \in Steps, op' = [op EXCEPT !.step = step]
    PROVE  /\ op' \in OpType /\ op'.step = step
           /\ op'.attempt = op.attempt /\ op'.tree = op.tree /\ op'.result = op.result
BY DEF OpType

\* The same, with its result.
LEMMA ReturnsType ==
    ASSUME op \in OpType, NEW result \in Outcomes, Returns(result)
    PROVE  /\ op' \in OpType /\ op'.step = IF op.tree THEN "remove" ELSE "report"
           /\ op'.attempt = op.attempt /\ op'.tree = op.tree /\ op'.result = result
           /\ UNCHANGED <<outcome, faults>>
BY DEF OpType, Returns, Steps

\* Types are kept.
LEMMA NextTypeOK == TypeOK /\ Progress /\ Unmerged /\ [Next]_vars => TypeOK'
<1> SUFFICES ASSUME TypeOK, Progress, Unmerged, [Next]_vars PROVE TypeOK'
  OBVIOUS
<1>a. /\ op \in OpType /\ outcome \in [Attempts -> Outcomes]
      /\ kills \in 0..MaxKills /\ timeouts \in 0..MaxTimeouts
      /\ checkout \in Checkouts
  BY DEF TypeOK, OpType
<1>b. Idle \in OpType
  BY DEF Idle, OpType, Steps, Outcomes
<1>c. MaxKills \in Nat /\ MaxTimeouts \in Nat
  BY MergeAssumption
<1>d. /\ trees \subseteq Attempts /\ dirty \subseteq Attempts /\ conflicts \subseteq Attempts
      /\ landed \subseteq Attempts /\ strayed \subseteq Attempts /\ unmerged \in Attempts \cup {0}
  BY DEF TypeOK
<1>e. ASSUME Orderly
      PROVE  /\ checkout' \in Checkouts /\ unmerged' \in Attempts \cup {0}
             /\ \A S \in {trees', dirty', conflicts', landed', strayed'} : S \subseteq Attempts
  BY <1>a, <1>d, <1>e DEF Orderly
<1>f. ASSUME Orderly, op' \in OpType, op'.step = "report" => op'.result # "none",
             outcome' \in [Attempts -> Outcomes],
             kills' \in 0..MaxKills, timeouts' \in 0..MaxTimeouts
      PROVE  TypeOK'
  BY <1>e, <1>f DEF TypeOK, OpType
<1>1. ASSUME NEW a \in Attempts, Begin(a)
      PROVE  TypeOK'
  <2>1. op' \in OpType /\ op'.step = "commit"
    BY <1>1 DEF Begin, Idle, OpType, Steps, Outcomes
  <2> QED
    BY <1>1, <1>a, <1>d, <2>1 DEF Begin, TypeOK, world, faults, OpType
<1>2. ASSUME NEW a \in Attempts, Repair(a)
      PROVE  TypeOK'
  <2>1. outcome' \in [Attempts -> Outcomes]
    BY <1>2, <1>a DEF Repair, Outcomes
  <2>2. dirty' \subseteq Attempts /\ conflicts' \subseteq Attempts /\ landed' \subseteq Attempts
    BY <1>2, <1>d DEF Repair
  <2> QED
    BY <1>2, <1>a, <1>d, <2>1, <2>2 DEF Repair, TypeOK, faults
<1>3. CASE Commit \/ MergeHere \/ MergeInTree \/ MergeSucceeds \/ TreeRemoved
  <2>1. \E step \in {"target", "merge", "add", "head", "report"} :
            /\ Goes(step)
            /\ step = "report" => op.step = "remove"
    BY <1>3 DEF Commit, MergeHere, MergeInTree, MergeSucceeds, TreeRemoved
  <2>2. PICK step \in {"target", "merge", "add", "head", "report"} :
            /\ Goes(step)
            /\ step = "report" => op.step = "remove"
    BY <2>1
  <2>3. op' \in OpType /\ op'.step = step /\ op'.result = op.result
    BY <1>a, <2>2, GoesType DEF Goes, Steps
  <2>4. op'.step = "report" => op'.result # "none"
    BY <2>2, <2>3 DEF Progress
  <2> QED
    BY <1>3, <1>a, <1>f, <2>2, <2>3, <2>4, MergeOrderly DEF Goes, faults
<1>4. CASE PathExists \/ TreeRefused \/ MergeFails \/ HeadRead
  <2>1. PICK result \in Outcomes \ {"none"} : Returns(result)
    BY <1>4 DEF PathExists, TreeRefused, MergeFails, HeadRead, Outcomes
  <2> QED
    BY <1>4, <1>a, <1>f, <2>1, ReturnsType, MergeOrderly DEF faults
<1>5. CASE TreeAdded
  <2>1. op' \in OpType /\ op'.step = "merge" /\ UNCHANGED <<outcome, faults>>
    BY <1>5, <1>a DEF TreeAdded, OpType, Steps
  <2> QED
    BY <1>5, <1>a, <1>f, <2>1, MergeOrderly DEF faults
<1>6. CASE Report
  <2>1. op' = Idle /\ outcome' \in [Attempts -> Outcomes] /\ UNCHANGED faults
    BY <1>6, <1>a DEF Report, OpType
  <2> QED
    BY <1>6, <1>a, <1>b, <1>f, <2>1, MergeOrderly DEF faults, Idle
<1>7. CASE TimesOut
  <2>1. op' \in OpType /\ op'.result = "failed" /\ UNCHANGED <<outcome, kills>>
    BY <1>7, <1>a DEF TimesOut, OpType, Steps, Outcomes
  <2>2. timeouts' \in 0..MaxTimeouts
    BY <1>7, <1>a, <1>c DEF TimesOut
  <2> QED
    BY <1>7, <1>a, <1>f, <2>1, <2>2, MergeOrderly
<1>8. CASE Crash
  <2>1. op' = Idle /\ UNCHANGED <<outcome, timeouts>>
    BY <1>8 DEF Crash
  <2>2. kills' \in 0..MaxKills
    BY <1>8, <1>a, <1>c DEF Crash
  <2> QED
    BY <1>8, <1>a, <1>b, <1>f, <2>1, <2>2, MergeOrderly DEF Idle
<1>9. CASE SwitchCheckout
  BY <1>9, <1>a, <1>d DEF SwitchCheckout, TypeOK, faults, OpType
<1>10. CASE ConcludeMerge
  <2>1. conflicts' \subseteq Attempts
    BY <1>10, <1>d DEF ConcludeMerge
  <2> QED
    BY <1>10, <1>a, <1>d, <2>1 DEF ConcludeMerge, TypeOK, faults, OpType
<1>11. CASE UNCHANGED vars
  BY <1>11 DEF vars, world, faults, TypeOK
<1> QED
  BY <1>1, <1>2, <1>3, <1>4, <1>5, <1>6, <1>7, <1>8, <1>9, <1>10, <1>11
     DEF Next, RunnerStep, Operator

\* A merge goes from step to step as it should.
LEMMA NextProgress == TypeOK /\ Progress /\ Unmerged /\ [Next]_vars => Progress'
<1> SUFFICES ASSUME TypeOK, Progress, Unmerged, [Next]_vars PROVE Progress'
  OBVIOUS
<1>a. op \in OpType
  BY DEF TypeOK, OpType
<1>b. Idle.step = "idle" /\ Idle.result = "none" /\ ~Idle.tree /\ Idle.attempt = 0
  BY DEF Idle
<1>c. op' = Idle => Progress'
  BY <1>b DEF Progress, Idle, IntoBase
<1>1. ASSUME NEW a \in Attempts, Begin(a)
      PROVE  Progress'
  BY <1>1 DEF Begin, Idle, Progress
<1>2. ASSUME NEW a \in Attempts, Repair(a)
      PROVE  Progress'
  BY <1>2, <1>c DEF Repair
<1>3. CASE Commit
  BY <1>3, <1>a DEF Commit, CommitAll, Goes, Progress, OpType
<1>4. CASE MergeHere
  BY <1>4, <1>a DEF MergeHere, OnTarget, Goes, Progress, IntoBase, world, OpType
<1>5. CASE MergeInTree
  BY <1>5, <1>a DEF MergeInTree, Goes, Progress, world, OpType
<1>6. CASE MergeSucceeds
  <2>1. op.attempt \in landed'
    BY <1>6, LandLands DEF MergeSucceeds
  <2>2. UNCHANGED <<checkout, dirty>>
    BY <1>6 DEF MergeSucceeds, Land
  <2>3. op' = [op EXCEPT !.step = "head"] /\ op.step = "merge"
    BY <1>6 DEF MergeSucceeds, Goes
  <2> QED
    BY <1>a, <2>1, <2>2, <2>3 DEF Progress, IntoBase, OpType
<1>7. CASE TreeRemoved
  BY <1>7, <1>a DEF TreeRemoved, RemoveTree, Goes, Progress, OpType
<1>8. ASSUME NEW result \in {"failed", "busy", "conflict", "merged"}, Returns(result),
             result = "merged" => op.attempt \in landed', op.step # "idle"
      PROVE  Progress'
  <2>1. /\ op'.step \in {"remove", "report"} /\ op'.attempt = op.attempt /\ op'.tree = op.tree
        /\ op'.result = result
    BY <1>8, <1>a, ReturnsType DEF Outcomes
  <2> QED
    BY <1>8, <2>1 DEF Progress
<1>9. CASE PathExists \/ TreeRefused \/ MergeFails
  BY <1>9, <1>8 DEF PathExists, TreeRefused, MergeFails
<1>10. CASE HeadRead
  BY <1>10, <1>8 DEF HeadRead, Progress, world
<1>11. CASE TreeAdded
  BY <1>11, <1>a DEF TreeAdded, AddTree, Progress, IntoBase, OpType
<1>12. CASE Report \/ Crash
  BY <1>12, <1>c DEF Report, Crash
<1>13. CASE TimesOut
  <2>1. op'.step \in {"remove", "report"} /\ op'.attempt = op.attempt /\ op'.result = "failed"
    BY <1>13, <1>a DEF TimesOut, OpType
  <2>2. op.attempt \in Attempts
    BY <1>13 DEF TimesOut, Progress
  <2> QED
    BY <2>1, <2>2 DEF Progress
<1>14. CASE Operator
  <2>1. op' = Idle
    BY <1>14 DEF Operator, SwitchCheckout, ConcludeMerge
  <2> QED
    BY <2>1, <1>c
<1>15. CASE UNCHANGED vars
  BY <1>15 DEF vars, world, Progress, IntoBase
<1> QED
  BY <1>1, <1>2, <1>3, <1>4, <1>5, <1>6, <1>7, <1>9, <1>10, <1>11, <1>12, <1>13, <1>14, <1>15
     DEF Next, RunnerStep

\* A merge removes the worktree it has added, unless a command is cut off.
LEMMA NextTrees == TypeOK /\ Progress /\ Trees /\ [Next]_vars => Trees'
<1> SUFFICES ASSUME TypeOK, Progress, Trees, [Next]_vars, kills' = 0, timeouts' = 0
             PROVE  trees' = IF op'.tree /\ op'.step # "report" THEN {op'.attempt} ELSE {}
  BY DEF Trees
<1>a. op \in OpType /\ kills \in Nat /\ timeouts \in Nat
  BY MergeAssumption DEF TypeOK, OpType
<1>b. ~TimesOut /\ ~Crash
  BY <1>a DEF TimesOut, Crash
<1>c. kills = 0 /\ timeouts = 0
  BY <1>b DEF Next, RunnerStep, Operator, Begin, Repair, Commit, MergeHere, PathExists, MergeInTree,
       TreeRefused, TreeAdded, MergeFails, MergeSucceeds, HeadRead, TreeRemoved, Report,
       SwitchCheckout, ConcludeMerge, Goes, Returns, faults, vars
<1>d. trees = IF op.tree /\ op.step # "report" THEN {op.attempt} ELSE {}
  BY <1>c DEF Trees
<1>e. op.step \in {"commit", "target", "add"} => ~op.tree
  BY DEF Progress
<1>f. op = Idle => ~op.tree
  BY DEF Idle
<1>1. ASSUME NEW a \in Attempts, Begin(a) \/ Repair(a)
      PROVE  trees' = trees /\ ~op.tree /\ ~op'.tree
  BY <1>1, <1>f DEF Begin, Repair, Idle, world
<1>2. CASE Commit \/ MergeHere \/ MergeInTree \/ MergeSucceeds
  <2>1. trees' = trees
    BY <1>2 DEF Commit, CommitAll, MergeHere, MergeInTree, MergeSucceeds, Land, world
  <2>2. /\ op'.tree = op.tree /\ op'.attempt = op.attempt
        /\ op.step # "report" /\ op'.step # "report"
    BY <1>2, <1>a DEF Commit, MergeHere, MergeInTree, MergeSucceeds, Goes, OpType
  <2> QED
    BY <1>d, <2>1, <2>2
<1>3. CASE PathExists \/ TreeRefused \/ MergeFails \/ HeadRead
  <2>1. trees' = trees
    BY <1>3 DEF PathExists, TreeRefused, MergeFails, Conflict, HeadRead, world
  <2>2. /\ op'.tree = op.tree /\ op'.attempt = op.attempt /\ op.step # "report"
        /\ op'.step = IF op.tree THEN "remove" ELSE "report"
    BY <1>3, <1>a DEF PathExists, TreeRefused, MergeFails, HeadRead, Returns, OpType
  <2> QED
    BY <1>d, <2>1, <2>2
<1>4. CASE TreeAdded
  <2>1. trees' = trees \cup {op.attempt} /\ trees = {}
    BY <1>4, <1>d, <1>e DEF TreeAdded, AddTree
  <2>2. op'.tree /\ op'.step = "merge" /\ op'.attempt = op.attempt
    BY <1>4, <1>a DEF TreeAdded, OpType
  <2> QED
    BY <2>1, <2>2
<1>5. CASE TreeRemoved
  <2>1. trees' = {}
    BY <1>5, <1>d DEF TreeRemoved, RemoveTree
  <2>2. op'.step = "report"
    BY <1>5, <1>a DEF TreeRemoved, Goes, OpType
  <2> QED
    BY <2>1, <2>2
<1>6. CASE Report
  BY <1>6, <1>d DEF Report, Idle, world
<1>7. CASE Operator
  BY <1>7, <1>d, <1>f DEF Operator, SwitchCheckout, ConcludeMerge
<1>8. CASE UNCHANGED vars
  BY <1>8, <1>d DEF vars, world
<1> QED
  BY <1>1, <1>2, <1>3, <1>4, <1>5, <1>6, <1>7, <1>8, <1>b, <1>d DEF Next, RunnerStep

\* No conflict is left behind in a checkout of another branch.
LEMMA NextUnmerged == TypeOK /\ Progress /\ Unmerged /\ [Next]_vars => Unmerged'
<1> SUFFICES ASSUME TypeOK, Progress, Unmerged, [Next]_vars PROVE Unmerged'
  OBVIOUS
<1>1. ASSUME NEW a \in Attempts, Begin(a) \/ Repair(a)
      PROVE  Unmerged'
  BY <1>1 DEF Begin, Repair, world, Unmerged
<1>2. ASSUME Orderly PROVE Unmerged'
  BY <1>2 DEF Orderly, Unmerged
<1>3. CASE Operator
  BY <1>3 DEF Operator, SwitchCheckout, ConcludeMerge, Unmerged
<1>4. CASE UNCHANGED vars
  BY <1>4 DEF vars, world, Unmerged
<1> QED
  BY <1>1, <1>2, <1>3, <1>4, MergeOrderly DEF Next, RunnerStep

\* An attempt is recorded as merged when it has landed, and a landed attempt is
\* taken off the base branch by nobody.
LEMMA NextMerged == TypeOK /\ Progress /\ Unmerged /\ MergedIsInBase /\ [Next]_vars => MergedIsInBase'
<1> SUFFICES ASSUME TypeOK, Progress, Unmerged, MergedIsInBase, [Next]_vars PROVE MergedIsInBase'
  OBVIOUS
<1>a. outcome \in [Attempts -> Outcomes]
  BY DEF TypeOK
<1>1. ASSUME NEW a \in Attempts, Begin(a)
      PROVE  MergedIsInBase'
  BY <1>1 DEF Begin, world, MergedIsInBase
<1>2. ASSUME NEW a \in Attempts, Repair(a)
      PROVE  MergedIsInBase'
  BY <1>2, <1>a DEF Repair, MergedIsInBase
<1>3. CASE Report
  <2>1. landed' = landed /\ outcome' = [outcome EXCEPT ![op.attempt] = op.result]
    BY <1>3 DEF Report, world
  <2>2. op.result = "merged" => op.attempt \in landed
    BY DEF Progress
  <2> QED
    BY <1>a, <2>1, <2>2 DEF MergedIsInBase
<1>4. ASSUME Orderly, outcome' = outcome
      PROVE  MergedIsInBase'
  BY <1>4 DEF Orderly, MergedIsInBase
<1>5. CASE Commit \/ MergeHere \/ MergeInTree \/ MergeSucceeds \/ TreeRemoved
  BY <1>5, <1>4, MergeOrderly DEF Commit, MergeHere, MergeInTree, MergeSucceeds, TreeRemoved, Goes
<1>6. CASE PathExists \/ TreeRefused \/ MergeFails \/ HeadRead
  BY <1>6, <1>4, MergeOrderly DEF PathExists, TreeRefused, MergeFails, HeadRead, Returns
<1>7. CASE TreeAdded \/ TimesOut \/ Crash
  BY <1>7, <1>4, MergeOrderly DEF TreeAdded, TimesOut, Crash
<1>8. CASE Operator
  BY <1>8 DEF Operator, SwitchCheckout, ConcludeMerge, MergedIsInBase
<1>9. CASE UNCHANGED vars
  BY <1>9 DEF vars, world, MergedIsInBase
<1> QED
  BY <1>1, <1>2, <1>3, <1>5, <1>6, <1>7, <1>8, <1>9 DEF Next, RunnerStep

----------------------------------------------------------------------------
(* The theorems.                                                           *)

\* All of it holds in every state.
LEMMA MergeInvariant == Spec => []MergeInv
<1>1. Init => MergeInv
  <2> SUFFICES ASSUME Init PROVE MergeInv
    OBVIOUS
  <2>1. Idle \in OpType /\ Idle.step = "idle" /\ Idle.result = "none" /\ ~Idle.tree
    BY DEF Idle, OpType, Steps, Outcomes
  <2>2. [a \in Attempts |-> "none"] \in [Attempts -> Outcomes]
    BY DEF Outcomes
  <2>3. TypeOK
    <3>1. kills \in 0..MaxKills /\ timeouts \in 0..MaxTimeouts
      <4>1. MaxKills \in Nat /\ MaxTimeouts \in Nat
        BY MergeAssumption
      <4> QED
        BY <4>1 DEF Init
    <3>2. op \in OpType /\ op.step # "report" /\ outcome \in [Attempts -> Outcomes]
      BY <2>1, <2>2 DEF Init
    <3>3. /\ checkout \in Checkouts /\ unmerged \in Attempts \cup {0}
          /\ \A S \in {trees, dirty, conflicts, landed, strayed} : S \subseteq Attempts
      BY DEF Init
    <3> QED
      BY <3>1, <3>2, <3>3 DEF TypeOK, OpType
  <2>4. Progress /\ Trees /\ Unmerged /\ MergedIsInBase
    BY <2>1 DEF Init, Progress, Trees, Unmerged, MergedIsInBase
  <2> QED
    BY <2>3, <2>4 DEF MergeInv
<1>2. MergeInv /\ [Next]_vars => MergeInv'
  BY NextTypeOK, NextProgress, NextTrees, NextUnmerged, NextMerged DEF MergeInv
<1> QED
  BY <1>1, <1>2, PTL DEF Spec

\* The variables keep their types.
THEOREM TypeCorrect == Spec => []TypeOK
<1>1. MergeInv => TypeOK
  BY DEF MergeInv
<1> QED
  BY <1>1, MergeInvariant, PTL

\* What state.json calls merged is in the base branch with all that was
\* approved, whatever was cut off, repaired or merged twice before.
THEOREM MergedWorkIsInBase == Spec => []MergedIsInBase
<1>1. MergeInv => MergedIsInBase
  BY DEF MergeInv
<1> QED
  BY <1>1, MergeInvariant, PTL

\* A merge that no cut off command disturbs leaves no worktree behind.
THEOREM TreesAreRemoved == Spec => []NoTreeLeft
<1>1. MergeInv => NoTreeLeft
  BY DEF MergeInv, Trees, NoTreeLeft, Idle
<1> QED
  BY <1>1, MergeInvariant, PTL

\* A checkout of another branch sees no merge, and no conflict of one.
THEOREM OtherBranchStays == Spec => OtherBranchUntouched
<1>1. MergeInv /\ [Next]_vars => [checkout # "base" => UNCHANGED <<unmerged, strayed>>]_vars
  <2> SUFFICES ASSUME MergeInv, [Next]_vars, checkout # "base"
               PROVE  UNCHANGED <<unmerged, strayed>>
    OBVIOUS
  <2>a. TypeOK /\ Progress /\ Unmerged
    BY DEF MergeInv
  <2>1. ASSUME NEW a \in Attempts, Begin(a) \/ Repair(a)
        PROVE  UNCHANGED <<unmerged, strayed>>
    BY <2>1 DEF Begin, Repair, world
  <2>2. ASSUME Orderly
        PROVE  UNCHANGED <<unmerged, strayed>>
    BY <2>2 DEF Orderly
  <2>3. CASE Operator
    BY <2>3, <2>a DEF Operator, SwitchCheckout, ConcludeMerge, Unmerged
  <2>4. CASE UNCHANGED vars
    BY <2>4 DEF vars, world
  <2> QED
    BY <2>1, <2>2, <2>3, <2>4, <2>a, MergeOrderly DEF Next, RunnerStep
<1> QED
  BY <1>1, MergeInvariant, PTL DEF Spec, OtherBranchUntouched
=============================================================================
