------------------------------- MODULE MergeGit -------------------------------
(***************************************************************************)
(* The git commands behind a merge (git.commit_worktree_changes,           *)
(* git.merge_branch_into_base), which AutoLoop and ParallelLoop take as    *)
(* one step.  An attempt's branch is merged in the operator's checkout     *)
(* when that is on the base branch, and else in a worktree that exists for *)
(* the merge only.  Any command may run into its timeout, the runner may   *)
(* be killed between two commands, and a merge that has failed is tried    *)
(* again, after a conflict with a branch the implementer has repaired.     *)
(*                                                                         *)
(* A command that is cut off has done its work or nothing.  The operator   *)
(* changes the checkout between two merges only: the code reads which      *)
(* branch it is on and merges there by a second command.                   *)
(***************************************************************************)
EXTENDS Naturals, FiniteSets

CONSTANTS
    Attempts,    \* the approved attempts, by their index in the history
    Checkouts,   \* the branches the operator's checkout may be on
    MaxKills,    \* bounds
    MaxTimeouts

ASSUME MergeAssumption ==
    /\ IsFiniteSet(Attempts) /\ Attempts \subseteq Nat \ {0}
    /\ Checkouts \subseteq {"base", "side"} /\ Checkouts # {}
    /\ {MaxKills, MaxTimeouts} \subseteq Nat

VARIABLES
    checkout,  \* the branch the operator's checkout is on
    unmerged,  \* the attempt whose conflict is left unresolved in it, or 0
    trees,     \* the attempts whose merge worktree exists, with the base branch in it
    dirty,     \* the attempts with files in their worktree that are not committed
    conflicts, \* the attempts whose branch conflicts with the base branch
    landed,    \* the attempts all of whose approved work is in the base branch
    strayed,   \* the attempts merged into another branch
    op,        \* the merge in progress
    outcome,   \* state.json: how the last merge of each attempt ended
    kills, timeouts

world  == <<checkout, unmerged, trees, dirty, conflicts, landed, strayed>>
faults == <<kills, timeouts>>
vars   == <<world, op, outcome, faults>>

Outcomes == {"none", "merged", "conflict", "busy", "failed"}
Steps    == {"idle", "commit", "target", "add", "merge", "head", "remove", "report"}
Idle     == [attempt |-> 0, step |-> "idle", tree |-> FALSE, result |-> "none"]

Init ==
    /\ checkout \in Checkouts /\ unmerged = 0 /\ trees = {}
    /\ dirty \in SUBSET Attempts /\ conflicts = {}
    /\ landed = {} /\ strayed = {}
    /\ op = Idle /\ outcome = [a \in Attempts |-> "none"]
    /\ kills = 0 /\ timeouts = 0

----------------------------------------------------------------------------
(* What the git commands do to the repository. *)

CommitAll ==
    /\ dirty' = dirty \ {op.attempt}
    /\ UNCHANGED <<checkout, unmerged, trees, conflicts, landed, strayed>>

\* Git has a branch checked out in one worktree at a time.
BaseTaken == checkout = "base" \/ trees # {}

AddTree ==
    /\ trees' = trees \cup {op.attempt}
    /\ UNCHANGED <<checkout, unmerged, dirty, conflicts, landed, strayed>>

RemoveTree ==
    /\ trees' = trees \ {op.attempt}
    /\ UNCHANGED <<checkout, unmerged, dirty, conflicts, landed, strayed>>

IntoBase == op.tree \/ checkout = "base"

\* In a checkout with an unresolved conflict git merges nothing, and says so in
\* words that name a conflict.
Conflicting ==
    \/ ~op.tree /\ unmerged # 0
    \/ IntoBase /\ op.attempt \in conflicts

Conflict ==
    /\ unmerged' = IF ~op.tree /\ unmerged = 0 THEN op.attempt ELSE unmerged
    /\ UNCHANGED <<checkout, trees, dirty, conflicts, landed, strayed>>

\* What has landed may conflict with what has not.
Land ==
    /\ landed'  = landed \cup {a \in {op.attempt} \ dirty : IntoBase}
    /\ strayed' = strayed \cup {a \in {op.attempt} : ~IntoBase}
    /\ \E more \in SUBSET (Attempts \ landed') :
        conflicts' = IF landed' = landed THEN conflicts ELSE conflicts \cup more
    /\ UNCHANGED <<checkout, unmerged, trees, dirty>>

----------------------------------------------------------------------------
(* _run_finalize_phase, merge_branch_into_base: one action per command. *)

Goes(step) == op' = [op EXCEPT !.step = step] /\ UNCHANGED <<outcome, faults>>

\* Mutant: a failure leaves the function before the worktree is removed.
ReturnsAtOnce(result) ==
    /\ op' = [op EXCEPT !.result = result,
                        !.step = IF op.tree /\ result = "merged" THEN "remove" ELSE "report"]
    /\ UNCHANGED <<outcome, faults>>

\* The finally block removes a worktree that was added.
Returns(result) ==
    /\ op' = [op EXCEPT !.result = result, !.step = IF op.tree THEN "remove" ELSE "report"]
    /\ UNCHANGED <<outcome, faults>>

Begin(a) ==
    /\ op = Idle /\ outcome[a] \in {"none", "busy", "failed"}
    /\ op' = [Idle EXCEPT !.attempt = a, !.step = "commit"]
    /\ UNCHANGED <<world, outcome, faults>>

\* Mutant: what the implementer left uncommitted stays so.
NotCommitted == op.step = "commit" /\ UNCHANGED world /\ Goes("target")

Commit == op.step = "commit" /\ CommitAll /\ Goes("target")

\* Mutant: every merge is made in the operator's checkout.
Everywhere == TRUE

OnTarget == checkout = "base"

MergeHere ==
    /\ op.step = "target" /\ OnTarget
    /\ Goes("merge") /\ UNCHANGED world

PathExists ==
    /\ op.step = "target" /\ ~OnTarget /\ op.attempt \in trees
    /\ Returns("failed") /\ UNCHANGED world

MergeInTree ==
    /\ op.step = "target" /\ ~OnTarget /\ op.attempt \notin trees
    /\ Goes("add") /\ UNCHANGED world

TreeRefused ==
    /\ op.step = "add" /\ BaseTaken
    /\ Returns("busy") /\ UNCHANGED world

TreeAdded ==
    /\ op.step = "add" /\ ~BaseTaken /\ AddTree
    /\ op' = [op EXCEPT !.step = "merge", !.tree = TRUE]
    /\ UNCHANGED <<outcome, faults>>

MergeFails ==
    /\ op.step = "merge" /\ Conflicting
    /\ Conflict /\ Returns("conflict")

MergeSucceeds ==
    /\ op.step = "merge" /\ ~Conflicting
    /\ Land /\ Goes("head")

\* Mutant: the merge returns without a result.
HeadUnread == op.step = "head" /\ UNCHANGED world /\ Returns("none")

HeadRead == op.step = "head" /\ UNCHANGED world /\ Returns("merged")

TreeRemoved ==
    /\ op.step = "remove" /\ RemoveTree
    /\ Goes("report")

\* The save of state.json.
Report ==
    /\ op.step = "report"
    /\ outcome' = [outcome EXCEPT ![op.attempt] = op.result] /\ op' = Idle
    /\ UNCHANGED <<world, faults>>

\* The implementer is told of the conflict and makes the branch fit the base;
\* the attempt is tested, reviewed and approved anew.
Repair(a) ==
    /\ op = Idle /\ outcome[a] = "conflict"
    /\ outcome' = [outcome EXCEPT ![a] = "none"]
    /\ conflicts' = conflicts \ {a} /\ landed' = landed \ {a}
    /\ dirty' \in {dirty, dirty \cup {a}}
    /\ UNCHANGED <<checkout, unmerged, trees, strayed, op, faults>>

RunnerStep ==
    \/ \E a \in Attempts : Begin(a) \/ Repair(a)
    \/ Commit \/ MergeHere \/ PathExists \/ MergeInTree \/ TreeRefused \/ TreeAdded
    \/ MergeFails \/ MergeSucceeds \/ HeadRead \/ TreeRemoved \/ Report

----------------------------------------------------------------------------
(* Commands that are cut off, and the operator. *)

\* The command that was running when it was killed.
CutOff ==
    \/ UNCHANGED world
    \/ op.step = "commit" /\ CommitAll
    \/ op.step = "add" /\ ~BaseTaken /\ AddTree
    \/ op.step = "merge" /\ IF Conflicting THEN Conflict ELSE Land
    \/ op.step = "remove" /\ RemoveTree

\* GitError, also out of the finally block.
TimesOut ==
    /\ op.step \notin {"idle", "report"} /\ timeouts < MaxTimeouts
    /\ CutOff
    /\ op' = [op EXCEPT !.result = "failed",
                        !.step = IF op.tree /\ @ # "remove" THEN "remove" ELSE "report"]
    /\ timeouts' = timeouts + 1
    /\ UNCHANGED <<outcome, kills>>

Crash ==
    /\ op # Idle /\ kills < MaxKills
    /\ CutOff
    /\ op' = Idle /\ kills' = kills + 1
    /\ UNCHANGED <<outcome, timeouts>>

SwitchCheckout ==
    /\ op = Idle /\ unmerged = 0 /\ trees = {}
    /\ checkout' \in Checkouts
    /\ UNCHANGED <<unmerged, trees, dirty, conflicts, landed, strayed, op, outcome, faults>>

\* The operator gives up the merge git has left in the checkout, or resolves the
\* conflict; whether all of the attempt is in is seen when it is merged again.
ConcludeMerge ==
    /\ op = Idle /\ unmerged # 0
    /\ unmerged' = 0 /\ conflicts' \in {conflicts, conflicts \ {unmerged}}
    /\ UNCHANGED <<checkout, trees, dirty, landed, strayed, op, outcome, faults>>

Operator == SwitchCheckout \/ ConcludeMerge

Next == RunnerStep \/ TimesOut \/ Crash \/ Operator

Spec == Init /\ [][Next]_vars

\* The runner goes on, and its retries are not counted here; no help is needed
\* from the operator.
LiveSpec == Spec /\ WF_vars(RunnerStep)

----------------------------------------------------------------------------
(* Properties *)

TypeOK ==
    /\ checkout \in Checkouts /\ unmerged \in Attempts \cup {0}
    /\ \A S \in {trees, dirty, conflicts, landed, strayed} : S \subseteq Attempts
    /\ op \in [attempt : Attempts \cup {0}, step : Steps, tree : BOOLEAN, result : Outcomes]
    /\ op.step = "report" => op.result # "none"
    /\ outcome \in [Attempts -> Outcomes]
    /\ kills \in 0..MaxKills /\ timeouts \in 0..MaxTimeouts

\* An attempt is recorded as merged only when everything that was approved is
\* in the base branch, also what the implementer never committed, and whatever
\* was cut off, repaired or merged twice before.
MergedIsInBase == \A a \in Attempts : outcome[a] = "merged" => a \in landed

\* A merge never shows in a checkout the operator has on another branch
\* (docs/V1_TECHNICAL_DESIGN.md:305, "so the main checkout stays on its original
\* branch"): nothing lands there, and no conflict is left there.
OtherBranchUntouched ==
    [][checkout # "base" => UNCHANGED <<unmerged, strayed>>]_vars

\* Between two merges no merge worktree holds the base branch, as long as no
\* command is cut off: one merge's failure is not the next one's.
NoTreeLeft == op = Idle /\ kills = 0 /\ timeouts = 0 => trees = {}

Undisturbed == checkout # "base" /\ kills = 0 /\ timeouts = 0

\* Beside an operator who works on another branch every attempt gets merged,
\* however often what lands conflicts with what has not landed, as long as no
\* command is cut off.
AllMerge == <>[]Undisturbed => <>[](\A a \in Attempts : outcome[a] = "merged")

----------------------------------------------------------------------------
(* What the documents promise and the code does not keep *)

\* "Manually resolve conflicts in the worktree, commit, then `cc-loop resume`"
\* (docs/DEBUGGING.md:210), and the repair the loop makes itself: a merge that
\* fails with a conflict is one of a branch that conflicts.  In the operator's
\* checkout nothing takes back a merge that failed, and git refuses the next.
RepairedMerges ==
    [][\A a \in Attempts : outcome'[a] = "conflict" /\ outcome[a] # "conflict" => a \in conflicts]_vars
=============================================================================
