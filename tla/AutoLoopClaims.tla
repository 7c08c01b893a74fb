-------------------------- MODULE AutoLoopClaims --------------------------
(***************************************************************************)
(* What the documents promise of the auto loop and the code does not keep. *)
(* Each claim is checked by a run of its own, whose constants let one      *)
(* thing go wrong; the README and the findings quote the documents.        *)
(***************************************************************************)
EXTENDS MCAutoLoop

MCOneNode == {Plain({1}, [n \in Nodes |-> {}])}

\* "Recoverable: orchestrator retries or invokes implementer with a structured
\* repair prompt" (docs/RECOVERY.md:11): run_implementer_phase refuses to run
\* an implementer that has an exit code, and nothing resets it.
FailedImplementerRunsAgain == pc = "implFailed" ~> pc \in {"implRun", "off"}

\* "Tests gate merge" (docs/EVOLUTION.md:36): the repair of an uncaptured patch
\* is killed before its implementer runs, when its reset is saved; once the
\* operator has committed the files, the attempt resumes in the phase it was
\* left in, the review, and merges without the tests that were reset.
TestsGateMerge == pc = "merged" => att.test = "passed"
=============================================================================
