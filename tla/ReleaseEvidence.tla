--------------------------- MODULE ReleaseEvidence ---------------------------
(***************************************************************************)
(* The GPU evidence of a release: runs of scripts/run_cuda_checks.sh of    *)
(* several revisions, any of which may fail or be killed at any phase,     *)
(* their artifacts, which a maintainer attaches to the release, possibly   *)
(* of different runs, and verify_cuda_release.py, which decides on them.   *)
(***************************************************************************)
EXTENDS GpuReport

CONSTANTS
    Runs,       \* of the checks
    Shas,       \* revisions of the source
    None

VARIABLES
    run,        \* [Runs -> their progress and artifacts]
    attached,   \* [Artifacts -> the run whose file the release has, or None]
    verified    \* revisions that were verified

vars == <<run, attached, verified>>

Artifacts == {"cuda-tests.json", "cuda-completion.json", "cuda-checks.log"}

(* A file is absent, or cut short by a kill, or whole.                     *)
Absent == [whole |-> FALSE]
Whole(content) == [whole |-> TRUE, content |-> content]

Unstarted == [at |-> "none", files |-> [f \in Artifacts |-> Absent]]

Init ==
    /\ run = [r \in Runs |-> Unstarted]
    /\ attached = [f \in Artifacts |-> None]
    /\ verified = {}

-----------------------------------------------------------------------------
(* run_checks, on a host with "gpus" devices, "count" of them asked for.   *)
(* set -e and pipefail end it at the first command that fails.             *)

Begin(r, sha, gpus, count) ==
    /\ run[r].at = "none"
    /\ run' = [run EXCEPT ![r] =
           [at |-> "setup", sha |-> sha, gpus |-> gpus, count |-> count,
            files |-> [Unstarted.files EXCEPT !["cuda-checks.log"] = Whole("log")]]]
    /\ UNCHANGED <<attached, verified>>

Goto(r, at) == run' = [run EXCEPT ![r].at = at]

(* PyTorch, its GPUs, the source distribution and the CUDA wheel.          *)
Setup(r) ==
    /\ run[r].at = "setup"
    /\ run[r].gpus >= 1 /\ run[r].gpus >= run[r].count
    /\ Goto(r, "suite")
    /\ UNCHANGED <<attached, verified>>

(* cuda_test_report.py: its report is written whatever the tests came to.  *)
Suite(r, bad) ==
    LET tests == Outcome(run[r].gpus, "cuda", bad)
        report == CudaReport(run[r].sha, run[r].gpus, run[r].count, tests)
    IN  /\ run[r].at = "suite"
        /\ run' = [run EXCEPT ![r].at = IF report.success THEN "sanitizer" ELSE "dead",
                              ![r].files["cuda-tests.json"] = Whole(report)]
        /\ UNCHANGED <<attached, verified>>

(* The sanitizer and the benchmark, if any.                                *)
Sanitizer(r) ==
    /\ run[r].at = "sanitizer"
    /\ Goto(r, "cpu_only")
    /\ UNCHANGED <<attached, verified>>

(* The CPU-only wheel, built anew, on the first GPU.                       *)
CpuOnly(r) ==
    /\ run[r].at = "cpu_only"
    /\ Outcome(1, "cpu", {})["cpu_only_build"] = "passed"
    /\ Goto(r, "completion")
    /\ UNCHANGED <<attached, verified>>

Complete(r) ==
    /\ run[r].at = "completion"
    /\ run' = [run EXCEPT ![r].at = "done",
                          ![r].files["cuda-completion.json"] =
                              Whole([source_sha |-> run[r].sha, success |-> TRUE])]
    /\ UNCHANGED <<attached, verified>>

(* A command fails, or all is killed, while a report is written or not.    *)
Die(r) ==
    /\ run[r].at \notin {"none", "done", "dead"}
    /\ Goto(r, "dead")
    /\ UNCHANGED <<attached, verified>>

-----------------------------------------------------------------------------
(* The release.                                                            *)

(* The artifacts of runs, failed ones included, are there to be attached.  *)
Attach(r, f) ==
    /\ run[r].at \in {"done", "dead"}
    /\ attached' = [attached EXCEPT ![f] = r]
    /\ UNCHANGED <<run, verified>>

File(f) == IF attached[f] = None THEN Absent ELSE run[attached[f]].files[f]

(* Mutant: the completion may be of another revision. *)
CompletionOfAny(sha) ==
    /\ File("cuda-completion.json").whole
    /\ File("cuda-completion.json").content.success

(* Of the same revision, even if of another run.                           *)
CompletionOf(sha) ==
    /\ File("cuda-completion.json").whole
    /\ File("cuda-completion.json").content.source_sha = sha
    /\ File("cuda-completion.json").content.success

ReportOf(sha) ==
    /\ File("cuda-tests.json").whole
    /\ LET report == File("cuda-tests.json").content
       IN /\ report.source_sha = sha
          /\ report.success /\ report.failures = {} /\ report.unexpected_skips = {}
          /\ report.gpu > 0 /\ report.cuda_passed # {} /\ report.ran # {}

(* publish.yml, for the revision of the release.                           *)
Verify(sha) ==
    /\ ReportOf(sha) /\ CompletionOf(sha)
    /\ File("cuda-checks.log").whole
    /\ verified' = verified \cup {sha}
    /\ UNCHANGED <<run, attached>>

Next ==
    \/ \E r \in Runs :
        \/ \E sha \in Shas, gpus \in 0 .. 2, count \in 1 .. 2 : Begin(r, sha, gpus, count)
        \/ \E bad \in {{}} \cup {{c} : c \in Classes} : Suite(r, bad)
        \/ Setup(r) \/ Sanitizer(r) \/ CpuOnly(r) \/ Complete(r) \/ Die(r)
        \/ \E f \in Artifacts : Attach(r, f)
    \/ \E sha \in Shas : Verify(sha)

Spec == Init /\ [][Next]_vars

-----------------------------------------------------------------------------
(* Properties.                                                             *)

(* Whatever files of failed, killed or foreign runs are mixed, a verified  *)
(* revision has one run that went through every phase: on a GPU, with      *)
(* every test passed but the Metal ones, the one that needs a CPU-only     *)
(* build and, on one GPU when two were not asked for, the one that needs   *)
(* two.                                                                    *)
VerifiedRunCompleted ==
    \A sha \in verified : \E r \in Runs :
        /\ run[r].at = "done" /\ run[r].sha = sha /\ run[r].gpus >= 1
        /\ {"cpu", "cuda", "cuda_other"} \subseteq run[r].files["cuda-tests.json"].content.ran
        /\ run[r].count = 2 => "two_gpus" \in run[r].files["cuda-tests.json"].content.ran
        /\ run[r].files["cuda-tests.json"].content.failures = {}

=============================================================================
