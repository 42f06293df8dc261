------------------------------ MODULE GpuReport ------------------------------
(***************************************************************************)
(* What the test reports of scripts/cuda_test_report.py and                *)
(* cpu_test_report.py make of a run of the suite, with the tests gathered  *)
(* by what they need.                                                      *)
(***************************************************************************)
EXTENDS FiniteSets, Naturals

Classes == {
    "cpu",              \* tests that run anywhere
    "cuda",             \* test_cuda.CUDAAttentionTest
    "two_gpus",         \* its test_noncurrent_device
    "cuda_other",       \* the CUDA tests of other modules
    "cpu_only_build",   \* test_cuda.CPUOnlyBuildTest
    "mps"}              \* test_mps.MPSTest

(* The decorators of the tests: why a class is skipped on a Linux host, if *)
(* it is; the decorator of the class comes before that of the method.      *)
Why(class, gpus, wheel) ==
    IF class \in {"cuda", "two_gpus", "cuda_other"} /\ ~(gpus > 0 /\ wheel = "cuda")
    THEN "Requires CUDA extension and GPU"
    ELSE IF class = "two_gpus" /\ gpus = 1 /\ wheel = "cuda" THEN "Requires two GPUs"
    ELSE IF class = "cpu_only_build" /\ ~(gpus > 0 /\ wheel # "cuda")
    THEN "Requires GPU and CPU-only build"
    ELSE IF class = "mps" THEN "Requires Metal GPU/build"
    ELSE "runs"

(* What the suite can come to: what runs passes, except for "bad" classes. *)
Outcome(gpus, wheel, bad) ==
    [c \in Classes |-> IF Why(c, gpus, wheel) # "runs" THEN Why(c, gpus, wheel)
                       ELSE IF c \in bad THEN "failed" ELSE "passed"]

Skipped(tests) == {c \in Classes : tests[c] \notin {"passed", "failed"}}
Failures(tests) == {c \in Classes : tests[c] = "failed"}

(* ALLOWED_SKIPS and the exception for Metal.                              *)
AllowedSkip(c, reason) ==
    \/ c = "two_gpus" /\ reason = "Requires two GPUs"
    \/ c = "cpu_only_build" /\ reason = "Requires GPU and CPU-only build"
    \/ c = "mps" /\ reason = "Requires Metal GPU/build"

unexpected_skips(tests) == {c \in Skipped(tests) : ~AllowedSkip(c, tests[c])}

cuda_passed(tests) == {c \in {"cuda", "two_gpus"} : tests[c] = "passed"}

(* cuda-tests.json, for the CUDA wheel on a host of "gpus" devices when    *)
(* "count" were asked for.                                                 *)
CudaReport(sha, gpus, count, tests) ==
    LET unexpected == unexpected_skips(tests) \cup
                      (IF count >= 2 THEN Skipped(tests) \cap {"two_gpus"} ELSE {})
    IN  [source_sha |-> sha,
         success |-> Failures(tests) = {} /\ unexpected = {} /\ cuda_passed(tests) # {},
         failures |-> Failures(tests),
         unexpected_skips |-> unexpected,
         gpu |-> gpus,
         cuda_passed |-> cuda_passed(tests),
         ran |-> Classes \ Skipped(tests)]

(* The skips cpu_test_report expects.                                      *)
AllowedCpuSkip(c, reason) ==
    \/ reason = "Requires CUDA extension and GPU"
    \/ c = "cpu_only_build" /\ reason = "Requires GPU and CPU-only build"

(* "success" of cpu-tests.json, for the CPU-only wheel.                    *)
CpuSuccess(tests) ==
    /\ Failures(tests) = {}
    /\ \A c \in Skipped(tests) : AllowedCpuSkip(c, tests[c])
    /\ Skipped(tests) # Classes

=============================================================================
