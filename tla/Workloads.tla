------------------------------- MODULE Workloads -------------------------------
(***************************************************************************)
(* What a rented host is rented for: run of scripts/runpod_ci.py starts    *)
(* one of three remote commands there, each of which leaves evidence that  *)
(* is read later, by someone who did not see it run.  --workload core runs *)
(* the checks whose artifacts release a revision (ReleaseEvidence),        *)
(* --matrix-cases the pairs of the support matrix (SupportMatrix),         *)
(* --workload kernel-hub the suite on a prepared candidate (KernelHub).    *)
(***************************************************************************)
EXTENDS KernelHub

CONSTANTS
    ReleaseRuns, Shas,                  \* of ReleaseEvidence
    Images, Candidates, MaxCases        \* of SupportMatrix

ASSUME CandidatesAssumption == Candidates \subseteq [torch : Nat, python : Nat]

VARIABLES
    workload,
    releaseRun, attached, verified,
    request, todo, at, files, fault, exit, written, output, rows, summary

releaseVars == <<releaseRun, attached, verified>>
matrixVars == <<request, todo, at, files, fault, exit, written, output, rows, summary>>
allVars == <<workload, vars, releaseVars, matrixVars>>

Release == INSTANCE ReleaseEvidence WITH Runs <- ReleaseRuns, run <- releaseRun
Matrix == INSTANCE SupportMatrix

(* The workload is an argument; the others stay in an initial state.       *)
WorkloadsInit ==
    /\ workload \in {"core", "matrix", "kernel-hub"}
    /\ Init /\ Release!Init /\ Matrix!Init
    /\ workload # "kernel-hub" => head = CHOOSE rev \in Revisions : TRUE
    /\ workload # "matrix" => request = <<CHOOSE case \in Candidates : Matrix!parse_case(case)>>

WorkloadsNext ==
    \/ /\ workload = "core"
       /\ Release!Next
       /\ UNCHANGED <<workload, vars, matrixVars>>
    \/ /\ workload = "matrix"
       /\ Matrix!Next
       /\ UNCHANGED <<workload, vars, releaseVars>>
    \/ /\ workload = "kernel-hub"
       /\ Next
       /\ UNCHANGED <<workload, releaseVars, matrixVars>>

WorkloadsSpec == WorkloadsInit /\ [][WorkloadsNext]_allVars

-----------------------------------------------------------------------------
(* Properties of the evidence, each stated in full in its module.          *)

(* A revision whose release evidence is verified has one run that went     *)
(* through every phase, whatever files of other runs are mixed in.         *)
VerifiedRunCompleted == Release!VerifiedRunCompleted

(* Every row of the matrix summary has the artifacts of its own pair, all  *)
(* of them, whatever failed and whenever the run was killed.               *)
RowsBacked == Matrix!RowsBacked

=============================================================================
