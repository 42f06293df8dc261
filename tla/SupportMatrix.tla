---------------------------- MODULE SupportMatrix ----------------------------
(***************************************************************************)
(* scripts/run_support_matrix.py: several Python and PyTorch pairs, one    *)
(* after the other, on one rented host of one GPU, each through all of     *)
(* run_cuda_checks.sh and the CPU suite.  A pair may fail at any phase and *)
(* does not keep later ones from running; the timeout of the run kills     *)
(* everything.                                                             *)
(***************************************************************************)
EXTENDS GpuReport, Sequences, SequencesExt

CONSTANTS
    Images,         \* PyTorch versions with an image (TORCH_CONFIGS), as places in VERSIONS
    Candidates,     \* pairs [torch, python] that may be asked for
    MaxCases        \* at most nine pairs

-----------------------------------------------------------------------------
(* The table of versions: 2.4.0 is 1, 2.14.0 is 11.                        *)

MaximumPython(torch) == IF torch = 1 THEN 12 ELSE IF torch <= 5 THEN 13 ELSE 14
parse_case(case) == case.torch \in 1 .. 11 /\ case.python \in 10 .. MaximumPython(case.torch)

toolkit(torch) == IF torch <= 3 THEN "12.4" ELSE "12.6"

(* The image of a version, and the toolkit in it.                          *)
ImageToolkit(image) == IF image \in {1, 3} THEN "12.4" ELSE "12.6"

(* What parse_args lets through to a host with the image.                  *)
Accepted(image, request) ==
    /\ Len(request) <= MaxCases
    /\ Cardinality(ToSet(request)) = Len(request)
    /\ \A case \in ToSet(request) : parse_case(case) /\ toolkit(case.torch) = ImageToolkit(image)

-----------------------------------------------------------------------------

VARIABLES
    request,    \* the pairs, in their order
    todo,       \* those not begun
    at,         \* where the current pair is
    files,      \* the artifacts it has written so far
    fault,      \* whether something went wrong in it
    exit,       \* its exit code
    written,    \* [pair -> artifacts its checks wrote]
    output,     \* [names in the output directory -> the pair of their contents]
    rows,       \* of the pairs so far
    summary     \* the whole contents of matrix-summary.json: none yet or while it is rewritten

vars == <<request, todo, at, files, fault, exit, written, output, rows, summary>>
pair == <<files, fault, exit>>
results == <<written, output, rows, summary>>

Init ==
    /\ \E image \in Images : request \in {s \in SeqOf(Candidates, MaxCases) : s # << >> /\ Accepted(image, s)}
    /\ todo = request
    /\ at = "next"
    /\ files = {} /\ fault = FALSE /\ exit = 0
    /\ written = [case \in {} |-> {}]
    /\ output = [name \in {} |-> request[1]]
    /\ rows = << >> /\ summary = {}

Current == todo[1]

(* Mutant: the label names PyTorch only. *)
LabelOfTorch(case) == case.torch

Label(case) == <<case.torch, case.python>>

(* A file with the name of the pair replaces one of that name. *)
Put(case, file) ==
    output' = [name \in DOMAIN output \cup {<<Label(case), file>>} |->
                  IF name = <<Label(case), file>> THEN case ELSE output[name]]

(* The next pair, in a directory of its own.                               *)
Begin ==
    /\ at = "next" /\ todo # << >>
    /\ at' = "venv"
    /\ files' = {} /\ fault' = FALSE /\ exit' = 0
    /\ Put(Current, "driver.log")
    /\ UNCHANGED <<request, todo, written, rows, summary>>

-----------------------------------------------------------------------------
(* The checks of a pair.  Every phase may fail by a fault of the host.     *)

Enter(phase, new) == at' = phase /\ files' = files \cup new /\ UNCHANGED <<fault, exit>>
Stop(new, faulty) == at' = "copy" /\ files' = files \cup new /\ fault' = faulty /\ exit' = 1

Venv ==
    /\ at = "venv"
    /\ Enter("setup", {"cuda-checks.log"}) \/ Stop({}, TRUE)
    /\ UNCHANGED <<request, todo, results>>

Setup ==
    /\ at = "setup"
    /\ Enter("cuda", {}) \/ Stop({}, TRUE)
    /\ UNCHANGED <<request, todo, results>>

(* The suite of the CUDA wheel; a failing test is a fault.                 *)
CudaSuite(bad) ==
    LET report == CudaReport("sha", 1, 1, Outcome(1, "cuda", bad))
    IN  /\ at = "cuda"
        /\ \/ IF report.success THEN Enter("cpu_only", {"cuda-tests.json"})
              ELSE Stop({"cuda-tests.json"}, bad # {})
           \/ Stop({}, TRUE)
        /\ UNCHANGED <<request, todo, results>>

CpuOnly ==
    /\ at = "cpu_only"
    /\ Enter("cpu", {"cpu-only-gpu-tests.json"}) \/ Stop({}, TRUE)
    /\ UNCHANGED <<request, todo, results>>

(* The suite of the CPU-only wheel and, after it, the completion.          *)
CpuSuite(bad) ==
    /\ at = "cpu"
    /\ \/ /\ at' = "copy"
          /\ IF CpuSuccess(Outcome(1, "cpu", bad))
             THEN /\ files' = files \cup {"cpu-tests.json", "cuda-completion.json"}
                  /\ UNCHANGED <<fault, exit>>
             ELSE Stop({"cpu-tests.json"}, bad # {})
       \/ Stop({}, TRUE)
    /\ UNCHANGED <<request, todo, results>>

-----------------------------------------------------------------------------
(* Its results.                                                            *)

CopyBegins ==
    /\ at = "copy"
    /\ Current \notin DOMAIN written
    /\ written' = [case \in DOMAIN written \cup {Current} |->
                      IF case = Current THEN files ELSE written[case]]
    /\ UNCHANGED <<request, todo, at, pair, output, rows, summary>>

Copy ==
    /\ at = "copy" /\ Current \in DOMAIN written
    /\ IF files # {}
       THEN /\ \E f \in files : Put(Current, f) /\ files' = files \ {f}
            /\ UNCHANGED <<at, rows, summary>>
       ELSE /\ at' = "summary"
            /\ rows' = Append(rows, [case |-> Current, exit_code |-> exit, fault |-> fault])
            /\ summary' = {}
            /\ UNCHANGED <<output, files>>
    /\ UNCHANGED <<request, todo, fault, exit, written>>

(* write_text, begun by the step before, ends.                             *)
Summarize ==
    /\ at = "summary"
    /\ summary' = {rows}
    /\ at' = "next"
    /\ todo' = Tail(todo)
    /\ UNCHANGED <<request, pair, written, output, rows>>

Kill ==
    /\ at \notin {"killed", "done"}
    /\ at' = "killed"
    /\ UNCHANGED <<request, todo, pair, results>>

Finish ==
    /\ at = "next" /\ todo = << >>
    /\ at' = "done"
    /\ UNCHANGED <<request, todo, pair, results>>

Next ==
    \/ Begin \/ Venv \/ Setup \/ CpuOnly \/ CopyBegins \/ Copy \/ Summarize
    \/ \E bad \in {{}} \cup {{c} : c \in Classes} : CudaSuite(bad) \/ CpuSuite(bad)
    \/ Kill \/ Finish

Spec == Init /\ [][Next]_vars

(* What main returns.                                                      *)
ExitCode == IF \E i \in DOMAIN rows : rows[i].exit_code # 0 THEN 1 ELSE 0

-----------------------------------------------------------------------------
(* Properties.                                                             *)

Of(case) == {name \in DOMAIN output : name[1] = Label(case) /\ name[2] # "driver.log"}

(* Whenever the run is killed, and whatever failed before: a row of the    *)
(* summary has under its label the artifacts of its own pair, all of them, *)
(* the completion among them if it says 0; no file is of another pair; and *)
(* a run that was not killed has a row for every pair.                     *)
RowsBacked ==
    /\ \A name \in DOMAIN output : name[1] = Label(output[name])
    /\ \A i \in DOMAIN rows :
        LET case == rows[i].case
        IN  /\ {name[2] : name \in Of(case)} = written[case]
            /\ \A name \in Of(case) : output[name] = case
            /\ rows[i].exit_code = 0 => "cuda-completion.json" \in written[case]
    /\ summary \subseteq {rows}
    /\ at = "done" => [i \in DOMAIN rows |-> rows[i].case] = request

(* "Each successful remote pair has cuda-tests.json, cpu-tests.json, ...   *)
(* and cuda-completion.json": a pair in which nothing goes wrong succeeds. *)
HealthyPairSucceeds == \A i \in DOMAIN rows : ~rows[i].fault => rows[i].exit_code = 0

=============================================================================
