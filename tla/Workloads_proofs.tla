-------------------------- MODULE Workloads_proofs --------------------------
(***************************************************************************)
(* Proofs about the evidence that the remote workloads leave: of releases  *)
(* (ReleaseEvidence), of the support matrix (SupportMatrix) and of the     *)
(* Kernel Hub package (KernelHub).  For every set of runs, revisions and   *)
(* pairs, and every length of a request.                                   *)
(***************************************************************************)
EXTENDS Workloads, FiniteSetTheorems, TLAPS

-----------------------------------------------------------------------------
(* The release.                                                            *)

(* What a run has by the time it is at a phase.                            *)
Started(p) ==
    /\ p = [at |-> p.at, sha |-> p.sha, gpus |-> p.gpus, count |-> p.count, files |-> p.files]
    /\ p.gpus \in 0 .. 2 /\ p.count \in 1 .. 2
    /\ p.files = [f \in Release!Artifacts |-> p.files[f]]

Equipped(p) == p.gpus >= 1 /\ p.gpus >= p.count

Tested(p) ==
    LET file == p.files["cuda-tests.json"]
    IN  \E bad \in {{}} \cup {{c} : c \in Release!Classes} :
            LET report == Release!CudaReport(p.sha, p.gpus, p.count,
                                             Release!Outcome(p.gpus, "cuda", bad))
            IN  file = Release!Whole(report) /\ report.success

ProgressInv(p) ==
    \/ p = Release!Unstarted
    \/ /\ Started(p)
       /\ p.at \in {"setup", "suite", "sanitizer", "cpu_only", "completion", "done", "dead"}
       /\ p.at \notin {"setup", "dead"} => Equipped(p)
       /\ p.at \in {"sanitizer", "cpu_only", "completion", "done"} => Tested(p)
       /\ p.files["cuda-completion.json"].whole =>
              /\ p.at = "done"
              /\ p.files["cuda-completion.json"].content.source_sha = p.sha

(* A revision is verified on the completion of a run of its own.           *)
ReleaseInv ==
    /\ releaseRun = [r \in ReleaseRuns |-> releaseRun[r]]
    /\ \A r \in ReleaseRuns : ProgressInv(releaseRun[r])
    /\ attached \in [Release!Artifacts -> ReleaseRuns \cup {None}]
    /\ \A sha \in verified : \E r \in ReleaseRuns :
           releaseRun[r].at = "done" /\ releaseRun[r].sha = sha

-----------------------------------------------------------------------------
(* The support matrix.                                                     *)

Pair == [torch : Nat, python : Nat]

(* The pairs of the request in their order: those that have a row, the     *)
(* current one, those to do.                                               *)
QueueInv ==
    /\ request \in Seq(Pair) /\ todo \in Seq(Pair)
    /\ \A i, j \in 1 .. Len(request) : request[i] = request[j] => i = j
    /\ Len(todo) <= Len(request)
    /\ \A i \in 1 .. Len(todo) : todo[i] = request[Len(request) - Len(todo) + i]
    /\ at \in {"next", "venv", "setup", "cuda", "cpu_only", "cpu", "copy", "summary",
               "killed", "done"}
    /\ at \notin {"next", "killed", "done"} => todo # << >>
    /\ at = "done" => todo = << >>
    /\ rows \in Seq([case : Pair, exit_code : 0 .. 1, fault : BOOLEAN])
    /\ Len(rows) <= Len(request)
    /\ at # "killed" =>
           Len(rows) = Len(request) - Len(todo) + (IF at = "summary" THEN 1 ELSE 0)
    /\ \A i \in 1 .. Len(rows) : rows[i].case = request[i]
    /\ summary \subseteq {rows}

(* Under a pair's label there are its own files only, and but for the log  *)
(* none before its checks have ended.                                      *)
OutputInv ==
    /\ \A name \in DOMAIN output :
        /\ output[name] \in Pair
        /\ name = <<Matrix!Label(output[name]), name[2]>>
        /\ name[2] # "driver.log" => output[name] \in DOMAIN written
    /\ "driver.log" \notin files
    /\ exit \in 0 .. 1 /\ fault \in BOOLEAN

FilesIn(names, case) ==
    {name[2] : name \in {n \in names : n[1] = Matrix!Label(case) /\ n[2] # "driver.log"}}

(* What a pair wrote is what was copied and what is left to copy.          *)
CopyInv ==
    /\ \A case \in DOMAIN written : \E i \in 1 .. Len(request) :
        /\ case = request[i]
        /\ i <= Len(rows) \/ (i = Len(rows) + 1 /\ at \in {"copy", "killed"})
    /\ \A i \in 1 .. Len(rows) :
        /\ rows[i].case \in DOMAIN written
        /\ written[rows[i].case] = FilesIn(DOMAIN output, rows[i].case)
        /\ rows[i].exit_code = 0 => "cuda-completion.json" \in written[rows[i].case]
    /\ at = "copy" /\ exit = 0 =>
           "cuda-completion.json" \in IF todo[1] \in DOMAIN written THEN written[todo[1]] ELSE files
    /\ at = "copy" /\ todo[1] \in DOMAIN written =>
           written[todo[1]] = files \cup FilesIn(DOMAIN output, todo[1])

MatrixInv == QueueInv /\ OutputInv /\ CopyInv

-----------------------------------------------------------------------------
(* The Kernel Hub package.                                                 *)

(* The evidence of the Nix build, of one revision.                         *)
NixInv ==
    /\ DOMAIN nix = {"at", "upstream", "archive", "sha256", "files"}
    /\ nix.at # "none" => \E rev \in Revisions : nix.upstream = Upstream(rev)
    /\ nix.at \in {"archived", "summed"} =>
           nix.archive.content = Built("nix", nix.upstream.source_sha256)
    /\ nix.files # None =>
           /\ nix.at = "over"
           /\ nix.archive.content = Built("nix", nix.upstream.source_sha256)
           /\ nix.files = nix.archive.content

(* A prepared tree, given the evidence: its manifest says what it holds,   *)
(* and it names a Nix build only if it holds all of its files.             *)
TreeInv(tree, evidence) ==
    /\ DOMAIN tree = {"at", "sha", "copied", "upstream", "build", "nix_build", "nix_upstream"}
    /\ tree.at # "none" => tree.sha \in Revisions /\ tree.copied \subseteq DOMAIN Sources(tree.sha)
    /\ tree.upstream # None =>
           /\ tree.at # "none"
           /\ tree.upstream = Upstream(tree.sha)
           /\ tree.copied = DOMAIN Sources(tree.sha)
    /\ tree.at \in {"nix export", "extract", "original"} => evidence.at = "over"
    /\ tree.build \subseteq Binaries
    /\ tree.build # {} => evidence.files # None
    /\ tree.nix_build # None =>
           /\ evidence.files # None
           /\ tree.build = Binaries
           /\ tree.nix_build = [artifact_source_sha |-> evidence.upstream.revision,
                                archive |-> evidence.archive, files |-> evidence.files]
    /\ tree.nix_upstream # None =>
           evidence.at = "over" /\ tree.nix_upstream = evidence.upstream

Loaded ==
    /\ run.candidate = Candidate(run.suite, run.tree)
    /\ run.suite = "nix-full" => run.tree.nix_build # None

RunNames == {"phase1", "e2e", "e2e-amp"}

(* A host runs the suite of a tree with a manifest of the archived         *)
(* revision, in its order, on the candidate it has checked.                *)
HostInv ==
    run.at # "none" =>
        /\ DOMAIN run = {"at", "suite", "sha", "tree", "candidate", "runs", "status"}
        /\ run.at \in {"rented", "suite", "over", "gone"}
        /\ run.suite \in Suites
        /\ TreeInv(run.tree, nix)
        /\ run.tree.upstream # None /\ run.tree.upstream.revision = run.sha
        /\ run.at = "suite" \/ run.candidate # None => Loaded
        /\ run.runs \in Seq([name : RunNames, exit_code : 0 .. 1])
        /\ Len(run.runs) <= Len(RunsOf(run.suite))
        /\ \A i \in 1 .. Len(run.runs) : run.runs[i].name = RunsOf(run.suite)[i]

HubInv == head \in Revisions /\ NixInv /\ TreeInv(prep, nix) /\ HostInv

WorkloadsInv == ReleaseInv /\ MatrixInv /\ HubInv

-----------------------------------------------------------------------------
(* The release: proofs.                                                    *)


LEMMA ReleaseInitInv == Release!Init => ReleaseInv
BY DEF Release!Init, ReleaseInv, ProgressInv

(* A step of one run leaves what the others have. *)
LEMMA RunMoves ==
    ASSUME ReleaseInv, NEW r \in ReleaseRuns, NEW p, ProgressInv(p),
           releaseRun' = [releaseRun EXCEPT ![r] = p],
           UNCHANGED <<attached, verified>>,
           releaseRun[r].at # "done"
    PROVE  ReleaseInv'
<1>1. \A q \in ReleaseRuns : releaseRun'[q] = IF q = r THEN p ELSE releaseRun[q]
  BY DEF ReleaseInv
<1>2. releaseRun' = [q \in ReleaseRuns |-> releaseRun'[q]]
  BY DEF ReleaseInv
<1>3. \A q \in ReleaseRuns : ProgressInv(releaseRun'[q])
  BY <1>1 DEF ReleaseInv
<1>4. \A sha \in verified' : \E q \in ReleaseRuns :
          releaseRun'[q].at = "done" /\ releaseRun'[q].sha = sha
  BY <1>1 DEF ReleaseInv
<1> QED
  BY <1>2, <1>3, <1>4 DEF ReleaseInv, ProgressInv, Started, Tested

LEMMA RunBegins ==
    ASSUME ReleaseInv, NEW r \in ReleaseRuns, NEW sha \in Shas,
           NEW gpus \in 0 .. 2, NEW count \in 1 .. 2, Release!Begin(r, sha, gpus, count)
    PROVE  ReleaseInv'
<1> DEFINE p == [at |-> "setup", sha |-> sha, gpus |-> gpus, count |-> count,
                 files |-> [Release!Unstarted.files EXCEPT
                                !["cuda-checks.log"] = Release!Whole("log")]]
<1>1. p.files = [f \in Release!Artifacts |-> p.files[f]]
  BY DEF Release!Unstarted
<1>2. p.files["cuda-completion.json"].whole = FALSE
  BY DEF Release!Unstarted, Release!Absent, Release!Artifacts
<1>3. ProgressInv(p)
  BY <1>1, <1>2 DEF ProgressInv, Started
<1> QED
  BY <1>3, RunMoves DEF Release!Begin

(* A run that goes on has started. *)
LEMMA RunStarted ==
    ASSUME ReleaseInv, NEW r \in ReleaseRuns, releaseRun[r].at # "none"
    PROVE  /\ Started(releaseRun[r])
           /\ ProgressInv(releaseRun[r])
           /\ releaseRun[r] # Release!Unstarted
BY DEF ReleaseInv, ProgressInv, Release!Unstarted

(* Another phase, with the same artifacts. *)
LEMMA RunGoes ==
    ASSUME ReleaseInv, NEW r \in ReleaseRuns, NEW phase,
           Release!Goto(r, phase), UNCHANGED <<attached, verified>>,
           releaseRun[r].at \notin {"none", "done", "dead"},
           \/ phase = "dead"
           \/ phase = "suite" /\ Equipped(releaseRun[r])
           \/ phase \in {"cpu_only", "completion"} /\ releaseRun[r].at \notin {"setup", "suite"}
    PROVE  ReleaseInv'
<1> DEFINE old == releaseRun[r]
           p == [old EXCEPT !.at = phase]
<1>1. Started(old) /\ ProgressInv(old) /\ old # Release!Unstarted
  BY RunStarted
<1>2. p = [at |-> phase, sha |-> old.sha, gpus |-> old.gpus, count |-> old.count,
           files |-> old.files]
  BY <1>1 DEF Started
<1>3. Started(p)
  BY <1>1, <1>2 DEF Started
<1>4. old.files["cuda-completion.json"].whole => FALSE
  BY <1>1 DEF ProgressInv
<1>5. p.at \in {"sanitizer", "cpu_only", "completion", "done"} => Tested(p)
  BY <1>1, <1>2 DEF ProgressInv, Tested
<1>6. p.at \notin {"setup", "dead"} => Equipped(p)
  BY <1>1, <1>2 DEF ProgressInv, Equipped
<1>7. ProgressInv(p)
  BY <1>2, <1>3, <1>4, <1>5, <1>6 DEF ProgressInv
<1>8. releaseRun' = [releaseRun EXCEPT ![r] = p]
  BY DEF Release!Goto, ReleaseInv
<1> QED
  BY <1>7, <1>8, RunMoves

(* A step that also writes an artifact. *)
Writes(r, phase, file, content) ==
    releaseRun' = [releaseRun EXCEPT ![r].at = phase, ![r].files[file] = content]

LEMMA RunWrites ==
    ASSUME ReleaseInv, NEW r \in ReleaseRuns, NEW phase, NEW file, NEW content,
           releaseRun[r].at \notin {"none", "done"}, Writes(r, phase, file, content)
    PROVE  releaseRun' = [releaseRun EXCEPT ![r] =
               [at |-> phase, sha |-> releaseRun[r].sha, gpus |-> releaseRun[r].gpus,
                count |-> releaseRun[r].count,
                files |-> [releaseRun[r].files EXCEPT ![file] = content]]]
<1>1. PICK old : old = releaseRun[r]
  OBVIOUS
<1>2. old = [at |-> old.at, sha |-> old.sha, gpus |-> old.gpus, count |-> old.count,
             files |-> old.files]
  BY <1>1, RunStarted DEF Started
<1>3. PICK new : new = [old EXCEPT !.at = phase]
  OBVIOUS
<1>4. new = [at |-> phase, sha |-> old.sha, gpus |-> old.gpus, count |-> old.count,
             files |-> old.files]
  BY <1>2, <1>3
<1>5. [new EXCEPT !.files[file] = content] =
          [at |-> phase, sha |-> old.sha, gpus |-> old.gpus, count |-> old.count,
           files |-> [old.files EXCEPT ![file] = content]]
  BY <1>4
<1>6. releaseRun' = [releaseRun EXCEPT ![r] = [new EXCEPT !.files[file] = content]]
  BY <1>1, <1>3 DEF ReleaseInv, Writes
<1> QED
  BY <1>1, <1>5, <1>6

LEMMA RunTests ==
    ASSUME ReleaseInv, NEW r \in ReleaseRuns,
           NEW bad \in {{}} \cup {{c} : c \in Release!Classes}, Release!Suite(r, bad)
    PROVE  ReleaseInv'
<1> DEFINE old == releaseRun[r]
           report == Release!CudaReport(old.sha, old.gpus, old.count,
                                        Release!Outcome(old.gpus, "cuda", bad))
           phase == IF report.success THEN "sanitizer" ELSE "dead"
           new == [old.files EXCEPT !["cuda-tests.json"] = Release!Whole(report)]
           p == [at |-> phase, sha |-> old.sha, gpus |-> old.gpus, count |-> old.count,
                 files |-> new]
<1>1. old.at = "suite" /\ UNCHANGED <<attached, verified>>
  BY DEF Release!Suite
<1>2. releaseRun' = [releaseRun EXCEPT ![r] = p]
  <2>1. Writes(r, phase, "cuda-tests.json", Release!Whole(report))
    BY DEF Release!Suite, Writes
  <2>2. old.at \notin {"none", "done"}
    BY <1>1
  <2> HIDE DEF report, phase
  <2> QED
    BY <2>1, <2>2, RunWrites
<1>3. Started(old) /\ ProgressInv(old) /\ old # Release!Unstarted
  BY <1>1, RunStarted
<1>4. new["cuda-tests.json"] = Release!Whole(report)
      /\ new["cuda-completion.json"] = old.files["cuda-completion.json"]
      /\ new = [f \in Release!Artifacts |-> new[f]]
  <2> HIDE DEF report
  <2> QED
    BY <1>3 DEF Started, Release!Artifacts
<1>5. phase \in {"sanitizer", "dead"} /\ (phase = "sanitizer" => report.success)
  OBVIOUS
<1> HIDE DEF new, phase, report
<1>6. Started(p)
  BY <1>3, <1>4 DEF Started
<1>7. p.at = "sanitizer" => Tested(p)
  BY <1>4, <1>5 DEF Tested, report
<1>8. ProgressInv(p)
  BY <1>1, <1>3, <1>4, <1>5, <1>6, <1>7 DEF ProgressInv, Equipped
<1> QED
  BY <1>1, <1>2, <1>8, RunMoves

LEMMA RunCompletes ==
    ASSUME ReleaseInv, NEW r \in ReleaseRuns, Release!Complete(r)
    PROVE  ReleaseInv'
<1> DEFINE old == releaseRun[r]
           file == Release!Whole([source_sha |-> old.sha, success |-> TRUE])
           new == [old.files EXCEPT !["cuda-completion.json"] = file]
           p == [at |-> "done", sha |-> old.sha, gpus |-> old.gpus, count |-> old.count,
                 files |-> new]
<1>1. old.at = "completion" /\ UNCHANGED <<attached, verified>>
  BY DEF Release!Complete
<1>2. releaseRun' = [releaseRun EXCEPT ![r] = p]
  <2>1. Writes(r, "done", "cuda-completion.json", file)
    BY DEF Release!Complete, Writes
  <2>2. old.at \notin {"none", "done"}
    BY <1>1
  <2> HIDE DEF file
  <2> QED
    BY <2>1, <2>2, RunWrites
<1>3. Started(old) /\ ProgressInv(old) /\ old # Release!Unstarted
  BY <1>1, RunStarted
<1>4. file.content.source_sha = old.sha
  BY DEF Release!Whole
<1> HIDE DEF file
<1>5. new["cuda-completion.json"] = file
      /\ new["cuda-tests.json"] = old.files["cuda-tests.json"]
      /\ new = [f \in Release!Artifacts |-> new[f]]
  BY <1>3 DEF Started, Release!Artifacts
<1> HIDE DEF new
<1>6. Started(p) /\ Tested(p) /\ Equipped(p)
  BY <1>1, <1>3, <1>5 DEF Started, Tested, Equipped, ProgressInv
<1>7. ProgressInv(p)
  BY <1>4, <1>5, <1>6 DEF ProgressInv
<1> QED
  BY <1>1, <1>2, <1>7, RunMoves

(* Files of any runs may be attached; they are looked at when the revision *)
(* is verified: its completion is that of a run of the same revision.      *)
LEMMA RevisionVerified ==
    ASSUME ReleaseInv, NEW sha \in Shas, Release!Verify(sha)
    PROVE  ReleaseInv'
<1> DEFINE r == attached["cuda-completion.json"]
<1>1. r # None /\ releaseRun[r].files["cuda-completion.json"].whole
      /\ releaseRun[r].files["cuda-completion.json"].content.source_sha = sha
  BY DEF Release!Verify, Release!CompletionOf, Release!File, Release!Absent
<1>2. r \in ReleaseRuns
  BY <1>1 DEF ReleaseInv, Release!Artifacts
<1>3. releaseRun[r] # Release!Unstarted
  BY <1>1 DEF Release!Unstarted, Release!Absent, Release!Artifacts
<1>4. releaseRun[r].at = "done" /\ releaseRun[r].sha = sha
  BY <1>1, <1>2, <1>3 DEF ReleaseInv, ProgressInv
<1>5. verified' = verified \cup {sha} /\ UNCHANGED <<releaseRun, attached>>
  BY DEF Release!Verify
<1>6. \A v \in verified' : \E q \in ReleaseRuns :
          releaseRun'[q].at = "done" /\ releaseRun'[q].sha = v
  BY <1>2, <1>4, <1>5 DEF ReleaseInv
<1> QED
  BY <1>5, <1>6 DEF ReleaseInv, ProgressInv, Started, Tested, Equipped

LEMMA ReleaseNextInv == ReleaseInv /\ [Release!Next]_releaseVars => ReleaseInv'
<1> SUFFICES ASSUME ReleaseInv, [Release!Next]_releaseVars PROVE ReleaseInv'
  OBVIOUS
<1>1. ASSUME NEW r \in ReleaseRuns, NEW sha \in Shas, NEW gpus \in 0 .. 2, NEW count \in 1 .. 2,
             Release!Begin(r, sha, gpus, count)
      PROVE  ReleaseInv'
  BY <1>1, RunBegins
<1>2. ASSUME NEW r \in ReleaseRuns, NEW bad \in {{}} \cup {{c} : c \in Release!Classes},
             Release!Suite(r, bad)
      PROVE  ReleaseInv'
  BY <1>2, RunTests
<1>3. ASSUME NEW r \in ReleaseRuns, Release!Setup(r) PROVE ReleaseInv'
  BY <1>3, RunGoes DEF Release!Setup, Equipped
<1>4. ASSUME NEW r \in ReleaseRuns, Release!Sanitizer(r) \/ Release!CpuOnly(r)
      PROVE  ReleaseInv'
  <2>1. /\ releaseRun[r].at \in {"sanitizer", "cpu_only"} /\ UNCHANGED <<attached, verified>>
        /\ \E phase \in {"cpu_only", "completion"} : Release!Goto(r, phase)
    BY <1>4 DEF Release!Sanitizer, Release!CpuOnly
  <2> QED
    BY <2>1, RunGoes
<1>5. ASSUME NEW r \in ReleaseRuns, Release!Complete(r) PROVE ReleaseInv'
  BY <1>5, RunCompletes
<1>6. ASSUME NEW r \in ReleaseRuns, Release!Die(r) PROVE ReleaseInv'
  BY <1>6, RunGoes DEF Release!Die
<1>7. ASSUME NEW r \in ReleaseRuns, NEW f \in Release!Artifacts, Release!Attach(r, f)
      PROVE  ReleaseInv'
  BY <1>7 DEF Release!Attach, ReleaseInv, ProgressInv, Started, Tested
<1>8. ASSUME NEW sha \in Shas, Release!Verify(sha) PROVE ReleaseInv'
  BY <1>8, RevisionVerified
<1>9. CASE UNCHANGED releaseVars
  BY <1>9 DEF releaseVars, ReleaseInv, ProgressInv, Started, Tested
<1> QED
  BY <1>1, <1>2, <1>3, <1>4, <1>5, <1>6, <1>7, <1>8, <1>9 DEF Release!Next

(* On a GPU the suite skips what needs another host or build only; with    *)
(* two GPUs, also that runs.                                               *)
LEMMA SuiteRan ==
    ASSUME NEW gpus \in 1 .. 2, NEW bad, NEW class \in {"cpu", "cuda", "cuda_other", "two_gpus"},
           class = "two_gpus" => gpus = 2
    PROVE  class \in Release!Classes \ Release!Skipped(Release!Outcome(gpus, "cuda", bad))
<1>1. class \in Release!Classes /\ Release!Why(class, gpus, "cuda") = "runs"
  BY DEF Release!Classes, Release!Why
<1>2. Release!Outcome(gpus, "cuda", bad)[class] \in {"failed", "passed"}
  BY <1>1 DEF Release!Outcome
<1> QED
  BY <1>1, <1>2 DEF Release!Skipped

LEMMA ReleaseSafe == ReleaseInv => VerifiedRunCompleted
<1> SUFFICES ASSUME ReleaseInv, NEW sha \in verified
             PROVE  \E r \in ReleaseRuns :
        /\ releaseRun[r].at = "done" /\ releaseRun[r].sha = sha /\ releaseRun[r].gpus >= 1
        /\ {"cpu", "cuda", "cuda_other"}
               \subseteq releaseRun[r].files["cuda-tests.json"].content.ran
        /\ releaseRun[r].count = 2 =>
               "two_gpus" \in releaseRun[r].files["cuda-tests.json"].content.ran
        /\ releaseRun[r].files["cuda-tests.json"].content.failures = {}
  BY DEF VerifiedRunCompleted, Release!VerifiedRunCompleted
<1>1. PICK r \in ReleaseRuns : releaseRun[r].at = "done" /\ releaseRun[r].sha = sha
  BY DEF ReleaseInv
<1> DEFINE p == releaseRun[r]
<1>2. Started(p) /\ Equipped(p) /\ Tested(p)
  BY <1>1, RunStarted DEF ProgressInv
<1>3. PICK bad \in {{}} \cup {{c} : c \in Release!Classes} :
          LET report == Release!CudaReport(p.sha, p.gpus, p.count,
                                           Release!Outcome(p.gpus, "cuda", bad))
          IN  p.files["cuda-tests.json"] = Release!Whole(report) /\ report.success
  BY <1>2 DEF Tested
<1> DEFINE tests == Release!Outcome(p.gpus, "cuda", bad)
           content == p.files["cuda-tests.json"].content
<1> DEFINE report == Release!CudaReport(p.sha, p.gpus, p.count, tests)
<1>4. content.ran = Release!Classes \ Release!Skipped(tests) /\ content.failures = {}
  <2>1. content = report /\ report.success
    BY <1>3 DEF Release!Whole
  <2>2. report.ran = Release!Classes \ Release!Skipped(tests)
    BY DEF Release!CudaReport
  <2>3. report.failures = Release!Failures(tests) /\ (report.success => report.failures = {})
    BY Zenon DEF Release!CudaReport
  <2> QED
    BY <2>1, <2>2, <2>3
<1>5. p.gpus \in 1 .. 2 /\ (p.count = 2 => p.gpus = 2)
  BY <1>2 DEF Started, Equipped
<1>6. /\ {"cpu", "cuda", "cuda_other"} \subseteq Release!Classes \ Release!Skipped(tests)
      /\ p.count = 2 => "two_gpus" \in Release!Classes \ Release!Skipped(tests)
  BY <1>5, SuiteRan
<1> QED
  BY <1>1, <1>4, <1>5, <1>6

-----------------------------------------------------------------------------
(* The support matrix: proofs.                                             *)

(* As many members as places: every place has a member of its own. *)
LEMMA DistinctPlaces ==
    ASSUME NEW S, NEW s \in Seq(S), Matrix!Cardinality(Matrix!ToSet(s)) = Len(s)
    PROVE  \A i, j \in 1 .. Len(s) : s[i] = s[j] => i = j
<1> DEFINE T == {s[i] : i \in DOMAIN s}
<1>1. IsFiniteSet(1 .. Len(s)) /\ Cardinality(1 .. Len(s)) = Len(s)
  <2>1. Len(s) \in Nat /\ 1 \in Int /\ Len(s) \in Int
    OBVIOUS
  <2>2. Cardinality(1 .. Len(s)) = IF 1 > Len(s) THEN 0 ELSE Len(s) - 1 + 1
    BY <2>1, FS_Interval
  <2>3. IsFiniteSet(1 .. Len(s))
    BY <2>1, FS_Interval
  <2>4. Cardinality(1 .. Len(s)) = Len(s)
    BY <2>1, <2>2
  <2> QED
    BY <2>3, <2>4
<1>2. s \in Surjection(1 .. Len(s), T)
  BY DEF Surjection
<1>3. Cardinality(T) = Len(s)
  BY DEF Matrix!Cardinality, Cardinality, Matrix!ToSet
<1>4. s \in Injection(1 .. Len(s), T)
  BY <1>1, <1>2, <1>3, FS_Surjection
<1> QED
  BY <1>4 DEF Injection, IsInjective

LEMMA ElementOfSeq ==
    ASSUME NEW S, NEW s \in Seq(S), NEW i \in 1 .. Len(s)
    PROVE  s[i] \in S
OBVIOUS

LEMMA AppendOne ==
    ASSUME NEW S, NEW s \in Seq(S), NEW e \in S
    PROVE  /\ Len(s) \in Nat
           /\ Append(s, e) \in Seq(S)
           /\ Len(Append(s, e)) = Len(s) + 1
           /\ \A i \in 1 .. Len(Append(s, e)) :
                  Append(s, e)[i] = IF i = Len(s) + 1 THEN e ELSE s[i]
OBVIOUS

LEMMA MatrixInit == WorkloadsInit => MatrixInv
<1> SUFFICES ASSUME WorkloadsInit PROVE MatrixInv
  OBVIOUS
<1>1. PICK n \in Nat : request \in [1 .. n -> Candidates]
  BY DEF WorkloadsInit, Matrix!Init, Matrix!SeqOf
<1>2. request \in Seq(Pair)
  <2>1. request \in [1 .. n -> Pair]
    BY <1>1, CandidatesAssumption DEF Pair
  <2> QED
    BY <2>1
<1>3. Matrix!Cardinality(Matrix!ToSet(request)) = Len(request)
  BY DEF WorkloadsInit, Matrix!Init, Matrix!Accepted
<1>4. \A i, j \in 1 .. Len(request) : request[i] = request[j] => i = j
  BY <1>2, <1>3, DistinctPlaces
<1>5. /\ todo = request /\ at = "next" /\ files = {} /\ fault = FALSE /\ exit = 0
      /\ DOMAIN written = {} /\ DOMAIN output = {} /\ rows = << >> /\ summary = {}
  BY DEF WorkloadsInit, Matrix!Init
<1>6. QueueInv
  BY <1>2, <1>4, <1>5 DEF QueueInv
<1>7. OutputInv
  <2>1. exit \in 0 .. 1 /\ "driver.log" \notin files
    BY <1>5
  <2>2. fault \in BOOLEAN
    BY <1>5, Zenon
  <2> QED
    BY <1>5, <2>1, <2>2 DEF OutputInv
<1>8. CopyInv
  BY <1>5 DEF CopyInv
<1> QED
  BY <1>6, <1>7, <1>8 DEF MatrixInv

LEMMA LabelsDiffer ==
    ASSUME NEW one \in Pair, NEW other \in Pair, Matrix!Label(one) = Matrix!Label(other)
    PROVE  one = other
BY DEF Pair, Matrix!Label

(* The current pair is the first that has no row, and until its files are *)
(* copied it has written nothing.                                          *)
LEMMA CurrentPair ==
    ASSUME MatrixInv, todo # << >>, at \notin {"killed", "summary"}
    PROVE  /\ Len(rows) + 1 \in 1 .. Len(request)
           /\ todo[1] = request[Len(rows) + 1]
           /\ todo[1] \in Pair
           /\ \A i \in 1 .. Len(rows) : rows[i].case # todo[1]
           /\ at # "copy" => todo[1] \notin DOMAIN written
<1> USE DEF MatrixInv, QueueInv
<1>1. Len(todo) \in Nat /\ Len(todo) >= 1 /\ Len(request) \in Nat /\ Len(rows) \in Nat
  OBVIOUS
<1>2. Len(rows) + 1 \in 1 .. Len(request) /\ todo[1] = request[Len(rows) + 1]
  BY <1>1
<1>3. todo[1] \in Pair
  BY <1>1, ElementOfSeq
<1>4. \A i \in 1 .. Len(rows) : request[i] # request[Len(rows) + 1]
  BY <1>1, <1>2
<1>5. at # "copy" => todo[1] \notin DOMAIN written
  BY <1>2, <1>4 DEF CopyInv
<1> QED
  BY <1>2, <1>3, <1>4, <1>5

(* A step within the checks of a pair, or one that ends the run. *)
LEMMA PairGoes ==
    ASSUME MatrixInv,
           UNCHANGED <<request, todo, written, output, rows, summary>>,
           "driver.log" \notin files', exit' \in 0 .. 1, fault' \in BOOLEAN,
           \/ /\ at \in {"venv", "setup", "cuda", "cpu_only", "cpu"}
              /\ at' \in {"setup", "cuda", "cpu_only", "cpu", "copy"}
              /\ at' = "copy" /\ exit' = 0 => "cuda-completion.json" \in files'
           \/ at' = "killed"
           \/ at = "next" /\ todo = << >> /\ at' = "done"
    PROVE  MatrixInv'
<1>1. QueueInv'
  BY DEF MatrixInv, QueueInv
<1>2. OutputInv'
  BY DEF MatrixInv, OutputInv
<1>3. CopyInv'
  <2>1. CASE at \in {"venv", "setup", "cuda", "cpu_only", "cpu"}
    <3>1. todo[1] \notin DOMAIN written
      BY <2>1, CurrentPair DEF MatrixInv, QueueInv
    <3> QED
      BY <2>1, <3>1 DEF MatrixInv, CopyInv
  <2>2. CASE at' \in {"killed", "done"}
    BY <2>2 DEF MatrixInv, CopyInv
  <2> QED
    BY <2>1, <2>2
<1> QED
  BY <1>1, <1>2, <1>3 DEF MatrixInv

LEMMA PairChecked ==
    ASSUME MatrixInv,
           \/ Matrix!Venv \/ Matrix!Setup \/ Matrix!CpuOnly \/ Matrix!Kill \/ Matrix!Finish
           \/ \E bad \in {{}} \cup {{c} : c \in Matrix!Classes} :
                  Matrix!CudaSuite(bad) \/ Matrix!CpuSuite(bad)
    PROVE  MatrixInv'
<1> USE DEF Matrix!results, Matrix!pair
<1> DEFINE Kept == UNCHANGED <<request, todo, written, output, rows, summary>>
           Checking == at \in {"venv", "setup", "cuda", "cpu_only", "cpu"}
<1>1. "driver.log" \notin files /\ exit \in 0 .. 1 /\ fault \in BOOLEAN
  BY DEF MatrixInv, OutputInv
<1>2. ASSUME NEW phase, NEW new, Matrix!Enter(phase, new), Kept, Checking,
             phase \in {"setup", "cuda", "cpu_only", "cpu"}, "driver.log" \notin new
      PROVE  MatrixInv'
  BY <1>1, <1>2, PairGoes DEF Matrix!Enter
<1>3. ASSUME NEW new, NEW faulty \in BOOLEAN, Matrix!Stop(new, faulty), Kept, Checking,
             "driver.log" \notin new
      PROVE  MatrixInv'
  BY <1>1, <1>3, PairGoes DEF Matrix!Stop
<1>4. CASE Matrix!Venv
  BY <1>2, <1>3, <1>4 DEF Matrix!Venv
<1>5. CASE Matrix!Setup
  BY <1>2, <1>3, <1>5 DEF Matrix!Setup
<1>6. CASE Matrix!CpuOnly
  BY <1>2, <1>3, <1>6 DEF Matrix!CpuOnly
<1>7. ASSUME NEW bad, Matrix!CudaSuite(bad) PROVE MatrixInv'
  <2>1. /\ Kept /\ Checking
        /\ \/ Matrix!Enter("cpu_only", {"cuda-tests.json"})
           \/ Matrix!Stop({"cuda-tests.json"}, bad # {})
           \/ Matrix!Stop({}, TRUE)
    BY <1>7, Zenon DEF Matrix!CudaSuite
  <2> QED
    BY <1>2, <1>3, <2>1
<1>8. ASSUME NEW bad, Matrix!CpuSuite(bad) PROVE MatrixInv'
  <2>1. /\ Kept /\ Checking
        /\ \/ /\ at' = "copy" /\ UNCHANGED <<fault, exit>>
              /\ files' = files \cup {"cpu-tests.json", "cuda-completion.json"}
           \/ Matrix!Stop({"cpu-tests.json"}, bad # {})
           \/ Matrix!Stop({}, TRUE)
    BY <1>8 DEF Matrix!CpuSuite
  <2> QED
    BY <1>1, <1>3, <2>1, PairGoes
<1>9. CASE Matrix!Kill
  BY <1>1, <1>9, PairGoes DEF Matrix!Kill
<1>10. CASE Matrix!Finish
  BY <1>1, <1>10, PairGoes DEF Matrix!Finish
<1> QED
  BY <1>4, <1>5, <1>6, <1>7, <1>8, <1>9, <1>10

(* A file that is put changes what is found under its own pair only. *)
LEMMA PutFile ==
    ASSUME OutputInv, NEW case \in Pair, NEW file, Matrix!Put(case, file),
           DOMAIN written \subseteq DOMAIN written',
           file = "driver.log" \/ case \in DOMAIN written',
           "driver.log" \notin files', exit' \in 0 .. 1, fault' \in BOOLEAN
    PROVE  /\ OutputInv'
           /\ \A other \in Pair :
                 FilesIn(DOMAIN output', other) =
                     IF other = case /\ file # "driver.log"
                     THEN FilesIn(DOMAIN output, other) \cup {file}
                     ELSE FilesIn(DOMAIN output, other)
<1> DEFINE label == Matrix!Label(case)
           new == <<label, file>>
<1>1. /\ DOMAIN output' = DOMAIN output \cup {new}
      /\ \A name \in DOMAIN output' :
             output'[name] = IF name = new THEN case ELSE output[name]
  BY DEF Matrix!Put
<1>2. new[1] = label /\ new[2] = file
  OBVIOUS
<1> HIDE DEF new, label
<1>3. new = <<label, new[2]>>
  BY <1>2 DEF new
<1>4. \A name \in DOMAIN output' :
        /\ output'[name] \in Pair
        /\ name = <<Matrix!Label(output'[name]), name[2]>>
        /\ name[2] # "driver.log" => output'[name] \in DOMAIN written'
  BY <1>1, <1>2, <1>3 DEF OutputInv, label
<1>5. OutputInv'
  BY <1>4 DEF OutputInv
<1>6. ASSUME NEW other \in Pair
      PROVE  FilesIn(DOMAIN output', other) =
                 IF other = case /\ file # "driver.log"
                 THEN FilesIn(DOMAIN output, other) \cup {file}
                 ELSE FilesIn(DOMAIN output, other)
  <2>1. new[1] = Matrix!Label(other) <=> other = case
    BY <1>2, LabelsDiffer DEF label
  <2>2. CASE other = case /\ file # "driver.log"
    <3>1. new[1] = Matrix!Label(other) /\ new[2] = file /\ file # "driver.log"
      BY <1>2, <2>1, <2>2
    <3> QED
      BY <1>1, <2>2, <3>1 DEF FilesIn
  <2>3. CASE ~(other = case /\ file # "driver.log")
    <3>1. ~(new[1] = Matrix!Label(other) /\ new[2] # "driver.log")
      BY <1>2, <2>1, <2>3
    <3> QED
      BY <1>1, <2>3, <3>1 DEF FilesIn
  <2> QED
    BY <2>2, <2>3
<1> QED
  BY <1>5, <1>6

LEMMA PairBegins == MatrixInv /\ Matrix!Begin => MatrixInv'
<1> SUFFICES ASSUME MatrixInv, Matrix!Begin PROVE MatrixInv'
  OBVIOUS
<1>1. /\ at = "next" /\ todo # << >> /\ at' = "venv"
      /\ files' = {} /\ fault' = FALSE /\ exit' = 0
      /\ Matrix!Put(todo[1], "driver.log")
      /\ UNCHANGED <<request, todo, written, rows, summary>>
  BY DEF Matrix!Begin, Matrix!Current
<1>2. todo[1] \in Pair
  BY <1>1, CurrentPair
<1>3. /\ OutputInv'
      /\ \A other \in Pair : FilesIn(DOMAIN output', other) = FilesIn(DOMAIN output, other)
  <2>1. "driver.log" \notin files' /\ exit' \in 0 .. 1
    BY <1>1
  <2>2. fault' \in BOOLEAN
    BY <1>1, Zenon
  <2> QED
    BY <1>1, <1>2, <2>1, <2>2, PutFile DEF MatrixInv
<1>4. QueueInv'
  BY <1>1 DEF MatrixInv, QueueInv
<1>5. \A i \in 1 .. Len(rows) : rows[i].case \in Pair
  BY DEF MatrixInv, QueueInv
<1>6. CopyInv'
  BY <1>1, <1>3, <1>5 DEF MatrixInv, CopyInv
<1> QED
  BY <1>3, <1>4, <1>6 DEF MatrixInv

LEMMA PairCopyBegins == MatrixInv /\ Matrix!CopyBegins => MatrixInv'
<1> SUFFICES ASSUME MatrixInv, Matrix!CopyBegins PROVE MatrixInv'
  OBVIOUS
<1> DEFINE current == todo[1]
<1>1. /\ at = "copy" /\ current \notin DOMAIN written
      /\ DOMAIN written' = DOMAIN written \cup {current}
      /\ \A case \in DOMAIN written' :
             written'[case] = IF case = current THEN files ELSE written[case]
      /\ UNCHANGED <<request, todo, at, files, fault, exit, output, rows, summary>>
  BY DEF Matrix!CopyBegins, Matrix!Current, Matrix!pair
<1>2. /\ Len(rows) + 1 \in 1 .. Len(request) /\ current = request[Len(rows) + 1]
      /\ current \in Pair /\ \A i \in 1 .. Len(rows) : rows[i].case # current
  BY <1>1, CurrentPair DEF MatrixInv, QueueInv
<1>3. QueueInv' /\ OutputInv'
  BY <1>1 DEF MatrixInv, QueueInv, OutputInv
<1>4. FilesIn(DOMAIN output, current) = {}
  BY <1>1, <1>2, LabelsDiffer DEF MatrixInv, OutputInv, FilesIn
<1>5. CopyInv'
  <2>1. \A case \in DOMAIN written' : \E i \in 1 .. Len(request) :
            /\ case = request[i]
            /\ i <= Len(rows) \/ (i = Len(rows) + 1 /\ at \in {"copy", "killed"})
    BY <1>1, <1>2 DEF MatrixInv, CopyInv
  <2>2. ASSUME NEW i \in 1 .. Len(rows)
        PROVE  /\ rows[i].case \in DOMAIN written'
               /\ written'[rows[i].case] = FilesIn(DOMAIN output, rows[i].case)
               /\ rows[i].exit_code = 0 => "cuda-completion.json" \in written'[rows[i].case]
    BY <1>1, <1>2 DEF MatrixInv, CopyInv
  <2>3. /\ current \in DOMAIN written'
        /\ written'[current] = files
        /\ exit = 0 => "cuda-completion.json" \in files
    BY <1>1 DEF MatrixInv, CopyInv
  <2> HIDE DEF current
  <2> QED
    BY <1>1, <1>4, <2>1, <2>2, <2>3 DEF CopyInv, current
<1> QED
  BY <1>3, <1>5 DEF MatrixInv

LEMMA PairCopies == MatrixInv /\ Matrix!Copy => MatrixInv'
<1> SUFFICES ASSUME MatrixInv, Matrix!Copy PROVE MatrixInv'
  OBVIOUS
<1> DEFINE current == todo[1]
<1>1. /\ at = "copy" /\ current \in DOMAIN written
      /\ UNCHANGED <<request, todo, fault, exit, written>>
  BY DEF Matrix!Copy, Matrix!Current
<1>2. /\ Len(rows) + 1 \in 1 .. Len(request) /\ current = request[Len(rows) + 1]
      /\ current \in Pair /\ \A i \in 1 .. Len(rows) : rows[i].case # current
      /\ todo # << >>
  BY <1>1, CurrentPair DEF MatrixInv, QueueInv
<1>3. /\ written[current] = files \cup FilesIn(DOMAIN output, current)
      /\ exit = 0 => "cuda-completion.json" \in written[current]
      /\ "driver.log" \notin files /\ exit \in 0 .. 1 /\ fault \in BOOLEAN
  BY <1>1 DEF MatrixInv, CopyInv, OutputInv
<1>4. \A i \in 1 .. Len(rows) : rows[i].case \in Pair
  BY DEF MatrixInv, QueueInv
<1>5. ASSUME NEW f \in files, Matrix!Put(current, f), files' = files \ {f},
             UNCHANGED <<at, rows, summary>>
      PROVE  MatrixInv'
  <2>1. f # "driver.log"
    BY <1>3, <1>5
  <2>2. /\ OutputInv'
        /\ \A other \in Pair :
              FilesIn(DOMAIN output', other) =
                  IF other = current THEN FilesIn(DOMAIN output, other) \cup {f}
                  ELSE FilesIn(DOMAIN output, other)
    BY <1>1, <1>2, <1>3, <1>5, <2>1, PutFile DEF MatrixInv
  <2>3. QueueInv'
    BY <1>1, <1>5 DEF MatrixInv, QueueInv
  <2>4. CopyInv'
    <3>1. written[current] = files' \cup FilesIn(DOMAIN output', current)
      BY <1>2, <1>3, <1>5, <2>2
    <3>2. \A i \in 1 .. Len(rows) :
              FilesIn(DOMAIN output', rows[i].case) = FilesIn(DOMAIN output, rows[i].case)
      BY <1>2, <1>4, <2>2
    <3> QED
      BY <1>1, <1>3, <1>5, <3>1, <3>2 DEF MatrixInv, CopyInv
  <2> QED
    BY <2>2, <2>3, <2>4 DEF MatrixInv
<1>6. ASSUME files = {}, at' = "summary", summary' = {}, UNCHANGED <<output, files>>,
             rows' = Append(rows, [case |-> current, exit_code |-> exit, fault |-> fault])
      PROVE  MatrixInv'
  <2>1. PICK row : row = [case |-> current, exit_code |-> exit, fault |-> fault]
    OBVIOUS
  <2>2. /\ row \in [case : Pair, exit_code : 0 .. 1, fault : BOOLEAN]
        /\ row.case = current /\ row.exit_code = exit
    BY <1>2, <1>3, <2>1
  <2>3. /\ Len(rows) \in Nat
        /\ rows' \in Seq([case : Pair, exit_code : 0 .. 1, fault : BOOLEAN])
        /\ Len(rows') = Len(rows) + 1
        /\ \A i \in 1 .. Len(rows') : rows'[i] = IF i = Len(rows) + 1 THEN row ELSE rows[i]
    <3>1. rows \in Seq([case : Pair, exit_code : 0 .. 1, fault : BOOLEAN])
      BY DEF MatrixInv, QueueInv
    <3>2. rows' = Append(rows, row)
      BY <1>6, <2>1
    <3> QED
      BY <2>2, <3>1, <3>2, AppendOne
  <2>4. QueueInv'
    <3>1. ASSUME NEW i \in 1 .. Len(rows') PROVE rows'[i].case = request[i]
      <4>1. CASE i = Len(rows) + 1
        BY <1>2, <2>2, <2>3, <4>1
      <4>2. CASE i # Len(rows) + 1
        <5>1. i \in 1 .. Len(rows) /\ rows'[i] = rows[i]
          BY <2>3, <4>2
        <5> QED
          BY <5>1 DEF MatrixInv, QueueInv
      <4> QED
        BY <4>1, <4>2
    <3>2. Len(rows') = Len(request) - Len(todo) + 1 /\ Len(rows') <= Len(request)
      <4>1. Len(rows) = Len(request) - Len(todo) /\ request \in Seq(Pair) /\ todo \in Seq(Pair)
        BY <1>1 DEF MatrixInv, QueueInv
      <4>2. Len(request) \in Nat /\ Len(todo) \in Nat
        BY <4>1
      <4> QED
        BY <1>2, <2>3, <4>1, <4>2
    <3>3. at' = "summary" /\ summary' \subseteq {rows'} /\ todo' # << >>
      BY <1>1, <1>2, <1>6
    <3> QED
      BY <1>1, <2>3, <3>1, <3>2, <3>3 DEF MatrixInv, QueueInv
  <2>5. OutputInv'
    BY <1>1, <1>6 DEF MatrixInv, OutputInv
  <2>6. CopyInv'
    <3>1. \A case \in DOMAIN written : \E i \in 1 .. Len(request) :
              case = request[i] /\ i <= Len(rows')
      BY <1>2, <2>3 DEF MatrixInv, CopyInv
    <3>2. ASSUME NEW i \in 1 .. Len(rows')
          PROVE  /\ rows'[i].case \in DOMAIN written
                 /\ written[rows'[i].case] = FilesIn(DOMAIN output, rows'[i].case)
                 /\ rows'[i].exit_code = 0 => "cuda-completion.json" \in written[rows'[i].case]
      <4>1. CASE i = Len(rows) + 1
        BY <1>1, <1>3, <1>6, <2>2, <2>3, <4>1
      <4>2. CASE i # Len(rows) + 1
        <5>1. i \in 1 .. Len(rows) /\ rows'[i] = rows[i]
          BY <2>3, <4>2
        <5> QED
          BY <5>1 DEF MatrixInv, CopyInv
      <4> QED
        BY <4>1, <4>2
    <3> QED
      BY <1>1, <1>6, <3>1, <3>2 DEF CopyInv
  <2> QED
    BY <2>4, <2>5, <2>6 DEF MatrixInv
<1> QED
  BY <1>5, <1>6 DEF Matrix!Copy, Matrix!Current

LEMMA PairEnds == MatrixInv /\ Matrix!Summarize => MatrixInv'
<1> SUFFICES ASSUME MatrixInv, Matrix!Summarize PROVE MatrixInv'
  OBVIOUS
<1>1. /\ at = "summary" /\ summary' = {rows} /\ at' = "next" /\ todo' = Tail(todo)
      /\ UNCHANGED <<request, files, fault, exit, written, output, rows>>
  BY DEF Matrix!Summarize, Matrix!pair
<1>2. /\ todo \in Seq(Pair) /\ todo # << >> /\ Len(rows) = Len(request) - Len(todo) + 1
  BY <1>1 DEF MatrixInv, QueueInv
<1>3. /\ todo' \in Seq(Pair) /\ Len(todo') = Len(todo) - 1
      /\ \A i \in 1 .. Len(todo') : todo'[i] = todo[i + 1]
  BY <1>1, <1>2
<1>4. QueueInv'
  BY <1>1, <1>2, <1>3 DEF MatrixInv, QueueInv
<1>5. OutputInv' /\ CopyInv'
  BY <1>1 DEF MatrixInv, OutputInv, CopyInv
<1> QED
  BY <1>4, <1>5 DEF MatrixInv

LEMMA MatrixNextInv == MatrixInv /\ [Matrix!Next]_matrixVars => MatrixInv'
<1>1. MatrixInv /\ UNCHANGED matrixVars => MatrixInv'
  BY DEF matrixVars, MatrixInv, QueueInv, OutputInv, CopyInv
<1> QED
  BY <1>1, PairChecked, PairBegins, PairCopyBegins, PairCopies, PairEnds DEF Matrix!Next

LEMMA MatrixSafe == MatrixInv => RowsBacked
<1> SUFFICES ASSUME MatrixInv PROVE RowsBacked
  OBVIOUS
<1>1. \A name \in DOMAIN output : name[1] = Matrix!Label(output[name])
  BY DEF MatrixInv, OutputInv
<1>2. ASSUME NEW i \in DOMAIN rows
      PROVE  /\ {name[2] : name \in Matrix!Of(rows[i].case)} = written[rows[i].case]
             /\ \A name \in Matrix!Of(rows[i].case) : output[name] = rows[i].case
             /\ rows[i].exit_code = 0 => "cuda-completion.json" \in written[rows[i].case]
  <2> DEFINE case == rows[i].case
  <2>1. i \in 1 .. Len(rows) /\ case \in Pair
    BY DEF MatrixInv, QueueInv
  <2>2. /\ written[case] = FilesIn(DOMAIN output, case)
        /\ rows[i].exit_code = 0 => "cuda-completion.json" \in written[case]
    BY <2>1 DEF MatrixInv, CopyInv
  <2> HIDE DEF case
  <2>3. {name[2] : name \in Matrix!Of(case)} = FilesIn(DOMAIN output, case)
    BY DEF Matrix!Of, FilesIn
  <2>4. \A name \in Matrix!Of(case) : output[name] = case
    BY <1>1, <2>1, LabelsDiffer DEF Matrix!Of, MatrixInv, OutputInv
  <2> QED
    BY <2>2, <2>3, <2>4 DEF case
<1>3. at = "done" => [i \in DOMAIN rows |-> rows[i].case] = request
  <2> SUFFICES ASSUME at = "done" PROVE [i \in DOMAIN rows |-> rows[i].case] = request
    OBVIOUS
  <2>1. /\ request \in Seq(Pair) /\ Len(rows) = Len(request) /\ DOMAIN rows = 1 .. Len(rows)
        /\ \A i \in 1 .. Len(rows) : rows[i].case = request[i]
    BY DEF MatrixInv, QueueInv
  <2>2. request = [i \in 1 .. Len(request) |-> request[i]]
    BY <2>1
  <2> QED
    BY <2>1, <2>2
<1>4. summary \subseteq {rows}
  BY DEF MatrixInv, QueueInv
<1> QED
  BY <1>1, <1>2, <1>3, <1>4 DEF RowsBacked, Matrix!RowsBacked

-----------------------------------------------------------------------------
(* The Kernel Hub package: proofs.                                         *)

LEMMA HubInit == Init => HubInv
<1> SUFFICES ASSUME Init PROVE HubInv
  OBVIOUS
<1>1. NixInv
  BY DEF Init, NixInv
<1>2. TreeInv(prep, nix)
  BY DEF Init, NoTree, TreeInv
<1>3. HostInv
  BY DEF Init, NoRun, HostInv
<1> QED
  BY <1>1, <1>2, <1>3 DEF Init, HubInv

(* Evidence that a tree relies on is complete, and then stays as it is. *)
LEMMA TreeKept ==
    ASSUME NEW tree, NEW before, NEW after, TreeInv(tree, before),
           before.at # "over" /\ before.files = None
    PROVE  TreeInv(tree, after)
BY DEF TreeInv

LEMMA NixOnly ==
    ASSUME HubInv, NixInv', nix.at # "over", UNCHANGED <<head, prep, run>>
    PROVE  HubInv'
<1>1. nix.files = None
  BY DEF HubInv, NixInv
<1>2. TreeInv(prep, nix)'
  BY <1>1, TreeKept DEF HubInv
<1>3. HostInv'
  <2> SUFFICES ASSUME run.at # "none" PROVE HostInv'
    BY DEF HostInv
  <2>1. TreeInv(run.tree, nix')
    BY <1>1, TreeKept DEF HubInv, HostInv
  <2>2. run.tree.nix_build = None
    BY <1>1 DEF HubInv, HostInv, TreeInv
  <2>3. Loaded => Loaded'
    BY <2>2 DEF Loaded, Candidate
  <2> QED
    BY <2>1, <2>3 DEF HubInv, HostInv
<1> QED
  BY <1>2, <1>3 DEF HubInv

LEMMA NixStep ==
    ASSUME HubInv,
           \/ NixExport \/ NixChecksum \/ Record \/ NixDies
           \/ \E regular \in BOOLEAN : NixArchive(regular)
    PROVE  HubInv'
<1> USE DEF HubInv, NixInv
<1>1. CASE NixExport
  <2>1. NixInv'
    BY <1>1 DEF NixExport
  <2> QED
    BY <1>1, <2>1, NixOnly DEF NixExport
<1>2. ASSUME NEW regular \in BOOLEAN, NixArchive(regular) PROVE HubInv'
  <2>1. NixInv'
    BY <1>2 DEF NixArchive
  <2> QED
    BY <1>2, <2>1, NixOnly DEF NixArchive
<1>3. CASE NixChecksum
  <2>1. NixInv'
    BY <1>3 DEF NixChecksum
  <2> QED
    BY <1>3, <2>1, NixOnly DEF NixChecksum
<1>4. CASE Record
  <2>1. NixInv'
    BY <1>4 DEF Record
  <2> QED
    BY <1>4, <2>1, NixOnly DEF Record
<1>5. CASE NixDies
  <2>1. NixInv'
    BY <1>5 DEF NixDies
  <2> QED
    BY <1>5, <2>1, NixOnly DEF NixDies
<1> QED
  BY <1>1, <1>2, <1>3, <1>4, <1>5

(* A step of the preparation. *)
LEMMA PrepareStep ==
    ASSUME HubInv,
           \/ \E state \in {"nix", "export"} : PrepareBegin(state)
           \/ PrepareCheck \/ ExportFile \/ ExportManifest
           \/ \E b \in Binaries : Extract(b)
           \/ Provenance \/ Original \/ PrepareDies
    PROVE  HubInv'
<1> SUFFICES TreeInv(prep, nix)' /\ UNCHANGED <<head, nix, run>>
  BY DEF HubInv, NixInv, HostInv, Loaded, Candidate,
         PrepareBegin, PrepareCheck, ExportFile, ExportManifest, Extract, Provenance, Original,
         PrepareDies
<1> USE DEF HubInv, TreeInv
<1>1. ASSUME NEW state \in {"nix", "export"}, PrepareBegin(state)
      PROVE  TreeInv(prep, nix)' /\ UNCHANGED <<head, nix, run>>
  BY <1>1 DEF PrepareBegin, NoTree
<1>2. CASE PrepareCheck
  BY <1>2 DEF PrepareCheck
<1>3. CASE ExportFile
  <2>1. PICK file \in Files : /\ prep.sha[file] # 0 /\ file \notin prep.copied
                             /\ prep' = [prep EXCEPT !.copied = @ \cup {file}]
    BY <1>3 DEF ExportFile, ToCopy
  <2>2. prep.at \in {"export", "nix export"}
    BY <1>3 DEF ExportFile, Exporting
  <2>3. file \in DOMAIN Sources(prep.sha)
    BY <2>1 DEF Sources
  <2>4. prep.upstream = None
    BY <2>1, <2>3
  <2>5. /\ prep'.copied = prep.copied \cup {file} /\ DOMAIN prep' = DOMAIN prep
        /\ \A field \in DOMAIN prep \ {"copied"} : prep'[field] = prep[field]
    BY <2>1
  <2> QED
    BY <1>3, <2>2, <2>3, <2>4, <2>5 DEF ExportFile
<1>4. CASE ExportManifest
  BY <1>4 DEF ExportManifest, ManifestIsDue, ToCopy, Exporting, Sources
<1>5. ASSUME NEW b \in Binaries, Extract(b)
      PROVE  TreeInv(prep, nix)' /\ UNCHANGED <<head, nix, run>>
  BY <1>5 DEF Extract
<1>6. CASE Provenance
  BY <1>6 DEF Provenance, Binaries
<1>7. CASE Original
  BY <1>7 DEF Original
<1>8. CASE PrepareDies
  BY <1>8 DEF PrepareDies
<1> QED
  BY <1>1, <1>2, <1>3, <1>4, <1>5, <1>6, <1>7, <1>8

(* Another revision is checked out only where no tree is read. *)
LEMMA CheckoutStep == HubInv /\ Checkout => HubInv'
BY DEF HubInv, NixInv, HostInv, Loaded, Candidate, Checkout

LEMMA RentStep ==
    ASSUME HubInv, NEW suite \in Suites, Rent(suite)
    PROVE  HubInv'
<1>1. run' = [at |-> "rented", suite |-> suite, sha |-> head, tree |-> prep,
              candidate |-> None, runs |-> <<>>, status |-> "failed"]
  BY DEF Rent
<1>2. prep.upstream # None /\ prep.upstream.revision = head /\ UNCHANGED <<head, nix, prep>>
  BY DEF Rent
<1>3. DOMAIN run' = {"at", "suite", "sha", "tree", "candidate", "runs", "status"}
  BY <1>1
<1>4. run'.at = "rented" /\ run'.suite = suite /\ run'.sha = head /\ run'.tree = prep
      /\ run'.candidate = None /\ run'.runs = << >>
  BY <1>1
<1>5. Len(RunsOf(suite)) \in Nat
  BY DEF RunsOf
<1>6. HostInv'
  BY <1>2, <1>3, <1>4, <1>5 DEF HubInv, HostInv
<1> QED
  BY <1>2, <1>6 DEF HubInv, NixInv

(* A step that changes the host alone. *)
LEMMA HostStep ==
    ASSUME HubInv,
           Load \/ (\E code \in 0 .. 1 : SuiteRun(code)) \/ SuiteEnds \/ HostDies \/ Deleted
    PROVE  HubInv'
<1> SUFFICES HostInv' /\ UNCHANGED <<head, nix, prep>>
  BY DEF HubInv, NixInv
<1> DEFINE Fields == {"at", "suite", "sha", "tree", "candidate", "runs", "status"}
<1>1. run.at # "none"
  BY DEF Load, SuiteRun, SuiteEnds, HostDies, Deleted
<1>2. /\ DOMAIN run = Fields
      /\ run.suite \in Suites
      /\ TreeInv(run.tree, nix)
      /\ run.tree.upstream # None /\ run.tree.upstream.revision = run.sha
      /\ run.at = "suite" \/ run.candidate # None => Loaded
      /\ run.runs \in Seq([name : RunNames, exit_code : 0 .. 1])
      /\ Len(run.runs) <= Len(RunsOf(run.suite))
      /\ \A i \in 1 .. Len(run.runs) : run.runs[i].name = RunsOf(run.suite)[i]
  BY <1>1 DEF HubInv, HostInv
<1>3. ASSUME DOMAIN run' = Fields, run'.at \in {"rented", "suite", "over", "gone"},
             UNCHANGED <<head, nix, prep>>,
             run'.suite = run.suite, run'.sha = run.sha, run'.tree = run.tree,
             \/ run'.candidate = run.candidate /\ (run'.at = "suite" => run.at = "suite")
             \/ /\ run'.candidate = Candidate(run.suite, run.tree)
                /\ run.suite = "nix-full" => run.tree.nix_build # None,
             run'.runs \in Seq([name : RunNames, exit_code : 0 .. 1]),
             Len(run'.runs) <= Len(RunsOf(run.suite)),
             \A i \in 1 .. Len(run'.runs) : run'.runs[i].name = RunsOf(run.suite)[i]
      PROVE  HostInv'
  <2>1. (run'.at = "suite" \/ run'.candidate # None) => Loaded'
    BY <1>2, <1>3 DEF Loaded, Candidate
  <2> QED
    BY <1>2, <1>3, <2>1 DEF HostInv
<1>4. CASE Load
  <2>1. /\ run' = [run EXCEPT !.at = "suite", !.candidate = Candidate(run.suite, run.tree)]
        /\ run.suite = "nix-full" => run.tree.nix_build # None
        /\ UNCHANGED <<head, nix, prep>>
    BY <1>4 DEF Load
  <2>2. PICK c : c = Candidate(run.suite, run.tree)
    OBVIOUS
  <2>3. run' = [run EXCEPT !.at = "suite", !.candidate = c]
    BY <2>1, <2>2
  <2>4. /\ DOMAIN run' = Fields /\ run'.at = "suite" /\ run'.candidate = c
        /\ run'.suite = run.suite /\ run'.sha = run.sha /\ run'.tree = run.tree
        /\ run'.runs = run.runs
    BY <1>2, <2>3
  <2> QED
    BY <1>2, <1>3, <2>1, <2>2, <2>4
<1>5. ASSUME NEW code \in 0 .. 1, SuiteRun(code)
      PROVE  HostInv' /\ UNCHANGED <<head, nix, prep>>
  <2> DEFINE k == Len(run.runs) + 1
  <2>1. /\ run.at = "suite" /\ Len(run.runs) < Len(RunsOf(run.suite))
        /\ run' = [run EXCEPT !.runs =
               Append(run.runs, [name |-> RunsOf(run.suite)[k], exit_code |-> code])]
        /\ UNCHANGED <<head, nix, prep>>
    BY <1>5 DEF SuiteRun
  <2>2. RunsOf(run.suite)[k] \in RunNames /\ Len(RunsOf(run.suite)) \in Nat
    <3>1. k \in Nat /\ 1 <= k /\ k <= Len(RunsOf(run.suite))
      BY <1>2, <2>1 DEF RunsOf
    <3>2. PICK names : names = RunsOf(run.suite)
      OBVIOUS
    <3>3. \/ names = <<"phase1">>
          \/ names = <<"e2e-amp">>
          \/ names = <<"phase1", "e2e", "e2e-amp">>
      BY <3>2, Zenon DEF RunsOf
    <3>4. Len(names) \in 1 .. 3 /\ \A i \in 1 .. Len(names) : names[i] \in RunNames
      BY <3>3 DEF RunNames
    <3> QED
      BY <3>1, <3>2, <3>4
  <2>3. PICK entry : entry = [name |-> RunsOf(run.suite)[k], exit_code |-> code]
    OBVIOUS
  <2>4. entry \in [name : RunNames, exit_code : 0 .. 1] /\ entry.name = RunsOf(run.suite)[k]
    BY <2>2, <2>3
  <2>5. PICK more : more = Append(run.runs, entry)
    OBVIOUS
  <2>6. /\ more \in Seq([name : RunNames, exit_code : 0 .. 1])
        /\ Len(more) = k
        /\ \A i \in 1 .. k : more[i] = IF i = k THEN entry ELSE run.runs[i]
    BY <1>2, <2>4, <2>5
  <2>7. run' = [run EXCEPT !.runs = more]
    BY <2>1, <2>3, <2>5
  <2>8. /\ DOMAIN run' = Fields /\ run'.at = run.at /\ run'.candidate = run.candidate
        /\ run'.suite = run.suite /\ run'.sha = run.sha /\ run'.tree = run.tree
        /\ run'.runs = more
    BY <1>2, <2>7
  <2>9. \A i \in 1 .. Len(more) : more[i].name = RunsOf(run.suite)[i]
    BY <1>2, <2>4, <2>6
  <2>10. Len(more) <= Len(RunsOf(run.suite))
    BY <1>2, <2>1, <2>2, <2>6
  <2> QED
    BY <1>2, <1>3, <2>1, <2>6, <2>8, <2>9, <2>10
<1>6. CASE SuiteEnds \/ HostDies \/ Deleted
  <2>1. /\ DOMAIN run' = Fields /\ run'.at \in {"over", "gone"} /\ run'.candidate = run.candidate
        /\ run'.suite = run.suite /\ run'.sha = run.sha /\ run'.tree = run.tree
        /\ run'.runs = run.runs /\ UNCHANGED <<head, nix, prep>>
    <3>1. CASE SuiteEnds
      <4>1. PICK status : run' = [run EXCEPT !.at = "over", !.status = status]
        BY <3>1, Zenon DEF SuiteEnds
      <4> QED
        BY <1>2, <3>1, <4>1 DEF SuiteEnds
    <3>2. CASE HostDies \/ Deleted
      BY <1>2, <3>2 DEF HostDies, Deleted
    <3> QED
      BY <1>6, <3>1, <3>2
  <2> QED
    BY <1>2, <1>3, <2>1
<1>7. UNCHANGED <<head, nix, prep>>
  BY DEF Load, SuiteRun, SuiteEnds, HostDies, Deleted
<1> QED
  BY <1>4, <1>5, <1>6, <1>7

LEMMA HubNextInv == HubInv /\ [Next]_vars => HubInv'
<1>1. HubInv /\ UNCHANGED vars => HubInv'
  BY DEF HubInv, NixInv, HostInv, Loaded, Candidate, vars
<1> QED
  BY <1>1, NixStep, PrepareStep, CheckoutStep, RentStep, HostStep DEF Next

(* The implementation among the sources of a manifest. *)
LEMMA SourcesOf ==
    ASSUME NEW rev \in Revisions
    PROVE  /\ DOMAIN Sources(rev) = {f \in Files : rev[f] # 0}
           /\ \A f \in DOMAIN Sources(rev) : Sources(rev)[f] = rev[f]
           /\ Files = {"csrc", "added", "tests", "e2e"}
           /\ {"csrc", "tests"} \subseteq DOMAIN Sources(rev)
<1>1. Files = {"csrc", "added", "tests", "e2e"}
  BY DEF Files, FileOrder
<1> QED
  BY <1>1, RevisionsAssumption DEF Sources

(* Two manifests that agree on what is built come from the same implementation. *)
LEMMA SameImplementation ==
    ASSUME NEW one \in Revisions, NEW other \in Revisions,
           build_sources(Sources(one)) = build_sources(Sources(other)),
           NEW variant
    PROVE  \A b \in Binaries :
               Built(variant, Sources(one))[b].from = Built("any", Sources(other))[b].from
<1> DEFINE s == Sources(one)
           t == Sources(other)
<1>1. DOMAIN s \ {"e2e"} = DOMAIN t \ {"e2e"}
  <2>1. DOMAIN build_sources(s) = DOMAIN s \ {"e2e"}
        /\ DOMAIN build_sources(t) = DOMAIN t \ {"e2e"}
    BY DEF build_sources
  <2> QED
    BY <2>1
<1>2. \A f \in DOMAIN s \ {"e2e"} : s[f] = t[f]
  <2>1. \A f \in DOMAIN s \ {"e2e"} : build_sources(s)[f] = s[f]
    BY DEF build_sources
  <2>2. \A f \in DOMAIN t \ {"e2e"} : build_sources(t)[f] = t[f]
    BY DEF build_sources
  <2> QED
    BY <1>1, <2>1, <2>2
<1> HIDE DEF s, t
<1>3. DOMAIN s \cap {"csrc", "added"} = DOMAIN t \cap {"csrc", "added"}
  BY <1>1
<1>4. [f \in DOMAIN s \cap {"csrc", "added"} |-> s[f]]
          = [f \in DOMAIN t \cap {"csrc", "added"} |-> t[f]]
  BY <1>2, <1>3
<1> QED
  BY <1>4 DEF Built, s, t

LEMMA HubSafe == HubInv => VerifiedAtRevision /\ SuiteOnWholeTree
<1> SUFFICES ASSUME HubInv PROVE VerifiedAtRevision /\ SuiteOnWholeTree
  OBVIOUS
<1>1. ASSUME run.at # "none"
      PROVE  /\ TreeInv(run.tree, nix) /\ run.tree.sha \in Revisions
             /\ run.tree.upstream = Upstream(run.tree.sha) /\ run.tree.sha = run.sha
             /\ run.tree.copied = DOMAIN Sources(run.sha)
             /\ run.suite \in Suites
             /\ run.at = "suite" \/ run.candidate # None => Loaded
  <2>1. /\ TreeInv(run.tree, nix) /\ run.suite \in Suites
        /\ run.tree.upstream # None /\ run.tree.upstream.revision = run.sha
        /\ run.at = "suite" \/ run.candidate # None => Loaded
    BY <1>1 DEF HubInv, HostInv
  <2>2. /\ run.tree.sha \in Revisions /\ run.tree.upstream = Upstream(run.tree.sha)
        /\ run.tree.copied = DOMAIN Sources(run.tree.sha)
    BY <2>1 DEF TreeInv
  <2>3. run.tree.sha = run.sha
    BY <2>1, <2>2 DEF Upstream
  <2> QED
    BY <2>1, <2>2, <2>3
(* The candidate of a Nix build has all of its files. *)
<1>2. ASSUME run.at # "none", run.suite = "nix-full", Loaded
      PROVE  /\ nix.files # None /\ nix.files = nix.archive.content
             /\ run.candidate = nix.archive.content
             /\ \E rev \in Revisions : /\ nix.upstream = Upstream(rev)
                                      /\ run.candidate = Built("nix", Sources(rev))
  <2>1. nix.files # None /\ run.tree.build = Binaries
    BY <1>1, <1>2 DEF TreeInv, Loaded
  <2>2. PICK rev \in Revisions : nix.upstream = Upstream(rev)
    BY <2>1 DEF HubInv, NixInv
  <2>3. nix.archive.content = Built("nix", Sources(rev)) /\ nix.files = nix.archive.content
    BY <2>1, <2>2 DEF HubInv, NixInv, Upstream
  <2>4. run.candidate = [b \in Binaries |-> nix.archive.content[b]]
    BY <1>2, <2>1 DEF Loaded, Candidate
  <2>5. run.candidate = nix.archive.content
    BY <2>3, <2>4 DEF Built
  <2> QED
    BY <2>1, <2>2, <2>3, <2>5
<1>3. SuiteOnWholeTree
  BY <1>1, <1>2 DEF SuiteOnWholeTree, Upstream
<1>4. ASSUME NEW sha \in Revisions, verify(sha)
      PROVE  /\ run.runs = [i \in 1 .. 3 |-> [name |-> RunsOf("full")[i], exit_code |-> 0]]
             /\ run.tree.copied = DOMAIN Sources(sha)
             /\ DOMAIN run.candidate = Binaries
             /\ \A b \in Binaries :
                    run.candidate[b].from = Built("any", Sources(sha))[b].from
  <2>1. /\ run.at = "gone" /\ run.sha = sha /\ run.candidate # None
        /\ run.suite \notin {"phase1", "compile-amp"}
        /\ {run.runs[i].name : i \in DOMAIN run.runs} = {"phase1", "e2e", "e2e-amp"}
        /\ \A i \in DOMAIN run.runs : run.runs[i].exit_code = 0
        /\ VerifiedBuild
    BY <1>4 DEF verify
  <2>2. /\ run.tree.copied = DOMAIN Sources(sha) /\ run.tree.sha = sha
        /\ run.tree.upstream = Upstream(sha) /\ Loaded
        /\ run.suite \in {"full", "nix-full"}
    BY <1>1, <2>1 DEF Suites
  <2>3. run.runs = [i \in 1 .. 3 |-> [name |-> RunsOf("full")[i], exit_code |-> 0]]
    <3> DEFINE expected == <<"phase1", "e2e", "e2e-amp">>
    <3>1. RunsOf(run.suite) = expected /\ RunsOf("full") = expected
      BY <2>2 DEF RunsOf
    <3>2. /\ run.runs \in Seq([name : RunNames, exit_code : 0 .. 1])
          /\ Len(run.runs) <= 3
          /\ \A i \in 1 .. Len(run.runs) : run.runs[i].name = expected[i]
      BY <2>1, <3>1 DEF HubInv, HostInv
    <3>3. Len(run.runs) = 3
      <4>1. PICK i \in DOMAIN run.runs : run.runs[i].name = "e2e-amp"
        BY <2>1
      <4>2. i \in 1 .. Len(run.runs) /\ Len(run.runs) \in Nat
        BY <3>2, <4>1
      <4>3. expected[i] = "e2e-amp" /\ i \in 1 .. 3
        BY <3>2, <4>1, <4>2
      <4>4. i = 3
        BY <4>3
      <4> QED
        BY <3>2, <4>2, <4>4
    <3>4. ASSUME NEW i \in 1 .. 3
          PROVE  run.runs[i] = [name |-> expected[i], exit_code |-> 0]
      <4>1. PICK entry : entry = run.runs[i]
        OBVIOUS
      <4>2. entry.name = expected[i] /\ entry.exit_code = 0
        BY <2>1, <3>2, <3>3, <4>1
      <4>3. entry \in [name : RunNames, exit_code : 0 .. 1]
        BY <3>2, <3>3, <4>1, ElementOfSeq
      <4> HIDE DEF expected
      <4>4. entry = [name |-> entry.name, exit_code |-> entry.exit_code]
        BY <4>3
      <4> QED
        BY <4>1, <4>2, <4>4
    <3>5. run.runs = [i \in 1 .. 3 |-> run.runs[i]]
      BY <3>2, <3>3
    <3> QED
      BY <3>1, <3>4, <3>5
  <2>4. CASE run.suite = "nix-full"
    <3>1. PICK rev \in Revisions : /\ nix.upstream = Upstream(rev)
                                   /\ run.candidate = Built("nix", Sources(rev))
      BY <1>2, <2>1, <2>2, <2>4
    <3>2. run.tree.nix_upstream = Upstream(rev)
      BY <1>1, <2>1, <2>2, <2>4, <3>1 DEF VerifiedBuild, Loaded, TreeInv
    <3>3. build_sources(Sources(rev)) = build_sources(Sources(sha))
      BY <2>1, <2>2, <2>4, <3>2 DEF VerifiedBuild, SameSources, Upstream, Loaded
    <3>4. DOMAIN run.candidate = Binaries
      BY <3>1 DEF Built
    <3> QED
      BY <2>2, <2>3, <3>1, <3>3, <3>4, SameImplementation
  <2>5. CASE run.suite = "full"
    <3>1. run.candidate = Built("cmake", [f \in run.tree.copied |-> run.tree.sha[f]])
      BY <2>2, <2>5 DEF Loaded, Candidate
    <3>2. run.candidate = Built("cmake", Sources(sha))
      BY <2>2, <3>1 DEF Sources
    <3>3. \A b \in Binaries : run.candidate[b].from = Built("any", Sources(sha))[b].from
      BY <3>2 DEF Built
    <3>4. DOMAIN run.candidate = Binaries
      BY <3>2 DEF Built
    <3> QED
      BY <2>2, <2>3, <3>3, <3>4
  <2> QED
    BY <2>2, <2>4, <2>5
<1>5. VerifiedAtRevision
  BY <1>4 DEF VerifiedAtRevision
<1> QED
  BY <1>3, <1>5

-----------------------------------------------------------------------------
(* The theorems.                                                           *)

(* Whatever runs, is copied, mixed up, rewritten or killed in whatever     *)
(* order: the evidence of each workload has the provenance that its        *)
(* invariant states, in every reachable state.                             *)
THEOREM WorkloadsInductive == WorkloadsSpec => []WorkloadsInv
<1>1. WorkloadsInit => WorkloadsInv
  BY ReleaseInitInv, MatrixInit, HubInit DEF WorkloadsInit, WorkloadsInv
<1>2. WorkloadsInv /\ [WorkloadsNext]_allVars => WorkloadsInv'
  <2> SUFFICES ASSUME WorkloadsInv, [WorkloadsNext]_allVars PROVE WorkloadsInv'
    OBVIOUS
  <2>1. [Release!Next]_releaseVars /\ [Matrix!Next]_matrixVars /\ [Next]_vars
    BY DEF WorkloadsNext, allVars
  <2> QED
    BY <2>1, ReleaseNextInv, MatrixNextInv, HubNextInv DEF WorkloadsInv
<1> QED
  BY <1>1, <1>2, PTL DEF WorkloadsSpec

(* verify_evidence.py: a revision is verified only if one run at that      *)
(* revision went through every phase, whichever files were attached.       *)
THEOREM ReleaseBacked == WorkloadsSpec => []VerifiedRunCompleted
BY WorkloadsInductive, ReleaseSafe, PTL DEF WorkloadsInv

(* run_support_matrix.py: the rows of the summary and the files under      *)
(* their labels are of the same pairs, complete, and never mixed.          *)
THEOREM MatrixBacked == WorkloadsSpec => []RowsBacked
BY WorkloadsInductive, MatrixSafe, PTL DEF WorkloadsInv

(* verify_kernel_hub.py: what it accepts for a revision ran in full with   *)
(* that revision's tests, on a candidate made from its implementation.     *)
THEOREM PackageBacked == WorkloadsSpec => []VerifiedAtRevision
BY WorkloadsInductive, HubSafe, PTL DEF WorkloadsInv

(* run_kernel_hub_checks.sh: no suite runs on a tree that lacks a file its *)
(* manifest names, nor on part of a Nix distribution.                      *)
THEOREM WholeTreeTested == WorkloadsSpec => []SuiteOnWholeTree
BY WorkloadsInductive, HubSafe, PTL DEF WorkloadsInv

=============================================================================
