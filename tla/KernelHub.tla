------------------------------ MODULE KernelHub ------------------------------
(***************************************************************************)
(* The Kernel Hub candidate, from sources to evidence: a Nix build         *)
(* (run_kernel_hub_nix.sh) of one revision; the tree that export.py and    *)
(* prepare_kernel_hub_nix.py prepare for the GPU from that revision or a   *)
(* later one; the suite on the rented host (run_kernel_hub_checks.sh and   *)
(* gpu_suite.py); and verify_kernel_hub.py.  Anything may be killed.       *)
(*                                                                         *)
(* A revision is what it says of each file, and a hash is the content.     *)
(***************************************************************************)
EXTENDS Naturals, Sequences

CONSTANTS
    Revisions,      \* [Files -> versions], 0 for a file that is not there
    None

(* In the order in which they are exported.                                *)
FileOrder == <<
    "csrc",         \* the implementation: all that is compiled
    "added",        \* another such file, of some revisions only
    "tests",        \* of Phase 1
    "e2e">>         \* the RT-DETR harness
Files == {FileOrder[i] : i \in 1 .. 4}

ASSUME RevisionsAssumption ==
    \A rev \in Revisions : DOMAIN rev = Files /\ rev["csrc"] # 0 /\ rev["tests"] # 0

VARIABLES
    head,       \* the revision that is checked out
    nix,        \* the evidence directory of the Nix build
    prep,       \* the prepared tree
    run         \* the rented host and its output directory

vars == <<head, nix, prep, run>>

(* source_sha256 of UPSTREAM.json.                                         *)
Sources(rev) == [f \in {g \in Files : rev[g] # 0} |-> rev[f]]
build_sources(sources) == [f \in DOMAIN sources \ {"e2e"} |-> sources[f]]

Upstream(rev) == [revision |-> rev, source_sha256 |-> Sources(rev)]

(* The loaded files of a build, by how and from what it was made.          *)
Binaries == {"_C.so", "layers.py"}
Built(variant, sources) ==
    [b \in Binaries |-> [variant |-> variant,
                         from |-> [f \in DOMAIN sources \cap {"csrc", "added"} |-> sources[f]]]]

NoTree == [at |-> "none", sha |-> None, copied |-> {}, upstream |-> None, build |-> {},
           nix_build |-> None, nix_upstream |-> None]
NoRun == [at |-> "none"]

Init ==
    /\ head \in Revisions
    /\ nix = [at |-> "none", upstream |-> None, archive |-> None, sha256 |-> None, files |-> None]
    /\ prep = NoTree
    /\ run = NoRun

(* A job works on a checkout of its own; the next one may be of another    *)
(* revision.                                                               *)
Idle ==
    /\ nix.at \in {"none", "over"}
    /\ prep.at \in {"none", "done", "dead"}
    /\ run.at \in {"none", "gone"}

Checkout ==
    /\ Idle
    /\ head' \in Revisions \ {head}
    /\ UNCHANGED <<nix, prep, run>>

-----------------------------------------------------------------------------
(* run_kernel_hub_nix.sh; its evidence is kept even when it fails.         *)

NixExport ==
    /\ Idle
    /\ nix.at = "none"
    /\ nix' = [nix EXCEPT !.at = "building", !.upstream = Upstream(head)]
    /\ UNCHANGED <<head, prep, run>>

(* tar; an archive may hold what the record refuses.                       *)
NixArchive(regular) ==
    /\ nix.at = "building"
    /\ nix' = [nix EXCEPT !.at = "archived",
                          !.archive = [regular |-> regular, whole |-> TRUE,
                                       content |-> Built("nix", nix.upstream.source_sha256)]]
    /\ UNCHANGED <<head, prep, run>>

NixChecksum ==
    /\ nix.at = "archived"
    /\ nix' = [nix EXCEPT !.at = "summed", !.sha256 = nix.archive]
    /\ UNCHANGED <<head, prep, run>>

(* record: regular files below the variant, none of them twice.            *)
Record ==
    /\ nix.at = "summed"
    /\ nix.archive.regular
    /\ nix' = [nix EXCEPT !.at = "over", !.files = nix.archive.content]
    /\ UNCHANGED <<head, prep, run>>

(* It is killed, perhaps within tar.                                       *)
NixDies ==
    /\ nix.at \in {"building", "archived", "summed"}
    /\ \/ nix' = [nix EXCEPT !.at = "over"]
       \/ /\ nix.at = "building"
          /\ nix' = [nix EXCEPT !.at = "over",
                                !.archive = [regular |-> TRUE, whole |-> FALSE]]
    /\ UNCHANGED <<head, prep, run>>

-----------------------------------------------------------------------------
(* prepare, or export alone when the candidate is compiled on the host:    *)
(* each time into a new directory.                                         *)

PrepareBegin(at) ==
    /\ Idle
    /\ prep' = [NoTree EXCEPT !.at = at, !.sha = head]
    /\ UNCHANGED <<head, nix, run>>

(* The checksum of the archive, and the sources the old manifest names.    *)
PrepareCheck ==
    /\ prep.at = "nix"
    /\ nix.at = "over"
    /\ nix.archive # None /\ nix.sha256 = nix.archive
    /\ \A f \in DOMAIN build_sources(nix.upstream.source_sha256) :
           prep.sha[f] = nix.upstream.source_sha256[f]
    /\ prep' = [prep EXCEPT !.at = "nix export"]
    /\ UNCHANGED <<head, nix, run>>

Exporting == prep.at \in {"export", "nix export"}

(* write: a file is copied, with the checked substitutions.                *)
ToCopy == {f \in Files : prep.sha[f] # 0 /\ f \notin prep.copied}

ExportFile ==
    /\ Exporting
    /\ \E i \in 1 .. 4 :
        /\ FileOrder[i] \in ToCopy /\ \A j \in 1 .. i - 1 : FileOrder[j] \notin ToCopy
        /\ prep' = [prep EXCEPT !.copied = @ \cup {FileOrder[i]}]
    /\ UNCHANGED <<head, nix, run>>

(* Mutant: the manifest comes first. *)
ManifestMayBeWritten == Exporting

(* UPSTREAM.json comes last.                                               *)
ManifestIsDue == Exporting /\ ToCopy = {}

ExportManifest ==
    /\ ManifestIsDue
    /\ prep.upstream = None
    /\ prep' = [prep EXCEPT !.at = IF @ = "export" THEN "done" ELSE "extract",
                            !.upstream = Upstream(prep.sha)]
    /\ UNCHANGED <<head, nix, run>>

Extract(b) ==
    /\ prep.at = "extract"
    /\ nix.files # None /\ nix.archive.content[b] = nix.files[b]
    /\ b \notin prep.build
    /\ prep' = [prep EXCEPT !.build = @ \cup {b}]
    /\ UNCHANGED <<head, nix, run>>

Provenance ==
    /\ prep.at = "extract"
    /\ prep.build = Binaries
    /\ prep' = [prep EXCEPT !.at = "original",
                            !.nix_build = [artifact_source_sha |-> nix.upstream.revision,
                                           archive |-> nix.archive, files |-> nix.files]]
    /\ UNCHANGED <<head, nix, run>>

Original ==
    /\ prep.at = "original"
    /\ prep' = [prep EXCEPT !.at = "done", !.nix_upstream = nix.upstream]
    /\ UNCHANGED <<head, nix, run>>

(* A check refuses, or it is killed: the directory is left as it is.       *)
PrepareDies ==
    /\ prep.at \notin {"none", "done", "dead"}
    /\ prep' = [prep EXCEPT !.at = "dead"]
    /\ UNCHANGED <<head, nix, run>>

-----------------------------------------------------------------------------
(* The rented host.                                                        *)

Suites == {"full", "nix-full", "phase1", "compile-amp"}

(* The five precisions, gathered by whether they autocast.                 *)
RunsOf(suite) ==
    IF suite = "phase1" THEN <<"phase1">>
    ELSE IF suite = "compile-amp" THEN <<"e2e-amp">>
    ELSE <<"phase1", "e2e", "e2e-amp">>

(* run_session, given any prepared tree: its revision has to be the one    *)
(* that is archived.                                                       *)
Rent(suite) ==
    /\ run.at \in {"none", "gone"}
    /\ prep.at \in {"done", "dead"}
    /\ prep.upstream # None /\ prep.upstream.revision = head
    /\ run' = [at |-> "rented", suite |-> suite, sha |-> head, tree |-> prep,
               candidate |-> None, runs |-> <<>>, status |-> "failed"]
    /\ UNCHANGED <<head, nix, prep>>

(* What the host loads: the files of the Nix build as they were extracted, *)
(* or the result of compiling the tree.                                    *)
Candidate(suite, tree) ==
    IF suite = "nix-full"
    THEN [b \in tree.build |-> nix.archive.content[b]]
    ELSE Built("cmake", [f \in tree.copied |-> tree.sha[f]])

(* run_kernel_hub_checks.sh up to gpu_suite.py, and its check of what it   *)
(* loaded.                                                                 *)
Load ==
    LET tree == run.tree
        candidate == Candidate(run.suite, tree)
    IN  /\ run.at = "rented"
        /\ run.suite = "nix-full" => tree.nix_build # None
        /\ run.suite = "nix-full" => tree.nix_upstream # None
        /\ tree.nix_build # None => candidate = tree.nix_build.files
        /\ run' = [run EXCEPT !.at = "suite", !.candidate = candidate]
        /\ UNCHANGED <<head, nix, prep>>

(* One after the other, whatever became of the one before.                 *)
SuiteRun(exit) ==
    /\ run.at = "suite"
    /\ Len(run.runs) < Len(RunsOf(run.suite))
    /\ run' = [run EXCEPT !.runs =
           Append(@, [name |-> RunsOf(run.suite)[Len(@) + 1], exit_code |-> exit])]
    /\ UNCHANGED <<head, nix, prep>>

SuiteEnds ==
    /\ run.at = "suite"
    /\ Len(run.runs) = Len(RunsOf(run.suite))
    /\ run' = [run EXCEPT !.at = "over",
                          !.status = IF \A i \in DOMAIN run.runs : run.runs[i].exit_code = 0
                                     THEN "passed" ELSE "failed"]
    /\ UNCHANGED <<head, nix, prep>>

(* A command fails, the host is lost, or its time is up.                   *)
HostDies ==
    /\ run.at \in {"rented", "suite"}
    /\ run' = [run EXCEPT !.at = "over"]
    /\ UNCHANGED <<head, nix, prep>>

Deleted ==
    /\ run.at = "over"
    /\ run' = [run EXCEPT !.at = "gone"]
    /\ UNCHANGED <<head, nix, prep>>

Next ==
    \/ Checkout
    \/ NixExport \/ (\E regular \in BOOLEAN : NixArchive(regular)) \/ NixChecksum \/ Record \/ NixDies
    \/ (\E at \in {"nix", "export"} : PrepareBegin(at)) \/ PrepareCheck
    \/ ExportFile \/ ExportManifest
    \/ (\E b \in Binaries : Extract(b)) \/ Provenance \/ Original \/ PrepareDies
    \/ (\E suite \in Suites : Rent(suite)) \/ Load
    \/ (\E exit \in 0 .. 1 : SuiteRun(exit))
    \/ SuiteEnds \/ HostDies \/ Deleted

Spec == Init /\ [][Next]_vars

-----------------------------------------------------------------------------
(* verify, of the files the host left and the controller's state.          *)

(* Mutant: no comparison of the manifests. *)
SameSourcesAssumed(original, upstream) == TRUE

SameSources(original, upstream) ==
    build_sources(original.source_sha256) = build_sources(upstream.source_sha256)

(* With the candidate's record, when there is one.                         *)
VerifiedBuild ==
    LET tree == run.tree
    IN  tree.nix_build # None =>
            /\ tree.nix_upstream # None
            /\ tree.nix_upstream.revision = tree.nix_build.artifact_source_sha
            /\ SameSources(tree.nix_upstream, tree.upstream)
            /\ run.candidate = tree.nix_build.files

(* A suite with no test at all also exits 0.                               *)
TestsRun == IF "tests" \in run.tree.copied THEN 3 ELSE 0

(* The harness of a report is that of the archived revision.               *)
verify(sha) ==
    /\ run.at \in {"over", "gone"}
    /\ run.candidate # None
    /\ run.sha = sha /\ run.tree.upstream.revision = sha
    /\ run.status = "passed"
    /\ run.suite \notin {"phase1", "compile-amp"}
    /\ {run.runs[i].name : i \in DOMAIN run.runs} = {"phase1", "e2e", "e2e-amp"}
    /\ \A i \in DOMAIN run.runs : run.runs[i].exit_code = 0
    /\ run.at = "gone"
    /\ TestsRun = 3
    /\ VerifiedBuild
    /\ run.sha["e2e"] = run.tree.upstream.source_sha256["e2e"]

-----------------------------------------------------------------------------
(* Properties.                                                             *)

(* "Phase 1 and all 20 RT-DETR cases verified for" a revision: the whole   *)
(* suite passed with that revision's tests and harness, on one candidate,  *)
(* every file of which was made from exactly the implementation of that    *)
(* revision, wherever and from whichever revision it was built.            *)
VerifiedAtRevision ==
    \A sha \in Revisions : verify(sha) =>
        /\ run.runs = [i \in 1 .. 3 |-> [name |-> RunsOf("full")[i], exit_code |-> 0]]
        /\ run.tree.copied = DOMAIN Sources(sha)
        /\ DOMAIN run.candidate = Binaries
        /\ \A b \in Binaries :
               run.candidate[b].from = Built("any", Sources(sha))[b].from

(* Whatever was killed before, the suite never runs on a tree that lacks   *)
(* a file its manifest names, nor on part of a Nix distribution.           *)
SuiteOnWholeTree ==
    run.at = "suite" =>
        /\ DOMAIN run.tree.upstream.source_sha256 = run.tree.copied
        /\ run.suite = "nix-full" => run.candidate = nix.archive.content

=============================================================================
