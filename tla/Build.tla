-------------------------------- MODULE Build --------------------------------
(***************************************************************************)
(* setup.py: builds of the extension module, one after the other in the    *)
(* same source tree and with changing options, any of which may fail at    *)
(* any step.  Objects, the linked library and the installed module stay    *)
(* where the last build to write them left them.                           *)
(***************************************************************************)
EXTENDS Naturals, FiniteSets

CONSTANTS
    Hosts,      \* records of what setup.py finds on a host
    Options,    \* records of the variables it is given
    None

(* PyTorch for macOS, alone to have MPS, has no CUDA; distutils reads      *)
(* CXXFLAGS for Unix compilers only.                                       *)
ASSUME HostsAssumption ==
    \A h \in Hosts :
        /\ h.aten \in {"openmp", "native", "serial"}
        /\ h.mps => ~h.toolkit
        /\ h.system = "windows" => h.cxxflags # "-fopenmp"

ASSUME NoneAssumption == None \notin {"openmp", "native", "serial"}

VARIABLES
    host,       \* the host, always the same
    objects,    \* [Units -> their object files, or None]
    library,    \* what was linked last, or None
    installed,  \* the module that is imported, or None
    build       \* the build in progress, or the last one

vars == <<host, objects, library, installed, build>>

Units == {"vision", "cpu", "accelerator"}

Init ==
    /\ host \in Hosts
    /\ objects = [u \in Units |-> None]
    /\ library = None
    /\ installed = None
    /\ build = [at |-> "none"]

-----------------------------------------------------------------------------
(* The choice of the accelerator.                                          *)

with_mps(opt) == host.mps /\ ~opt.cpu /\ ~opt.cuda /\ opt.mps # "0"
with_cuda(opt) == ~opt.cpu /\ host.toolkit /\ (opt.cuda \/ host.gpu)

Accelerator(opt) ==
    IF with_cuda(opt) THEN "WITH_CUDA" ELSE IF with_mps(opt) THEN "WITH_MPS" ELSE "none"

Contradictory(opt) ==
    \/ opt.mps = "1" /\ (opt.cpu \/ opt.cuda \/ ~host.mps)
    \/ opt.cpu /\ opt.cuda
    \/ opt.cuda /\ ~host.toolkit

(* macos_target_flags: for this architecture only.                         *)
ForeignTarget(opt) == host.system = "darwin" /\ opt.arch = "other"

-----------------------------------------------------------------------------
(* The choice of the CPU backend.                                          *)

(* Mutant: the runtime next to PyTorch, whatever is loaded. *)
macos_bundled_runtime == IF host.bundled THEN "torch" ELSE None

(* The OpenMP runtime that importing PyTorch loaded.                       *)
macos_openmp_runtime ==
    IF Cardinality(host.loaded) = 1 THEN CHOOSE r \in host.loaded : TRUE
    ELSE IF host.loaded = {} /\ host.bundled THEN "torch"
    ELSE None

Runtime ==
    IF host.system = "darwin" THEN macos_openmp_runtime
    ELSE IF host.bundled THEN "torch"
    ELSE "compiler"

(* Some include directory and option that compile and link; an explicit    *)
(* prefix has to have the header.                                          *)
openmp_flags_found(opt) ==
    /\ host.system # "windows"
    /\ opt.prefix # "nothing"
    /\ Runtime # None
    /\ host.header \/ opt.prefix = "omp.h"

Backend(opt) ==
    IF host.aten # "openmp" THEN host.aten
    ELSE IF opt.openmp # "0" /\ openmp_flags_found(opt) THEN "openmp"
    ELSE "serial"

OpenMPMissing(opt) == opt.openmp = "1" /\ Backend(opt) # "openmp"

OpenMPFlag(opt) ==
    IF host.aten # "openmp" THEN ""
    ELSE IF Backend(opt) = "openmp" THEN "-fopenmp"
    ELSE IF host.system # "windows" THEN "-fno-openmp"
    ELSE ""

-----------------------------------------------------------------------------
(* A build.                                                                *)

Building == build.at \in {"compiling", "linked"}

(* Mutant: without self.force, a library newer than its sources stays. *)
MustBuildMissing == library = None

(* self.force: flags are not among what build_ext compares.                *)
MustBuild == TRUE

Refuses(opt) == Contradictory(opt) \/ ForeignTarget(opt) \/ OpenMPMissing(opt)

Refuse(opt) ==
    /\ ~Building
    /\ Refuses(opt)
    /\ build' = [at |-> "refused", options |-> opt]
    /\ UNCHANGED <<host, objects, library, installed>>

(* The backend is printed before anything is compiled.                     *)
Configure(opt) ==
    /\ ~Building
    /\ ~Refuses(opt)
    /\ build' = [at |-> IF MustBuild THEN "compiling" ELSE "linked", options |-> opt,
                 units |-> IF Accelerator(opt) = "none" THEN {"vision", "cpu"} ELSE Units,
                 flags |-> [macro |-> Accelerator(opt), openmp |-> OpenMPFlag(opt)],
                 ninja |-> opt.ninja /\ host.ninja,
                 reported |-> Backend(opt), compiled |-> {}]
    /\ UNCHANGED <<host, objects, library, installed>>

(* Ninja keeps an object that it made itself by the same command; distutils *)
(* compiles all.                                                           *)
UpToDate(u) ==
    /\ build.ninja
    /\ objects[u] # None
    /\ objects[u].by = "ninja" /\ objects[u].flags = build.flags

Compile(u) ==
    /\ build.at = "compiling"
    /\ u \in build.units \ build.compiled
    /\ build' = [build EXCEPT !.compiled = @ \cup {u}]
    /\ objects' = IF UpToDate(u) THEN objects
                  ELSE [objects EXCEPT ![u] =
                           [flags |-> build.flags, newer |-> TRUE,
                            by |-> IF build.ninja THEN "ninja" ELSE "distutils"]]
    /\ UNCHANGED <<host, library, installed>>

(* The linker runs if an object is newer than the library.                 *)
Link ==
    /\ build.at = "compiling"
    /\ build.compiled = build.units
    /\ IF library = None \/ \E u \in build.units : objects[u].newer
       THEN /\ library' = [units |-> [u \in build.units |-> objects[u].flags],
                           runtime |-> IF build.flags.openmp = "-fopenmp" THEN Runtime ELSE None]
            /\ objects' = [u \in Units |-> IF objects[u] = None THEN None
                                           ELSE [objects[u] EXCEPT !.newer = FALSE]]
       ELSE UNCHANGED <<library, objects>>
    /\ build' = [build EXCEPT !.at = "linked"]
    /\ UNCHANGED <<host, installed>>

(* The library is copied into the package.                                 *)
Install ==
    /\ build.at = "linked"
    /\ installed' = library
    /\ build' = [build EXCEPT !.at = "built"]
    /\ UNCHANGED <<host, objects, library>>

(* The compiler or the linker fails, or the build is killed.               *)
BuildFails ==
    /\ Building
    /\ build' = [at |-> "failed"]
    /\ UNCHANGED <<host, objects, library, installed>>

Next ==
    \/ \E opt \in Options : Refuse(opt) \/ Configure(opt)
    \/ \E u \in Units : Compile(u)
    \/ Link \/ Install \/ BuildFails

Spec == Init /\ [][Next]_vars

-----------------------------------------------------------------------------
(* ms_deform_attn_cpu_parallel_backend, in the translation unit of the CPU *)
(* kernels; CXXFLAGS may ask for OpenMP, too.                              *)
_OPENMP(flags) ==
    flags.openmp = "-fopenmp" \/ (flags.openmp = "" /\ host.cxxflags = "-fopenmp")

cpu_parallel_backend(module) ==
    IF host.aten = "openmp" /\ _OPENMP(module.units["cpu"]) THEN "openmp"
    ELSE IF host.aten = "native" THEN "native"
    ELSE "serial"

(* validate_cpu_builds.py: the transitions that it tries on a host where   *)
(* OpenMP works.                                                           *)
Case(openmp, prefix, ninja) ==
    [cpu |-> TRUE, cuda |-> FALSE, mps |-> "auto", arch |-> "own",
     openmp |-> openmp, prefix |-> prefix, ninja |-> ninja]

ExpectedBackend ==
    <<[options |-> Case("auto", "unset", TRUE), backend |-> "openmp"],
      [options |-> Case("0", "unset", FALSE), backend |-> "serial"],
      [options |-> Case("auto", "nothing", FALSE), backend |-> "serial"],
      [options |-> Case("1", "nothing", TRUE), backend |-> None],
      [options |-> Case("1", "unset", TRUE), backend |-> "openmp"]>>

-----------------------------------------------------------------------------
(* Properties.                                                             *)

(* Whatever was built, failed or killed before, and however objects and    *)
(* libraries were reused, a build that ends installs its own module: of    *)
(* its own sources, compiled by its own options throughout, with the       *)
(* backend that it reported; and at no time is a module of several builds  *)
(* installed.                                                              *)
InstalledAsReported ==
    /\ installed # None =>
           \A u, v \in DOMAIN installed.units : installed.units[u] = installed.units[v]
    /\ build.at = "built" =>
           /\ installed.units = [u \in build.units |-> build.flags]
           /\ cpu_parallel_backend(installed) = build.reported

(* docs/installation.md: a build that ends honours what the options        *)
(* require or forbid, the transitions of validate_cpu_builds.py come to    *)
(* what they expect, and on macOS no second OpenMP runtime is loaded.      *)
OptionsHonoured ==
    /\ build.at = "built" =>
           /\ build.options.openmp = "1" => cpu_parallel_backend(installed) = "openmp"
           /\ build.options.openmp = "0" => cpu_parallel_backend(installed) # "openmp"
           /\ build.options.cpu => "accelerator" \notin DOMAIN installed.units
           /\ build.options.cuda => installed.units["vision"].macro = "WITH_CUDA"
           /\ build.options.mps = "1" => installed.units["vision"].macro = "WITH_MPS"
           /\ host.system = "darwin" /\ host.loaded # {} =>
                  installed.runtime \in host.loaded \cup {None}
    /\ \A i \in DOMAIN ExpectedBackend :
           build.at \in {"built", "refused"} /\ build.options = ExpectedBackend[i].options
           /\ host.aten = "openmp" /\ host.header /\ host.system # "windows" /\ Runtime # None
           => IF ExpectedBackend[i].backend = None THEN build.at = "refused"
              ELSE build.at = "built" /\ cpu_parallel_backend(installed) = ExpectedBackend[i].backend

=============================================================================
