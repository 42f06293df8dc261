---------------------------- MODULE Build_proofs ----------------------------
(***************************************************************************)
(* What is installed is what was asked for, for every set of hosts and of  *)
(* options and every sequence of builds in one tree.                       *)
(*                                                                         *)
(* Objects and the library outlive the build that wrote them, so neither   *)
(* property is inductive.  What makes reuse sound is that an object that   *)
(* is no newer than the library has the flags that the library was linked  *)
(* from (LibraryInv): a linker that finds none newer among the objects of  *)
(* this build leaves a library of this build's flags, whoever linked it.   *)
(***************************************************************************)
EXTENDS Build, TLAPS

Flags == [macro : {"WITH_CUDA", "WITH_MPS", "none"},
          openmp : {"", "-fopenmp", "-fno-openmp"}]

ObjectFiles == [flags : Flags, newer : BOOLEAN, by : {"ninja", "distutils"}]

UnitsOf(flags) == IF flags.macro = "none" THEN {"vision", "cpu"} ELSE Units

FlagsOf(opt) == [macro |-> Accelerator(opt), openmp |-> OpenMPFlag(opt)]

(* The library of a clean build with these flags. *)
LibraryOf(flags) ==
    [units |-> [u \in UnitsOf(flags) |-> flags],
     runtime |-> IF flags.openmp = "-fopenmp" THEN Runtime ELSE None]

(* A build goes by its options. *)
ConfiguredInv ==
    /\ build.at \in {"none", "refused", "compiling", "linked", "built", "failed"}
    /\ build.at = "refused" => Refuses(build.options)
    /\ build.at \in {"compiling", "linked", "built"} =>
           /\ DOMAIN build = {"at", "options", "units", "flags", "ninja", "reported", "compiled"}
           /\ ~Refuses(build.options)
           /\ build.flags = FlagsOf(build.options)
           /\ build.units = UnitsOf(build.flags)
           /\ build.reported = Backend(build.options)
           /\ \A u \in build.compiled : u \in Units

(* What is compiled has this build's flags, made now or found. *)
ObjectsInv ==
    build.at = "compiling" =>
        \A u \in build.compiled : objects[u] \in ObjectFiles /\ objects[u].flags = build.flags

LibraryInv ==
    /\ library # None =>
           \E f \in Flags :
               /\ library = LibraryOf(f)
               /\ \A u \in UnitsOf(f) :
                      /\ objects[u] \in ObjectFiles
                      /\ ~objects[u].newer => objects[u].flags = f
    /\ build.at = "linked" => library = LibraryOf(build.flags)

InstalledInv ==
    /\ installed # None => \E f \in Flags : installed = LibraryOf(f)
    /\ build.at = "built" => installed = LibraryOf(build.flags)

BuildInv ==
    /\ host \in Hosts
    /\ objects \in [Units -> ObjectFiles \cup {None}]
    /\ ConfiguredInv
    /\ ObjectsInv
    /\ LibraryInv
    /\ InstalledInv

-----------------------------------------------------------------------------
(* What depends on the host and the options only.                          *)

LEMMA SameRuntime == host' = host => Runtime' = Runtime
BY DEF Runtime, macos_openmp_runtime

(* The decisions are the same in every step: the host is. *)
LEMMA SameDecisions ==
    ASSUME host' = host, NEW opt
    PROVE  /\ Backend(opt)' = Backend(opt)
           /\ FlagsOf(opt)' = FlagsOf(opt)
           /\ Refuses(opt)' <=> Refuses(opt)
<1>1. openmp_flags_found(opt)' <=> openmp_flags_found(opt)
  BY SameRuntime DEF openmp_flags_found
<1>2. Backend(opt)' = Backend(opt)
  BY <1>1 DEF Backend
<1>3. FlagsOf(opt)' = FlagsOf(opt)
  BY <1>2 DEF FlagsOf, Accelerator, with_cuda, with_mps, OpenMPFlag
<1>4. Refuses(opt)' <=> Refuses(opt)
  BY <1>2 DEF Refuses, Contradictory, ForeignTarget, OpenMPMissing
<1> QED
  BY <1>2, <1>3, <1>4

LEMMA SameLibrary ==
    ASSUME host' = host, NEW flags
    PROVE  LibraryOf(flags)' = LibraryOf(flags)
BY SameRuntime DEF LibraryOf

LEMMA FlagsType == \A opt : FlagsOf(opt) \in Flags
BY DEF FlagsOf, Flags, Accelerator, OpenMPFlag

LEMMA UnitsType == \A flags : UnitsOf(flags) \subseteq Units /\ {"vision", "cpu"} \subseteq UnitsOf(flags)
BY DEF UnitsOf, Units

(* The diagnostic of the installed library tells what was reported. *)
LEMMA Diagnosed ==
    ASSUME NEW opt, host \in Hosts
    PROVE  cpu_parallel_backend(LibraryOf(FlagsOf(opt))) = Backend(opt)
<1> DEFINE f == FlagsOf(opt)
           l == LibraryOf(f)
<1>1. l.units["cpu"] = f
  BY UnitsType DEF LibraryOf
<1>2. f.openmp = OpenMPFlag(opt)
  BY DEF FlagsOf
<1>3. cpu_parallel_backend(l) =
          IF host.aten = "openmp"
             /\ (f.openmp = "-fopenmp" \/ (f.openmp = "" /\ host.cxxflags = "-fopenmp"))
          THEN "openmp"
          ELSE IF host.aten = "native" THEN "native" ELSE "serial"
  BY <1>1 DEF cpu_parallel_backend, _OPENMP
<1> SUFFICES cpu_parallel_backend(l) = Backend(opt)
  OBVIOUS
<1> HIDE DEF f, l
<1>4. host.aten \in {"openmp", "native", "serial"}
  BY HostsAssumption
<1>5. CASE host.aten # "openmp"
  BY <1>3, <1>4, <1>5 DEF Backend
<1>6. CASE host.aten = "openmp" /\ Backend(opt) = "openmp"
  BY <1>2, <1>3, <1>6 DEF OpenMPFlag
<1>7. CASE host.aten = "openmp" /\ Backend(opt) # "openmp"
  <2>1. Backend(opt) = "serial"
    BY <1>7 DEF Backend
  <2>2. f.openmp = "-fno-openmp" \/ (f.openmp = "" /\ host.system = "windows")
    BY <1>2, <1>7 DEF OpenMPFlag
  <2>3. host.system = "windows" => host.cxxflags # "-fopenmp"
    BY HostsAssumption
  <2> QED
    BY <1>3, <1>7, <2>1, <2>2, <2>3
<1> QED
  BY <1>5, <1>6, <1>7

-----------------------------------------------------------------------------
(* The invariant.                                                          *)

LEMMA InitBuild == Init => BuildInv
BY DEF Init, BuildInv, ConfiguredInv, ObjectsInv, LibraryInv, InstalledInv

LEMMA RefuseStep ==
    ASSUME BuildInv, NEW opt, Refuse(opt)
    PROVE  BuildInv'
<1> USE DEF Refuse
<1>1. host' \in Hosts /\ objects' \in [Units -> ObjectFiles \cup {None}]
  BY DEF BuildInv
<1>2. ConfiguredInv'
  <2>1. build'.at = "refused" /\ build'.options = opt
    OBVIOUS
  <2>2. Refuses(opt)'
    BY SameDecisions
  <2> QED
    BY <2>1, <2>2 DEF ConfiguredInv
<1>3. ObjectsInv'
  BY DEF ObjectsInv
<1>4. LibraryInv'
  BY SameLibrary DEF BuildInv, LibraryInv
<1>5. InstalledInv'
  BY SameLibrary DEF BuildInv, InstalledInv
<1> QED
  BY <1>1, <1>2, <1>3, <1>4, <1>5 DEF BuildInv

LEMMA ConfigureStep ==
    ASSUME BuildInv, NEW opt, Configure(opt)
    PROVE  BuildInv'
<1>0. /\ host' = host /\ objects' = objects /\ library' = library /\ installed' = installed
      /\ build'.at = "compiling" /\ build'.options = opt
      /\ build'.units = IF Accelerator(opt) = "none" THEN {"vision", "cpu"} ELSE Units
      /\ build'.flags = FlagsOf(opt)
      /\ build'.reported = Backend(opt)
      /\ build'.compiled = {}
      /\ ~Refuses(opt)
      /\ DOMAIN build' = {"at", "options", "units", "flags", "ninja", "reported", "compiled"}
  BY DEF Configure, MustBuild, FlagsOf
<1>1. host' \in Hosts /\ objects' \in [Units -> ObjectFiles \cup {None}]
  BY <1>0 DEF BuildInv
<1>2. ConfiguredInv'
  <2>1. FlagsOf(opt)' = FlagsOf(opt) /\ Backend(opt)' = Backend(opt) /\ ~Refuses(opt)'
    BY <1>0, SameDecisions
  <2>2. build'.units = UnitsOf(FlagsOf(opt))
    BY <1>0 DEF UnitsOf, FlagsOf
  <2> QED
    BY <1>0, <2>1, <2>2 DEF ConfiguredInv
<1>3. ObjectsInv'
  BY <1>0 DEF ObjectsInv
<1>4. LibraryInv'
  BY <1>0, SameLibrary DEF BuildInv, LibraryInv
<1>5. InstalledInv'
  BY <1>0, SameLibrary DEF BuildInv, InstalledInv
<1> QED
  BY <1>1, <1>2, <1>3, <1>4, <1>5 DEF BuildInv

(* A build that goes on goes by the same options. *)
LEMMA Continues ==
    ASSUME BuildInv, host' = host, build.at \in {"compiling", "linked"},
           build'.at \in {"compiling", "linked", "built"},
           DOMAIN build' = DOMAIN build, build'.options = build.options,
           build'.units = build.units, build'.flags = build.flags,
           build'.reported = build.reported,
           \A u \in build'.compiled : u \in Units
    PROVE  ConfiguredInv'
<1> DEFINE opt == build.options
<1>1. FlagsOf(opt)' = FlagsOf(opt) /\ Backend(opt)' = Backend(opt) /\ ~Refuses(opt)'
  BY SameDecisions DEF BuildInv, ConfiguredInv
<1> QED
  BY <1>1 DEF BuildInv, ConfiguredInv

LEMMA CompileStep ==
    ASSUME BuildInv, NEW u \in Units, Compile(u)
    PROVE  BuildInv'
<1>0. /\ host' = host /\ library' = library /\ installed' = installed
      /\ build.at = "compiling" /\ u \in build.units
      /\ build' = [build EXCEPT !.compiled = @ \cup {u}]
      /\ objects' = IF UpToDate(u) THEN objects
                    ELSE [objects EXCEPT ![u] =
                             [flags |-> build.flags, newer |-> TRUE,
                              by |-> IF build.ninja THEN "ninja" ELSE "distutils"]]
  BY DEF Compile
<1>1. /\ DOMAIN build = {"at", "options", "units", "flags", "ninja", "reported", "compiled"}
      /\ build.flags \in Flags
      /\ \A v \in build.compiled : v \in Units
  BY <1>0, FlagsType DEF BuildInv, ConfiguredInv
<1>2. /\ build'.at = "compiling" /\ build'.options = build.options
      /\ build'.units = build.units /\ build'.flags = build.flags
      /\ build'.reported = build.reported
      /\ build'.compiled = build.compiled \cup {u}
      /\ DOMAIN build' = DOMAIN build
  BY <1>0, <1>1
<1>3. objects \in [Units -> ObjectFiles \cup {None}]
  BY DEF BuildInv
<1>4. /\ objects' \in [Units -> ObjectFiles \cup {None}]
      /\ \A v \in Units \ {u} : objects'[v] = objects[v]
      /\ objects'[u] \in ObjectFiles
      /\ objects'[u].flags = build.flags
      /\ objects'[u] = objects[u] \/ objects'[u].newer
  <2>1. CASE UpToDate(u)
    BY <1>0, <1>3, <2>1 DEF UpToDate
  <2>2. CASE ~UpToDate(u)
    <3> DEFINE o == [flags |-> build.flags, newer |-> TRUE,
                     by |-> IF build.ninja THEN "ninja" ELSE "distutils"]
    <3>1. o \in ObjectFiles /\ o.flags = build.flags /\ o.newer
      BY <1>1 DEF ObjectFiles
    <3> HIDE DEF o
    <3>2. objects' = [objects EXCEPT ![u] = o]
      BY <1>0, <2>2 DEF o
    <3> QED
      BY <1>3, <3>1, <3>2
  <2> QED
    BY <2>1, <2>2
<1>5. ConfiguredInv'
  BY <1>0, <1>1, <1>2, Continues
<1>6. ObjectsInv'
  BY <1>0, <1>1, <1>2, <1>4 DEF BuildInv, ObjectsInv
<1>7. LibraryInv'
  <2>1. SUFFICES ASSUME library # None
                 PROVE  \E f \in Flags :
                            /\ library = LibraryOf(f)
                            /\ \A v \in UnitsOf(f) :
                                   /\ objects'[v] \in ObjectFiles
                                   /\ ~objects'[v].newer => objects'[v].flags = f
    BY <1>0, <1>2, SameLibrary DEF LibraryInv
  <2>2. PICK f \in Flags :
            /\ library = LibraryOf(f)
            /\ \A v \in UnitsOf(f) :
                   /\ objects[v] \in ObjectFiles
                   /\ ~objects[v].newer => objects[v].flags = f
    BY <2>1 DEF BuildInv, LibraryInv
  <2> QED
    BY <2>2, <1>4, UnitsType
<1>8. InstalledInv'
  BY <1>0, <1>2, SameLibrary DEF BuildInv, InstalledInv
<1> QED
  BY <1>0, <1>4, <1>5, <1>6, <1>7, <1>8 DEF BuildInv

(* What the linker leaves has this build's flags, linked now or before. *)
LEMMA LinkStep ==
    ASSUME BuildInv, Link
    PROVE  BuildInv'
<1> DEFINE new == [units |-> [u \in build.units |-> objects[u].flags],
                   runtime |-> IF build.flags.openmp = "-fopenmp" THEN Runtime ELSE None]
           reset == [u \in Units |-> IF objects[u] = None THEN None
                                     ELSE [objects[u] EXCEPT !.newer = FALSE]]
<1>0. /\ host' = host /\ installed' = installed
      /\ build.at = "compiling" /\ build.compiled = build.units
      /\ build' = [build EXCEPT !.at = "linked"]
      /\ IF library = None \/ \E u \in build.units : objects[u].newer
         THEN library' = new /\ objects' = reset
         ELSE library' = library /\ objects' = objects
  BY DEF Link
<1>1. /\ DOMAIN build = {"at", "options", "units", "flags", "ninja", "reported", "compiled"}
      /\ build.flags \in Flags
      /\ build.units = UnitsOf(build.flags)
      /\ \A u \in build.units : objects[u] \in ObjectFiles /\ objects[u].flags = build.flags
      /\ objects \in [Units -> ObjectFiles \cup {None}]
  BY <1>0, FlagsType DEF BuildInv, ConfiguredInv, ObjectsInv
<1>2. /\ build'.at = "linked" /\ build'.options = build.options
      /\ build'.units = build.units /\ build'.flags = build.flags
      /\ build'.reported = build.reported /\ build'.compiled = build.compiled
      /\ DOMAIN build' = DOMAIN build
  BY <1>0, <1>1
<1>3. ConfiguredInv'
  <2>1. \A u \in build'.compiled : u \in Units
    BY <1>0, <1>2 DEF BuildInv, ConfiguredInv
  <2> QED
    BY <1>0, <1>2, <2>1, Continues
<1>4. ObjectsInv'
  BY <1>2 DEF ObjectsInv
<1>5. InstalledInv'
  BY <1>0, <1>2, SameLibrary DEF BuildInv, InstalledInv
<1>6. new = LibraryOf(build.flags)
  <2>1. [u \in build.units |-> objects[u].flags] = [u \in UnitsOf(build.flags) |-> build.flags]
    BY <1>1
  <2> QED
    BY <2>1 DEF LibraryOf
<1>7. \A u \in Units : objects[u] \in ObjectFiles =>
          /\ reset[u] \in ObjectFiles
          /\ reset[u].flags = objects[u].flags
  <2> TAKE u \in Units
  <2> HAVE objects[u] \in ObjectFiles
  <2>1. CASE objects[u] = None
    BY <2>1
  <2>2. CASE objects[u] # None
    BY <2>2 DEF ObjectFiles
  <2> QED
    BY <2>1, <2>2
<1>8. reset \in [Units -> ObjectFiles \cup {None}]
  BY <1>1, <1>7
<1> HIDE DEF new, reset
<1>9. CASE library = None \/ \E u \in build.units : objects[u].newer
  <2>1. library' = LibraryOf(build.flags) /\ objects' = reset
    BY <1>0, <1>6, <1>9
  <2>2. \A u \in UnitsOf(build.flags) :
            objects'[u] \in ObjectFiles /\ objects'[u].flags = build.flags
    BY <2>1, <1>1, <1>7, UnitsType
  <2>3. LibraryInv'
    BY <1>0, <1>1, <1>2, <2>1, <2>2, SameLibrary DEF LibraryInv
  <2> QED
    BY <1>0, <1>3, <1>4, <1>5, <1>8, <2>1, <2>3 DEF BuildInv
<1>10. CASE ~(library = None \/ \E u \in build.units : objects[u].newer)
  <2>1. library' = library /\ objects' = objects
    BY <1>0, <1>10
  <2>2. PICK f \in Flags :
            /\ library = LibraryOf(f)
            /\ \A u \in UnitsOf(f) :
                   /\ objects[u] \in ObjectFiles
                   /\ ~objects[u].newer => objects[u].flags = f
    BY <1>10 DEF BuildInv, LibraryInv
  <2>3. f = build.flags
    <3>1. "cpu" \in UnitsOf(f) /\ "cpu" \in build.units
      BY <1>1, UnitsType
    <3> QED
      BY <3>1, <2>2, <1>1, <1>10
  <2>4. LibraryInv'
    BY <1>0, <1>2, <2>1, <2>2, <2>3, SameLibrary DEF LibraryInv
  <2> QED
    BY <1>0, <1>1, <1>3, <1>4, <1>5, <2>1, <2>4 DEF BuildInv
<1> QED
  BY <1>9, <1>10

LEMMA InstallStep ==
    ASSUME BuildInv, Install
    PROVE  BuildInv'
<1>0. /\ host' = host /\ objects' = objects /\ library' = library /\ installed' = library
      /\ build.at = "linked"
      /\ build' = [build EXCEPT !.at = "built"]
  BY DEF Install
<1>1. /\ DOMAIN build = {"at", "options", "units", "flags", "ninja", "reported", "compiled"}
      /\ \A u \in build.compiled : u \in Units
      /\ build.flags \in Flags
      /\ library = LibraryOf(build.flags)
  BY <1>0, FlagsType DEF BuildInv, ConfiguredInv, LibraryInv
<1>2. /\ build'.at = "built" /\ build'.options = build.options
      /\ build'.units = build.units /\ build'.flags = build.flags
      /\ build'.reported = build.reported /\ build'.compiled = build.compiled
      /\ DOMAIN build' = DOMAIN build
  BY <1>0, <1>1
<1>3. ConfiguredInv'
  BY <1>0, <1>1, <1>2, Continues
<1>4. ObjectsInv'
  BY <1>2 DEF ObjectsInv
<1>5. LibraryInv'
  BY <1>0, <1>2, SameLibrary DEF BuildInv, LibraryInv
<1>6. InstalledInv'
  BY <1>0, <1>1, <1>2, SameLibrary DEF InstalledInv
<1> QED
  BY <1>0, <1>3, <1>4, <1>5, <1>6 DEF BuildInv

LEMMA FailStep ==
    ASSUME BuildInv, BuildFails
    PROVE  BuildInv'
<1>0. /\ host' = host /\ objects' = objects /\ library' = library /\ installed' = installed
      /\ build'.at = "failed"
  BY DEF BuildFails
<1>1. ConfiguredInv' /\ ObjectsInv'
  BY <1>0 DEF ConfiguredInv, ObjectsInv
<1>2. LibraryInv' /\ InstalledInv'
  BY <1>0, SameLibrary DEF BuildInv, LibraryInv, InstalledInv
<1> QED
  BY <1>0, <1>1, <1>2 DEF BuildInv

LEMMA BuildStep == BuildInv /\ [Next]_vars => BuildInv'
<1> SUFFICES ASSUME BuildInv, [Next]_vars PROVE BuildInv'
  OBVIOUS
<1>1. CASE UNCHANGED vars
  <2>1. /\ host' = host /\ objects' = objects /\ library' = library
        /\ installed' = installed /\ build' = build
    BY <1>1 DEF vars
  <2>2. ConfiguredInv'
    BY <2>1, SameDecisions DEF BuildInv, ConfiguredInv
  <2>3. ObjectsInv'
    BY <2>1 DEF BuildInv, ObjectsInv
  <2>4. LibraryInv' /\ InstalledInv'
    BY <2>1, SameLibrary DEF BuildInv, LibraryInv, InstalledInv
  <2> QED
    BY <2>1, <2>2, <2>3, <2>4 DEF BuildInv
<1>2. CASE \E opt \in Options : Refuse(opt) \/ Configure(opt)
  BY <1>2, RefuseStep, ConfigureStep
<1>3. CASE \E u \in Units : Compile(u)
  BY <1>3, CompileStep
<1>4. CASE Link
  BY <1>4, LinkStep
<1>5. CASE Install
  BY <1>5, InstallStep
<1>6. CASE BuildFails
  BY <1>6, FailStep
<1> QED
  BY <1>1, <1>2, <1>3, <1>4, <1>5, <1>6 DEF Next

(* BuildInv is an inductive invariant of the builds in one tree. *)
THEOREM BuildInductive == Spec => []BuildInv
<1> QED
  BY InitBuild, BuildStep, PTL DEF Spec

-----------------------------------------------------------------------------
(* What it means for those who build.                                      *)

(* A build that ends installs a module of its own options throughout, with *)
(* the backend that setup.py printed before compiling anything, whatever   *)
(* the builds before it left in the tree.                                  *)
THEOREM Reported == Spec => []InstalledAsReported
<1>1. ASSUME BuildInv, installed # None
      PROVE  \A u, v \in DOMAIN installed.units : installed.units[u] = installed.units[v]
  <2>1. PICK f \in Flags : installed = LibraryOf(f)
    BY <1>1 DEF BuildInv, InstalledInv
  <2> QED
    BY <2>1 DEF LibraryOf
<1>2. ASSUME BuildInv, build.at = "built"
      PROVE  /\ installed.units = [u \in build.units |-> build.flags]
             /\ cpu_parallel_backend(installed) = build.reported
  <2>1. /\ installed = LibraryOf(build.flags)
        /\ build.flags = FlagsOf(build.options)
        /\ build.units = UnitsOf(build.flags)
        /\ build.reported = Backend(build.options)
        /\ host \in Hosts
    BY <1>2 DEF BuildInv, InstalledInv, ConfiguredInv
  <2>2. installed.units = [u \in build.units |-> build.flags]
    BY <2>1 DEF LibraryOf
  <2> QED
    BY <2>1, <2>2, Diagnosed
<1>3. BuildInv => InstalledAsReported
  BY <1>1, <1>2 DEF InstalledAsReported
<1> QED
  BY <1>3, BuildInductive, PTL

(* What setup.py decides for options that it does not refuse. *)
LEMMA Honoured ==
    ASSUME host \in Hosts, NEW opt, ~Refuses(opt)
    PROVE  /\ opt.openmp = "1" => Backend(opt) = "openmp"
           /\ opt.openmp = "0" => Backend(opt) # "openmp"
           /\ opt.cpu => Accelerator(opt) = "none"
           /\ opt.cuda => Accelerator(opt) = "WITH_CUDA"
           /\ opt.mps = "1" => Accelerator(opt) = "WITH_MPS"
<1>1. opt.openmp = "1" => Backend(opt) = "openmp"
  BY DEF Refuses, OpenMPMissing
<1>2. opt.openmp = "0" => Backend(opt) # "openmp"
  BY DEF Backend
<1>3. opt.cpu => Accelerator(opt) = "none"
  BY DEF Accelerator, with_cuda, with_mps
<1>4. opt.cuda => Accelerator(opt) = "WITH_CUDA"
  BY DEF Refuses, Contradictory, Accelerator, with_cuda
<1>5. opt.mps = "1" => Accelerator(opt) = "WITH_MPS"
  <2> SUFFICES ASSUME opt.mps = "1" PROVE ~with_cuda(opt) /\ with_mps(opt)
    BY DEF Accelerator
  <2>1. ~opt.cpu /\ ~opt.cuda /\ host.mps
    BY DEF Refuses, Contradictory
  <2>2. ~host.toolkit
    BY <2>1, HostsAssumption
  <2> QED
    BY <2>1, <2>2 DEF with_cuda, with_mps
<1> QED
  BY <1>1, <1>2, <1>3, <1>4, <1>5

(* No runtime is linked next to the one that is loaded. *)
LEMMA OneRuntime ==
    ASSUME NEW flags, host.system = "darwin", host.loaded # {}
    PROVE  LibraryOf(flags).runtime \in host.loaded \cup {None}
<1>1. Runtime \in host.loaded \cup {None}
  BY DEF Runtime, macos_openmp_runtime
<1> QED
  BY <1>1 DEF LibraryOf

(* The decisions come to what validate_cpu_builds.py expects. *)
LEMMA Transitions ==
    ASSUME host.aten = "openmp", host.header, host.system # "windows", Runtime # None,
           NEW i \in DOMAIN ExpectedBackend
    PROVE  LET case == ExpectedBackend[i] IN
           IF case.backend = None
           THEN Refuses(case.options)
           ELSE ~Refuses(case.options) /\ Backend(case.options) = case.backend
<1>1. i \in 1 .. 5
  BY DEF ExpectedBackend
<1>2. ASSUME NEW openmp \in {"auto", "0", "1"}, NEW prefix \in {"unset", "nothing"},
             NEW ninja \in BOOLEAN
      PROVE  /\ Backend(Case(openmp, prefix, ninja)) =
                    IF openmp # "0" /\ prefix = "unset" THEN "openmp" ELSE "serial"
             /\ Refuses(Case(openmp, prefix, ninja)) <=> openmp = "1" /\ prefix = "nothing"
  <2> DEFINE opt == Case(openmp, prefix, ninja)
  <2>1. ~Contradictory(opt) /\ ~ForeignTarget(opt) /\ opt.openmp = openmp /\ opt.prefix = prefix
    BY DEF Case, Contradictory, ForeignTarget
  <2> HIDE DEF opt
  <2>2. openmp_flags_found(opt) <=> prefix = "unset"
    BY <2>1 DEF openmp_flags_found
  <2>3. Backend(opt) = IF openmp # "0" /\ prefix = "unset" THEN "openmp" ELSE "serial"
    BY <2>1, <2>2 DEF Backend
  <2>4. Refuses(opt) <=> openmp = "1" /\ prefix = "nothing"
    BY <2>1, <2>3 DEF Refuses, OpenMPMissing
  <2> QED
    BY <2>3, <2>4 DEF opt
<1>3. CASE i = 1
  <2>1. /\ ExpectedBackend[i].options = Case("auto", "unset", TRUE)
        /\ ExpectedBackend[i].backend = "openmp"
    BY <1>3 DEF ExpectedBackend
  <2>2. ~Refuses(Case("auto", "unset", TRUE)) /\ Backend(Case("auto", "unset", TRUE)) = "openmp"
    BY <1>2
  <2> QED
    BY <2>1, <2>2, NoneAssumption
<1>4. CASE i = 2
  <2>1. /\ ExpectedBackend[i].options = Case("0", "unset", FALSE)
        /\ ExpectedBackend[i].backend = "serial"
    BY <1>4 DEF ExpectedBackend
  <2>2. ~Refuses(Case("0", "unset", FALSE)) /\ Backend(Case("0", "unset", FALSE)) = "serial"
    BY <1>2
  <2> QED
    BY <2>1, <2>2, NoneAssumption
<1>5. CASE i = 3
  <2>1. /\ ExpectedBackend[i].options = Case("auto", "nothing", FALSE)
        /\ ExpectedBackend[i].backend = "serial"
    BY <1>5 DEF ExpectedBackend
  <2>2. ~Refuses(Case("auto", "nothing", FALSE)) /\ Backend(Case("auto", "nothing", FALSE)) = "serial"
    BY <1>2
  <2> QED
    BY <2>1, <2>2, NoneAssumption
<1>6. CASE i = 4
  <2>1. /\ ExpectedBackend[i].options = Case("1", "nothing", TRUE)
        /\ ExpectedBackend[i].backend = None
    BY <1>6 DEF ExpectedBackend
  <2>2. Refuses(Case("1", "nothing", TRUE))
    BY <1>2
  <2> QED
    BY <2>1, <2>2, NoneAssumption
<1>7. CASE i = 5
  <2>1. /\ ExpectedBackend[i].options = Case("1", "unset", TRUE)
        /\ ExpectedBackend[i].backend = "openmp"
    BY <1>7 DEF ExpectedBackend
  <2>2. ~Refuses(Case("1", "unset", TRUE)) /\ Backend(Case("1", "unset", TRUE)) = "openmp"
    BY <1>2
  <2> QED
    BY <2>1, <2>2, NoneAssumption
<1> QED
  BY <1>1, <1>3, <1>4, <1>5, <1>6, <1>7

(* A build that ends has what its options require and lacks what they      *)
(* forbid, for every host and every way to set the options; the sequences  *)
(* of validate_cpu_builds.py are five of them.                             *)
THEOREM Honours == Spec => []OptionsHonoured
<1>1. ASSUME BuildInv, build.at = "built"
      PROVE  /\ host \in Hosts /\ ~Refuses(build.options)
             /\ installed = LibraryOf(FlagsOf(build.options))
             /\ cpu_parallel_backend(installed) = Backend(build.options)
  BY <1>1, Diagnosed DEF BuildInv, ConfiguredInv, InstalledInv
<1>2. ASSUME BuildInv, build.at = "built"
      PROVE  /\ build.options.openmp = "1" => cpu_parallel_backend(installed) = "openmp"
             /\ build.options.openmp = "0" => cpu_parallel_backend(installed) # "openmp"
             /\ build.options.cpu => "accelerator" \notin DOMAIN installed.units
             /\ build.options.cuda => installed.units["vision"].macro = "WITH_CUDA"
             /\ build.options.mps = "1" => installed.units["vision"].macro = "WITH_MPS"
             /\ host.system = "darwin" /\ host.loaded # {} =>
                    installed.runtime \in host.loaded \cup {None}
  <2> DEFINE opt == build.options
             f == FlagsOf(opt)
  <2>1. f.macro = Accelerator(opt)
    BY DEF FlagsOf
  <2> HIDE DEF f
  <2>2. /\ DOMAIN installed.units = UnitsOf(f)
        /\ installed.units["vision"] = f
    BY <1>1, <1>2, UnitsType DEF LibraryOf, f
  <2>3. f.macro = "none" => "accelerator" \notin UnitsOf(f)
    BY DEF UnitsOf
  <2> HIDE DEF opt
  <2>4. /\ opt.openmp = "1" => Backend(opt) = "openmp"
        /\ opt.openmp = "0" => Backend(opt) # "openmp"
        /\ opt.cpu => Accelerator(opt) = "none"
        /\ opt.cuda => Accelerator(opt) = "WITH_CUDA"
        /\ opt.mps = "1" => Accelerator(opt) = "WITH_MPS"
    BY <1>1, <1>2, Honoured DEF opt
  <2>5. host.system = "darwin" /\ host.loaded # {} =>
            installed.runtime \in host.loaded \cup {None}
    BY <1>1, <1>2, OneRuntime
  <2> QED
    BY <1>1, <1>2, <2>1, <2>2, <2>3, <2>4, <2>5 DEF opt
<1>3. ASSUME BuildInv, NEW i \in DOMAIN ExpectedBackend,
             build.at \in {"built", "refused"}, build.options = ExpectedBackend[i].options,
             host.aten = "openmp", host.header, host.system # "windows", Runtime # None
      PROVE  IF ExpectedBackend[i].backend = None
             THEN build.at = "refused"
             ELSE build.at = "built" /\ cpu_parallel_backend(installed) = ExpectedBackend[i].backend
  <2>1. build.at = "refused" => Refuses(build.options)
    BY <1>3 DEF BuildInv, ConfiguredInv
  <2> QED
    BY <1>1, <1>3, <2>1, Transitions
<1>4. BuildInv => OptionsHonoured
  BY <1>2, <1>3 DEF OptionsHonoured
<1> QED
  BY <1>4, BuildInductive, PTL

=============================================================================
