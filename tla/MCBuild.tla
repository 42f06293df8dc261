------------------------------- MODULE MCBuild -------------------------------
EXTENDS Build

Linux == [system |-> "linux", aten |-> "openmp", header |-> TRUE, bundled |-> TRUE, loaded |-> {"torch"},
          cxxflags |-> "", toolkit |-> TRUE, gpu |-> TRUE, mps |-> FALSE, ninja |-> TRUE]
Mac == [Linux EXCEPT !.system = "darwin", !.toolkit = FALSE, !.gpu = FALSE, !.mps = TRUE]

EveryHost ==
    {Linux, [Linux EXCEPT !.gpu = FALSE, !.bundled = FALSE], [Linux EXCEPT !.header = FALSE],
     [Linux EXCEPT !.cxxflags = "-fopenmp", !.header = FALSE], [Linux EXCEPT !.ninja = FALSE],
     [Linux EXCEPT !.system = "windows"],
     Mac, [Mac EXCEPT !.loaded = {"conda"}], [Mac EXCEPT !.loaded = {"torch", "conda"}],
     [Mac EXCEPT !.loaded = {}], [Mac EXCEPT !.loaded = {}, !.bundled = FALSE],
     [Mac EXCEPT !.aten = "native", !.mps = FALSE]}

Default == Case("auto", "unset", TRUE)
CpuCases ==
    {Case(openmp, "unset", ninja) : openmp \in {"auto", "0", "1"}, ninja \in BOOLEAN}
    \cup {Case(openmp, prefix, ninja) :
              openmp \in {"auto", "1"}, prefix \in {"nothing", "omp.h"}, ninja \in BOOLEAN}

(* Every way to ask for an accelerator, and all ways to ask for OpenMP     *)
(* with the CPU only.                                                      *)
EveryOption ==
    CpuCases
    \cup {[Default EXCEPT !.cpu = cpu, !.cuda = cuda, !.mps = mps] :
              cpu \in BOOLEAN, cuda \in BOOLEAN, mps \in {"auto", "0", "1"}}
    \cup {[Default EXCEPT !.cpu = FALSE, !.openmp = "0"], [Default EXCEPT !.arch = "other"]}

=============================================================================
