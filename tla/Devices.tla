-------------------------------- MODULE Devices --------------------------------
(***************************************************************************)
(* forward and backward of vision.cpp: the device of value decides which   *)
(* kernels run.  The three implementations share nothing but the promise   *)
(* of GradientAccumulation, which each keeps on its own schedule: threads  *)
(* of a CUDA launch (Col2Im), the workers of at::parallel_for (CpuKernel,  *)
(* both passes), SIMD groups of a Metal command buffer (MpsBackward).      *)
(***************************************************************************)
EXTENDS Col2Im

CONSTANTS
    \* of CpuKernel
    WorkerCount, Batches, Heads, Queries, SamplePoints, SpatialSize, CpuFootprint,
    \* of MpsBackward
    Width, MpsChannels, MpsSlots, Chunk, MpsPixels, MpsFootprint

VARIABLES
    device,
    cpuBackward, cpuTask, cpuEnd, cpuQuery, cpuPoint, cpuCorners, cpuLoaded, cpuPc,
    cpuGradValue, cpuGradSample, cpuOutput,
    mpsHost, mpsBegin, mpsPc, mpsChannel, mpsCorners, mpsOld, mpsPartial,
    mpsGradValue, mpsGradSample

cpuVars ==
    <<cpuBackward, cpuTask, cpuEnd, cpuQuery, cpuPoint, cpuCorners, cpuLoaded, cpuPc,
      cpuGradValue, cpuGradSample, cpuOutput>>
mpsVars ==
    <<mpsHost, mpsBegin, mpsPc, mpsChannel, mpsCorners, mpsOld, mpsPartial,
      mpsGradValue, mpsGradSample>>
allVars == <<device, vars, cpuVars, mpsVars>>

Cpu == INSTANCE CpuKernel WITH
    N <- Batches, M <- Heads, Q <- Queries, LP <- SamplePoints, S <- SpatialSize,
    Footprint <- CpuFootprint, backward <- cpuBackward, task <- cpuTask, end <- cpuEnd,
    query <- cpuQuery, point <- cpuPoint, corners <- cpuCorners, loaded <- cpuLoaded,
    pc <- cpuPc, gradValue <- cpuGradValue, gradSample <- cpuGradSample, output <- cpuOutput

(* The shape of a call.  Empty tensors give the kernels nothing to do.      *)
ASSUME CpuAssumption ==
    /\ WorkerCount \in Nat \ {0}
    /\ Batches \in Nat \ {0} /\ Heads \in Nat \ {0} /\ Queries \in Nat \ {0}
    /\ SamplePoints \in Nat \ {0} /\ SpatialSize \in Nat \ {0}
    /\ CpuFootprint \in [Cpu!Samples -> SUBSET (0 .. SpatialSize - 1)]

Mps == INSTANCE MpsBackward WITH
    Channels <- MpsChannels, Count <- MpsSlots, Pixels <- MpsPixels,
    Footprint <- MpsFootprint, host <- mpsHost, begin <- mpsBegin, pc <- mpsPc,
    channel <- mpsChannel, corners <- mpsCorners, old <- mpsOld, partial <- mpsPartial,
    gradValue <- mpsGradValue, gradSample <- mpsGradSample

(* Empty tensors are refused before run().                                 *)
ASSUME MpsAssumption ==
    /\ Width \in Nat \ {0} /\ MpsChannels \in Nat \ {0}
    /\ MpsSlots \in Nat \ {0} /\ Chunk \in Nat \ {0}
    /\ MpsPixels \in SUBSET Nat
    /\ MpsFootprint \in [Mps!Slots -> SUBSET MpsPixels]

(***************************************************************************)
(* The choice is made once, before any kernel runs.  The kernels of other  *)
(* devices stay in one of their initial states.                            *)
(***************************************************************************)
DevicesInit ==
    /\ device \in {"cpu", "cuda", "mps"}
    /\ Init /\ Cpu!Init /\ Mps!Init
    /\ device # "cuda" => ~launch.checked /\ \A c \in ChannelChoices : launch.channels <= c
    /\ device # "cpu" => cpuBackward /\ cpuEnd[1] = Cpu!work_items(TRUE)

OnCuda == device = "cuda" /\ UNCHANGED <<device, cpuVars, mpsVars>>
OnCpu == device = "cpu" /\ UNCHANGED <<device, vars, mpsVars>>
OnMps == device = "mps" /\ UNCHANGED <<device, vars, cpuVars>>

DevicesNext ==
    \/ OnCuda /\ Next
    \/ OnCpu /\ Cpu!Next
    \/ OnMps /\ Mps!Next

DevicesSpec == DevicesInit /\ [][DevicesNext]_allVars

(***************************************************************************)
(* Something that can run does, and a weak exchange does not fail for ever *)
(* without a reason.  No thread needs a share of its own: no kernel waits  *)
(* for a block, a worker or a group that is not running, and an exchange   *)
(* that fails with a reason fails because another one has succeeded.       *)
(***************************************************************************)
DevicesFairSpec == DevicesSpec /\ WF_allVars(DevicesNext)

-----------------------------------------------------------------------------
(* Properties.                                                             *)

(* No data race on the CPU: two workers never touch the same cell of a     *)
(* tensor, which is why ms_deform_attn_cpu.cpp needs no atomics.           *)
CpuRaceFree == Cpu!RaceFree

(* Once an MPS pass is over, its gradients are exact, and no element of    *)
(* the uninitialized tensors is left unwritten.                            *)
MpsExactWhenOver == Mps!ExactWhenOver

Results == INSTANCE GradientAccumulation WITH
    due <- IF device = "cuda" THEN due ELSE IF device = "cpu" THEN Cpu!due ELSE Mps!due,
    acc <- IF device = "cuda" THEN acc ELSE IF device = "cpu" THEN Cpu!acc ELSE Mps!acc

(***************************************************************************)
(* On every device, under every interleaving, results only gain what they  *)
(* are owed: no addition is lost, none is made twice or to a wrong cell.   *)
(***************************************************************************)
KernelsAccumulateOnlyDue == Results!Spec

(* Whichever kernels run, they end, with complete results; an MPS pass may *)
(* also be refused before its first dispatch.                              *)
Ended ==
    IF device = "cuda" THEN acc = due
    ELSE IF device = "cpu" THEN Cpu!acc = Cpu!due
    ELSE Mps!RunOver

KernelsComplete == <>[]Ended

=============================================================================
