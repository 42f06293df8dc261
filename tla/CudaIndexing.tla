---------------------------- MODULE CudaIndexing ----------------------------
(***************************************************************************)
(* The host side of the CUDA operators: ms_deform_attn_cuda_forward and    *)
(* ms_deform_attn_cuda_backward.  A call is checked and planned by         *)
(* check_cuda_indexing, which decides whether the kernels may count in     *)
(* int32, then served by one launch per chunk of at most im2col_step       *)
(* batches.                                                                *)
(*                                                                         *)
(* Integer widths are parameters.  Arithmetic is exact here; that it never *)
(* leaves the width the code gives it is what the properties say.          *)
(***************************************************************************)
EXTENDS Naturals, IndexUtils

CONSTANTS
    IntMax,       \* std::numeric_limits<int>::max()
    LongMax,      \* std::numeric_limits<int64_t>::max()
    MaxThreads,   \* CUDA_NUM_THREADS
    Requests      \* the calls considered, see RequestType

RequestType ==
    [N : Nat, S : Nat, M : Nat, D : Nat,   \* value: batch, spatial, heads, channels
     L : Nat, Q : Nat, P : Nat,            \* levels, queries, points
     step : Nat,                           \* im2col_step
     backward : BOOLEAN,
     malformed : BOOLEAN]                  \* shapes, dtypes or devices disagree

ASSUME WidthAssumption ==
    /\ IntMax \in Nat \ {0} /\ LongMax \in Nat \ {0} /\ MaxThreads \in Nat \ {0}
    /\ IntMax * MaxThreads <= LongMax \div 2     \* 2^41 < 2^62
    /\ Requests \subseteq RequestType

VARIABLES
    request,    \* the call
    phase,      \* "called", "launching", "returned" or "rejected"
    plan,       \* what check_cuda_indexing returned
    n,          \* loop variable: first batch of the next chunk
    batch_n,    \* batches of the last launch, 0 before the first one
    launched    \* [batch -> number of launches that covered it]

vars == <<request, phase, plan, n, batch_n, launched>>

-----------------------------------------------------------------------------
(* Sizes, in elements.                                                     *)

PerValue(r) == r.S * (r.M * r.D)
PerWeights(r) == r.Q * (r.M * (r.L * r.P))
PerLocations(r) == PerWeights(r) * 2
Work(r, batches) == batches * (r.Q * (r.M * r.D))

Least(a, b) == IF a <= b THEN a ELSE b

ChunkOf(r) == Least(r.N, r.step)

(* Threads per block: the forward kernel always asks for CUDA_NUM_THREADS. *)
Threads(r) == IF r.backward THEN Least(r.D, MaxThreads) ELSE MaxThreads

(* checked_index_product of positive factors: no partial product exceeds   *)
(* half of the int64 range exactly when the full product does not.         *)
Safe(product) == product <= LongMax \div 2

(* Mutant: per-batch extents are checked, whole tensors are not. *)
SafeTensorsPerBatch(r) ==
    /\ Safe(PerValue(r))
    /\ Safe(PerLocations(r))
    /\ Safe(Work(r, ChunkOf(r)))

SafeTensors(r) ==
    /\ Safe(PerValue(r)) /\ Safe(r.N * PerValue(r))
    /\ Safe(PerWeights(r)) /\ Safe(PerLocations(r)) /\ Safe(r.N * PerLocations(r))
    /\ Safe(Work(r, r.N)) /\ Safe(Work(r, ChunkOf(r)))

(* Mutant: the grid is planned for full blocks, whatever the channels. *)
PlannedGridOfFullBlocks(r) == cuda_blocks(Work(r, ChunkOf(r)), MaxThreads) <= IntMax

PlannedGridFits(r) == cuda_blocks(Work(r, ChunkOf(r)), Least(r.D, MaxThreads)) <= IntMax

DimensionsFit(r) ==
    /\ \A dim \in {r.N, r.S, r.M, r.D, r.L, r.Q, r.P} : dim > 0 /\ dim <= IntMax
    /\ r.step > 0 /\ r.step <= IntMax

(* Mutant: the bound on work is the one of an index, not of its increment. *)
UseInt32WithoutIncrement(r) ==
    /\ ChunkOf(r) * PerValue(r) <= IntMax \div 2
    /\ ChunkOf(r) * PerLocations(r) <= IntMax \div 2
    /\ Work(r, ChunkOf(r)) <= IntMax - (MaxThreads - 1)

UseInt32(r) ==
    /\ ChunkOf(r) * PerValue(r) <= IntMax \div 2
    /\ ChunkOf(r) * PerLocations(r) <= IntMax \div 2
    /\ Work(r, ChunkOf(r)) <= IntMax \div 2 - (MaxThreads - 1)

Accepts(r) ==
    /\ ~r.malformed
    /\ DimensionsFit(r)
    /\ SafeTensors(r)
    /\ PlannedGridFits(r)

check_cuda_indexing(r) ==
    [chunk |-> ChunkOf(r),
     perValue |-> PerValue(r),
     perLocations |-> PerLocations(r),
     useInt32 |-> UseInt32(r)]

NoPlan == [chunk |-> 0, perValue |-> 0, perLocations |-> 0, useInt32 |-> FALSE]

-----------------------------------------------------------------------------
Init ==
    /\ request \in Requests
    /\ phase = "called"
    /\ plan = NoPlan
    /\ n = 0
    /\ batch_n = 0
    /\ launched = [b \in 0 .. request.N - 1 |-> 0]

(* check_inputs raises. *)
Reject ==
    /\ phase = "called"
    /\ ~Accepts(request)
    /\ phase' = "rejected"
    /\ UNCHANGED <<request, plan, n, batch_n, launched>>

(* check_inputs returns the plan; outputs are allocated (gradients zeroed). *)
Plan ==
    /\ phase = "called"
    /\ Accepts(request)
    /\ plan' = check_cuda_indexing(request)
    /\ phase' = "launching"
    /\ UNCHANGED <<request, n, batch_n, launched>>

(* Batches of the chunk that starts at n. *)
BatchesLeft == Least(plan.chunk, request.N - n)

(* Mutant: the loop advances by what was launched so far, not by the chunk. *)
NextBatchAfterPartial == n + Least(plan.chunk, n + 1)

(* n += im2col_step_ *)
NextBatch == n + plan.chunk

(***************************************************************************)
(* One iteration of the loop over chunks: ms_deformable_im2col_cuda or     *)
(* ms_deformable_col2im_cuda.  GET_BLOCKS checks the grid of the chunk at  *)
(* hand and raises when it does not fit.                                   *)
(***************************************************************************)
Grid(batches) == cuda_blocks(Work(request, batches), Threads(request))

LaunchChunk ==
    /\ phase = "launching"
    /\ n < request.N
    /\ IF Grid(BatchesLeft) <= IntMax
       THEN /\ batch_n' = BatchesLeft
            /\ launched' = [b \in DOMAIN launched \cup n .. n + BatchesLeft - 1 |->
                   IF b \in n .. n + BatchesLeft - 1
                   THEN (IF b \in DOMAIN launched THEN launched[b] ELSE 0) + 1
                   ELSE launched[b]]
            /\ n' = NextBatch
            /\ UNCHANGED phase
       ELSE /\ phase' = "rejected"
            /\ UNCHANGED <<n, batch_n, launched>>
    /\ UNCHANGED <<request, plan>>

Return ==
    /\ phase = "launching"
    /\ n >= request.N
    /\ phase' = "returned"
    /\ UNCHANGED <<request, plan, n, batch_n, launched>>

Finished == phase \in {"returned", "rejected"} /\ UNCHANGED vars

Next == Reject \/ Plan \/ LaunchChunk \/ Return \/ Finished

Spec == Init /\ [][Next]_vars

-----------------------------------------------------------------------------
(* Properties.                                                             *)

(* Every variable has its type; a launch covers batches of the call only.  *)
TypeOK ==
    /\ request \in Requests
    /\ phase \in {"called", "launching", "returned", "rejected"}
    /\ plan \in [chunk : Nat, perValue : Nat, perLocations : Nat, useInt32 : BOOLEAN]
    /\ n \in Nat
    /\ batch_n \in Nat
    /\ launched \in [0 .. request.N - 1 -> Nat]

(***************************************************************************)
(* The largest values the index_t arithmetic of a launch reaches: the      *)
(* increment of CUDA_KERNEL_LOOP after the last live thread, the spans of  *)
(* the location and value tensors (the pointer steps past the last point;  *)
(* the lower neighbour row of a sample on the last row), and the metadata. *)
(***************************************************************************)
DevicePeaks ==
    {Work(request, batch_n) - 1 + Threads(request) * Grid(batch_n),
     batch_n * PerLocations(request),
     batch_n * PerValue(request),
     2 * request.L}

(***************************************************************************)
(* No index of a kernel overflows the type chosen for it, whether the plan *)
(* narrowed it to int32 or not, also for the last, shorter chunk.          *)
(***************************************************************************)
IndicesFit ==
    batch_n > 0 =>
        \A peak \in DevicePeaks : peak <= IF plan.useInt32 THEN IntMax ELSE LongMax

(***************************************************************************)
(* The host's int64 offsets of a chunk, up to its end, and the next value  *)
(* of the loop variable do not overflow: the reason why whole tensors are  *)
(* checked and not only what one launch touches.                           *)
(***************************************************************************)
OffsetsFit ==
    phase = "launching" /\ n < request.N =>
        /\ (n + BatchesLeft) * plan.perValue <= LongMax
        /\ (n + BatchesLeft) * plan.perLocations <= LongMax
        /\ n + plan.chunk <= LongMax

(***************************************************************************)
(* The batches before n were each launched once, the others not at all.    *)
(* On return every batch was: the forward output is at::empty, and a batch *)
(* launched twice would add to its gradients twice.                        *)
(***************************************************************************)
EachBatchOnce ==
    /\ \A b \in DOMAIN launched : launched[b] = IF b < n THEN 1 ELSE 0
    /\ phase = "returned" => \A b \in 0 .. request.N - 1 : launched[b] = 1

(***************************************************************************)
(* A call is refused before anything runs or not at all: the grid that was *)
(* planned bounds the grid of every chunk, forward and backward, so that   *)
(* no GET_BLOCKS raises between two launches.                              *)
(***************************************************************************)
RefusedUpFront == phase = "rejected" => plan = NoPlan

=============================================================================
