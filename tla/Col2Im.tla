------------------------------- MODULE Col2Im -------------------------------
(***************************************************************************)
(* One launch of ms_deformable_col2im_cuda, the CUDA backward pass, thread *)
(* by thread: the host's choice of kernel and grid, then the six kernels   *)
(* of ms_deform_im2col_cuda.cuh.                                           *)
(*                                                                         *)
(* A thread <<b, tid>> computes one element `index` of grad_output, that   *)
(* is one channel of one sampling (batch, query, head).  For each sampling *)
(* point it adds to grad_value with atomics, and the threads of a block    *)
(* reduce their contributions to grad_sampling_loc and grad_attn_weight in *)
(* shared memory, with a serial or a tree reduction separated by           *)
(* __syncthreads().  The kernel pointers advance inside the thread loop.   *)
(*                                                                         *)
(* Sums are sets of addends (see Sums).  The points of all levels are      *)
(* numbered 0 .. LP-1, level-major, as the two nested loops visit them.    *)
(* Device assertions are compiled out: that is the build in which the      *)
(* kernels rely on their return guard.                                     *)
(***************************************************************************)
EXTENDS Naturals, Sums, IndexUtils

CONSTANTS
    ChannelChoices, \* the channel counts a launch may have
    MaxThreads,     \* CUDA_NUM_THREADS, 1024 in the code
    SerialBelow,    \* block size from which the tree reductions take over, 64
    SamplingCount,  \* batch * queries * heads
    Levels,         \* num_levels
    PointsPerLevel, \* num_point
    PixelCount,     \* batch * spatial_size * heads: value cells per channel
    Footprint       \* [slot -> pixels its bilinear corners touch]; {}: outside

LP == Levels * PointsPerLevel
Slots == 0 .. SamplingCount * LP - 1      \* one per (sampling, point)

ASSUME SizesAssumption ==
    /\ ChannelChoices \subseteq Nat \ {0}
    /\ MaxThreads \in Nat \ {0}
    /\ SerialBelow \in Nat
    /\ SamplingCount \in Nat \ {0}
    /\ Levels \in Nat \ {0}
    /\ PointsPerLevel \in Nat \ {0}
    /\ PixelCount \in Nat \ {0}

ASSUME FootprintAssumption == Footprint \in [Slots -> SUBSET (0 .. PixelCount - 1)]

VARIABLES
    launch,     \* the launch parameters, fixed by the host
    pc,         \* [thread -> where it is in the kernel]
    index,      \* [thread -> loop variable of CUDA_KERNEL_LOOP]
    point,      \* [thread -> l_col * num_point + p_col]
    gradPtr,    \* [thread -> offset of grad_attn_weight; grad_sampling_loc's is twice it]
    stride,     \* [thread -> s of the tree reduction]
    prevStride, \* [thread -> spre of the tree reduction]
    cacheLoc,   \* [block -> cache_grad_sampling_loc]
    cacheAttn,  \* [block -> cache_grad_attn_weight]
    gradLoc,    \* grad_sampling_loc
    gradAttn,   \* grad_attn_weight
    gradValue   \* grad_value

grads == <<gradLoc, gradAttn, gradValue>>
caches == <<cacheLoc, cacheAttn>>
vars == <<launch, pc, index, point, gradPtr, stride, prevStride, caches, grads>>

-----------------------------------------------------------------------------
(* The host side: which kernel, how many blocks.                           *)

NoLevel == Levels   \* "no bad level"

(* The channel counts the switch has a case for.                           *)
PowersOfTwo == {1, 2, 4, 8, 16, 32, 64, 128, 256, 512, 1024}

(* Mutant: every channel count above a block goes to the reducing kernel.  *)
KernelForWithoutRemainderTest(channels) ==
    IF channels > MaxThreads THEN "shm_reduce_v2_multi_blocks"
    ELSE IF channels < SerialBelow THEN "shm_reduce_v1" ELSE "shm_reduce_v2"

(* Mutant: the single-block kernel is also used for several blocks.        *)
KernelForWithoutMultiBlocks(channels) ==
    IF channels > MaxThreads /\ channels % MaxThreads # 0 THEN "gm"
    ELSE IF channels < SerialBelow THEN "shm_reduce_v1" ELSE "shm_reduce_v2"

(***************************************************************************)
(* The switch of ms_deformable_col2im_cuda.  MaxThreads is a power of two, *)
(* so channels & (MaxThreads - 1) is the remainder.                        *)
(***************************************************************************)
KernelFor(channels) ==
    IF channels > MaxThreads
    THEN IF channels % MaxThreads = 0 THEN "shm_reduce_v2_multi_blocks" ELSE "gm"
    ELSE IF channels \in PowersOfTwo
         THEN IF channels < SerialBelow THEN "aware_reduce_v1" ELSE "aware_reduce_v2"
         ELSE IF channels < SerialBelow THEN "shm_reduce_v1" ELSE "shm_reduce_v2"

BlockDim(channels) == IF channels > MaxThreads THEN MaxThreads ELSE channels

Launch(channels, checked, badLevel) ==
    LET n == SamplingCount * channels
    IN [channels |-> channels,
        kernel   |-> KernelFor(channels),
        n        |-> n,
        blockDim |-> BlockDim(channels),
        gridDim  |-> cuda_blocks(n, BlockDim(channels)),   \* GET_BLOCKS
        checked  |-> checked,    \* the CheckMetadata template argument
        badLevel |-> badLevel]   \* first level valid_spatial_level rejects

Serial == launch.kernel \in {"aware_reduce_v1", "shm_reduce_v1"}
Tree == launch.kernel \in {"aware_reduce_v2", "shm_reduce_v2", "shm_reduce_v2_multi_blocks"}

Blocks == 0 .. launch.gridDim - 1
Lanes == 0 .. launch.blockDim - 1
Threads == Blocks \X Lanes
BlockThreads(b) == {t \in Threads : t[1] = b}

-----------------------------------------------------------------------------
(* What thread t adds for its current point: one addend, or nothing when   *)
(* the location is outside the level.                                      *)
SlotOf(t) == (index[t] \div launch.channels) * LP + point[t]
Inside(t) == Footprint[SlotOf(t)] # {}
Addend(t, component) ==
    IF Inside(t) THEN {<<index[t], point[t], component>>} ELSE {}

-----------------------------------------------------------------------------
Init ==
    /\ \E channels \in ChannelChoices, checked \in BOOLEAN, badLevel \in 0 .. Levels :
        /\ ~checked => badLevel = NoLevel     \* unchecked metadata is the caller's word
        /\ launch = Launch(channels, checked, badLevel)
    /\ pc = [t \in Threads |-> "loop"]
    /\ index = [t \in Threads |-> t[1] * launch.blockDim + t[2]]
    /\ point = [t \in Threads |-> 0]
    /\ gradPtr = [t \in Threads |-> 0]
    /\ stride = [t \in Threads |-> 0]
    /\ prevStride = [t \in Threads |-> 0]
    /\ cacheLoc = [b \in Blocks |-> [i \in 0 .. 2 * launch.blockDim - 1 |-> {Garbage}]]
    /\ cacheAttn = [b \in Blocks |-> [i \in Lanes |-> {Garbage}]]
    /\ gradLoc = [i \in 0 .. 2 * SamplingCount * LP - 1 |-> {}]
    /\ gradAttn = [i \in Slots |-> {}]
    /\ gradValue = [i \in 0 .. PixelCount * launch.channels - 1 |-> {}]

-----------------------------------------------------------------------------
(* Steps the kernels are built from.                                       *)

(***************************************************************************)
(* Head of CUDA_KERNEL_LOOP.  The body first advances the gradient         *)
(* pointers to the sampling's slots, relative to where they already are.   *)
(***************************************************************************)
KernelLoop(t) ==
    /\ pc[t] = "loop"
    /\ IF index[t] < launch.n
       THEN /\ gradPtr' = [gradPtr EXCEPT ![t] = @ + (index[t] \div launch.channels) * LP]
            /\ point' = [point EXCEPT ![t] = 0]
            /\ pc' = [pc EXCEPT ![t] = "sample"]
       ELSE /\ pc' = [pc EXCEPT ![t] = "exit"]
            /\ UNCHANGED <<gradPtr, point>>
    /\ UNCHANGED <<launch, index, stride, prevStride, caches, grads>>

(* The point opens a level whose metadata valid_spatial_level rejects.     *)
BadLevelAt(t) ==
    launch.checked /\ point[t] = launch.badLevel * PointsPerLevel

ReturnOnBadLevel(t) ==
    /\ pc[t] = "sample"
    /\ BadLevelAt(t)
    /\ pc' = [pc EXCEPT ![t] = "exit"]
    /\ UNCHANGED <<launch, index, point, gradPtr, stride, prevStride, caches, grads>>

(* gpuAtomicAdd of one addend to each corner of the value gradient.        *)
AddToValue(t) ==
    LET corners == {pixel * launch.channels + (index[t] % launch.channels) :
                        pixel \in Footprint[SlotOf(t)]}
    IN gradValue' = [i \in DOMAIN gradValue |->
                        IF i \in corners THEN Plus(gradValue[i], Addend(t, "v"))
                                         ELSE gradValue[i]]

(* Mutant: the scratch cells are written only for a point inside the level. *)
SamplePointWithoutReset(t) ==
    LET b == t[1]
        xid == 2 * t[2]
    IN /\ pc[t] = "sample"
       /\ ~BadLevelAt(t)
       /\ AddToValue(t)
       /\ IF Inside(t)
          THEN /\ cacheLoc' = [cacheLoc EXCEPT ![b][xid] = Addend(t, "w"),
                                               ![b][xid + 1] = Addend(t, "h")]
               /\ cacheAttn' = [cacheAttn EXCEPT ![b][t[2]] = Addend(t, "a")]
          ELSE UNCHANGED caches
       /\ pc' = [pc EXCEPT ![t] = "sampled"]
       /\ UNCHANGED <<launch, index, point, gradPtr, stride, prevStride, gradLoc, gradAttn>>

(***************************************************************************)
(* One sampling point of a reducing kernel: clear the thread's own scratch *)
(* cells, then, inside the level, ms_deform_attn_col2im_bilinear.          *)
(***************************************************************************)
SamplePoint(t) ==
    LET b == t[1]
        xid == 2 * t[2]
    IN /\ pc[t] = "sample"
       /\ ~BadLevelAt(t)
       /\ AddToValue(t)
       /\ cacheLoc' = [cacheLoc EXCEPT ![b][xid] = Addend(t, "w"),
                                       ![b][xid + 1] = Addend(t, "h")]
       /\ cacheAttn' = [cacheAttn EXCEPT ![b][t[2]] = Addend(t, "a")]
       /\ pc' = [pc EXCEPT ![t] = "sampled"]
       /\ UNCHANGED <<launch, index, point, gradPtr, stride, prevStride, gradLoc, gradAttn>>

(* Mutant: the gm kernel stores its gradients instead of adding them. *)
SampleToGlobalPlain(t) ==
    LET g == gradPtr[t]
    IN /\ pc[t] = "sample"
       /\ ~BadLevelAt(t)
       /\ AddToValue(t)
       /\ gradLoc' = [gradLoc EXCEPT ![2 * g] = Addend(t, "w"), ![2 * g + 1] = Addend(t, "h")]
       /\ gradAttn' = [gradAttn EXCEPT ![g] = Addend(t, "a")]
       /\ pc' = [pc EXCEPT ![t] = "next"]
       /\ UNCHANGED <<launch, index, point, gradPtr, stride, prevStride, caches>>

(***************************************************************************)
(* One sampling point of the gm kernel: ms_deform_attn_col2im_bilinear_gm  *)
(* adds every gradient with an atomic.                                     *)
(***************************************************************************)
SampleToGlobal(t) ==
    LET g == gradPtr[t]
    IN /\ pc[t] = "sample"
       /\ ~BadLevelAt(t)
       /\ AddToValue(t)
       /\ gradLoc' = [gradLoc EXCEPT ![2 * g] = Plus(@, Addend(t, "w")),
                                     ![2 * g + 1] = Plus(@, Addend(t, "h"))]
       /\ gradAttn' = [gradAttn EXCEPT ![g] = Plus(@, Addend(t, "a"))]
       /\ pc' = [pc EXCEPT ![t] = "next"]
       /\ UNCHANGED <<launch, index, point, gradPtr, stride, prevStride, caches>>

(* Mutant: no barrier between the store and the next point's reset. *)
SerialStoreWithoutSync(t) ==
    LET b == t[1]
        g == gradPtr[t]
    IN /\ pc[t] = "store"
       /\ IF t[2] = 0
          THEN /\ gradLoc' = [gradLoc EXCEPT
                      ![2 * g] = SumOver(cacheLoc[b], {2 * i : i \in Lanes}),
                      ![2 * g + 1] = SumOver(cacheLoc[b], {2 * i + 1 : i \in Lanes})]
               /\ gradAttn' = [gradAttn EXCEPT ![g] = SumOver(cacheAttn[b], Lanes)]
          ELSE UNCHANGED <<gradLoc, gradAttn>>
       /\ pc' = [pc EXCEPT ![t] = "next"]
       /\ UNCHANGED <<launch, index, point, gradPtr, stride, prevStride, caches, gradValue>>

(***************************************************************************)
(* Thread 0 of a serial kernel sums the whole scratch and stores it.       *)
(***************************************************************************)
SerialStore(t) ==
    LET b == t[1]
        g == gradPtr[t]
    IN /\ pc[t] = "store"
       /\ IF t[2] = 0
          THEN /\ gradLoc' = [gradLoc EXCEPT
                      ![2 * g] = SumOver(cacheLoc[b], {2 * i : i \in Lanes}),
                      ![2 * g + 1] = SumOver(cacheLoc[b], {2 * i + 1 : i \in Lanes})]
               /\ gradAttn' = [gradAttn EXCEPT ![g] = SumOver(cacheAttn[b], Lanes)]
          ELSE UNCHANGED <<gradLoc, gradAttn>>
       /\ pc' = [pc EXCEPT ![t] = "stored"]
       /\ UNCHANGED <<launch, index, point, gradPtr, stride, prevStride, caches, gradValue>>

(* Mutant: the odd lane out is never folded in. *)
FoldSourcesWithoutLeftover(t) == {t[2] + stride[t]}

(***************************************************************************)
(* The lanes a tree reduction adds to lane tid < s.  An odd block size     *)
(* leaves one lane over at each halving; the kernels that take any block   *)
(* size pick it up with the spre test.                                     *)
(***************************************************************************)
FoldSources(t) ==
    {t[2] + stride[t]}
        \cup {i \in {t[2] + 2 * stride[t]} :
                 launch.kernel # "aware_reduce_v2" /\ i < prevStride[t]}

Fold(t) ==
    LET b == t[1]
        xid == 2 * t[2]
        lanes == {t[2]} \cup FoldSources(t)
    IN /\ pc[t] = "fold"
       /\ IF t[2] < stride[t]
          THEN /\ cacheAttn' = [cacheAttn EXCEPT ![b][t[2]] = SumOver(cacheAttn[b], lanes)]
               /\ cacheLoc' = [cacheLoc EXCEPT
                      ![b][xid] = SumOver(cacheLoc[b], {2 * i : i \in lanes}),
                      ![b][xid + 1] = SumOver(cacheLoc[b], {2 * i + 1 : i \in lanes})]
          ELSE UNCHANGED caches
       /\ pc' = [pc EXCEPT ![t] = "folded"]
       /\ UNCHANGED <<launch, index, point, gradPtr, stride, prevStride, grads>>

(* Thread 0 stores lane 0, where the tree reduction left the sum.          *)
LeaderStore(t) ==
    LET b == t[1]
        g == gradPtr[t]
    IN /\ pc[t] = "store"
       /\ IF t[2] = 0
          THEN /\ gradLoc' = [gradLoc EXCEPT ![2 * g] = cacheLoc[b][0],
                                             ![2 * g + 1] = cacheLoc[b][1]]
               /\ gradAttn' = [gradAttn EXCEPT ![g] = cacheAttn[b][0]]
          ELSE UNCHANGED <<gradLoc, gradAttn>>
       /\ pc' = [pc EXCEPT ![t] = "stored"]
       /\ UNCHANGED <<launch, index, point, gradPtr, stride, prevStride, caches, gradValue>>

(* The same, when several blocks share the sampling.                       *)
LeaderAtomicAdd(t) ==
    LET b == t[1]
        g == gradPtr[t]
    IN /\ pc[t] = "store"
       /\ IF t[2] = 0
          THEN /\ gradLoc' = [gradLoc EXCEPT ![2 * g] = Plus(@, cacheLoc[b][0]),
                                             ![2 * g + 1] = Plus(@, cacheLoc[b][1])]
               /\ gradAttn' = [gradAttn EXCEPT ![g] = Plus(@, cacheAttn[b][0])]
          ELSE UNCHANGED <<gradLoc, gradAttn>>
       /\ pc' = [pc EXCEPT ![t] = "stored"]
       /\ UNCHANGED <<launch, index, point, gradPtr, stride, prevStride, caches, gradValue>>

(***************************************************************************)
(* End of the loop body: the pointers advance by one slot.  `point` is     *)
(* left at LP when the thread goes back to the head of CUDA_KERNEL_LOOP.   *)
(***************************************************************************)
NextPoint(t) ==
    /\ pc[t] = "next"
    /\ gradPtr' = [gradPtr EXCEPT ![t] = @ + 1]
    /\ point' = [point EXCEPT ![t] = @ + 1]
    /\ IF point[t] + 1 < LP
       THEN /\ pc' = [pc EXCEPT ![t] = "sample"]
            /\ UNCHANGED index
       ELSE /\ pc' = [pc EXCEPT ![t] = "loop"]
            /\ index' = [index EXCEPT ![t] = @ + launch.blockDim * launch.gridDim]
    /\ UNCHANGED <<launch, stride, prevStride, caches, grads>>

-----------------------------------------------------------------------------
(***************************************************************************)
(* __syncthreads(): the barrier opens when every thread of the block that  *)
(* has not exited has reached one.  The loop header of the tree reduction  *)
(* is thread-local and is taken with it: s and spre start at half and all  *)
(* of the block, and are halved after each fold.                           *)
(***************************************************************************)
Barriers == {"sampled", "folded", "stored"}

NextStride(t) ==
    IF pc[t] = "sampled" THEN IF Tree THEN launch.blockDim \div 2 ELSE 0
                         ELSE stride[t] \div 2

NextPrevStride(t) ==
    IF pc[t] = "sampled" THEN launch.blockDim ELSE prevStride[t] \div 2

AfterSync(t) ==
    CASE pc[t] = "exit" -> "exit"
      [] pc[t] = "stored" -> "next"
      [] OTHER -> IF NextStride(t) > 0 THEN "fold" ELSE "store"

Live(b) == {t \in BlockThreads(b) : pc[t] # "exit"}

Syncthreads(b) ==
    /\ Live(b) # {}
    /\ \A t \in Live(b) : pc[t] \in Barriers
    /\ pc' = [t \in Threads |-> IF t[1] = b THEN AfterSync(t) ELSE pc[t]]
    /\ stride' = [t \in Threads |-> IF t \in Live(b) THEN NextStride(t) ELSE stride[t]]
    /\ prevStride' = [t \in Threads |->
                         IF t \in Live(b) THEN NextPrevStride(t) ELSE prevStride[t]]
    /\ UNCHANGED <<launch, index, point, gradPtr, caches, grads>>

-----------------------------------------------------------------------------
(* The six kernels.                                                        *)

aware_reduce_v1(t) ==
    /\ launch.kernel = "aware_reduce_v1"
    /\ KernelLoop(t) \/ ReturnOnBadLevel(t) \/ SamplePoint(t) \/ SerialStore(t) \/ NextPoint(t)

aware_reduce_v2(t) ==
    /\ launch.kernel = "aware_reduce_v2"
    /\ \/ KernelLoop(t) \/ ReturnOnBadLevel(t) \/ SamplePoint(t)
       \/ Fold(t) \/ LeaderStore(t) \/ NextPoint(t)

shm_reduce_v1(t) ==
    /\ launch.kernel = "shm_reduce_v1"
    /\ KernelLoop(t) \/ ReturnOnBadLevel(t) \/ SamplePoint(t) \/ SerialStore(t) \/ NextPoint(t)

shm_reduce_v2(t) ==
    /\ launch.kernel = "shm_reduce_v2"
    /\ \/ KernelLoop(t) \/ ReturnOnBadLevel(t) \/ SamplePoint(t)
       \/ Fold(t) \/ LeaderStore(t) \/ NextPoint(t)

shm_reduce_v2_multi_blocks(t) ==
    /\ launch.kernel = "shm_reduce_v2_multi_blocks"
    /\ \/ KernelLoop(t) \/ ReturnOnBadLevel(t) \/ SamplePoint(t)
       \/ Fold(t) \/ LeaderAtomicAdd(t) \/ NextPoint(t)

gm(t) ==
    /\ launch.kernel = "gm"
    /\ KernelLoop(t) \/ ReturnOnBadLevel(t) \/ SampleToGlobal(t) \/ NextPoint(t)

ThreadStep(t) ==
    \/ aware_reduce_v1(t) \/ aware_reduce_v2(t)
    \/ shm_reduce_v1(t) \/ shm_reduce_v2(t)
    \/ shm_reduce_v2_multi_blocks(t) \/ gm(t)

LaunchDone == \A t \in Threads : pc[t] = "exit"

(* The launch has ended; the stutter keeps this from being a deadlock.     *)
Terminating == LaunchDone /\ UNCHANGED vars

Next ==
    \/ \E t \in Threads : ThreadStep(t)
    \/ \E b \in Blocks : Syncthreads(b)
    \/ Terminating

Spec == Init /\ [][Next]_vars

-----------------------------------------------------------------------------
(* What the launch owes.                                                   *)

(***************************************************************************)
(* The gradients the operator defines: each channel of a sampling          *)
(* contributes to its points' location and weight, and to the value cells  *)
(* under the bilinear footprint.  A rejected level ends every thread, so   *)
(* nothing is owed for it or for later levels.                             *)
(***************************************************************************)
Owed(slot) ==
    /\ Footprint[slot] # {}
    /\ launch.checked => slot % LP < launch.badLevel * PointsPerLevel

DueTo(slot, component) ==
    IF Owed(slot)
    THEN {<<(slot \div LP) * launch.channels + c, slot % LP, component>> :
              c \in 0 .. launch.channels - 1}
    ELSE {}

DueToValue(i) ==
    {<<(slot \div LP) * launch.channels + (i % launch.channels), slot % LP, "v">> :
        slot \in {k \in Slots : Owed(k) /\ (i \div launch.channels) \in Footprint[k]}}

Cells == {<<"loc", i>> : i \in DOMAIN gradLoc}
            \cup {<<"attn", i>> : i \in DOMAIN gradAttn}
            \cup {<<"value", i>> : i \in DOMAIN gradValue}

due == [cell \in Cells |->
           CASE cell[1] = "loc" -> DueTo(cell[2] \div 2, IF cell[2] % 2 = 0 THEN "w" ELSE "h")
             [] cell[1] = "attn" -> DueTo(cell[2], "a")
             [] cell[1] = "value" -> DueToValue(cell[2])]

acc == [cell \in Cells |->
           CASE cell[1] = "loc" -> gradLoc[cell[2]]
             [] cell[1] = "attn" -> gradAttn[cell[2]]
             [] cell[1] = "value" -> gradValue[cell[2]]]

Gradients == INSTANCE GradientAccumulation

-----------------------------------------------------------------------------
(* Properties.                                                             *)

Labels == {"loop", "sample", "sampled", "fold", "folded", "store", "stored", "next", "exit"}

LaunchType ==
    launch \in {Launch(c, checked, level) :
                   c \in ChannelChoices, checked \in BOOLEAN, level \in 0 .. Levels}

ThreadType ==
    /\ pc \in [Threads -> Labels]
    /\ index \in [Threads -> Nat]
    /\ point \in [Threads -> 0 .. LP]
    /\ gradPtr \in [Threads -> Nat]
    /\ stride \in [Threads -> 0 .. launch.blockDim \div 2]
    /\ prevStride \in [Threads -> 0 .. launch.blockDim]

MemoryType ==
    /\ cacheLoc \in [Blocks -> [0 .. 2 * launch.blockDim - 1 -> SUBSET Addends]]
    /\ cacheAttn \in [Blocks -> [Lanes -> SUBSET Addends]]
    /\ gradLoc \in [0 .. 2 * SamplingCount * LP - 1 -> SUBSET Addends]
    /\ gradAttn \in [Slots -> SUBSET Addends]
    /\ gradValue \in [0 .. PixelCount * launch.channels - 1 -> SUBSET Addends]

(***************************************************************************)
(* Every variable has its type; in particular no thread looks at a point   *)
(* beyond LP or folds with a stride beyond half of its block.              *)
(***************************************************************************)
TypeOK == LaunchType /\ ThreadType /\ MemoryType

(* The scratch lanes the thread's next step reads and writes; lane i is    *)
(* cache_grad_attn_weight[i] and the pair of location cells 2i, 2i + 1.    *)
ReadsLanes(t) ==
    IF pc[t] = "fold" /\ t[2] < stride[t] THEN {t[2]} \cup FoldSources(t)
    ELSE IF pc[t] = "store" /\ t[2] = 0 THEN IF Serial THEN Lanes ELSE {0}
    ELSE {}

WritesLanes(t) ==
    IF \/ pc[t] = "sample" /\ ~BadLevelAt(t) /\ launch.kernel # "gm"
       \/ pc[t] = "fold" /\ t[2] < stride[t]
    THEN {t[2]} ELSE {}

(***************************************************************************)
(* No data race on shared memory: between two barriers no thread of a      *)
(* block writes a scratch lane another one reads or writes.  This is what  *)
(* the __syncthreads() calls are placed for, and what makes it right to    *)
(* take the unsynchronised += of a fold, or a store, as one step.          *)
(***************************************************************************)
SharedRaceFree ==
    \A t, u \in Threads :
        t # u /\ t[1] = u[1] =>
            WritesLanes(t) \cap (WritesLanes(u) \cup ReadsLanes(u)) = {}

(***************************************************************************)
(* The barrier is never divergent: when a thread waits at one, no thread   *)
(* of its block has left the kernel, and the waiting threads are at the    *)
(* same barrier of the same iteration.  An early return, on a partial last *)
(* block or on rejected metadata, has to be uniform in the block.          *)
(***************************************************************************)
BarrierUniform ==
    \A t, u \in Threads :
        t[1] = u[1] /\ pc[t] \in Barriers =>
            /\ pc[u] # "exit"
            /\ pc[u] \in Barriers =>
                   pc[u] = pc[t] /\ point[u] = point[t] /\ stride[u] = stride[t]

(***************************************************************************)
(* The gradient pointers only ever advance, inside the thread loop, and    *)
(* yet point at the sampling's own slot whenever a thread samples or       *)
(* stores.  This holds only while no thread runs the loop twice: it is the *)
(* reason GET_BLOCKS must not cap the grid.                                *)
(***************************************************************************)
PointersTrackSlots ==
    \A t \in Threads : pc[t] \in {"sample", "store"} => gradPtr[t] = SlotOf(t)

(***************************************************************************)
(* No data race on the outputs: the plain stores of two block leaders      *)
(* never go to the same slot, so only multi_blocks needs atomics there.    *)
(***************************************************************************)
StoreRaceFree ==
    \A t, u \in Threads :
        /\ t # u
        /\ pc[t] = "store" /\ t[2] = 0 /\ pc[u] = "store" /\ u[2] = 0
        /\ launch.kernel # "shm_reduce_v2_multi_blocks"
        => gradPtr[t] # gradPtr[u]

(***************************************************************************)
(* When the launch ends, every cell of the three gradients holds exactly   *)
(* the contributions the operator owes to it: for every channel count, and *)
(* whichever kernel it selects, the reduction loses none and counts none   *)
(* twice.                                                                  *)
(***************************************************************************)
ExactWhenDone == LaunchDone => acc = due

(***************************************************************************)
(* At every step of every thread, the gradients only gain contributions    *)
(* they are owed: a partial sum is never overwritten, a scratch cell never *)
(* leaks what an earlier point left in it.                                 *)
(***************************************************************************)
AccumulatesOnlyDue == Gradients!Spec

=============================================================================
