---------------------------- MODULE Devices_proofs ----------------------------
(***************************************************************************)
(* The kernels of the three devices, for every size of a call, every block *)
(* size, grid, number of workers, SIMD width and footprint.                *)
(***************************************************************************)
EXTENDS Devices, WellFoundedInduction, TLAPS

-----------------------------------------------------------------------------
(* Integer arithmetic, and the number of blocks of a launch.               *)

(* Euclidean division. *)
LEMMA DivBounds ==
    ASSUME NEW a \in Nat, NEW b \in Nat \ {0}
    PROVE  /\ a \div b \in Nat
           /\ (a \div b) * b <= a
           /\ a < (a \div b) * b + b
OBVIOUS

(* Multiplication is strictly monotone. *)
LEMMA TimesMonotone ==
    ASSUME NEW a \in Nat, NEW b \in Nat, NEW c \in Nat, a < b
    PROVE  a * c + c <= b * c
OBVIOUS

(* Rounding up a multiple of the block size gives exactly that multiple. *)
LEMMA CudaBlocksBounds ==
    ASSUME NEW n \in Nat \ {0}, NEW b \in Nat \ {0}
    PROVE  /\ cuda_blocks(n, b) \in Nat \ {0}
           /\ n <= cuda_blocks(n, b) * b
           /\ \A m \in Nat : n = m * b => cuda_blocks(n, b) = m
<1> DEFINE q == (n - 1) \div b
<1>1. n - 1 \in Nat
  OBVIOUS
<1>2. q \in Nat /\ q * b <= n - 1 /\ n - 1 < q * b + b
  BY <1>1, DivBounds
<1>3. (q + 1) * b = q * b + b
  BY <1>2
<1>4. n <= (q + 1) * b
  BY <1>2, <1>3
<1>5. ASSUME NEW m \in Nat, n = m * b PROVE q + 1 = m
  <2>1. ~(m < q + 1)
    <3> SUFFICES ASSUME m <= q PROVE FALSE
      BY <1>2
    <3>1. m * b <= q * b
      BY <1>2, TimesMonotone
    <3> QED
      BY <3>1, <1>2, <1>5
  <2>2. ~(q + 1 < m)
    <3> SUFFICES ASSUME q + 1 < m PROVE FALSE
      OBVIOUS
    <3>1. (q + 1) * b + b <= m * b
      BY <1>2, TimesMonotone
    <3> QED
      BY <3>1, <1>2, <1>3, <1>5
  <2> QED
    BY <2>1, <2>2, <1>2
<1> QED
  BY <1>2, <1>4, <1>5 DEF cuda_blocks

-----------------------------------------------------------------------------
(* The invariant.                                                          *)

Region(label) ==
    IF label \in {"fold", "folded"} THEN "folding"
    ELSE IF label \in {"store", "stored"} THEN "storing"
    ELSE "sampling"

(* The point a thread works on is a point. *)
PointInRange == \A t \in Threads : pc[t] \notin {"loop", "exit"} => point[t] < LP

SameRegion ==
    \A t, u \in Threads :
        t[1] = u[1] /\ pc[t] # "exit" /\ pc[u] # "exit" =>
            Region(pc[t]) = Region(pc[u]) /\ stride[t] = stride[u]

(* The point a thread is at, or on its way to. *)
Target(t) == IF pc[t] = "next" THEN point[t] + 1 ELSE point[t]

(* In the reducing kernels, the threads of a block go through the points   *)
(* together, those that have left the kernel included.                     *)
SameTarget ==
    launch.kernel # "gm" =>
        \A t, u \in Threads : t[1] = u[1] => Target(t) = Target(u)

FirstIndex(t) == t[1] * launch.blockDim + t[2]

(* The loop body is entered once: at its head a thread has either done     *)
(* nothing yet or all points, and then its next index is past the end.     *)
LoopHead ==
    \A t \in Threads : pc[t] = "loop" =>
        \/ point[t] = 0 /\ gradPtr[t] = 0 /\ index[t] = FirstIndex(t)
        \/ point[t] = LP /\ index[t] >= launch.n

(* Threads leave the reducing kernels after the last point or at a level   *)
(* that every thread rejects.                                              *)
ExitPoint ==
    launch.kernel # "gm" =>
        \A t \in Threads : pc[t] = "exit" => point[t] = LP \/ BadLevelAt(t)

PastCheck ==
    \A t \in Threads : pc[t] \notin {"loop", "sample", "exit"} => ~BadLevelAt(t)

SlotPointer ==
    \A t \in Threads : pc[t] \notin {"loop", "exit"} =>
        gradPtr[t] = SlotOf(t) /\ index[t] = FirstIndex(t)

(* The gm kernel has no barrier. *)
GmLabels ==
    launch.kernel = "gm" => \A t \in Threads : pc[t] \in {"loop", "sample", "next", "exit"}

TypeInv == TypeOK /\ PointInRange
UniformInv == SameTarget /\ ExitPoint /\ PastCheck /\ GmLabels
LoopInv == LoopHead /\ SlotPointer
IInv == TypeInv /\ SameRegion /\ UniformInv /\ LoopInv

-----------------------------------------------------------------------------
(* Lemmas about the helpers.                                               *)

(* There is at least one point. *)
LEMMA LPPositive == LP \in Nat /\ LP > 0
BY SizesAssumption DEF LP

(* A sum of sets of addends is a set of addends. *)
LEMMA SumOverType ==
    ASSUME NEW f, NEW cells, \A i \in cells : f[i] \in SUBSET Addends
    PROVE  SumOver(f, cells) \in SUBSET Addends
<1>1. Twice \in Addends
  BY DEF Twice, Addends
<1> DEFINE twice == IF \E i, j \in cells : i # j /\ f[i] \cap f[j] # {}
                    THEN {Twice} ELSE {}
           once == UNION {f[i] : i \in cells}
<1>2. once \subseteq Addends
  OBVIOUS
<1>3. twice \subseteq Addends
  BY <1>1
<1>4. SumOver(f, cells) = once \cup twice
  BY DEF SumOver
<1> HIDE DEF once, twice
<1> QED
  BY <1>2, <1>3, <1>4

(* Adding to a set of addends gives a set of addends. *)
LEMMA PlusType ==
    ASSUME NEW a \in SUBSET Addends, NEW b \in SUBSET Addends
    PROVE  Plus(a, b) \in SUBSET Addends
<1>1. Twice \in Addends
  BY DEF Twice, Addends
<1> QED
  BY <1>1 DEF Plus

(* What every launch record satisfies. *)
LEMMA LaunchFacts ==
    ASSUME NEW c \in ChannelChoices, NEW checked \in BOOLEAN, NEW level \in 0 .. Levels,
           launch = Launch(c, checked, level)
    PROVE  /\ launch.channels \in Nat \ {0}
           /\ launch.blockDim \in Nat \ {0}
           /\ launch.gridDim \in Nat \ {0}
           /\ launch.n \in Nat \ {0}
           /\ launch.n = SamplingCount * launch.channels
<1> DEFINE n == SamplingCount * c
           B == BlockDim(c)
<1>1. c \in Nat \ {0} /\ B \in Nat \ {0}
  BY SizesAssumption DEF BlockDim
<1>2. n \in Nat \ {0}
  BY <1>1, SizesAssumption
<1>3. cuda_blocks(n, B) \in Nat \ {0}
  BY <1>1, <1>2, CudaBlocksBounds
<1>4. /\ launch.channels = c
      /\ launch.n = n
      /\ launch.blockDim = B
      /\ launch.gridDim = cuda_blocks(n, B)
  BY DEF Launch
<1> QED
  BY <1>1, <1>2, <1>3, <1>4

(* The launch has channels, threads, blocks and work. *)
LEMMA TypeFacts ==
    ASSUME LaunchType
    PROVE  /\ launch.channels \in Nat \ {0}
           /\ launch.blockDim \in Nat \ {0}
           /\ launch.gridDim \in Nat \ {0}
           /\ launch.n \in Nat \ {0}
           /\ launch.n = SamplingCount * launch.channels
BY LaunchFacts DEF LaunchType

(* The threads of a launch do not change. *)
LEMMA SameThreads ==
    ASSUME UNCHANGED launch
    PROVE  Blocks' = Blocks /\ Lanes' = Lanes /\ Threads' = Threads /\ Tree' = Tree
BY DEF Blocks, Lanes, Threads, Tree

(* A thread is a pair of a block and a lane. *)
LEMMA ThreadLane ==
    ASSUME NEW t \in Threads
    PROVE  t[1] \in Blocks /\ t[2] \in Lanes /\ t = <<t[1], t[2]>>
BY DEF Threads

(* What a thread adds is a set of addends. *)
LEMMA AddendType ==
    ASSUME ThreadType, NEW t \in Threads, NEW component \in {"w", "h", "a", "v"}
    PROVE  Addend(t, component) \in SUBSET Addends
<1>1. index[t] \in Nat /\ point[t] \in Nat
  BY LPPositive DEF ThreadType
<1>2. <<index[t], point[t], component>> \in Addends
  BY <1>1 DEF Addends
<1> QED
  BY <1>2 DEF Addend

-----------------------------------------------------------------------------
(* Type correctness, one lemma per action.                                 *)

(* The type invariant holds when the kernel is launched. *)
LEMMA TypeInit == Init => TypeOK /\ PointInRange
<1> SUFFICES ASSUME Init PROVE TypeOK /\ PointInRange
  OBVIOUS
<1>1. PICK c \in ChannelChoices, checked \in BOOLEAN, level \in 0 .. Levels :
          launch = Launch(c, checked, level)
  BY DEF Init
<1>2. LaunchType
  BY <1>1 DEF LaunchType
<1>3. ThreadType
  <2>1. \A t \in Threads : t[1] * launch.blockDim + t[2] \in Nat
    <3> TAKE t \in Threads
    <3>1. t[1] \in Nat /\ t[2] \in Nat
      BY DEF Threads, Blocks, Lanes
    <3> QED
      BY <3>1, <1>2, TypeFacts
  <2>2. index \in [Threads -> Nat]
    BY <2>1 DEF Init
  <2>3. pc \in [Threads -> Labels] /\ gradPtr \in [Threads -> Nat]
    BY DEF Init, Labels
  <2>4. point \in [Threads -> 0 .. LP]
    BY LPPositive DEF Init
  <2>5. stride \in [Threads -> 0 .. launch.blockDim \div 2]
    <3>1. launch.blockDim \div 2 \in Nat
      BY <1>2, TypeFacts
    <3> QED
      BY <3>1 DEF Init
  <2>6. prevStride \in [Threads -> 0 .. launch.blockDim]
    BY <1>2, TypeFacts DEF Init
  <2> QED
    BY <2>2, <2>3, <2>4, <2>5, <2>6 DEF ThreadType
<1>4. MemoryType
  <2>1. {Garbage} \in SUBSET Addends
    BY DEF Garbage, Addends
  <2>2. /\ cacheLoc \in [Blocks -> [0 .. 2 * launch.blockDim - 1 -> SUBSET Addends]]
        /\ cacheAttn \in [Blocks -> [Lanes -> SUBSET Addends]]
    BY <2>1 DEF Init
  <2>3. /\ gradLoc \in [0 .. 2 * SamplingCount * LP - 1 -> SUBSET Addends]
        /\ gradAttn \in [Slots -> SUBSET Addends]
        /\ gradValue \in [0 .. PixelCount * launch.channels - 1 -> SUBSET Addends]
    BY DEF Init
  <2> QED
    BY <2>2, <2>3 DEF MemoryType
<1>5. PointInRange
  BY DEF Init, PointInRange
<1> QED
  BY <1>2, <1>3, <1>4, <1>5 DEF TypeOK

(* Entering or leaving CUDA_KERNEL_LOOP preserves the types. *)
LEMMA TypeKernelLoop ==
    ASSUME TypeOK, PointInRange, NEW t \in Threads, KernelLoop(t)
    PROVE  TypeOK' /\ PointInRange'
<1>1. UNCHANGED <<launch, index, stride, prevStride, cacheLoc, cacheAttn,
                  gradLoc, gradAttn, gradValue>>
  BY DEF KernelLoop, caches, grads
<1>2. Blocks' = Blocks /\ Lanes' = Lanes /\ Threads' = Threads
  BY <1>1, SameThreads
<1>3. (index[t] \div launch.channels) * LP \in Nat
  <2>1. index[t] \div launch.channels \in Nat
    <3>1. index[t] \in Nat
      BY DEF TypeOK, ThreadType
    <3> QED
      BY <3>1, TypeFacts DEF TypeOK
  <2> QED
    BY <2>1, LPPositive
<1>4. gradPtr' \in [Threads -> Nat]
  BY <1>3 DEF KernelLoop, TypeOK, ThreadType
<1>5. point' \in [Threads -> 0 .. LP]
  BY LPPositive DEF KernelLoop, TypeOK, ThreadType
<1>6. pc' \in [Threads -> Labels]
  BY DEF KernelLoop, TypeOK, ThreadType, Labels
<1>7. PointInRange'
  BY <1>2, LPPositive DEF KernelLoop, TypeOK, ThreadType, PointInRange
<1> QED
  BY <1>1, <1>2, <1>4, <1>5, <1>6, <1>7 DEF TypeOK, LaunchType, ThreadType, MemoryType

(* The early return on rejected metadata preserves the types. *)
LEMMA TypeReturn ==
    ASSUME TypeOK, PointInRange, NEW t \in Threads, ReturnOnBadLevel(t)
    PROVE  TypeOK' /\ PointInRange'
<1>1. UNCHANGED <<launch, index, point, gradPtr, stride, prevStride, cacheLoc, cacheAttn,
                  gradLoc, gradAttn, gradValue>>
  BY DEF ReturnOnBadLevel, caches, grads
<1>2. Blocks' = Blocks /\ Lanes' = Lanes /\ Threads' = Threads
  BY <1>1, SameThreads
<1>3. pc' \in [Threads -> Labels]
  BY DEF ReturnOnBadLevel, TypeOK, ThreadType, Labels
<1>4. PointInRange'
  BY <1>1, <1>2 DEF ReturnOnBadLevel, TypeOK, ThreadType, PointInRange
<1> QED
  BY <1>1, <1>2, <1>3, <1>4 DEF TypeOK, LaunchType, ThreadType, MemoryType

(* The atomics on grad_value preserve its type. *)
LEMMA TypeAddToValue ==
    ASSUME TypeOK, NEW t \in Threads, AddToValue(t)
    PROVE  gradValue' \in [0 .. PixelCount * launch.channels - 1 -> SUBSET Addends]
<1>1. Addend(t, "v") \in SUBSET Addends
  BY AddendType DEF TypeOK
<1>2. \A i \in DOMAIN gradValue : Plus(gradValue[i], Addend(t, "v")) \in SUBSET Addends
  BY <1>1, PlusType DEF TypeOK, MemoryType
<1>3. DOMAIN gradValue = 0 .. PixelCount * launch.channels - 1
  BY DEF TypeOK, MemoryType
<1> QED
  BY <1>2, <1>3 DEF AddToValue, TypeOK, MemoryType

(* Writing one lane of a block's scratch. *)
LEMMA ScratchUpdate ==
    ASSUME MemoryType, NEW b, NEW i,
           NEW w \in SUBSET Addends, NEW h \in SUBSET Addends, NEW a \in SUBSET Addends
    PROVE  /\ [cacheAttn EXCEPT ![b][i] = a] \in [Blocks -> [Lanes -> SUBSET Addends]]
           /\ [cacheLoc EXCEPT ![b][2 * i] = w, ![b][2 * i + 1] = h]
                  \in [Blocks -> [0 .. 2 * launch.blockDim - 1 -> SUBSET Addends]]
BY DEF MemoryType

(* Sampling into the scratch preserves the types. *)
LEMMA TypeSamplePoint ==
    ASSUME TypeOK, PointInRange, NEW t \in Threads, SamplePoint(t)
    PROVE  TypeOK' /\ PointInRange'
<1>1. UNCHANGED <<launch, index, point, gradPtr, stride, prevStride, gradLoc, gradAttn>>
  BY DEF SamplePoint
<1>2. Blocks' = Blocks /\ Lanes' = Lanes /\ Threads' = Threads
  BY <1>1, SameThreads
<1>3. /\ Addend(t, "w") \in SUBSET Addends
      /\ Addend(t, "h") \in SUBSET Addends
      /\ Addend(t, "a") \in SUBSET Addends
  BY AddendType DEF TypeOK
<1>4. cacheAttn' \in [Blocks -> [Lanes -> SUBSET Addends]]
  BY <1>3 DEF SamplePoint, TypeOK, MemoryType
<1>5. cacheLoc' \in [Blocks -> [0 .. 2 * launch.blockDim - 1 -> SUBSET Addends]]
  BY <1>3 DEF SamplePoint, TypeOK, MemoryType
<1>6. gradValue' \in [0 .. PixelCount * launch.channels - 1 -> SUBSET Addends]
  BY TypeAddToValue DEF SamplePoint
<1>7. pc' \in [Threads -> Labels]
  BY DEF SamplePoint, TypeOK, ThreadType, Labels
<1>8. PointInRange'
  BY <1>1, <1>2 DEF SamplePoint, TypeOK, ThreadType, PointInRange
<1> QED
  BY <1>1, <1>2, <1>4, <1>5, <1>6, <1>7, <1>8 DEF TypeOK, LaunchType, ThreadType, MemoryType

(* Sampling into global memory preserves the types. *)
LEMMA TypeSampleToGlobal ==
    ASSUME TypeOK, PointInRange, NEW t \in Threads, SampleToGlobal(t)
    PROVE  TypeOK' /\ PointInRange'
<1>1. UNCHANGED <<launch, index, point, gradPtr, stride, prevStride, cacheLoc, cacheAttn>>
  BY DEF SampleToGlobal, caches
<1>2. Blocks' = Blocks /\ Lanes' = Lanes /\ Threads' = Threads
  BY <1>1, SameThreads
<1>3. \A f \in SUBSET Addends, component \in {"w", "h", "a"} :
          Plus(f, Addend(t, component)) \in SUBSET Addends
  BY AddendType, PlusType DEF TypeOK
<1>4. gradAttn' \in [Slots -> SUBSET Addends]
  BY <1>3 DEF SampleToGlobal, TypeOK, MemoryType
<1>5. gradLoc' \in [0 .. 2 * SamplingCount * LP - 1 -> SUBSET Addends]
  BY <1>3 DEF SampleToGlobal, TypeOK, MemoryType
<1>6. gradValue' \in [0 .. PixelCount * launch.channels - 1 -> SUBSET Addends]
  BY TypeAddToValue DEF SampleToGlobal
<1>7. pc' \in [Threads -> Labels]
  BY DEF SampleToGlobal, TypeOK, ThreadType, Labels
<1>8. PointInRange'
  BY <1>1, <1>2 DEF SampleToGlobal, TypeOK, ThreadType, PointInRange
<1> QED
  BY <1>1, <1>2, <1>4, <1>5, <1>6, <1>7, <1>8 DEF TypeOK, LaunchType, ThreadType, MemoryType

(* The two cells of a lane are cells of the location scratch. *)
LEMMA LaneCells ==
    ASSUME LaunchType, NEW i \in Lanes
    PROVE  /\ 2 * i \in 0 .. 2 * launch.blockDim - 1
           /\ 2 * i + 1 \in 0 .. 2 * launch.blockDim - 1
BY TypeFacts DEF Lanes

(* Sums over lanes of the scratch of one block. *)
LEMMA LaneSums ==
    ASSUME TypeOK, NEW b \in Blocks, NEW lanes \in SUBSET Lanes
    PROVE  /\ SumOver(cacheAttn[b], lanes) \in SUBSET Addends
           /\ SumOver(cacheLoc[b], {2 * i : i \in lanes}) \in SUBSET Addends
           /\ SumOver(cacheLoc[b], {2 * i + 1 : i \in lanes}) \in SUBSET Addends
<1>1. cacheAttn[b] \in [Lanes -> SUBSET Addends]
  BY DEF TypeOK, MemoryType
<1>2. cacheLoc[b] \in [0 .. 2 * launch.blockDim - 1 -> SUBSET Addends]
  BY DEF TypeOK, MemoryType
<1> DEFINE evens == {2 * i : i \in lanes}
           odds == {2 * i + 1 : i \in lanes}
<1>3. /\ \A i \in evens : i \in 0 .. 2 * launch.blockDim - 1
      /\ \A i \in odds : i \in 0 .. 2 * launch.blockDim - 1
  BY LaneCells DEF TypeOK
<1>4. /\ \A i \in evens : cacheLoc[b][i] \in SUBSET Addends
      /\ \A i \in odds : cacheLoc[b][i] \in SUBSET Addends
      /\ \A i \in lanes : cacheAttn[b][i] \in SUBSET Addends
  BY <1>1, <1>2, <1>3
<1> HIDE DEF evens, odds
<1>5. /\ SumOver(cacheAttn[b], lanes) \in SUBSET Addends
      /\ SumOver(cacheLoc[b], evens) \in SUBSET Addends
      /\ SumOver(cacheLoc[b], odds) \in SUBSET Addends
  BY <1>4, SumOverType
<1> QED
  BY <1>5 DEF evens, odds

(* The serial reduction preserves the types. *)
LEMMA TypeSerialStore ==
    ASSUME TypeOK, PointInRange, NEW t \in Threads, SerialStore(t)
    PROVE  TypeOK' /\ PointInRange'
<1>1. UNCHANGED <<launch, index, point, gradPtr, stride, prevStride, cacheLoc, cacheAttn,
                  gradValue>>
  BY DEF SerialStore, caches
<1>2. Blocks' = Blocks /\ Lanes' = Lanes /\ Threads' = Threads
  BY <1>1, SameThreads
<1> DEFINE sumW == SumOver(cacheLoc[t[1]], {2 * i : i \in Lanes})
           sumH == SumOver(cacheLoc[t[1]], {2 * i + 1 : i \in Lanes})
           sumA == SumOver(cacheAttn[t[1]], Lanes)
<1>3. sumW \in SUBSET Addends /\ sumH \in SUBSET Addends /\ sumA \in SUBSET Addends
  BY LaneSums, ThreadLane
<1>4. \/ /\ gradLoc' = [gradLoc EXCEPT ![2 * gradPtr[t]] = sumW, ![2 * gradPtr[t] + 1] = sumH]
         /\ gradAttn' = [gradAttn EXCEPT ![gradPtr[t]] = sumA]
      \/ UNCHANGED <<gradLoc, gradAttn>>
  BY DEF SerialStore
<1> HIDE DEF sumW, sumH, sumA
<1>5. /\ gradLoc' \in [0 .. 2 * SamplingCount * LP - 1 -> SUBSET Addends]
      /\ gradAttn' \in [Slots -> SUBSET Addends]
  BY <1>3, <1>4 DEF TypeOK, MemoryType
<1>6. pc' \in [Threads -> Labels]
  BY DEF SerialStore, TypeOK, ThreadType, Labels
<1>7. PointInRange'
  BY <1>1, <1>2 DEF SerialStore, TypeOK, ThreadType, PointInRange
<1> QED
  BY <1>1, <1>2, <1>5, <1>6, <1>7 DEF TypeOK, LaunchType, ThreadType, MemoryType

(* A fold reads lanes of its own block only. *)
LEMMA FoldLanes ==
    ASSUME LaunchType, ThreadType, NEW t \in Threads, t[2] < stride[t]
    PROVE  {t[2]} \cup FoldSources(t) \in SUBSET Lanes
<1>1. /\ t[2] \in Nat /\ t[2] < launch.blockDim
      /\ stride[t] \in Nat /\ stride[t] <= launch.blockDim \div 2
      /\ prevStride[t] \in Nat /\ prevStride[t] <= launch.blockDim
      /\ launch.blockDim \in Nat
  BY TypeFacts, ThreadLane DEF ThreadType, Lanes
<1>2. t[2] + stride[t] < launch.blockDim
  BY <1>1
<1> QED
  BY <1>1, <1>2 DEF FoldSources, Lanes

(* A fold reads lanes of its own block, and preserves the types. *)
LEMMA TypeFold ==
    ASSUME TypeOK, PointInRange, NEW t \in Threads, Fold(t)
    PROVE  TypeOK' /\ PointInRange'
<1>1. UNCHANGED <<launch, index, point, gradPtr, stride, prevStride, gradLoc, gradAttn,
                  gradValue>>
  BY DEF Fold, grads
<1>2. Blocks' = Blocks /\ Lanes' = Lanes /\ Threads' = Threads
  BY <1>1, SameThreads
<1> DEFINE lanes == {t[2]} \cup FoldSources(t)
           sumW == SumOver(cacheLoc[t[1]], {2 * i : i \in lanes})
           sumH == SumOver(cacheLoc[t[1]], {2 * i + 1 : i \in lanes})
           sumA == SumOver(cacheAttn[t[1]], lanes)
<1>3. t[2] < stride[t] =>
          sumW \in SUBSET Addends /\ sumH \in SUBSET Addends /\ sumA \in SUBSET Addends
  BY LaneSums, ThreadLane, FoldLanes DEF TypeOK
<1>4. \/ /\ t[2] < stride[t]
         /\ cacheAttn' = [cacheAttn EXCEPT ![t[1]][t[2]] = sumA]
         /\ cacheLoc' = [cacheLoc EXCEPT ![t[1]][2 * t[2]] = sumW,
                                         ![t[1]][2 * t[2] + 1] = sumH]
      \/ UNCHANGED <<cacheLoc, cacheAttn>>
  BY DEF Fold, caches
<1> HIDE DEF lanes, sumW, sumH, sumA
<1>5. /\ cacheAttn' \in [Blocks -> [Lanes -> SUBSET Addends]]
      /\ cacheLoc' \in [Blocks -> [0 .. 2 * launch.blockDim - 1 -> SUBSET Addends]]
  <2>1. CASE t[2] < stride[t] /\ ~UNCHANGED <<cacheLoc, cacheAttn>>
    <3>1. sumW \in SUBSET Addends /\ sumH \in SUBSET Addends /\ sumA \in SUBSET Addends
      BY <1>3, <2>1
    <3>2. /\ cacheAttn' = [cacheAttn EXCEPT ![t[1]][t[2]] = sumA]
          /\ cacheLoc' = [cacheLoc EXCEPT ![t[1]][2 * t[2]] = sumW,
                                          ![t[1]][2 * t[2] + 1] = sumH]
      BY <1>4, <2>1
    <3>3. MemoryType
      BY DEF TypeOK
    <3> QED
      BY <3>1, <3>2, <3>3, ScratchUpdate
  <2>2. CASE UNCHANGED <<cacheLoc, cacheAttn>>
    BY <2>2 DEF TypeOK, MemoryType
  <2> QED
    BY <1>4, <2>1, <2>2
<1>6. pc' \in [Threads -> Labels]
  BY DEF Fold, TypeOK, ThreadType, Labels
<1>7. PointInRange'
  BY <1>1, <1>2 DEF Fold, TypeOK, ThreadType, PointInRange
<1> QED
  BY <1>1, <1>2, <1>5, <1>6, <1>7 DEF TypeOK, LaunchType, ThreadType, MemoryType

(* The leaders' stores, plain or atomic, preserve the types. *)
LEMMA TypeLeaderStore ==
    ASSUME TypeOK, PointInRange, NEW t \in Threads, LeaderStore(t) \/ LeaderAtomicAdd(t)
    PROVE  TypeOK' /\ PointInRange'
<1>1. UNCHANGED <<launch, index, point, gradPtr, stride, prevStride, cacheLoc, cacheAttn,
                  gradValue>>
  BY DEF LeaderStore, LeaderAtomicAdd, caches
<1>2. Blocks' = Blocks /\ Lanes' = Lanes /\ Threads' = Threads
  BY <1>1, SameThreads
<1>3. /\ cacheLoc[t[1]][0] \in SUBSET Addends
      /\ cacheLoc[t[1]][1] \in SUBSET Addends
      /\ cacheAttn[t[1]][0] \in SUBSET Addends
  <2>1. 0 \in Lanes
    BY TypeFacts DEF Lanes, TypeOK
  <2>2. 0 \in 0 .. 2 * launch.blockDim - 1 /\ 1 \in 0 .. 2 * launch.blockDim - 1
    BY TypeFacts DEF TypeOK
  <2>3. /\ cacheAttn[t[1]] \in [Lanes -> SUBSET Addends]
        /\ cacheLoc[t[1]] \in [0 .. 2 * launch.blockDim - 1 -> SUBSET Addends]
    BY ThreadLane DEF TypeOK, MemoryType
  <2> QED
    BY <2>1, <2>2, <2>3
<1>4. \A f \in SUBSET Addends :
          /\ Plus(f, cacheLoc[t[1]][0]) \in SUBSET Addends
          /\ Plus(f, cacheLoc[t[1]][1]) \in SUBSET Addends
          /\ Plus(f, cacheAttn[t[1]][0]) \in SUBSET Addends
  BY <1>3, PlusType
<1>5. gradLoc' \in [0 .. 2 * SamplingCount * LP - 1 -> SUBSET Addends]
  BY <1>3, <1>4 DEF LeaderStore, LeaderAtomicAdd, TypeOK, MemoryType
<1>6. gradAttn' \in [Slots -> SUBSET Addends]
  <2>1. CASE LeaderStore(t)
    BY <1>3, <2>1 DEF LeaderStore, TypeOK, MemoryType
  <2>2. CASE LeaderAtomicAdd(t)
    BY <1>4, <2>2 DEF LeaderAtomicAdd, TypeOK, MemoryType
  <2> QED
    BY <2>1, <2>2
<1>7. pc' \in [Threads -> Labels]
  BY DEF LeaderStore, LeaderAtomicAdd, TypeOK, ThreadType, Labels
<1>8. PointInRange'
  BY <1>1, <1>2 DEF LeaderStore, LeaderAtomicAdd, TypeOK, ThreadType, PointInRange
<1> QED
  BY <1>1, <1>2, <1>5, <1>6, <1>7, <1>8 DEF TypeOK, LaunchType, ThreadType, MemoryType

(* Advancing the pointers preserves the types. *)
LEMMA TypeNextPoint ==
    ASSUME TypeOK, PointInRange, NEW t \in Threads, NextPoint(t)
    PROVE  TypeOK' /\ PointInRange'
<1>1. UNCHANGED <<launch, stride, prevStride, cacheLoc, cacheAttn,
                  gradLoc, gradAttn, gradValue>>
  BY DEF NextPoint, caches, grads
<1>2. Blocks' = Blocks /\ Lanes' = Lanes /\ Threads' = Threads
  BY <1>1, SameThreads
<1>3. gradPtr' \in [Threads -> Nat]
  BY DEF NextPoint, TypeOK, ThreadType
<1>4. index' \in [Threads -> Nat]
  <2>1. launch.blockDim * launch.gridDim \in Nat
    BY TypeFacts DEF TypeOK
  <2> QED
    BY <2>1 DEF NextPoint, TypeOK, ThreadType
<1>5. point[t] \in Nat /\ point[t] < LP
  BY LPPositive DEF NextPoint, PointInRange, TypeOK, ThreadType
<1>6. point' \in [Threads -> 0 .. LP]
  BY <1>5, LPPositive DEF NextPoint, TypeOK, ThreadType
<1>7. pc' \in [Threads -> Labels]
  BY DEF NextPoint, TypeOK, ThreadType, Labels
<1>8. PointInRange'
  BY <1>2, <1>5, LPPositive DEF NextPoint, TypeOK, ThreadType, PointInRange
<1> QED
  BY <1>1, <1>2, <1>3, <1>4, <1>6, <1>7, <1>8 DEF TypeOK, LaunchType, ThreadType, MemoryType

(* A barrier, with its new stride, preserves the types. *)
LEMMA TypeSyncthreads ==
    ASSUME TypeOK, PointInRange, NEW b \in Blocks, Syncthreads(b)
    PROVE  TypeOK' /\ PointInRange'
<1>1. UNCHANGED <<launch, index, point, gradPtr, cacheLoc, cacheAttn,
                  gradLoc, gradAttn, gradValue>>
  BY DEF Syncthreads, caches, grads
<1>2. Blocks' = Blocks /\ Lanes' = Lanes /\ Threads' = Threads
  BY <1>1, SameThreads
<1>3. \A t \in Threads :
          /\ NextStride(t) \in 0 .. launch.blockDim \div 2
          /\ NextPrevStride(t) \in 0 .. launch.blockDim
  <2> TAKE t \in Threads
  <2>1. /\ stride[t] \in 0 .. launch.blockDim \div 2
        /\ prevStride[t] \in 0 .. launch.blockDim
        /\ launch.blockDim \in Nat \ {0}
    BY TypeFacts DEF TypeOK, ThreadType
  <2> QED
    BY <2>1 DEF NextStride, NextPrevStride
<1>4. /\ stride' \in [Threads -> 0 .. launch.blockDim \div 2]
      /\ prevStride' \in [Threads -> 0 .. launch.blockDim]
  BY <1>3 DEF Syncthreads, TypeOK, ThreadType
<1>5. \A t \in Threads :
          AfterSync(t) \in Labels /\ (AfterSync(t) = "loop" => FALSE)
  BY DEF AfterSync, Labels
<1>6. pc' \in [Threads -> Labels]
  BY <1>5 DEF Syncthreads, TypeOK, ThreadType
<1>7. PointInRange'
  <2> SUFFICES ASSUME NEW t \in Threads, pc'[t] \notin {"loop", "exit"}
               PROVE  point[t] < LP
    BY <1>1, <1>2 DEF PointInRange
  <2>1. CASE t[1] # b
    BY <2>1 DEF Syncthreads, PointInRange
  <2>2. CASE t[1] = b
    <3>1. pc[t] # "exit"
      BY <2>2 DEF Syncthreads, AfterSync
    <3>2. pc[t] \in Barriers
      BY <2>2, <3>1 DEF Syncthreads, Live, BlockThreads
    <3> QED
      BY <3>2 DEF Barriers, PointInRange
  <2> QED
    BY <2>1, <2>2
<1> QED
  BY <1>1, <1>2, <1>4, <1>6, <1>7 DEF TypeOK, LaunchType, ThreadType, MemoryType

(* So does a step that changes nothing. *)
LEMMA TypeStutter ==
    ASSUME TypeOK, PointInRange, UNCHANGED vars
    PROVE  TypeOK' /\ PointInRange'
<1>1. UNCHANGED <<launch, pc, index, point, gradPtr, stride, prevStride,
                  cacheLoc, cacheAttn, gradLoc, gradAttn, gradValue>>
  BY DEF vars, caches, grads
<1>2. Blocks' = Blocks /\ Lanes' = Lanes /\ Threads' = Threads
  BY <1>1, SameThreads
<1> QED
  BY <1>1, <1>2 DEF TypeOK, LaunchType, ThreadType, MemoryType, PointInRange

(* The six kernels are built from eight kinds of step. *)
LEMMA ThreadStepCases ==
    ASSUME NEW t \in Threads, ThreadStep(t)
    PROVE  \/ KernelLoop(t)
           \/ ReturnOnBadLevel(t)
           \/ launch.kernel # "gm" /\ SamplePoint(t)
           \/ launch.kernel = "gm" /\ SampleToGlobal(t)
           \/ launch.kernel # "gm" /\ SerialStore(t)
           \/ launch.kernel # "gm" /\ Fold(t)
           \/ launch.kernel # "gm" /\ (LeaderStore(t) \/ LeaderAtomicAdd(t))
           \/ NextPoint(t)
BY DEF ThreadStep, aware_reduce_v1, aware_reduce_v2, shm_reduce_v1, shm_reduce_v2,
       shm_reduce_v2_multi_blocks, gm

(* Every step preserves the types. *)
LEMMA TypeStep ==
    ASSUME TypeOK, PointInRange, [Next]_vars
    PROVE  TypeOK' /\ PointInRange'
<1>1. ASSUME NEW t \in Threads, ThreadStep(t)
      PROVE  TypeOK' /\ PointInRange'
  BY <1>1, ThreadStepCases, TypeKernelLoop, TypeReturn, TypeSamplePoint, TypeSampleToGlobal,
     TypeSerialStore, TypeFold, TypeLeaderStore, TypeNextPoint
<1> QED
  BY <1>1, TypeSyncthreads, TypeStutter DEF Next, Terminating

(***************************************************************************)
(* Every variable keeps its type in every launch, for every size.          *)
(***************************************************************************)
THEOREM TypeCorrect == Spec => []TypeOK
<1>1. Init => TypeOK /\ PointInRange
  BY TypeInit
<1>2. (TypeOK /\ PointInRange) /\ [Next]_vars => (TypeOK /\ PointInRange)'
  BY TypeStep
<1> QED
  BY <1>1, <1>2, PTL DEF Spec

-----------------------------------------------------------------------------
(* The grid.                                                               *)

(* The grid covers the work and, in the reducing kernels, exactly. *)
LEMMA GridCovers ==
    ASSUME LaunchType
    PROVE  /\ launch.n <= launch.gridDim * launch.blockDim
           /\ launch.kernel # "gm" => launch.n = launch.gridDim * launch.blockDim
<1>1. PICK c \in ChannelChoices, checked \in BOOLEAN, level \in 0 .. Levels :
          launch = Launch(c, checked, level)
  BY DEF LaunchType
<1> DEFINE n == SamplingCount * c
           b == BlockDim(c)
<1>2. c \in Nat \ {0} /\ b \in Nat \ {0}
  BY SizesAssumption DEF BlockDim
<1>3. n \in Nat \ {0}
  BY <1>2, SizesAssumption
<1>4. /\ launch.n = n
      /\ launch.blockDim = b
      /\ launch.gridDim = cuda_blocks(n, b)
      /\ launch.kernel = KernelFor(c)
  BY <1>1 DEF Launch
<1>5. launch.kernel # "gm" => \E m \in Nat : n = m * b
  <2>1. CASE c <= MaxThreads
    BY <2>1, <1>2, SizesAssumption DEF BlockDim
  <2>2. CASE c > MaxThreads /\ c % MaxThreads = 0
    <3>1. c = (c \div MaxThreads) * MaxThreads /\ c \div MaxThreads \in Nat
      BY <2>2, <1>2, SizesAssumption
    <3>2. n = (SamplingCount * (c \div MaxThreads)) * MaxThreads
      BY <3>1, SizesAssumption
    <3>3. b = MaxThreads /\ SamplingCount * (c \div MaxThreads) \in Nat
      BY <2>2, <3>1, SizesAssumption DEF BlockDim
    <3> QED
      BY <3>2, <3>3
  <2>3. CASE c > MaxThreads /\ c % MaxThreads # 0
    BY <2>3, <1>4 DEF KernelFor
  <2> QED
    BY <2>1, <2>2, <2>3, <1>2, SizesAssumption
<1> HIDE DEF n, b
<1> QED
  BY <1>2, <1>3, <1>4, <1>5, CudaBlocksBounds

(* The first index of a thread of a reducing kernel is below n. *)
LEMMA FirstIndexBelow ==
    ASSUME LaunchType, launch.kernel # "gm", NEW t \in Threads
    PROVE  FirstIndex(t) < launch.n
<1>1. /\ t[1] \in Nat /\ t[1] < launch.gridDim
      /\ t[2] \in Nat /\ t[2] < launch.blockDim
      /\ launch.gridDim \in Nat /\ launch.blockDim \in Nat
  BY TypeFacts, ThreadLane DEF Blocks, Lanes
<1>2. t[1] * launch.blockDim + launch.blockDim <= launch.gridDim * launch.blockDim
  BY <1>1, TimesMonotone
<1>3. t[1] * launch.blockDim \in Nat
  BY <1>1
<1> QED
  BY <1>1, <1>2, <1>3, GridCovers, TypeFacts DEF FirstIndex

-----------------------------------------------------------------------------
(* The control of a thread, and of the barrier.                            *)

(* What a step of thread t does to its own control state. *)
Enters(t) == /\ pc[t] = "loop" /\ index[t] < launch.n /\ pc'[t] = "sample"
             /\ point'[t] = 0
             /\ gradPtr'[t] = gradPtr[t] + (index[t] \div launch.channels) * LP
             /\ index'[t] = index[t]

Stays(t) == point'[t] = point[t] /\ gradPtr'[t] = gradPtr[t] /\ index'[t] = index[t]

Leaves(t) == /\ \/ pc[t] = "loop" /\ ~(index[t] < launch.n)
                \/ pc[t] = "sample" /\ BadLevelAt(t)
             /\ pc'[t] = "exit"
             /\ Stays(t)

Works(t) == /\ \/ /\ pc[t] = "sample" /\ ~BadLevelAt(t)
                  /\ \/ launch.kernel # "gm" /\ pc'[t] = "sampled"
                     \/ launch.kernel = "gm" /\ pc'[t] = "next"
               \/ pc[t] = "fold" /\ pc'[t] = "folded"
               \/ pc[t] = "store" /\ pc'[t] = "stored"
            /\ Stays(t)

Advances(t) == /\ pc[t] = "next"
               /\ point'[t] = point[t] + 1
               /\ gradPtr'[t] = gradPtr[t] + 1
               /\ \/ /\ point[t] + 1 < LP
                     /\ pc'[t] = "sample"
                     /\ index'[t] = index[t]
                  \/ /\ ~(point[t] + 1 < LP)
                     /\ pc'[t] = "loop"
                     /\ index'[t] = index[t] + launch.blockDim * launch.gridDim

(* A step of a thread moves that thread only, in one of four ways. *)
LEMMA ThreadControl ==
    ASSUME TypeOK, NEW t \in Threads, ThreadStep(t)
    PROVE  /\ UNCHANGED <<launch, stride, Threads, Blocks, Lanes>>
           /\ \A u \in Threads : u # t => pc'[u] = pc[u] /\ Stays(u)
           /\ Enters(t) \/ Leaves(t) \/ Works(t) \/ Advances(t)
<1>1. /\ pc \in [Threads -> Labels]
      /\ index \in [Threads -> Nat]
      /\ point \in [Threads -> 0 .. LP]
      /\ gradPtr \in [Threads -> Nat]
  BY DEF TypeOK, ThreadType
<1>2. CASE KernelLoop(t)
  BY <1>1, <1>2, SameThreads DEF KernelLoop, Enters, Leaves, Stays
<1>3. CASE ReturnOnBadLevel(t)
  BY <1>1, <1>3, SameThreads DEF ReturnOnBadLevel, Leaves, Stays
<1>4. CASE launch.kernel # "gm" /\ SamplePoint(t)
  BY <1>1, <1>4, SameThreads DEF SamplePoint, Works, Stays
<1>5. CASE launch.kernel = "gm" /\ SampleToGlobal(t)
  BY <1>1, <1>5, SameThreads DEF SampleToGlobal, Works, Stays
<1>6. CASE SerialStore(t)
  BY <1>1, <1>6, SameThreads DEF SerialStore, Works, Stays
<1>7. CASE Fold(t)
  BY <1>1, <1>7, SameThreads DEF Fold, Works, Stays
<1>8. CASE LeaderStore(t) \/ LeaderAtomicAdd(t)
  BY <1>1, <1>8, SameThreads DEF LeaderStore, LeaderAtomicAdd, Works, Stays
<1>9. CASE NextPoint(t)
  BY <1>1, <1>9, SameThreads DEF NextPoint, Advances, Stays
<1> QED
  BY <1>2, <1>3, <1>4, <1>5, <1>6, <1>7, <1>8, <1>9, ThreadStepCases

(* A barrier moves the waiting threads of one block only. *)
LEMMA SyncControl ==
    ASSUME TypeOK, NEW b \in Blocks, Syncthreads(b)
    PROVE  /\ UNCHANGED <<launch, Threads, Blocks, Lanes, Tree>>
           /\ \A u \in Threads : Stays(u)
           /\ \A u \in Threads :
                 \/ (u[1] # b \/ pc[u] = "exit") /\ pc'[u] = pc[u] /\ stride'[u] = stride[u]
                 \/ /\ u[1] = b /\ pc[u] \in Barriers
                    /\ pc'[u] = AfterSync(u)
                    /\ stride'[u] = NextStride(u)
<1>1. UNCHANGED <<launch, index, point, gradPtr>>
  BY DEF Syncthreads
<1>2. UNCHANGED <<launch, Threads, Blocks, Lanes, Tree>>
  BY <1>1, SameThreads
<1>3. ASSUME NEW u \in Threads, u[1] # b
      PROVE  pc'[u] = pc[u] /\ stride'[u] = stride[u]
  BY <1>3 DEF Syncthreads, Live, BlockThreads
<1>4. ASSUME NEW u \in Threads, pc[u] = "exit", u[1] = b
      PROVE  pc'[u] = pc[u] /\ stride'[u] = stride[u]
  BY <1>4 DEF Syncthreads, Live, BlockThreads, AfterSync
<1>5. ASSUME NEW u \in Threads, pc[u] # "exit", u[1] = b
      PROVE  pc[u] \in Barriers /\ pc'[u] = AfterSync(u) /\ stride'[u] = NextStride(u)
  BY <1>5 DEF Syncthreads, Live, BlockThreads
<1> QED
  BY <1>1, <1>2, <1>3, <1>4, <1>5 DEF Stays

-----------------------------------------------------------------------------
(* The invariants, one lemma per part.                                     *)

(* No step takes a thread to another region alone. *)
LEMMA RegionStep ==
    ASSUME TypeOK, SameRegion, [Next]_vars
    PROVE  SameRegion'
<1>1. ASSUME NEW t \in Threads, ThreadStep(t)
      PROVE  SameRegion'
  <2>1. UNCHANGED <<stride, Threads>>
    BY <1>1, ThreadControl
  <2>2. \A u \in Threads :
            pc'[u] # "exit" => pc[u] # "exit" /\ Region(pc'[u]) = Region(pc[u])
    BY <1>1, ThreadControl DEF Enters, Leaves, Works, Advances, Region
  <2> QED
    BY <2>1, <2>2 DEF SameRegion
<1>2. ASSUME NEW b \in Blocks, Syncthreads(b)
      PROVE  SameRegion'
  <2> SUFFICES ASSUME NEW t \in Threads, NEW u \in Threads, t[1] = u[1],
                      pc'[t] # "exit", pc'[u] # "exit"
               PROVE  Region(pc'[t]) = Region(pc'[u]) /\ stride'[t] = stride'[u]
    BY <1>2, SyncControl DEF SameRegion
  <2>1. CASE t[1] # b
    BY <2>1, <1>2, SyncControl DEF SameRegion
  <2>2. CASE t[1] = b
    <3>1. /\ pc[t] \in Barriers /\ pc'[t] = AfterSync(t) /\ stride'[t] = NextStride(t)
          /\ pc[u] \in Barriers /\ pc'[u] = AfterSync(u) /\ stride'[u] = NextStride(u)
      BY <2>2, <1>2, SyncControl
    <3>2. Region(pc[t]) = Region(pc[u]) /\ stride[t] = stride[u]
      BY <3>1 DEF SameRegion, Barriers
    <3>3. pc[t] = pc[u]
      BY <3>1, <3>2 DEF Barriers, Region
    <3>4. NextStride(t) = NextStride(u)
      BY <3>2, <3>3 DEF NextStride
    <3>5. AfterSync(t) = AfterSync(u)
      BY <3>3, <3>4 DEF AfterSync
    <3> QED
      BY <3>1, <3>4, <3>5
  <2> QED
    BY <2>1, <2>2
<1>3. CASE UNCHANGED vars
  BY <1>3 DEF vars, SameRegion, Threads, Blocks, Lanes
<1> QED
  BY <1>1, <1>2, <1>3 DEF Next, Terminating

(* A thread at a barrier is never accompanied by one that has left. *)
LEMMA NobodyLeft ==
    ASSUME TypeInv, UniformInv, NEW t \in Threads, NEW u \in Threads, t[1] = u[1],
           pc[t] \in Barriers
    PROVE  pc[u] # "exit"
<1> SUFFICES ASSUME pc[u] = "exit" PROVE FALSE
  OBVIOUS
<1>1. launch.kernel # "gm"
  BY DEF UniformInv, GmLabels, Barriers
<1>2. point[t] = point[u]
  BY <1>1 DEF UniformInv, SameTarget, Target, Barriers
<1>3. point[u] = LP \/ BadLevelAt(u)
  BY <1>1 DEF UniformInv, ExitPoint
<1>4. point[t] < LP /\ ~BadLevelAt(t)
  BY DEF TypeInv, PointInRange, UniformInv, PastCheck, Barriers
<1>5. point[t] \in Nat
  BY LPPositive DEF TypeInv, TypeOK, ThreadType
<1> QED
  BY <1>2, <1>3, <1>4, <1>5, LPPositive DEF BadLevelAt

(* Threads of a block that wait, wait at the same barrier. *)
LEMMA SameBarrier ==
    ASSUME SameRegion, NEW t \in Threads, NEW u \in Threads, t[1] = u[1],
           pc[t] \in Barriers, pc[u] \in Barriers
    PROVE  pc[t] = pc[u] /\ stride[t] = stride[u]
<1>1. Region(pc[t]) = Region(pc[u]) /\ stride[t] = stride[u]
  BY DEF SameRegion, Barriers
<1> QED
  BY <1>1 DEF Region, Barriers

(* A step of one thread keeps its block uniform. *)
LEMMA UniformThreadStep ==
    ASSUME TypeInv, UniformInv, LoopInv, NEW t \in Threads, ThreadStep(t)
    PROVE  UniformInv'
<1>1. /\ UNCHANGED <<launch, Threads>>
      /\ \A u \in Threads : u # t => pc'[u] = pc[u] /\ Stays(u)
      /\ Enters(t) \/ Leaves(t) \/ Works(t) \/ Advances(t)
  BY ThreadControl DEF TypeInv
<1>2. launch.kernel # "gm" => FirstIndex(t) < launch.n
  BY FirstIndexBelow DEF TypeInv, TypeOK
<1>3. index[t] \in Nat /\ launch.n \in Nat /\ point[t] \in Nat
  BY TypeFacts, LPPositive DEF TypeInv, TypeOK, ThreadType
<1>4. launch.kernel # "gm" => Target(t)' = Target(t)
  BY <1>1, <1>3 DEF LoopInv, LoopHead, Target, Enters, Leaves, Works, Advances, Stays
<1>5. \A u \in Threads : u # t => Target(u)' = Target(u)
  BY <1>1 DEF Target, Stays
<1>6. SameTarget'
  BY <1>1, <1>4, <1>5 DEF UniformInv, SameTarget
<1>7. ExitPoint'
  <2> SUFFICES ASSUME launch.kernel # "gm", NEW u \in Threads, pc'[u] = "exit"
               PROVE  point'[u] = LP \/ BadLevelAt(u)'
    BY <1>1 DEF ExitPoint
  <2>1. CASE u # t
    BY <2>1, <1>1 DEF UniformInv, ExitPoint, BadLevelAt, Stays
  <2>2. CASE u = t
    BY <2>2, <1>1, <1>2, <1>3
    DEF LoopInv, LoopHead, Enters, Leaves, Works, Advances, Stays, BadLevelAt
  <2> QED
    BY <2>1, <2>2
<1>8. PastCheck'
  <2> SUFFICES ASSUME NEW u \in Threads, pc'[u] \notin {"loop", "sample", "exit"}
               PROVE  ~BadLevelAt(u)'
    BY <1>1 DEF PastCheck
  <2>1. CASE u # t
    BY <2>1, <1>1 DEF UniformInv, PastCheck, BadLevelAt, Stays
  <2>2. CASE u = t
    BY <2>2, <1>1
    DEF UniformInv, PastCheck, Enters, Leaves, Works, Advances, Stays, BadLevelAt
  <2> QED
    BY <2>1, <2>2
<1>9. GmLabels'
  BY <1>1 DEF UniformInv, GmLabels, Enters, Leaves, Works, Advances
<1> QED
  BY <1>6, <1>7, <1>8, <1>9 DEF UniformInv

(* Where a waiting thread continues. *)
LEMMA AfterSyncLabels ==
    ASSUME NEW u, pc[u] \in Barriers
    PROVE  /\ AfterSync(u) \in {"next", "fold", "store"}
           /\ AfterSync(u) = "next" <=> pc[u] = "stored"
BY DEF AfterSync, Barriers

(* A barrier keeps its block uniform. *)
LEMMA UniformSync ==
    ASSUME TypeInv, SameRegion, UniformInv, NEW b \in Blocks, Syncthreads(b)
    PROVE  UniformInv'
<1>1. /\ UNCHANGED <<launch, Threads>>
      /\ \A u \in Threads : Stays(u)
      /\ \A u \in Threads :
            \/ (u[1] # b \/ pc[u] = "exit") /\ pc'[u] = pc[u]
            \/ u[1] = b /\ pc[u] \in Barriers /\ pc'[u] = AfterSync(u)
  BY SyncControl DEF TypeInv
<1>2. SameTarget'
  <2> SUFFICES ASSUME launch.kernel # "gm", NEW t \in Threads, NEW u \in Threads, t[1] = u[1]
               PROVE  Target(t)' = Target(u)'
    BY <1>1 DEF SameTarget
  <2>1. Target(t) = Target(u)
    BY DEF UniformInv, SameTarget
  <2>2. CASE pc'[t] = pc[t] /\ pc'[u] = pc[u]
    BY <1>1, <2>1, <2>2 DEF Target, Stays
  <2>3. CASE /\ pc[t] \in Barriers /\ pc'[t] = AfterSync(t)
             /\ pc[u] \in Barriers /\ pc'[u] = AfterSync(u)
    <3>1. pc[t] = pc[u]
      BY <2>3, SameBarrier
    <3>2. pc'[t] = "next" <=> pc'[u] = "next"
      BY <2>3, <3>1, AfterSyncLabels
    <3>3. point[t] = point[u]
      BY <2>1, <2>3 DEF Target, Barriers
    <3> QED
      BY <1>1, <3>2, <3>3 DEF Target, Stays
  <2> QED
    BY <1>1, <2>2, <2>3, NobodyLeft
<1>3. ExitPoint'
  BY <1>1, AfterSyncLabels DEF UniformInv, ExitPoint, BadLevelAt, Stays
<1>4. PastCheck'
  BY <1>1, AfterSyncLabels DEF UniformInv, PastCheck, BadLevelAt, Stays, Barriers
<1>5. GmLabels'
  BY <1>1 DEF UniformInv, GmLabels, Barriers
<1> QED
  BY <1>2, <1>3, <1>4, <1>5 DEF UniformInv

(* No thread enters the loop body a second time. *)
LEMMA LoopThreadStep ==
    ASSUME TypeInv, LoopInv, NEW t \in Threads, ThreadStep(t)
    PROVE  LoopInv'
<1>1. /\ UNCHANGED <<launch, Threads>>
      /\ \A u \in Threads : u # t => pc'[u] = pc[u] /\ Stays(u)
      /\ Enters(t) \/ Leaves(t) \/ Works(t) \/ Advances(t)
  BY ThreadControl DEF TypeInv
<1>2. /\ index[t] \in Nat /\ point[t] \in Nat /\ gradPtr[t] \in Nat
      /\ launch.n \in Nat /\ launch.channels \in Nat \ {0}
      /\ launch.blockDim \in Nat /\ launch.gridDim \in Nat
      /\ launch.n <= launch.gridDim * launch.blockDim
      /\ pc[t] = "next" => point[t] < LP
  BY TypeFacts, LPPositive, GridCovers DEF TypeInv, TypeOK, ThreadType, PointInRange
<1> DEFINE base == (index[t] \div launch.channels) * LP
<1>3. base \in Nat
  <2>1. index[t] \div launch.channels \in Nat
    BY <1>2
  <2> QED
    BY <2>1, LPPositive
<1>4. SlotOf(t) = base + point[t]
  BY DEF SlotOf
<1>5. index'[t] = index[t] => SlotOf(t)' = base + point'[t]
  BY <1>1 DEF SlotOf
<1>6. FirstIndex(t)' = FirstIndex(t)
  BY <1>1 DEF FirstIndex
<1> HIDE DEF base
<1>7. pc'[t] \notin {"loop", "exit"} =>
          gradPtr'[t] = SlotOf(t)' /\ index'[t] = FirstIndex(t)'
  <2>1. CASE Enters(t)
    BY <2>1, <1>2, <1>3, <1>5, <1>6 DEF LoopInv, LoopHead, Enters, base
  <2>2. CASE Works(t)
    BY <2>2, <1>4, <1>5, <1>6 DEF LoopInv, SlotPointer, Works, Stays
  <2>3. CASE Advances(t)
    BY <2>3, <1>2, <1>3, <1>4, <1>5, <1>6 DEF LoopInv, SlotPointer, Advances
  <2> QED
    BY <1>1, <2>1, <2>2, <2>3 DEF Leaves
<1>8. pc'[t] = "loop" => point'[t] = LP /\ index'[t] >= launch.n
  <2>1. launch.blockDim * launch.gridDim = launch.gridDim * launch.blockDim
    BY <1>2
  <2>2. launch.blockDim * launch.gridDim \in Nat
    BY <1>2
  <2> QED
    BY <1>1, <1>2, <2>1, <2>2, LPPositive DEF Enters, Leaves, Works, Advances
<1>9. ASSUME NEW u \in Threads, u # t
      PROVE  SlotOf(u)' = SlotOf(u) /\ FirstIndex(u)' = FirstIndex(u)
  BY <1>1, <1>9 DEF SlotOf, FirstIndex, Stays
<1>10. SlotPointer'
  BY <1>1, <1>7, <1>9 DEF LoopInv, SlotPointer, Stays
<1>11. LoopHead'
  BY <1>1, <1>8, <1>9 DEF LoopInv, LoopHead, Stays
<1> QED
  BY <1>10, <1>11 DEF LoopInv

(* A barrier does not touch the loop or the pointers. *)
LEMMA LoopSync ==
    ASSUME TypeInv, LoopInv, NEW b \in Blocks, Syncthreads(b)
    PROVE  LoopInv'
<1>1. /\ UNCHANGED <<launch, Threads>>
      /\ \A u \in Threads : Stays(u)
      /\ \A u \in Threads :
            \/ (u[1] # b \/ pc[u] = "exit") /\ pc'[u] = pc[u]
            \/ u[1] = b /\ pc[u] \in Barriers /\ pc'[u] = AfterSync(u)
  BY SyncControl DEF TypeInv
<1>2. \A u \in Threads : SlotOf(u)' = SlotOf(u) /\ FirstIndex(u)' = FirstIndex(u)
  BY <1>1 DEF SlotOf, FirstIndex, Stays
<1>3. SlotPointer'
  BY <1>1, <1>2 DEF LoopInv, SlotPointer, Stays, Barriers
<1>4. LoopHead'
  BY <1>1, <1>2, AfterSyncLabels DEF LoopInv, LoopHead, Stays
<1> QED
  BY <1>3, <1>4 DEF LoopInv

(* The invariants hold when the kernel is launched. *)
LEMMA UniformInit == Init => SameRegion /\ UniformInv /\ LoopInv
<1> SUFFICES ASSUME Init PROVE SameRegion /\ UniformInv /\ LoopInv
  OBVIOUS
<1>1. \A t \in Threads :
          /\ pc[t] = "loop" /\ point[t] = 0 /\ gradPtr[t] = 0 /\ stride[t] = 0
          /\ index[t] = FirstIndex(t)
  BY DEF Init, FirstIndex
<1>2. SameRegion
  BY <1>1 DEF SameRegion
<1>3. UniformInv
  BY <1>1 DEF UniformInv, SameTarget, Target, ExitPoint, PastCheck, GmLabels
<1>4. LoopInv
  BY <1>1 DEF LoopInv, LoopHead, SlotPointer
<1> QED
  BY <1>2, <1>3, <1>4

(* The invariant is inductive. *)
LEMMA IInvInductive == IInv /\ [Next]_vars => IInv'
<1> SUFFICES ASSUME IInv, [Next]_vars PROVE IInv'
  OBVIOUS
<1>1. TypeInv'
  BY TypeStep DEF IInv, TypeInv
<1>2. SameRegion'
  BY RegionStep DEF IInv, TypeInv
<1>3. UniformInv' /\ LoopInv'
  <2>1. CASE \E t \in Threads : ThreadStep(t)
    BY <2>1, UniformThreadStep, LoopThreadStep DEF IInv
  <2>2. CASE \E b \in Blocks : Syncthreads(b)
    BY <2>2, UniformSync, LoopSync DEF IInv
  <2>3. CASE UNCHANGED vars
    BY <2>3
    DEF IInv, vars, UniformInv, SameTarget, Target, ExitPoint, PastCheck, GmLabels, BadLevelAt,
        LoopInv, LoopHead, SlotPointer, SlotOf, FirstIndex, Threads, Blocks, Lanes
  <2> QED
    BY <2>1, <2>2, <2>3 DEF Next, Terminating
<1> QED
  BY <1>1, <1>2, <1>3 DEF IInv

(* The inductive invariant of the six kernels: uniform blocks, one pass of *)
(* CUDA_KERNEL_LOOP.                                                       *)
THEOREM Inductive == Spec => []IInv
<1>1. Init => IInv
  BY TypeInit, UniformInit DEF IInv, TypeInv
<1> QED
  BY <1>1, IInvInductive, PTL DEF Spec

-----------------------------------------------------------------------------
(* What follows from the invariant.                                        *)

(* Two lanes of a block are different threads only if their ids differ. *)
LEMMA OtherLane ==
    ASSUME NEW t \in Threads, NEW u \in Threads, t # u, t[1] = u[1]
    PROVE  t[2] # u[2]
BY ThreadLane

(* In uniform regions, lanes are written by their own thread only. *)
LEMMA RaceFreeState == IInv => SharedRaceFree
<1> SUFFICES ASSUME IInv, NEW t \in Threads, NEW u \in Threads, t # u, t[1] = u[1]
             PROVE  WritesLanes(t) \cap (WritesLanes(u) \cup ReadsLanes(u)) = {}
  BY DEF SharedRaceFree
<1>1. t[2] # u[2]
  BY OtherLane
<1>2. WritesLanes(t) \subseteq {t[2]} /\ WritesLanes(u) \subseteq {u[2]}
  BY DEF WritesLanes
<1>3. ASSUME WritesLanes(t) # {} PROVE t[2] \notin ReadsLanes(u)
  <2>1. /\ pc[t] # "exit"
        /\ pc[t] = "sample" \/ (pc[t] = "fold" /\ t[2] < stride[t])
    BY <1>3 DEF WritesLanes
  <2>2. CASE pc[u] \notin {"fold", "store"}
    BY <2>2 DEF ReadsLanes
  <2>3. CASE pc[u] \in {"fold", "store"}
    <3>1. Region(pc[t]) = Region(pc[u]) /\ stride[t] = stride[u]
      BY <2>1, <2>3 DEF IInv, SameRegion
    <3>2. pc[t] = "fold" /\ pc[u] = "fold" /\ t[2] < stride[t]
      BY <2>1, <2>3, <3>1 DEF Region
    <3>3. t[2] \in Nat /\ u[2] \in Nat /\ stride[u] \in Nat
      BY ThreadLane, TypeFacts DEF Lanes, IInv, TypeInv, TypeOK, ThreadType
    <3> QED
      BY <1>1, <3>1, <3>2, <3>3 DEF ReadsLanes, FoldSources
  <2> QED
    BY <2>2, <2>3
<1> QED
  BY <1>1, <1>2, <1>3

(***************************************************************************)
(* The shared-memory reductions are free of data races, for every block    *)
(* size and channel count.                                                 *)
(***************************************************************************)
THEOREM RaceFree == Spec => []SharedRaceFree
BY Inductive, RaceFreeState, PTL

(* Uniform blocks meet at the same barrier. *)
LEMMA BarrierUniformState == IInv => BarrierUniform
<1> SUFFICES ASSUME IInv, NEW t \in Threads, NEW u \in Threads,
                    t[1] = u[1], pc[t] \in Barriers
             PROVE  /\ pc[u] # "exit"
                    /\ pc[u] \in Barriers =>
                          pc[u] = pc[t] /\ point[u] = point[t] /\ stride[u] = stride[t]
  BY DEF BarrierUniform
<1>1. pc[u] # "exit"
  BY NobodyLeft DEF IInv
<1>2. ASSUME pc[u] \in Barriers PROVE point[u] = point[t]
  <2>1. launch.kernel # "gm"
    BY DEF IInv, UniformInv, GmLabels, Barriers
  <2> QED
    BY <1>2, <2>1 DEF IInv, UniformInv, SameTarget, Target, Barriers
<1> QED
  BY <1>1, <1>2, SameBarrier DEF IInv

(***************************************************************************)
(* No __syncthreads() is reached divergently: not on the last block of any *)
(* grid the host chooses, and not when metadata are rejected.              *)
(***************************************************************************)
THEOREM BarriersUniform == Spec => []BarrierUniform
BY Inductive, BarrierUniformState, PTL

(* In the first pass of the loop a pointer is its slot. *)
LEMMA PointersState == IInv => PointersTrackSlots
BY DEF IInv, LoopInv, SlotPointer, PointersTrackSlots

(***************************************************************************)
(* The advancing gradient pointers address the thread's own slot: with the *)
(* grid GET_BLOCKS computes no thread enters the loop body twice.          *)
(***************************************************************************)
THEOREM PointersSafe == Spec => []PointersTrackSlots
BY Inductive, PointersState, PTL

(* In the kernels that store plainly, a block is a sampling. *)
LEMMA BlockIsSampling ==
    ASSUME IInv, NEW t \in Threads, pc[t] = "store", t[2] = 0,
           launch.kernel # "shm_reduce_v2_multi_blocks"
    PROVE  gradPtr[t] = t[1] * LP + point[t]
<1>1. PICK c \in ChannelChoices, checked \in BOOLEAN, level \in 0 .. Levels :
          launch = Launch(c, checked, level)
  BY DEF IInv, TypeInv, TypeOK, LaunchType
<1>2. launch.kernel # "gm"
  BY DEF IInv, UniformInv, GmLabels
<1>3. launch.kernel = KernelFor(c) /\ launch.blockDim = BlockDim(c) /\ launch.channels = c
  BY <1>1 DEF Launch
<1>4. c <= MaxThreads
  BY <1>2, <1>3, SizesAssumption DEF KernelFor
<1>5. launch.blockDim = c /\ c \in Nat \ {0}
  BY <1>3, <1>4, SizesAssumption DEF BlockDim
<1>6. t[1] \in Nat
  BY ThreadLane DEF Blocks
<1>7. index[t] = t[1] * c
  BY <1>5, <1>6 DEF IInv, LoopInv, SlotPointer, FirstIndex
<1>8. (t[1] * c) \div c = t[1]
  BY <1>5, <1>6
<1> QED
  BY <1>3, <1>7, <1>8 DEF IInv, LoopInv, SlotPointer, SlotOf

(* Two leaders store to slots of different samplings. *)
LEMMA StoresState == IInv => StoreRaceFree
<1> SUFFICES ASSUME IInv, NEW t \in Threads, NEW u \in Threads, t # u,
                    pc[t] = "store", t[2] = 0, pc[u] = "store", u[2] = 0,
                    launch.kernel # "shm_reduce_v2_multi_blocks",
                    gradPtr[t] = gradPtr[u]
             PROVE  FALSE
  BY DEF StoreRaceFree
<1>1. t[1] # u[1]
  BY ThreadLane
<1>2. t[1] \in Nat /\ u[1] \in Nat
  BY ThreadLane DEF Blocks
<1>3. /\ point[t] \in Nat /\ point[t] < LP
      /\ point[u] \in Nat /\ point[u] < LP
  BY LPPositive DEF IInv, TypeInv, TypeOK, ThreadType, PointInRange
<1>4. t[1] * LP + point[t] = u[1] * LP + point[u]
  BY BlockIsSampling
<1>5. \/ t[1] * LP + LP <= u[1] * LP
      \/ u[1] * LP + LP <= t[1] * LP
  <2>1. CASE t[1] < u[1]
    BY <2>1, <1>2, LPPositive, TimesMonotone
  <2>2. CASE u[1] < t[1]
    BY <2>2, <1>2, LPPositive, TimesMonotone
  <2> QED
    BY <1>1, <1>2, <2>1, <2>2
<1>6. t[1] * LP \in Nat /\ u[1] * LP \in Nat
  BY <1>2, LPPositive
<1> QED
  BY <1>3, <1>4, <1>5, <1>6, LPPositive

(***************************************************************************)
(* Plain stores of two blocks never meet; only the kernel that splits a    *)
(* sampling over several blocks needs the atomics it uses.                 *)
(***************************************************************************)
THEOREM StoresRaceFree == Spec => []StoreRaceFree
BY Inductive, StoresState, PTL

-----------------------------------------------------------------------------
(* Arithmetic.                                                             *)

(* A non-empty set of numbers has a least one. *)
LEMMA LeastOf ==
    ASSUME NEW T \in SUBSET Nat, T # {}
    PROVE  \E x \in T : \A y \in T : x <= y
<1> DEFINE R == {ss \in Nat \X Nat : ss[1] < ss[2]}
<1>0. IsWellFoundedOn(R, Nat)
  BY NatLessThanWellFounded DEF OpToRel
<1>2. \A x, y \in Nat : <<y, x>> \in R <=> y < x
  OBVIOUS
<1> HIDE DEF R
<1>1. PICK x \in T : \A y \in T : ~ (<<y, x>> \in R)
  BY <1>0, WFMin
<1>3. \A y \in T : y \in Nat /\ x \in Nat /\ ~(y < x)
  BY <1>1, <1>2
<1> QED
  BY <1>3

(* Quotient and remainder are what they are made from. *)
LEMMA DivModOf ==
    ASSUME NEW a \in Nat, NEW b \in Nat \ {0}, NEW r \in 0 .. b - 1
    PROVE  (a * b + r) \div b = a /\ (a * b + r) % b = r
<1> DEFINE m == a * b + r
           q == m \div b
<1>1. m \in Nat /\ a * b \in Nat
  OBVIOUS
<1>2. q \in Nat /\ q * b <= m /\ m < q * b + b
  BY <1>1, DivBounds
<1>3. ~(q < a)
  <2> SUFFICES ASSUME q < a PROVE FALSE
    OBVIOUS
  <2>1. q * b + b <= a * b
    BY <1>2, TimesMonotone
  <2> QED
    BY <2>1, <1>2
<1>4. ~(a < q)
  <2> SUFFICES ASSUME a < q PROVE FALSE
    OBVIOUS
  <2>1. a * b + b <= q * b
    BY <1>2, TimesMonotone
  <2> QED
    BY <2>1, <1>2
<1>5. q = a
  BY <1>2, <1>3, <1>4
<1>6. m % b = m - q * b
  OBVIOUS
<1> QED
  BY <1>5, <1>6

(* A number is made from its quotient and its remainder. *)
LEMMA DivModSplit ==
    ASSUME NEW m \in Nat, NEW b \in Nat \ {0}
    PROVE  /\ m \div b \in Nat /\ m % b \in 0 .. b - 1
           /\ m = (m \div b) * b + (m % b)
<1> DEFINE p == (m \div b) * b
           r == m % b
<1>1. m \div b \in Nat /\ p <= m /\ m < p + b
  BY DivBounds
<1>2. p \in Nat
  BY <1>1
<1>3. r = m - p
  OBVIOUS
<1> HIDE DEF p, r
<1>4. r \in 0 .. b - 1 /\ m = p + r
  BY <1>1, <1>2, <1>3
<1> QED
  BY <1>1, <1>4 DEF p, r

(* The quotient of a number below a product. *)
LEMMA DivBelow ==
    ASSUME NEW a \in Nat, NEW b \in Nat \ {0}, NEW m \in Nat, m < a * b
    PROVE  m \div b \in 0 .. a - 1
<1> DEFINE q == m \div b
<1>1. q \in Nat /\ q * b <= m
  BY DivBounds
<1>2. ~(a <= q)
  <2> SUFFICES ASSUME a <= q PROVE FALSE
    OBVIOUS
  <2>1. a * b <= q * b
    BY <1>1 DEF q
  <2> QED
    BY <2>1, <1>1
<1> QED
  BY <1>1, <1>2

(* A number made from a quotient and a remainder is below the product. *)
LEMMA PairBelow ==
    ASSUME NEW a \in Nat, NEW b \in Nat \ {0}, NEW q \in 0 .. a - 1, NEW r \in 0 .. b - 1
    PROVE  q * b + r \in 0 .. a * b - 1
<1>1. q * b + b <= a * b
  BY TimesMonotone
<1>2. q * b \in Nat /\ a * b \in Nat
  OBVIOUS
<1> QED
  BY <1>1, <1>2

Quotient(a, b) == a \div b

(* Dividing twice is dividing by the product. *)
LEMMA DivDiv ==
    ASSUME NEW m \in Nat, NEW a \in Nat \ {0}, NEW b \in Nat \ {0}
    PROVE  Quotient(m, a * b) = Quotient(Quotient(m, a), b)
<1> DEFINE x == m \div a
           y == x \div b
           r == m % a
           t == x % b
<1>1. x \in Nat /\ r \in 0 .. a - 1 /\ m = x * a + r
  BY DivModSplit
<1>2. y \in Nat /\ t \in 0 .. b - 1 /\ x = y * b + t
  BY <1>1, DivModSplit
<1>3. t * a + r \in 0 .. b * a - 1
  BY <1>1, <1>2, PairBelow
<1> HIDE DEF x, y, r, t
<1>4. b * a = a * b /\ a * b \in Nat \ {0}
  OBVIOUS
<1>5. x * a = (y * b) * a + t * a
  BY <1>1, <1>2
<1>6. (y * b) * a = y * (a * b)
  BY <1>1, <1>2
<1>7. m = y * (a * b) + (t * a + r)
  <2>1. x * a \in Nat /\ t * a \in Nat /\ (y * b) * a \in Nat
    BY <1>1, <1>2
  <2> QED
    BY <2>1, <1>1, <1>5, <1>6
<1>8. (y * (a * b) + (t * a + r)) \div (a * b) = y
  BY <1>2, <1>3, <1>4, DivModOf
<1> QED
  BY <1>7, <1>8 DEF x, y, Quotient

-----------------------------------------------------------------------------
(* The samples of the CPU kernels, and their cells.                        *)

Number(b, q, h) == (b * Queries + q) * Heads + h
PointOf(s) == s % SamplePoints
OutputOf(s) == s \div SamplePoints
HeadAt(s) == OutputOf(s) % Heads
QueryOf(s) == (OutputOf(s) \div Heads) % Queries
BatchAt(s) == (OutputOf(s) \div Heads) \div Queries

(* Batch, query and head can be read off an output cell's number. *)
LEMMA NumberParts ==
    ASSUME NEW b \in 0 .. Batches - 1, NEW q \in 0 .. Queries - 1, NEW h \in 0 .. Heads - 1
    PROVE  /\ Number(b, q, h) \in 0 .. Batches * Queries * Heads - 1
           /\ Number(b, q, h) % Heads = h
           /\ Number(b, q, h) \div Heads = b * Queries + q
           /\ (Number(b, q, h) \div Heads) % Queries = q
           /\ (Number(b, q, h) \div Heads) \div Queries = b
<1> USE CpuAssumption
<1> DEFINE x == b * Queries + q
<1>1. x \in 0 .. Batches * Queries - 1
  BY PairBelow
<1>2. x % Queries = q /\ x \div Queries = b
  BY DivModOf
<1>3. Batches * Queries \in Nat
  OBVIOUS
<1> HIDE DEF x
<1>4. x * Heads + h \in 0 .. (Batches * Queries) * Heads - 1
  BY <1>1, <1>3, PairBelow
<1>5. (x * Heads + h) % Heads = h /\ (x * Heads + h) \div Heads = x
  BY <1>1, <1>3, DivModOf
<1>6. Number(b, q, h) = x * Heads + h
  BY DEF Number, x
<1> QED
  BY <1>2, <1>4, <1>5, <1>6 DEF x

(* Every output cell is numbered by a batch, a query and a head. *)
LEMMA NumberOfParts ==
    ASSUME NEW n \in 0 .. Batches * Queries * Heads - 1
    PROVE  /\ n % Heads \in 0 .. Heads - 1
           /\ (n \div Heads) % Queries \in 0 .. Queries - 1
           /\ (n \div Heads) \div Queries \in 0 .. Batches - 1
           /\ n = Number((n \div Heads) \div Queries, (n \div Heads) % Queries, n % Heads)
<1> USE CpuAssumption
<1> DEFINE x == n \div Heads
           y == x \div Queries
<1>1. Batches * Queries \in Nat /\ n \in Nat /\ n < (Batches * Queries) * Heads
  OBVIOUS
<1>2. n % Heads \in 0 .. Heads - 1 /\ n = x * Heads + (n % Heads)
  BY <1>1, DivModSplit
<1>3. x \in 0 .. Batches * Queries - 1
  BY <1>1, DivBelow
<1>4. x \in Nat /\ x < Batches * Queries
  BY <1>1, <1>3
<1> HIDE DEF x
<1>5. x % Queries \in 0 .. Queries - 1 /\ x = y * Queries + (x % Queries)
  BY <1>4, DivModSplit
<1>6. y \in 0 .. Batches - 1
  BY <1>4, DivBelow
<1> QED
  BY <1>2, <1>5, <1>6 DEF Number, x

(* A point of an output cell is a sample, and both can be read off it. *)
LEMMA SampleNumber ==
    ASSUME NEW b \in 0 .. Batches - 1, NEW q \in 0 .. Queries - 1, NEW h \in 0 .. Heads - 1,
           NEW p \in 0 .. SamplePoints - 1
    PROVE  /\ Number(b, q, h) * SamplePoints + p \in Cpu!Samples
           /\ OutputOf(Number(b, q, h) * SamplePoints + p) = Number(b, q, h)
           /\ PointOf(Number(b, q, h) * SamplePoints + p) = p
<1> USE CpuAssumption
<1>1. Number(b, q, h) \in 0 .. Batches * Queries * Heads - 1
  BY NumberParts
<1>2. Batches * Queries * Heads \in Nat /\ Number(b, q, h) \in Nat
  BY <1>1
<1>3. Number(b, q, h) * SamplePoints + p \in 0 .. (Batches * Queries * Heads) * SamplePoints - 1
  BY <1>1, <1>2, PairBelow
<1>4. /\ (Number(b, q, h) * SamplePoints + p) \div SamplePoints = Number(b, q, h)
      /\ (Number(b, q, h) * SamplePoints + p) % SamplePoints = p
  BY <1>2, DivModOf
<1> QED
  BY <1>3, <1>4 DEF Cpu!Samples, OutputOf, PointOf

(* Every sample is numbered by a batch, a query, a head and a point. *)
LEMMA SampleParts ==
    ASSUME NEW s \in Cpu!Samples
    PROVE  /\ BatchAt(s) \in 0 .. Batches - 1 /\ QueryOf(s) \in 0 .. Queries - 1
           /\ HeadAt(s) \in 0 .. Heads - 1 /\ PointOf(s) \in 0 .. SamplePoints - 1
           /\ OutputOf(s) \in 0 .. Batches * Queries * Heads - 1
           /\ OutputOf(s) = Number(BatchAt(s), QueryOf(s), HeadAt(s))
           /\ s = OutputOf(s) * SamplePoints + PointOf(s)
           /\ Cpu!PairOf(s) = <<BatchAt(s), HeadAt(s)>>
<1> USE CpuAssumption
<1>1. /\ Batches * Queries * Heads \in Nat /\ s \in Nat
      /\ s < (Batches * Queries * Heads) * SamplePoints
  BY DEF Cpu!Samples
<1>2. OutputOf(s) \in 0 .. Batches * Queries * Heads - 1
  BY <1>1, DivBelow DEF OutputOf
<1>3. PointOf(s) \in 0 .. SamplePoints - 1 /\ s = OutputOf(s) * SamplePoints + PointOf(s)
  BY <1>1, DivModSplit DEF PointOf, OutputOf
<1>4. /\ BatchAt(s) \in 0 .. Batches - 1 /\ QueryOf(s) \in 0 .. Queries - 1
      /\ HeadAt(s) \in 0 .. Heads - 1
      /\ OutputOf(s) = Number(BatchAt(s), QueryOf(s), HeadAt(s))
  BY <1>2, NumberOfParts DEF BatchAt, QueryOf, HeadAt
<1>5. s \div (SamplePoints * Heads * Queries) = BatchAt(s)
  <2>1. SamplePoints * Heads \in Nat \ {0}
    OBVIOUS
  <2>2. Quotient(s, SamplePoints * Heads) = Quotient(Quotient(s, SamplePoints), Heads)
    BY <1>1, DivDiv
  <2>3. Quotient(s, (SamplePoints * Heads) * Queries) = Quotient(Quotient(s, SamplePoints * Heads), Queries)
    BY <1>1, <2>1, DivDiv
  <2> QED
    BY <2>2, <2>3 DEF BatchAt, OutputOf, Quotient
<1> QED
  BY <1>2, <1>3, <1>4, <1>5 DEF Cpu!PairOf, HeadAt, OutputOf

ValueNumber(b, pixel, h) == (b * SpatialSize + pixel) * Heads + h

(* Batch, pixel and head can be read off a value cell's number. *)
LEMMA ValueNumberParts ==
    ASSUME NEW b \in 0 .. Batches - 1, NEW x \in 0 .. SpatialSize - 1, NEW h \in 0 .. Heads - 1
    PROVE  /\ ValueNumber(b, x, h) \in 0 .. Batches * SpatialSize * Heads - 1
           /\ ValueNumber(b, x, h) % Heads = h
           /\ (ValueNumber(b, x, h) \div Heads) % SpatialSize = x
           /\ ValueNumber(b, x, h) \div (SpatialSize * Heads) = b
<1> USE CpuAssumption
<1> DEFINE y == b * SpatialSize + x
<1>1. y \in 0 .. Batches * SpatialSize - 1
  BY PairBelow
<1>2. y % SpatialSize = x /\ y \div SpatialSize = b
  BY DivModOf
<1>3. Batches * SpatialSize \in Nat
  OBVIOUS
<1> HIDE DEF y
<1>4. y * Heads + h \in 0 .. (Batches * SpatialSize) * Heads - 1
  BY <1>1, <1>3, PairBelow
<1>5. (y * Heads + h) % Heads = h /\ (y * Heads + h) \div Heads = y
  BY <1>1, <1>3, DivModOf
<1>6. y * Heads + h \in Nat
  BY <1>4
<1>7. (y * Heads + h) \div (Heads * SpatialSize) = b
  <2>1. Quotient(y * Heads + h, Heads * SpatialSize) = Quotient(Quotient(y * Heads + h, Heads), SpatialSize)
    BY <1>6, DivDiv
  <2> QED
    BY <1>2, <1>5, <2>1 DEF Quotient
<1>8. Heads * SpatialSize = SpatialSize * Heads
  OBVIOUS
<1>9. ValueNumber(b, x, h) = y * Heads + h
  BY DEF ValueNumber, y
<1> QED
  BY <1>2, <1>4, <1>5, <1>7, <1>8, <1>9

-----------------------------------------------------------------------------
(* The tasks of the CPU kernels.                                           *)

Tasks == 0 .. Cpu!work_items(cpuBackward) - 1

TaskOf(s) == IF cpuBackward THEN BatchAt(s) * Heads + HeadAt(s) ELSE OutputOf(s)

(* The task of a sample is of its batch and head, and covers its query. *)
LEMMA TaskOfSample ==
    ASSUME cpuBackward \in BOOLEAN, NEW s \in Cpu!Samples
    PROVE  /\ TaskOf(s) \in Tasks
           /\ Cpu!QueryBegin(TaskOf(s)) <= QueryOf(s) /\ QueryOf(s) < Cpu!QueryEnd(TaskOf(s))
           /\ Cpu!BatchOf(TaskOf(s)) = BatchAt(s) /\ Cpu!HeadOf(TaskOf(s)) = HeadAt(s)
<1> USE CpuAssumption
<1>1. /\ BatchAt(s) \in 0 .. Batches - 1 /\ QueryOf(s) \in 0 .. Queries - 1
      /\ HeadAt(s) \in 0 .. Heads - 1 /\ OutputOf(s) \in 0 .. Batches * Queries * Heads - 1
  BY SampleParts
<1>2. CASE cpuBackward
  <2>1. BatchAt(s) * Heads + HeadAt(s) \in 0 .. Batches * Heads - 1
    BY <1>1, PairBelow
  <2>2. /\ (BatchAt(s) * Heads + HeadAt(s)) \div Heads = BatchAt(s)
        /\ (BatchAt(s) * Heads + HeadAt(s)) % Heads = HeadAt(s)
    <3>1. ASSUME NEW b \in Nat, NEW h \in 0 .. Heads - 1
          PROVE  (b * Heads + h) \div Heads = b /\ (b * Heads + h) % Heads = h
      BY DivModOf
    <3>2. BatchAt(s) \in Nat
      BY <1>1
    <3> QED
      BY <1>1, <3>1, <3>2, Zenon
  <2> QED
    BY <1>1, <1>2, <2>1, <2>2
    DEF Tasks, TaskOf, Cpu!work_items, Cpu!QueryBegin, Cpu!QueryEnd, Cpu!BatchOf, Cpu!HeadOf
<1>3. CASE ~cpuBackward
  <2>1. Quotient(OutputOf(s), Heads * Queries) = Quotient(Quotient(OutputOf(s), Heads), Queries)
    BY <1>1, DivDiv
  <2>2. Queries * Heads = Heads * Queries
    OBVIOUS
  <2>3. OutputOf(s) \div (Queries * Heads) = BatchAt(s)
    BY <2>1, <2>2 DEF Quotient, BatchAt
  <2> QED
    BY <1>1, <1>3, <2>3
    DEF Tasks, TaskOf, Cpu!work_items, Cpu!QueryBegin, Cpu!QueryEnd, Cpu!BatchOf, Cpu!HeadOf,
        QueryOf, HeadAt
<1> QED
  BY <1>2, <1>3

(* The sample of a query and a point of a task. *)
LEMMA SampleOfTask ==
    ASSUME cpuBackward \in BOOLEAN, NEW t \in Tasks, NEW q \in Nat,
           Cpu!QueryBegin(t) <= q, q < Cpu!QueryEnd(t), NEW p \in 0 .. SamplePoints - 1,
           NEW s, s = Number(Cpu!BatchOf(t), q, Cpu!HeadOf(t)) * SamplePoints + p
    PROVE  /\ s \in Cpu!Samples /\ TaskOf(s) = t /\ QueryOf(s) = q /\ PointOf(s) = p
           /\ Cpu!BatchOf(t) \in 0 .. Batches - 1 /\ Cpu!HeadOf(t) \in 0 .. Heads - 1
           /\ q \in 0 .. Queries - 1
           /\ BatchAt(s) = Cpu!BatchOf(t) /\ HeadAt(s) = Cpu!HeadOf(t)
           /\ OutputOf(s) = Number(Cpu!BatchOf(t), q, Cpu!HeadOf(t))
<1> USE CpuAssumption
<1>1. /\ Cpu!BatchOf(t) \in 0 .. Batches - 1 /\ Cpu!HeadOf(t) \in 0 .. Heads - 1
      /\ q \in 0 .. Queries - 1
      /\ cpuBackward => t = Cpu!BatchOf(t) * Heads + Cpu!HeadOf(t)
      /\ ~cpuBackward => t = Number(Cpu!BatchOf(t), q, Cpu!HeadOf(t))
  <2>1. CASE cpuBackward
    <3>1. t \in Nat /\ t < Batches * Heads
      BY <2>1 DEF Tasks, Cpu!work_items
    <3>2. /\ t \div Heads \in 0 .. Batches - 1 /\ t % Heads \in 0 .. Heads - 1
          /\ t = (t \div Heads) * Heads + (t % Heads)
      BY <3>1, DivBelow, DivModSplit
    <3> QED
      BY <2>1, <3>2 DEF Cpu!QueryBegin, Cpu!QueryEnd, Cpu!BatchOf, Cpu!HeadOf
  <2>2. CASE ~cpuBackward
    <3>1. t \in 0 .. Batches * Queries * Heads - 1
      BY <2>2 DEF Tasks, Cpu!work_items
    <3>2. /\ t % Heads \in 0 .. Heads - 1 /\ (t \div Heads) % Queries \in 0 .. Queries - 1
          /\ (t \div Heads) \div Queries \in 0 .. Batches - 1
          /\ t = Number((t \div Heads) \div Queries, (t \div Heads) % Queries, t % Heads)
      BY <3>1, NumberOfParts
    <3>3. Quotient(t, Heads * Queries) = Quotient(Quotient(t, Heads), Queries)
      BY <3>1, DivDiv
    <3>4. Queries * Heads = Heads * Queries
      OBVIOUS
    <3>5. Cpu!BatchOf(t) = (t \div Heads) \div Queries /\ Cpu!HeadOf(t) = t % Heads
      BY <2>2, <3>3, <3>4 DEF Quotient, Cpu!BatchOf, Cpu!HeadOf
    <3>6. q = (t \div Heads) % Queries
      BY <2>2, <3>2 DEF Cpu!QueryBegin, Cpu!QueryEnd
    <3> QED
      BY <2>2, <3>2, <3>5, <3>6
  <2> QED
    BY <2>1, <2>2
<1>2. /\ s \in Cpu!Samples
      /\ OutputOf(s) = Number(Cpu!BatchOf(t), q, Cpu!HeadOf(t))
      /\ PointOf(s) = p
  BY <1>1, SampleNumber
<1>3. HeadAt(s) = Cpu!HeadOf(t) /\ QueryOf(s) = q /\ BatchAt(s) = Cpu!BatchOf(t)
  BY <1>1, <1>2, NumberParts DEF HeadAt, QueryOf, BatchAt
<1> QED
  BY <1>1, <1>2, <1>3 DEF TaskOf

-----------------------------------------------------------------------------
(* The invariant of the CPU kernels.                                       *)

(* Sample s is still to be begun by worker w. *)
Ahead(w, s) ==
    /\ cpuTask[w] <= TaskOf(s) /\ TaskOf(s) < cpuEnd[w]
    /\ cpuPc[w] # "task" /\ TaskOf(s) = cpuTask[w] =>
           \/ cpuQuery[w] < QueryOf(s)
           \/ /\ cpuQuery[w] = QueryOf(s)
              /\ \/ cpuPoint[w] < PointOf(s)
                 \/ cpuPoint[w] = PointOf(s) /\ cpuPc[w] = "sample"

(* Worker w is in the middle of sample s. *)
Adding(w, s) == cpuPc[w] \in {"add", "added"} /\ Cpu!Sample(w) = s

(* What s adds to a pixel, or to its own cell, is still to be added. *)
PixelAwaits(s, pixel) ==
    \E w \in Cpu!Workers : Ahead(w, s) \/ (Adding(w, s) /\ pixel \in cpuCorners[w])
SampleAwaits(s) == \E w \in Cpu!Workers : Ahead(w, s) \/ Adding(w, s)

CpuTypes ==
    /\ cpuBackward \in BOOLEAN
    /\ cpuTask \in [Cpu!Workers -> Nat] /\ cpuEnd \in [Cpu!Workers -> Nat]
    /\ cpuQuery \in [Cpu!Workers -> Nat] /\ cpuPoint \in [Cpu!Workers -> Nat]
    /\ cpuCorners \in [Cpu!Workers -> SUBSET (0 .. SpatialSize - 1)]
    /\ cpuLoaded \in [Cpu!Workers -> SUBSET Addends]
    /\ cpuPc \in [Cpu!Workers -> {"task", "sample", "add", "added", "next", "idle"}]
    /\ cpuGradValue \in [0 .. Batches * SpatialSize * Heads - 1 -> SUBSET Addends]
    /\ cpuGradSample \in [Cpu!Samples -> SUBSET Addends]
    /\ cpuOutput \in [0 .. Batches * Queries * Heads - 1 -> SUBSET Addends]

(* A worker in its loops is at a sample of one of its own tasks. *)
CpuRunning ==
    \A w \in Cpu!Workers :
        /\ cpuEnd[w] <= Cpu!work_items(cpuBackward)
        /\ cpuPc[w] = "idle" => cpuEnd[w] <= cpuTask[w]
        /\ cpuPc[w] \in {"sample", "add", "added", "next"} =>
               /\ cpuTask[w] < cpuEnd[w] /\ cpuPoint[w] < SamplePoints
               /\ Cpu!QueryBegin(cpuTask[w]) <= cpuQuery[w]
               /\ cpuQuery[w] < Cpu!QueryEnd(cpuTask[w])
        /\ cpuPc[w] \in {"add", "added"} =>
               /\ CpuFootprint[Cpu!Sample(w)] # {}
               /\ cpuCorners[w] \subseteq CpuFootprint[Cpu!Sample(w)]
        /\ cpuPc[w] = "added" /\ cpuBackward => cpuCorners[w] # {}

(* What is left of the workers' ranges does not overlap. *)
CpuApart == \A v, w \in Cpu!Workers : v < w => cpuEnd[v] <= cpuTask[w]

(* Cells hold what they are owed but for what is still to be added. *)
CpuSums ==
    /\ \A i \in DOMAIN cpuGradValue :
           cpuGradValue[i] =
               IF cpuBackward
               THEN {<<s, 0, "v">> : s \in {k \in Cpu!Samples :
                        /\ Cpu!PairOf(k) = <<i \div (SpatialSize * Heads), i % Heads>>
                        /\ (i \div Heads) % SpatialSize \in CpuFootprint[k]
                        /\ ~PixelAwaits(k, (i \div Heads) % SpatialSize)}}
               ELSE {}
    /\ \A s \in Cpu!Samples :
           cpuGradSample[s] =
               IF cpuBackward /\ CpuFootprint[s] # {} /\ ~SampleAwaits(s)
               THEN {<<s, 0, "a">>} ELSE {}
    /\ \A i \in DOMAIN cpuOutput :
           cpuOutput[i] =
               IF cpuBackward THEN {}
               ELSE {<<s, 0, "v">> : s \in {k \in Cpu!Samples :
                        k \div SamplePoints = i /\ CpuFootprint[k] # {} /\ ~SampleAwaits(k)}}

(* What a += has read is still there. *)
CpuLoads ==
    \A w \in Cpu!Workers : cpuPc[w] = "added" =>
        cpuLoaded[w] = IF cpuBackward THEN cpuGradValue[Cpu!ValueCell(w)]
                                      ELSE cpuOutput[Cpu!OutputCell(w)]

CpuInv == CpuTypes /\ CpuRunning /\ CpuApart /\ CpuSums /\ CpuLoads

-----------------------------------------------------------------------------
(* One worker at a sample.                                                 *)

Busy == {"sample", "add", "added", "next"}

(* A sample is told by its task, its query and its point. *)
LEMMA SameSample ==
    ASSUME cpuBackward \in BOOLEAN, NEW s \in Cpu!Samples, NEW k \in Cpu!Samples,
           TaskOf(s) = TaskOf(k), QueryOf(s) = QueryOf(k), PointOf(s) = PointOf(k)
    PROVE  s = k
<1>1. /\ BatchAt(s) = BatchAt(k) /\ HeadAt(s) = HeadAt(k)
  BY TaskOfSample
<1>2. OutputOf(s) = OutputOf(k)
  BY <1>1, SampleParts
<1> QED
  BY <1>2, SampleParts

(* The sample a worker is at is of its current task, query and point. *)
LEMMA CurrentSample ==
    ASSUME CpuTypes, CpuRunning, NEW w \in Cpu!Workers, cpuPc[w] \in Busy
    PROVE  /\ cpuTask[w] \in Tasks /\ cpuTask[w] < cpuEnd[w]
           /\ Cpu!Sample(w) \in Cpu!Samples
           /\ TaskOf(Cpu!Sample(w)) = cpuTask[w]
           /\ QueryOf(Cpu!Sample(w)) = cpuQuery[w]
           /\ PointOf(Cpu!Sample(w)) = cpuPoint[w]
           /\ OutputOf(Cpu!Sample(w)) = Cpu!OutputCell(w)
           /\ Cpu!OutputCell(w) \in 0 .. Batches * Queries * Heads - 1
           /\ Cpu!BatchOf(cpuTask[w]) \in 0 .. Batches - 1
           /\ Cpu!HeadOf(cpuTask[w]) \in 0 .. Heads - 1
           /\ Cpu!PairOf(Cpu!Sample(w)) = <<Cpu!BatchOf(cpuTask[w]), Cpu!HeadOf(cpuTask[w])>>
<1>1. /\ cpuBackward \in BOOLEAN /\ cpuTask[w] \in Tasks /\ cpuTask[w] < cpuEnd[w]
      /\ cpuQuery[w] \in Nat /\ cpuPoint[w] \in 0 .. SamplePoints - 1
      /\ Cpu!QueryBegin(cpuTask[w]) <= cpuQuery[w] /\ cpuQuery[w] < Cpu!QueryEnd(cpuTask[w])
  BY CpuAssumption DEF CpuTypes, CpuRunning, Busy, Tasks, Cpu!work_items
<1>2. Cpu!OutputCell(w) = Number(Cpu!BatchOf(cpuTask[w]), cpuQuery[w], Cpu!HeadOf(cpuTask[w]))
  BY DEF Cpu!OutputCell, Number
<1>3. Cpu!Sample(w) =
          Number(Cpu!BatchOf(cpuTask[w]), cpuQuery[w], Cpu!HeadOf(cpuTask[w])) * SamplePoints + cpuPoint[w]
  BY <1>2 DEF Cpu!Sample
<1>4. /\ Cpu!Sample(w) \in Cpu!Samples /\ TaskOf(Cpu!Sample(w)) = cpuTask[w]
      /\ QueryOf(Cpu!Sample(w)) = cpuQuery[w] /\ PointOf(Cpu!Sample(w)) = cpuPoint[w]
      /\ Cpu!BatchOf(cpuTask[w]) \in 0 .. Batches - 1 /\ Cpu!HeadOf(cpuTask[w]) \in 0 .. Heads - 1
      /\ BatchAt(Cpu!Sample(w)) = Cpu!BatchOf(cpuTask[w])
      /\ HeadAt(Cpu!Sample(w)) = Cpu!HeadOf(cpuTask[w])
      /\ OutputOf(Cpu!Sample(w)) = Cpu!OutputCell(w)
  BY <1>1, <1>2, <1>3, SampleOfTask
<1>5. /\ OutputOf(Cpu!Sample(w)) \in 0 .. Batches * Queries * Heads - 1
      /\ Cpu!PairOf(Cpu!Sample(w)) = <<BatchAt(Cpu!Sample(w)), HeadAt(Cpu!Sample(w))>>
  BY <1>4, SampleParts
<1> QED
  BY <1>1, <1>4, <1>5

(* A task in what is left of one worker's range is in no other's. *)
LEMMA OwnTask ==
    ASSUME CpuTypes, CpuApart, NEW v \in Cpu!Workers, NEW w \in Cpu!Workers, NEW t \in Tasks,
           cpuTask[v] <= t, t < cpuEnd[v], cpuTask[w] <= t, t < cpuEnd[w]
    PROVE  v = w
<1>1. /\ cpuTask[v] \in Nat /\ cpuTask[w] \in Nat /\ cpuEnd[v] \in Nat /\ cpuEnd[w] \in Nat
      /\ t \in Int /\ v \in Nat /\ w \in Nat
  BY CpuAssumption DEF CpuTypes, Tasks, Cpu!Workers, Cpu!work_items
<1>2. ~(v < w) /\ ~(w < v)
  BY <1>1 DEF CpuApart
<1> QED
  BY <1>1, <1>2

(* Only the worker at a sample has it still to finish. *)
LEMMA OwnSample ==
    ASSUME CpuTypes, CpuRunning, CpuApart, NEW v \in Cpu!Workers, NEW w \in Cpu!Workers,
           v # w, cpuPc[w] \in Busy
    PROVE  ~Ahead(v, Cpu!Sample(w)) /\ ~Adding(v, Cpu!Sample(w))
<1>1. /\ Cpu!Sample(w) \in Cpu!Samples /\ TaskOf(Cpu!Sample(w)) = cpuTask[w]
      /\ cpuTask[w] \in Tasks /\ cpuTask[w] < cpuEnd[w]
  BY CurrentSample
<1>2. cpuTask[w] <= cpuTask[w]
  BY <1>1, CpuAssumption DEF Tasks, Cpu!work_items
<1>3. ~Ahead(v, Cpu!Sample(w))
  BY <1>1, <1>2, OwnTask DEF Ahead
<1>4. ASSUME Adding(v, Cpu!Sample(w)) PROVE FALSE
  <2>1. cpuPc[v] \in Busy /\ Cpu!Sample(v) = Cpu!Sample(w)
    BY <1>4 DEF Adding, Busy
  <2>2. TaskOf(Cpu!Sample(v)) = cpuTask[v] /\ cpuTask[v] < cpuEnd[v]
    BY <2>1, CurrentSample
  <2>3. cpuTask[v] = cpuTask[w]
    BY <1>1, <2>1, <2>2
  <2> QED
    BY <1>1, <1>2, <2>2, <2>3, OwnTask
<1> QED
  BY <1>3, <1>4

(* The corner that is next. *)
LEMMA CornerOf ==
    ASSUME CpuTypes, NEW w \in Cpu!Workers, cpuCorners[w] # {}
    PROVE  Cpu!Corner(w) \in cpuCorners[w] /\ Cpu!Corner(w) \in 0 .. SpatialSize - 1
<1>1. cpuCorners[w] \in SUBSET (0 .. SpatialSize - 1) /\ cpuCorners[w] \in SUBSET Nat
  BY CpuAssumption DEF CpuTypes
<1>2. \E x \in cpuCorners[w] : \A y \in cpuCorners[w] : x <= y
  BY <1>1, LeastOf
<1> QED
  BY <1>1, <1>2 DEF Cpu!Corner

(* The value cell of a worker, and the pair and the pixel it is of. *)
LEMMA CurrentCell ==
    ASSUME CpuTypes, CpuRunning, NEW w \in Cpu!Workers, cpuPc[w] \in Busy, cpuCorners[w] # {}
    PROVE  /\ Cpu!ValueCell(w) \in 0 .. Batches * SpatialSize * Heads - 1
           /\ Cpu!ValueCell(w) \div (SpatialSize * Heads) = Cpu!BatchOf(cpuTask[w])
           /\ Cpu!ValueCell(w) % Heads = Cpu!HeadOf(cpuTask[w])
           /\ (Cpu!ValueCell(w) \div Heads) % SpatialSize = Cpu!Corner(w)
<1>1. /\ Cpu!BatchOf(cpuTask[w]) \in 0 .. Batches - 1 /\ Cpu!HeadOf(cpuTask[w]) \in 0 .. Heads - 1
      /\ Cpu!Corner(w) \in 0 .. SpatialSize - 1
  BY CurrentSample, CornerOf
<1>2. Cpu!ValueCell(w) = ValueNumber(Cpu!BatchOf(cpuTask[w]), Cpu!Corner(w), Cpu!HeadOf(cpuTask[w]))
  BY DEF Cpu!ValueCell, ValueNumber
<1> QED
  BY <1>1, <1>2, ValueNumberParts

-----------------------------------------------------------------------------
(* No data race.                                                           *)

(* Two workers that add are at different samples, outputs and value cells. *)
LEMMA AccessApart ==
    ASSUME CpuTypes, CpuRunning, CpuApart, NEW v \in Cpu!Workers, NEW w \in Cpu!Workers, v # w,
           cpuPc[v] \in {"add", "added"}, cpuPc[w] \in {"add", "added"}
    PROVE  /\ Cpu!Sample(v) # Cpu!Sample(w)
           /\ ~cpuBackward => Cpu!OutputCell(v) # Cpu!OutputCell(w)
           /\ cpuBackward /\ cpuCorners[v] # {} /\ cpuCorners[w] # {} =>
                  Cpu!ValueCell(v) # Cpu!ValueCell(w)
<1>1. cpuPc[v] \in Busy /\ cpuPc[w] \in Busy
  BY DEF Busy
<1>2. /\ cpuTask[v] \in Tasks /\ cpuTask[v] < cpuEnd[v] /\ TaskOf(Cpu!Sample(v)) = cpuTask[v]
      /\ OutputOf(Cpu!Sample(v)) = Cpu!OutputCell(v)
  BY <1>1, CurrentSample
<1>3. /\ cpuTask[w] \in Tasks /\ cpuTask[w] < cpuEnd[w] /\ TaskOf(Cpu!Sample(w)) = cpuTask[w]
      /\ OutputOf(Cpu!Sample(w)) = Cpu!OutputCell(w)
  BY <1>1, CurrentSample
<1>4. cpuTask[v] # cpuTask[w]
  <2>1. cpuTask[v] <= cpuTask[v]
    BY <1>2, CpuAssumption DEF Tasks, Cpu!work_items
  <2> QED
    BY <2>1, <1>2, <1>3, OwnTask
<1>5. ASSUME ~cpuBackward PROVE Cpu!OutputCell(v) # Cpu!OutputCell(w)
  BY <1>2, <1>3, <1>4, <1>5 DEF TaskOf
<1>6. ASSUME cpuBackward, cpuCorners[v] # {}, cpuCorners[w] # {}
      PROVE  Cpu!ValueCell(v) # Cpu!ValueCell(w)
  <2>1. /\ Cpu!BatchOf(cpuTask[v]) = BatchAt(Cpu!Sample(v))
        /\ Cpu!HeadOf(cpuTask[v]) = HeadAt(Cpu!Sample(v))
    BY <1>1, <1>2, CurrentSample, TaskOfSample DEF CpuTypes
  <2>2. /\ Cpu!BatchOf(cpuTask[w]) = BatchAt(Cpu!Sample(w))
        /\ Cpu!HeadOf(cpuTask[w]) = HeadAt(Cpu!Sample(w))
    BY <1>1, <1>3, CurrentSample, TaskOfSample DEF CpuTypes
  <2>3. /\ Cpu!ValueCell(v) \div (SpatialSize * Heads) = Cpu!BatchOf(cpuTask[v])
        /\ Cpu!ValueCell(v) % Heads = Cpu!HeadOf(cpuTask[v])
    BY <1>1, <1>6, CurrentCell
  <2>4. /\ Cpu!ValueCell(w) \div (SpatialSize * Heads) = Cpu!BatchOf(cpuTask[w])
        /\ Cpu!ValueCell(w) % Heads = Cpu!HeadOf(cpuTask[w])
    BY <1>1, <1>6, CurrentCell
  <2>5. ~ (/\ Cpu!BatchOf(cpuTask[v]) = Cpu!BatchOf(cpuTask[w])
           /\ Cpu!HeadOf(cpuTask[v]) = Cpu!HeadOf(cpuTask[w]))
    BY <1>2, <1>3, <1>4, <1>6, <2>1, <2>2 DEF TaskOf
  <2>6. SUFFICES ASSUME Cpu!ValueCell(v) = Cpu!ValueCell(w) PROVE FALSE
    OBVIOUS
  <2> QED
    BY <2>3, <2>4, <2>5, <2>6, Zenon
<1> QED
  BY <1>2, <1>3, <1>4, <1>5, <1>6

(* The invariant keeps concurrent workers' cells apart. *)
LEMMA CpuInvRaceFree == CpuInv => CpuRaceFree
<1> SUFFICES ASSUME CpuInv, NEW v \in Cpu!Workers, NEW w \in Cpu!Workers, v # w
             PROVE  Cpu!Access(v) \cap Cpu!Access(w) = {}
  BY DEF CpuRaceFree, Cpu!RaceFree
<1>1. CASE cpuPc[v] \in {"add", "added"} /\ cpuPc[w] \in {"add", "added"}
  <2>1. /\ Cpu!Sample(v) # Cpu!Sample(w)
        /\ ~cpuBackward => Cpu!OutputCell(v) # Cpu!OutputCell(w)
        /\ cpuBackward /\ cpuCorners[v] # {} /\ cpuCorners[w] # {} =>
                  Cpu!ValueCell(v) # Cpu!ValueCell(w)
    BY <1>1, AccessApart DEF CpuInv
  <2>2. \A x, y : <<"sample", x>> # <<"value", y>>
    OBVIOUS
  <2> QED
    BY <1>1, <2>1, <2>2 DEF Cpu!Access
<1> QED
  BY <1>1 DEF Cpu!Access

-----------------------------------------------------------------------------
(* The start.                                                              *)

(* A sequence whose every step ascends is monotone. *)
LEMMA Growing ==
    ASSUME NEW f, NEW n \in Nat, f \in [0 .. n -> Nat],
           \A w \in 1 .. n : f[w - 1] <= f[w]
    PROVE  \A v, w \in 0 .. n : v <= w => f[v] <= f[w]
<1> SUFFICES ASSUME NEW v \in 0 .. n, NEW w \in 0 .. n, v <= w, ~(f[v] <= f[w]) PROVE FALSE
  OBVIOUS
<1> DEFINE T == {u \in 0 .. n : v <= u /\ ~(f[v] <= f[u])}
<1>1. PICK u \in T : \A y \in T : u <= y
  <2>1. T \in SUBSET Nat /\ w \in T
    OBVIOUS
  <2> HIDE DEF T
  <2> QED
    BY <2>1, LeastOf
<1>2. u # v
  BY <1>1
<1>3. u - 1 \in 0 .. n /\ v <= u - 1 /\ u \in 1 .. n
  BY <1>1, <1>2
<1>4. f[v] <= f[u - 1]
  <2>1. u - 1 \notin T
    BY <1>1, <1>3
  <2> QED
    BY <2>1, <1>3
<1>5. f[u - 1] <= f[u]
  BY <1>3
<1>6. f[v] \in Nat /\ f[u - 1] \in Nat /\ f[u] \in Nat
  BY <1>3
<1> QED
  BY <1>1, <1>4, <1>5, <1>6

(* The ranges of the workers cover all tasks. *)
LEMMA CutsCover ==
    ASSUME NEW items \in Nat, NEW cut \in Cpu!Cuts(items), NEW i \in 0 .. items - 1
    PROVE  \E w \in Cpu!Workers : cut[w - 1] <= i /\ i < cut[w]
<1> USE CpuAssumption
<1>1. /\ cut \in [0 .. WorkerCount -> 0 .. items]
      /\ cut[0] = 0 /\ cut[WorkerCount] = items
  BY DEF Cpu!Cuts
<1> DEFINE T == {w \in 0 .. WorkerCount : i < cut[w]}
<1>2. PICK w \in T : \A y \in T : w <= y
  <2>1. WorkerCount \in T /\ T \in SUBSET Nat
    BY <1>1
  <2> HIDE DEF T
  <2> QED
    BY <2>1, LeastOf
<1>3. w # 0
  BY <1>1, <1>2
<1>4. w \in Cpu!Workers /\ w - 1 \in 0 .. WorkerCount /\ i < cut[w]
  BY <1>2, <1>3 DEF Cpu!Workers
<1>5. w - 1 \notin T
  BY <1>2, <1>4
<1>6. cut[w - 1] \in Nat
  BY <1>1, <1>4
<1> QED
  BY <1>4, <1>5, <1>6

(* It holds when the workers have been given their ranges. *)
LEMMA CpuInvInit == Cpu!Init => CpuInv
<1> USE CpuAssumption
<1> SUFFICES ASSUME Cpu!Init PROVE CpuInv
  OBVIOUS
<1> DEFINE items == Cpu!work_items(cpuBackward)
<1>1. cpuBackward \in BOOLEAN /\ items \in Nat
  BY DEF Cpu!Init, Cpu!work_items
<1>2. PICK cut \in Cpu!Cuts(items) :
          /\ cpuTask = [w \in Cpu!Workers |-> cut[w - 1]]
          /\ cpuEnd = [w \in Cpu!Workers |-> cut[w]]
  BY DEF Cpu!Init
<1>3. /\ cut \in [0 .. WorkerCount -> 0 .. items]
      /\ \A w \in 1 .. WorkerCount : cut[w - 1] <= cut[w]
  BY DEF Cpu!Cuts, Cpu!Workers
<1>4. \A v, w \in 0 .. WorkerCount : v <= w => cut[v] <= cut[w]
  <2>1. cut \in [0 .. WorkerCount -> Nat]
    BY <1>1, <1>3
  <2> QED
    BY <1>3, <2>1, Growing
<1>5. \A w \in Cpu!Workers : cpuPc[w] = "task"
  BY DEF Cpu!Init
<1>6. CpuTypes
  <2>1. cpuTask \in [Cpu!Workers -> Nat] /\ cpuEnd \in [Cpu!Workers -> Nat]
    BY <1>1, <1>2, <1>3 DEF Cpu!Workers
  <2> QED
    BY <1>1, <2>1 DEF Cpu!Init, CpuTypes
<1>7. CpuRunning
  <2>1. \A w \in Cpu!Workers : cpuEnd[w] <= items
    BY <1>1, <1>2, <1>3 DEF Cpu!Workers
  <2> QED
    BY <1>5, <2>1 DEF CpuRunning
<1>8. CpuApart
  <2> SUFFICES ASSUME NEW v \in Cpu!Workers, NEW w \in Cpu!Workers, v < w
               PROVE  cpuEnd[v] <= cpuTask[w]
    BY DEF CpuApart
  <2>1. v \in 0 .. WorkerCount /\ w - 1 \in 0 .. WorkerCount /\ v <= w - 1
    BY DEF Cpu!Workers
  <2> QED
    BY <1>2, <1>4, <2>1
<1>9. \A s \in Cpu!Samples : \E w \in Cpu!Workers : Ahead(w, s)
  <2> SUFFICES ASSUME NEW s \in Cpu!Samples PROVE \E w \in Cpu!Workers : Ahead(w, s)
    OBVIOUS
  <2>1. TaskOf(s) \in 0 .. items - 1
    BY <1>1, TaskOfSample DEF Tasks
  <2>2. PICK w \in Cpu!Workers : cut[w - 1] <= TaskOf(s) /\ TaskOf(s) < cut[w]
    BY <1>1, <2>1, CutsCover
  <2>3. Ahead(w, s)
    BY <1>2, <1>5, <2>2 DEF Ahead
  <2> QED
    BY <2>3
<1>10. CpuSums
  <2>1. \A s \in Cpu!Samples : SampleAwaits(s) /\ \A pixel : PixelAwaits(s, pixel)
    BY <1>9 DEF SampleAwaits, PixelAwaits
  <2> QED
    BY <2>1 DEF CpuSums, Cpu!Init
<1>11. CpuLoads
  BY <1>5 DEF CpuLoads
<1> QED
  BY <1>6, <1>7, <1>8, <1>10, <1>11 DEF CpuInv

-----------------------------------------------------------------------------
(* The steps.                                                              *)

(* Workers that do not move await what they awaited. *)
LEMMA OthersStand ==
    ASSUME NEW v, NEW s, cpuBackward' = cpuBackward, cpuEnd' = cpuEnd,
           cpuTask'[v] = cpuTask[v], cpuQuery'[v] = cpuQuery[v],
           cpuPoint'[v] = cpuPoint[v], cpuPc'[v] = cpuPc[v]
    PROVE  /\ Ahead(v, s)' <=> Ahead(v, s)
           /\ Adding(v, s)' <=> Adding(v, s)
           /\ Cpu!Sample(v)' = Cpu!Sample(v) /\ Cpu!OutputCell(v)' = Cpu!OutputCell(v)
<1>1. TaskOf(s)' = TaskOf(s) /\ QueryOf(s)' = QueryOf(s) /\ PointOf(s)' = PointOf(s)
  BY DEF TaskOf, QueryOf, PointOf
<1>2. Cpu!Sample(v)' = Cpu!Sample(v) /\ Cpu!OutputCell(v)' = Cpu!OutputCell(v)
  BY DEF Cpu!Sample, Cpu!OutputCell, Cpu!BatchOf, Cpu!HeadOf
<1>3. Ahead(v, s)' <=> Ahead(v, s)
  BY <1>1 DEF Ahead
<1>4. Adding(v, s)' <=> Adding(v, s)
  BY <1>2 DEF Adding
<1> QED
  BY <1>2, <1>3, <1>4

(* A step between samples leaves the worker with what it had to do. *)
LEMMA BetweenSamples ==
    ASSUME CpuTypes, CpuRunning, NEW w \in Cpu!Workers, NEW s \in Cpu!Samples,
           \/ Cpu!BeginTask(w) \/ Cpu!LeaveRange(w)
           \/ Cpu!NextPoint(w) \/ Cpu!NextQuery(w) \/ Cpu!NextTask(w)
    PROVE  /\ Ahead(w, s)' <=> Ahead(w, s)
           /\ ~Adding(w, s) /\ ~Adding(w, s)'
<1>1. TaskOf(s)' = TaskOf(s) /\ QueryOf(s)' = QueryOf(s) /\ PointOf(s)' = PointOf(s)
  BY DEF TaskOf, QueryOf, PointOf, Cpu!BeginTask, Cpu!LeaveRange, Cpu!NextPoint, Cpu!NextQuery,
         Cpu!NextTask, Cpu!range
<1>2. /\ TaskOf(s) \in Nat /\ QueryOf(s) \in Nat /\ PointOf(s) \in 0 .. SamplePoints - 1
      /\ Cpu!QueryBegin(TaskOf(s)) <= QueryOf(s) /\ QueryOf(s) < Cpu!QueryEnd(TaskOf(s))
  BY SampleParts, TaskOfSample, CpuAssumption DEF CpuTypes, Tasks, Cpu!work_items
<1>3. /\ cpuTask[w] \in Nat /\ cpuEnd[w] \in Nat /\ cpuQuery[w] \in Nat /\ cpuPoint[w] \in Nat
      /\ SamplePoints \in Nat
  BY CpuAssumption DEF CpuTypes
<1>4. CASE Cpu!BeginTask(w)
  <2>1. /\ cpuPc[w] = "task" /\ cpuPc'[w] = "sample" /\ cpuTask' = cpuTask /\ cpuEnd' = cpuEnd
        /\ cpuQuery'[w] = Cpu!QueryBegin(cpuTask[w]) /\ cpuPoint'[w] = 0
    BY <1>4 DEF Cpu!BeginTask, CpuTypes, Cpu!range
  <2>2. Cpu!QueryBegin(TaskOf(s)) \in Nat
    BY <1>2, CpuAssumption DEF Cpu!QueryBegin
  <2>3. Ahead(w, s) <=> cpuTask[w] <= TaskOf(s) /\ TaskOf(s) < cpuEnd[w]
    BY <2>1 DEF Ahead
  <2>4. ASSUME TaskOf(s) = cpuTask[w]
        PROVE  \/ cpuQuery'[w] < QueryOf(s)
               \/ cpuQuery'[w] = QueryOf(s) /\ (cpuPoint'[w] < PointOf(s) \/ cpuPoint'[w] = PointOf(s))
    BY <1>2, <1>3, <2>1, <2>2, <2>4
  <2>5. Ahead(w, s)' <=> cpuTask[w] <= TaskOf(s) /\ TaskOf(s) < cpuEnd[w]
    BY <1>1, <2>1, <2>4 DEF Ahead
  <2> QED
    BY <2>1, <2>3, <2>5 DEF Adding
<1>5. CASE Cpu!LeaveRange(w)
  <2>1. /\ cpuPc[w] = "task" /\ cpuPc'[w] = "idle" /\ cpuTask' = cpuTask /\ cpuEnd' = cpuEnd
        /\ cpuEnd[w] <= cpuTask[w]
    BY <1>3, <1>5 DEF Cpu!LeaveRange, CpuTypes, Cpu!range
  <2>2. ~ (cpuTask[w] <= TaskOf(s) /\ TaskOf(s) < cpuEnd[w])
    BY <1>2, <1>3, <2>1
  <2>3. ~ (cpuTask'[w] <= TaskOf(s)' /\ TaskOf(s)' < cpuEnd'[w])
    BY <1>1, <2>1, <2>2
  <2> QED
    BY <2>1, <2>2, <2>3 DEF Ahead, Adding
<1>6. CASE Cpu!NextPoint(w)
  <2>1. /\ cpuPc[w] = "next" /\ cpuPc'[w] = "sample" /\ cpuTask' = cpuTask /\ cpuEnd' = cpuEnd
        /\ cpuQuery' = cpuQuery /\ cpuPoint'[w] = cpuPoint[w] + 1
    BY <1>6 DEF Cpu!NextPoint, CpuTypes, Cpu!range
  <2> QED
    BY <1>1, <1>2, <1>3, <2>1 DEF Ahead, Adding
<1>7. CASE Cpu!NextQuery(w)
  <2>1. /\ cpuPc[w] = "next" /\ cpuPc'[w] = "sample" /\ cpuTask' = cpuTask /\ cpuEnd' = cpuEnd
        /\ cpuQuery'[w] = cpuQuery[w] + 1 /\ cpuPoint'[w] = 0 /\ cpuPoint[w] + 1 = SamplePoints
    BY <1>7 DEF Cpu!NextQuery, CpuTypes, Cpu!range
  <2> QED
    BY <1>1, <1>2, <1>3, <2>1 DEF Ahead, Adding
<1>8. CASE Cpu!NextTask(w)
  <2>1. /\ cpuPc[w] = "next" /\ cpuPc'[w] = "task" /\ cpuTask'[w] = cpuTask[w] + 1
        /\ cpuEnd' = cpuEnd /\ cpuPoint[w] + 1 = SamplePoints
        /\ cpuQuery[w] + 1 >= Cpu!QueryEnd(cpuTask[w])
    BY <1>8 DEF Cpu!NextTask, CpuTypes, Cpu!range
  <2>2. Cpu!QueryEnd(TaskOf(s)) \in Nat
    BY <1>2, CpuAssumption DEF Cpu!QueryEnd, Cpu!QueryBegin
  <2> QED
    BY <1>1, <1>2, <1>3, <2>1, <2>2 DEF Ahead, Adding
<1> QED
  BY <1>4, <1>5, <1>6, <1>7, <1>8

(* A worker that begins a sample has it no longer before it. *)
LEMMA SampleBegun ==
    ASSUME CpuTypes, CpuRunning, NEW w \in Cpu!Workers, Cpu!BeginSample(w), NEW s \in Cpu!Samples
    PROVE  /\ Cpu!Sample(w)' = Cpu!Sample(w)
           /\ Ahead(w, s)' <=> Ahead(w, s) /\ s # Cpu!Sample(w)
           /\ Ahead(w, Cpu!Sample(w)) /\ ~Adding(w, s)
           /\ Adding(w, s)' <=> s = Cpu!Sample(w) /\ CpuFootprint[s] # {}
           /\ cpuCorners'[w] = CpuFootprint[Cpu!Sample(w)]
<1>1. TaskOf(s)' = TaskOf(s) /\ QueryOf(s)' = QueryOf(s) /\ PointOf(s)' = PointOf(s)
  BY DEF TaskOf, QueryOf, PointOf, Cpu!BeginSample, Cpu!range
<1>2. Cpu!Sample(w)' = Cpu!Sample(w)
  BY DEF Cpu!Sample, Cpu!OutputCell, Cpu!BatchOf, Cpu!HeadOf, Cpu!BeginSample, Cpu!range
<1>3. /\ cpuPc[w] = "sample" /\ cpuTask' = cpuTask /\ cpuEnd' = cpuEnd
      /\ cpuQuery' = cpuQuery /\ cpuPoint' = cpuPoint
      /\ cpuPc'[w] = IF CpuFootprint[Cpu!Sample(w)] = {} THEN "next" ELSE "add"
      /\ cpuCorners'[w] = CpuFootprint[Cpu!Sample(w)]
  BY DEF Cpu!BeginSample, CpuTypes, Cpu!range
<1>4. /\ cpuTask[w] \in Tasks /\ cpuTask[w] < cpuEnd[w]
      /\ Cpu!Sample(w) \in Cpu!Samples
      /\ TaskOf(Cpu!Sample(w)) = cpuTask[w]
      /\ QueryOf(Cpu!Sample(w)) = cpuQuery[w]
      /\ PointOf(Cpu!Sample(w)) = cpuPoint[w]
  BY <1>3, CurrentSample DEF Busy
<1>5. /\ cpuTask[w] \in Nat /\ cpuEnd[w] \in Nat /\ cpuQuery[w] \in Nat /\ cpuPoint[w] \in Nat
      /\ cpuBackward \in BOOLEAN
  BY DEF CpuTypes
<1>6. /\ TaskOf(s) = cpuTask[w] /\ QueryOf(s) = cpuQuery[w] /\ PointOf(s) = cpuPoint[w]
         <=> s = Cpu!Sample(w)
  BY <1>4, <1>5, SameSample
<1>7. TaskOf(s) \in Int /\ QueryOf(s) \in Nat /\ PointOf(s) \in Nat
  BY <1>5, SampleParts, TaskOfSample, CpuAssumption DEF Tasks, Cpu!work_items
<1>8. Ahead(w, s)' <=> Ahead(w, s) /\ s # Cpu!Sample(w)
  BY <1>1, <1>3, <1>5, <1>6, <1>7 DEF Ahead
<1>9. Ahead(w, Cpu!Sample(w)) /\ ~Adding(w, s)
  BY <1>3, <1>4, <1>5 DEF Ahead, Adding
<1>10. Adding(w, s)' <=> s = Cpu!Sample(w) /\ CpuFootprint[s] # {}
  BY <1>2, <1>3 DEF Adding
<1> QED
  BY <1>2, <1>3, <1>8, <1>9, <1>10

(* Cells keep what they hold while what is awaited stays the same. *)
LEMMA SumsKept ==
    ASSUME CpuSums, UNCHANGED <<cpuBackward, cpuGradValue, cpuGradSample, cpuOutput>>,
           \A s \in Cpu!Samples :
               /\ \A x \in CpuFootprint[s] : PixelAwaits(s, x)' <=> PixelAwaits(s, x)
               /\ CpuFootprint[s] # {} => (SampleAwaits(s)' <=> SampleAwaits(s))
    PROVE  CpuSums'
<1>1. ASSUME NEW i \in DOMAIN cpuGradValue
      PROVE  {k \in Cpu!Samples :
                /\ Cpu!PairOf(k) = <<i \div (SpatialSize * Heads), i % Heads>>
                /\ (i \div Heads) % SpatialSize \in CpuFootprint[k]
                /\ ~PixelAwaits(k, (i \div Heads) % SpatialSize)}
             = {k \in Cpu!Samples :
                /\ Cpu!PairOf(k) = <<i \div (SpatialSize * Heads), i % Heads>>
                /\ (i \div Heads) % SpatialSize \in CpuFootprint[k]
                /\ ~PixelAwaits(k, (i \div Heads) % SpatialSize)'}
  OBVIOUS
<1>2. ASSUME NEW i \in DOMAIN cpuOutput
      PROVE  {k \in Cpu!Samples : k \div SamplePoints = i /\ CpuFootprint[k] # {} /\ ~SampleAwaits(k)}
             = {k \in Cpu!Samples : k \div SamplePoints = i /\ CpuFootprint[k] # {} /\ ~SampleAwaits(k)'}
  OBVIOUS
<1>3. \A k : Cpu!PairOf(k)' = Cpu!PairOf(k)
  BY DEF Cpu!PairOf
<1>4. \A i \in DOMAIN cpuGradValue :
           cpuGradValue[i] =
               IF cpuBackward
               THEN {<<s, 0, "v">> : s \in {k \in Cpu!Samples :
                        /\ Cpu!PairOf(k) = <<i \div (SpatialSize * Heads), i % Heads>>
                        /\ (i \div Heads) % SpatialSize \in CpuFootprint[k]
                        /\ ~PixelAwaits(k, (i \div Heads) % SpatialSize)'}}
               ELSE {}
  BY <1>1, Zenon DEF CpuSums
<1>5. \A i \in DOMAIN cpuOutput :
           cpuOutput[i] =
               IF cpuBackward THEN {}
               ELSE {<<s, 0, "v">> : s \in {k \in Cpu!Samples :
                        k \div SamplePoints = i /\ CpuFootprint[k] # {} /\ ~SampleAwaits(k)'}}
  BY <1>2, Zenon DEF CpuSums
<1>6. \A s \in Cpu!Samples :
           cpuGradSample[s] =
               IF cpuBackward /\ CpuFootprint[s] # {} /\ ~SampleAwaits(s)'
               THEN {<<s, 0, "a">>} ELSE {}
  BY DEF CpuSums
<1> QED
  BY <1>3, <1>4, <1>5, <1>6 DEF CpuSums

(* What a step of worker w changes of its variables, and of no other's. *)
Moves(w) ==
    /\ cpuBackward' = cpuBackward /\ cpuEnd' = cpuEnd
    /\ \A v \in Cpu!Workers : v # w =>
           /\ cpuTask'[v] = cpuTask[v] /\ cpuQuery'[v] = cpuQuery[v]
           /\ cpuPoint'[v] = cpuPoint[v] /\ cpuPc'[v] = cpuPc[v]
           /\ cpuCorners'[v] = cpuCorners[v] /\ cpuLoaded'[v] = cpuLoaded[v]

(* A worker's step changes its own variables and keeps their types. *)
LEMMA WorkerMoves ==
    ASSUME CpuTypes, CpuRunning, NEW w \in Cpu!Workers, Cpu!WorkerStep(w)
    PROVE  Moves(w) /\ CpuTypes'
<1> USE CpuAssumption
<1> DEFINE s == Cpu!Sample(w)
<1>a. /\ cpuPc[w] \in {"add", "added"} => s \in Cpu!Samples /\ s \in Nat
      /\ cpuPc[w] = "sample" => s \in Cpu!Samples
      /\ cpuPc[w] \in {"add", "added"} => Cpu!OutputCell(w) \in 0 .. Batches * Queries * Heads - 1
  BY CurrentSample DEF Busy, Cpu!Samples
<1>b. cpuPc[w] \in {"add", "added"} /\ cpuCorners[w] # {} =>
          Cpu!ValueCell(w) \in 0 .. Batches * SpatialSize * Heads - 1
  BY CurrentCell DEF Busy
<1>c. \A k \in Nat : \A c \in {"v", "a"} : \A a \in SUBSET Addends :
          /\ {<<k, 0, c>>} \in SUBSET Addends
          /\ Cpu!Plus(a, {<<k, 0, c>>}) \in SUBSET Addends
  BY DEF Cpu!Plus, Cpu!Twice, Addends
<1>1. CASE Cpu!BeginTask(w)
  <2>1. Cpu!QueryBegin(cpuTask[w]) \in Nat
    BY DEF CpuTypes, Cpu!QueryBegin
  <2> QED
    BY <1>1, <2>1 DEF Cpu!BeginTask, Cpu!range, Cpu!tensors, Moves, CpuTypes
<1>2. CASE Cpu!LeaveRange(w)
  BY <1>2 DEF Cpu!LeaveRange, Cpu!range, Cpu!tensors, Moves, CpuTypes
<1>3. CASE Cpu!BeginSample(w)
  BY <1>3, <1>a DEF Cpu!BeginSample, Cpu!range, Cpu!tensors, Moves, CpuTypes
<1>4. CASE Cpu!LoadValue(w)
  BY <1>4, <1>b DEF Cpu!LoadValue, Cpu!range, Cpu!tensors, Moves, CpuTypes
<1>5. CASE Cpu!StoreValue(w)
  <2>1. cpuPc[w] = "added" /\ cpuLoaded[w] \in SUBSET Addends
    BY <1>5 DEF Cpu!StoreValue, CpuTypes
  <2>2. Cpu!Plus(cpuLoaded[w], Cpu!Addend(w, "v")) \in SUBSET Addends
    BY <2>1, <1>a, <1>c DEF Cpu!Addend
  <2>3. cpuGradValue' \in [0 .. Batches * SpatialSize * Heads - 1 -> SUBSET Addends]
    BY <1>5, <2>2 DEF Cpu!StoreValue, CpuTypes
  <2> QED
    BY <1>5, <2>3 DEF Cpu!StoreValue, Cpu!range, Moves, CpuTypes
<1>6. CASE Cpu!StoreSample(w)
  <2>1. cpuPc[w] = "add"
    BY <1>6 DEF Cpu!StoreSample
  <2>2. Cpu!Addend(w, "a") \in SUBSET Addends
    BY <2>1, <1>a, <1>c DEF Cpu!Addend
  <2>3. cpuGradSample' \in [Cpu!Samples -> SUBSET Addends]
    BY <1>6, <2>2 DEF Cpu!StoreSample, CpuTypes
  <2> QED
    BY <1>6, <2>3 DEF Cpu!StoreSample, Cpu!range, Moves, CpuTypes
<1>7. CASE Cpu!LoadOutput(w)
  BY <1>7, <1>a DEF Cpu!LoadOutput, Cpu!range, Cpu!tensors, Moves, CpuTypes
<1>8. CASE Cpu!StoreOutput(w)
  <2>1. cpuPc[w] = "added" /\ cpuLoaded[w] \in SUBSET Addends
    BY <1>8 DEF Cpu!StoreOutput, CpuTypes
  <2>2. Cpu!Plus(cpuLoaded[w], Cpu!Addend(w, "v")) \in SUBSET Addends
    BY <2>1, <1>a, <1>c DEF Cpu!Addend
  <2>3. cpuOutput' \in [0 .. Batches * Queries * Heads - 1 -> SUBSET Addends]
    BY <1>8, <2>2 DEF Cpu!StoreOutput, CpuTypes
  <2> QED
    BY <1>8, <2>3 DEF Cpu!StoreOutput, Cpu!range, Moves, CpuTypes
<1>9. CASE Cpu!NextPoint(w)
  BY <1>9 DEF Cpu!NextPoint, Cpu!range, Cpu!tensors, Moves, CpuTypes
<1>10. CASE Cpu!NextQuery(w)
  BY <1>10 DEF Cpu!NextQuery, Cpu!range, Cpu!tensors, Moves, CpuTypes
<1>11. CASE Cpu!NextTask(w)
  BY <1>11 DEF Cpu!NextTask, Cpu!range, Cpu!tensors, Moves, CpuTypes
<1> QED
  BY <1>1, <1>2, <1>3, <1>4, <1>5, <1>6, <1>7, <1>8, <1>9, <1>10, <1>11 DEF Cpu!WorkerStep

(* A worker stays within its range, and ranges stay apart. *)
LEMMA RangesKept ==
    ASSUME CpuTypes, CpuRunning, CpuApart, NEW w \in Cpu!Workers, Cpu!WorkerStep(w)
    PROVE  CpuApart'
<1>1. Moves(w) /\ CpuTypes'
  BY WorkerMoves
<1>2. cpuTask'[w] \in {cpuTask[w], cpuTask[w] + 1}
  BY DEF Cpu!WorkerStep, Cpu!BeginTask, Cpu!LeaveRange, Cpu!BeginSample, Cpu!LoadValue,
         Cpu!StoreValue, Cpu!StoreSample, Cpu!LoadOutput, Cpu!StoreOutput, Cpu!NextPoint,
         Cpu!NextQuery, Cpu!NextTask, CpuTypes
<1>3. ASSUME NEW v \in Cpu!Workers PROVE cpuTask[v] <= cpuTask'[v]
  <2>1. cpuTask[v] \in Nat
    BY DEF CpuTypes
  <2>2. CASE v = w
    BY <1>2, <2>1, <2>2
  <2>3. CASE v # w
    BY <1>1, <2>1, <2>3 DEF Moves
  <2> QED
    BY <2>2, <2>3
<1> SUFFICES ASSUME NEW u \in Cpu!Workers, NEW v \in Cpu!Workers, u < v
             PROVE  cpuEnd'[u] <= cpuTask'[v]
  BY DEF CpuApart
<1>4. cpuEnd[u] <= cpuTask[v] /\ cpuEnd'[u] = cpuEnd[u] /\ cpuTask[v] <= cpuTask'[v]
  BY <1>1, <1>3 DEF CpuApart, Moves
<1>5. cpuEnd[u] \in Nat /\ cpuTask[v] \in Nat /\ cpuTask'[v] \in Nat
  BY <1>1 DEF CpuTypes
<1> QED
  BY <1>4, <1>5

(* The sample and the cells of a worker that does not move. *)
LEMMA CellsStand ==
    ASSUME NEW w, Moves(w), NEW v \in Cpu!Workers, v # w
    PROVE  /\ Cpu!Sample(v)' = Cpu!Sample(v) /\ Cpu!OutputCell(v)' = Cpu!OutputCell(v)
           /\ Cpu!ValueCell(v)' = Cpu!ValueCell(v)
           /\ Cpu!QueryBegin(cpuTask[v])' = Cpu!QueryBegin(cpuTask[v])
           /\ Cpu!QueryEnd(cpuTask[v])' = Cpu!QueryEnd(cpuTask[v])
           /\ \A s : (Ahead(v, s)' <=> Ahead(v, s)) /\ (Adding(v, s)' <=> Adding(v, s))
<1>1. /\ cpuBackward' = cpuBackward /\ cpuEnd' = cpuEnd
      /\ cpuTask'[v] = cpuTask[v] /\ cpuQuery'[v] = cpuQuery[v]
      /\ cpuPoint'[v] = cpuPoint[v] /\ cpuPc'[v] = cpuPc[v] /\ cpuCorners'[v] = cpuCorners[v]
  BY DEF Moves
<1>2. /\ Cpu!Sample(v)' = Cpu!Sample(v) /\ Cpu!OutputCell(v)' = Cpu!OutputCell(v)
      /\ \A s : (Ahead(v, s)' <=> Ahead(v, s)) /\ (Adding(v, s)' <=> Adding(v, s))
  BY <1>1, OthersStand
<1>3. Cpu!ValueCell(v)' = Cpu!ValueCell(v)
  BY <1>1 DEF Cpu!ValueCell, Cpu!Corner, Cpu!BatchOf, Cpu!HeadOf
<1>4. /\ Cpu!QueryBegin(cpuTask[v])' = Cpu!QueryBegin(cpuTask[v])
      /\ Cpu!QueryEnd(cpuTask[v])' = Cpu!QueryEnd(cpuTask[v])
  BY <1>1 DEF Cpu!QueryBegin, Cpu!QueryEnd
<1> QED
  BY <1>2, <1>3, <1>4

(* Its loops stay within its own tasks, their queries and their points. *)
LEMMA LoopsKept ==
    ASSUME CpuTypes, CpuRunning, NEW w \in Cpu!Workers, Cpu!WorkerStep(w)
    PROVE  CpuRunning'
<1>1. Moves(w) /\ CpuTypes'
  BY WorkerMoves
<1> DEFINE InLoops(v) ==
        /\ cpuEnd[v] <= Cpu!work_items(cpuBackward)
        /\ cpuPc[v] = "idle" => cpuEnd[v] <= cpuTask[v]
        /\ cpuPc[v] \in {"sample", "add", "added", "next"} =>
               /\ cpuTask[v] < cpuEnd[v] /\ cpuPoint[v] < SamplePoints
               /\ Cpu!QueryBegin(cpuTask[v]) <= cpuQuery[v]
               /\ cpuQuery[v] < Cpu!QueryEnd(cpuTask[v])
        /\ cpuPc[v] \in {"add", "added"} =>
               /\ CpuFootprint[Cpu!Sample(v)] # {}
               /\ cpuCorners[v] \subseteq CpuFootprint[Cpu!Sample(v)]
        /\ cpuPc[v] = "added" /\ cpuBackward => cpuCorners[v] # {}
<1>2. \A v \in Cpu!Workers : InLoops(v)
  BY DEF CpuRunning
<1>3. ASSUME NEW v \in Cpu!Workers, v # w PROVE InLoops(v)'
  <2>1. /\ Cpu!Sample(v)' = Cpu!Sample(v)
        /\ Cpu!QueryBegin(cpuTask[v])' = Cpu!QueryBegin(cpuTask[v])
        /\ Cpu!QueryEnd(cpuTask[v])' = Cpu!QueryEnd(cpuTask[v])
    BY <1>1, <1>3, CellsStand
  <2>2. Cpu!work_items(cpuBackward)' = Cpu!work_items(cpuBackward)
    BY <1>1 DEF Moves, Cpu!work_items
  <2> QED
    BY <1>1, <1>2, <1>3, <2>1, <2>2 DEF Moves
<1>4. InLoops(w)'
  <2> USE CpuAssumption
  <2>1. /\ cpuTask[w] \in Nat /\ cpuEnd[w] \in Nat /\ cpuQuery[w] \in Nat /\ cpuPoint[w] \in Nat
        /\ cpuBackward \in BOOLEAN /\ cpuPc[w] \in {"task", "sample", "add", "added", "next", "idle"}
        /\ InLoops(w)
    BY <1>2 DEF CpuTypes
  <2>2. Cpu!work_items(cpuBackward)' = Cpu!work_items(cpuBackward) /\ cpuEnd' = cpuEnd
        /\ cpuBackward' = cpuBackward
    BY <1>1 DEF Moves, Cpu!work_items
  <2>3. /\ cpuTask'[w] = cpuTask[w] =>
               /\ Cpu!QueryBegin(cpuTask[w])' = Cpu!QueryBegin(cpuTask[w])
               /\ Cpu!QueryEnd(cpuTask[w])' = Cpu!QueryEnd(cpuTask[w])
        /\ cpuTask'[w] = cpuTask[w] /\ cpuQuery'[w] = cpuQuery[w] /\ cpuPoint'[w] = cpuPoint[w] =>
               Cpu!Sample(w)' = Cpu!Sample(w)
    BY <2>2 DEF Cpu!QueryBegin, Cpu!QueryEnd, Cpu!Sample, Cpu!OutputCell, Cpu!BatchOf, Cpu!HeadOf
  <2>4. Cpu!QueryBegin(cpuTask[w]) \in Nat /\ Cpu!QueryEnd(cpuTask[w]) \in Nat
        /\ Cpu!QueryBegin(cpuTask[w]) < Cpu!QueryEnd(cpuTask[w])
    BY <2>1 DEF Cpu!QueryBegin, Cpu!QueryEnd
  <2>5. CASE Cpu!BeginTask(w)
    <3>1. /\ cpuPc'[w] = "sample" /\ cpuTask' = cpuTask /\ cpuTask[w] < cpuEnd[w]
          /\ cpuQuery'[w] = Cpu!QueryBegin(cpuTask[w]) /\ cpuPoint'[w] = 0
      BY <2>5 DEF Cpu!BeginTask, CpuTypes, Cpu!range
    <3> QED
      BY <2>1, <2>2, <2>3, <2>4, <3>1
  <2>6. CASE Cpu!LeaveRange(w)
    <3>1. /\ cpuPc'[w] = "idle" /\ cpuTask' = cpuTask /\ cpuEnd[w] <= cpuTask[w]
      BY <2>1, <2>6 DEF Cpu!LeaveRange, CpuTypes, Cpu!range
    <3> QED
      BY <2>1, <2>2, <3>1
  <2>7. CASE Cpu!BeginSample(w)
    <3>1. /\ cpuPc[w] = "sample" /\ cpuTask' = cpuTask /\ cpuQuery' = cpuQuery /\ cpuPoint' = cpuPoint
          /\ cpuPc'[w] = IF CpuFootprint[Cpu!Sample(w)] = {} THEN "next" ELSE "add"
          /\ cpuCorners'[w] = CpuFootprint[Cpu!Sample(w)]
      BY <2>7 DEF Cpu!BeginSample, CpuTypes, Cpu!range
    <3> QED
      BY <2>1, <2>2, <2>3, <3>1
  <2>8. CASE Cpu!LoadValue(w) \/ Cpu!LoadOutput(w)
    <3>1. /\ cpuPc[w] = "add" /\ cpuTask' = cpuTask /\ cpuQuery' = cpuQuery /\ cpuPoint' = cpuPoint
          /\ cpuPc'[w] = "added" /\ cpuCorners' = cpuCorners
          /\ cpuBackward => cpuCorners[w] # {}
      BY <2>8 DEF Cpu!LoadValue, Cpu!LoadOutput, CpuTypes, Cpu!range
    <3> QED
      BY <2>1, <2>2, <2>3, <3>1
  <2>9. CASE Cpu!StoreValue(w)
    <3>1. /\ cpuPc[w] = "added" /\ cpuTask' = cpuTask /\ cpuQuery' = cpuQuery /\ cpuPoint' = cpuPoint
          /\ cpuPc'[w] = "add" /\ cpuCorners'[w] \subseteq cpuCorners[w]
      BY <2>9 DEF Cpu!StoreValue, CpuTypes, Cpu!range
    <3> QED
      BY <2>1, <2>2, <2>3, <3>1
  <2>10. CASE Cpu!StoreSample(w) \/ Cpu!StoreOutput(w)
    <3>1. /\ cpuPc[w] \in {"add", "added"} /\ cpuTask' = cpuTask /\ cpuQuery' = cpuQuery
          /\ cpuPoint' = cpuPoint /\ cpuPc'[w] = "next"
      BY <2>10 DEF Cpu!StoreSample, Cpu!StoreOutput, CpuTypes, Cpu!range
    <3> QED
      BY <2>1, <2>2, <2>3, <3>1
  <2>11. CASE Cpu!NextPoint(w)
    <3>1. /\ cpuPc[w] = "next" /\ cpuTask' = cpuTask /\ cpuQuery' = cpuQuery
          /\ cpuPoint'[w] = cpuPoint[w] + 1 /\ cpuPoint[w] + 1 < SamplePoints /\ cpuPc'[w] = "sample"
      BY <2>11 DEF Cpu!NextPoint, CpuTypes, Cpu!range
    <3> QED
      BY <2>1, <2>2, <2>3, <3>1
  <2>12. CASE Cpu!NextQuery(w)
    <3>1. /\ cpuPc[w] = "next" /\ cpuTask' = cpuTask /\ cpuQuery'[w] = cpuQuery[w] + 1
          /\ cpuPoint'[w] = 0 /\ cpuQuery[w] + 1 < Cpu!QueryEnd(cpuTask[w]) /\ cpuPc'[w] = "sample"
      BY <2>12 DEF Cpu!NextQuery, CpuTypes, Cpu!range
    <3> QED
      BY <2>1, <2>2, <2>3, <2>4, <3>1
  <2>13. CASE Cpu!NextTask(w)
    <3>1. cpuPc'[w] = "task"
      BY <2>13 DEF Cpu!NextTask, CpuTypes, Cpu!range
    <3> QED
      BY <2>1, <2>2, <3>1
  <2> QED
    BY <2>5, <2>6, <2>7, <2>8, <2>9, <2>10, <2>11, <2>12, <2>13 DEF Cpu!WorkerStep
<1>5. \A v \in Cpu!Workers : InLoops(v)'
  BY <1>3, <1>4
<1> QED
  BY <1>5 DEF CpuRunning

(* Steps that add nothing. *)
LEMMA QuietStep ==
    ASSUME CpuInv, NEW w \in Cpu!Workers,
           \/ Cpu!BeginTask(w) \/ Cpu!LeaveRange(w) \/ Cpu!BeginSample(w)
           \/ Cpu!LoadValue(w) \/ Cpu!LoadOutput(w)
           \/ Cpu!NextPoint(w) \/ Cpu!NextQuery(w) \/ Cpu!NextTask(w)
    PROVE  CpuSums' /\ CpuLoads'
<1>1. CpuTypes /\ CpuRunning /\ CpuApart /\ CpuSums /\ CpuLoads
  BY DEF CpuInv
<1>2. Moves(w)
  BY <1>1, WorkerMoves DEF Cpu!WorkerStep
<1>3. UNCHANGED <<cpuBackward, cpuGradValue, cpuGradSample, cpuOutput>>
  BY DEF Cpu!BeginTask, Cpu!LeaveRange, Cpu!BeginSample, Cpu!LoadValue, Cpu!LoadOutput,
         Cpu!NextPoint, Cpu!NextQuery, Cpu!NextTask, Cpu!range, Cpu!tensors
<1>4. \A v \in Cpu!Workers : v # w =>
          \A s : (Ahead(v, s)' <=> Ahead(v, s)) /\ (Adding(v, s)' <=> Adding(v, s))
  BY <1>2, CellsStand
<1>5. \A v \in Cpu!Workers : v # w => cpuCorners'[v] = cpuCorners[v]
  BY <1>2 DEF Moves
<1>6. ASSUME NEW s \in Cpu!Samples
      PROVE  /\ \A x \in CpuFootprint[s] : PixelAwaits(s, x)' <=> PixelAwaits(s, x)
             /\ CpuFootprint[s] # {} => (SampleAwaits(s)' <=> SampleAwaits(s))
  <2>1. CASE \/ Cpu!BeginTask(w) \/ Cpu!LeaveRange(w)
             \/ Cpu!NextPoint(w) \/ Cpu!NextQuery(w) \/ Cpu!NextTask(w)
    <3>1. (Ahead(w, s)' <=> Ahead(w, s)) /\ ~Adding(w, s) /\ ~Adding(w, s)'
      BY <1>1, <2>1, BetweenSamples
    <3> QED
      BY <1>4, <1>5, <3>1 DEF PixelAwaits, SampleAwaits
  <2>2. CASE Cpu!BeginSample(w)
    <3>1. /\ Ahead(w, s)' <=> Ahead(w, s) /\ s # Cpu!Sample(w)
          /\ Ahead(w, Cpu!Sample(w)) /\ ~Adding(w, s)
          /\ Adding(w, s)' <=> s = Cpu!Sample(w) /\ CpuFootprint[s] # {}
          /\ cpuCorners'[w] = CpuFootprint[Cpu!Sample(w)]
      BY <1>1, <2>2, SampleBegun
    <3> QED
      BY <1>4, <1>5, <3>1 DEF PixelAwaits, SampleAwaits
  <2>3. CASE Cpu!LoadValue(w) \/ Cpu!LoadOutput(w)
    <3>1. /\ cpuTask' = cpuTask /\ cpuEnd' = cpuEnd /\ cpuQuery' = cpuQuery /\ cpuPoint' = cpuPoint
          /\ cpuPc[w] = "add" /\ cpuPc'[w] = "added" /\ cpuCorners' = cpuCorners
          /\ cpuBackward' = cpuBackward
      BY <1>1, <2>3 DEF Cpu!LoadValue, Cpu!LoadOutput, CpuTypes, Cpu!range
    <3>2. /\ TaskOf(s)' = TaskOf(s) /\ QueryOf(s)' = QueryOf(s) /\ PointOf(s)' = PointOf(s)
          /\ Cpu!Sample(w)' = Cpu!Sample(w)
      BY <3>1 DEF TaskOf, QueryOf, PointOf, Cpu!Sample, Cpu!OutputCell, Cpu!BatchOf, Cpu!HeadOf
    <3>3. (Ahead(w, s)' <=> Ahead(w, s)) /\ (Adding(w, s)' <=> Adding(w, s))
      BY <3>1, <3>2 DEF Ahead, Adding
    <3> QED
      BY <1>4, <3>1, <3>3 DEF PixelAwaits, SampleAwaits
  <2> QED
    BY <2>1, <2>2, <2>3
<1>7. CpuSums'
  BY <1>1, <1>3, <1>6, SumsKept
<1>8. ASSUME NEW v \in Cpu!Workers, cpuPc'[v] = "added"
      PROVE  cpuLoaded'[v] = IF cpuBackward' THEN cpuGradValue'[Cpu!ValueCell(v)']
                                             ELSE cpuOutput'[Cpu!OutputCell(v)']
  <2>1. CASE v # w
    <3>1. cpuPc[v] = "added" /\ cpuLoaded'[v] = cpuLoaded[v]
      BY <1>2, <1>8, <2>1 DEF Moves
    <3>2. Cpu!OutputCell(v)' = Cpu!OutputCell(v) /\ Cpu!ValueCell(v)' = Cpu!ValueCell(v)
      BY <1>2, <2>1, CellsStand
    <3>3. cpuLoaded[v] = IF cpuBackward THEN cpuGradValue[Cpu!ValueCell(v)]
                                        ELSE cpuOutput[Cpu!OutputCell(v)]
      BY <1>1, <3>1 DEF CpuLoads
    <3> QED
      BY <1>3, <3>1, <3>2, <3>3
  <2>2. CASE v = w
    <3>1. Cpu!LoadValue(w) \/ Cpu!LoadOutput(w)
      BY <1>1, <1>8, <2>2 DEF Cpu!BeginTask, Cpu!LeaveRange, Cpu!BeginSample,
         Cpu!NextPoint, Cpu!NextQuery, Cpu!NextTask, CpuTypes
    <3>2. /\ cpuTask' = cpuTask /\ cpuQuery' = cpuQuery /\ cpuPoint' = cpuPoint
          /\ cpuCorners' = cpuCorners /\ cpuBackward' = cpuBackward
          /\ cpuLoaded'[w] = IF cpuBackward THEN cpuGradValue[Cpu!ValueCell(w)]
                                            ELSE cpuOutput[Cpu!OutputCell(w)]
      BY <1>1, <3>1 DEF Cpu!LoadValue, Cpu!LoadOutput, CpuTypes, Cpu!range
    <3>3. Cpu!OutputCell(w)' = Cpu!OutputCell(w) /\ Cpu!ValueCell(w)' = Cpu!ValueCell(w)
      BY <3>2 DEF Cpu!OutputCell, Cpu!ValueCell, Cpu!Corner, Cpu!BatchOf, Cpu!HeadOf
    <3> QED
      BY <1>3, <2>2, <3>2, <3>3
  <2> QED
    BY <2>1, <2>2
<1>9. CpuLoads'
  BY <1>8 DEF CpuLoads
<1> QED
  BY <1>7, <1>9

(* The sample a worker adds is not before it. *)
LEMMA NotAhead ==
    ASSUME CpuTypes, CpuRunning, NEW w \in Cpu!Workers, cpuPc[w] \in {"add", "added", "next"}
    PROVE  ~Ahead(w, Cpu!Sample(w))
<1>1. /\ TaskOf(Cpu!Sample(w)) = cpuTask[w] /\ QueryOf(Cpu!Sample(w)) = cpuQuery[w]
      /\ PointOf(Cpu!Sample(w)) = cpuPoint[w]
  BY CurrentSample DEF Busy
<1>2. cpuQuery[w] \in Nat /\ cpuPoint[w] \in Nat
  BY DEF CpuTypes
<1> QED
  BY <1>1, <1>2 DEF Ahead

(* A value cell is made from its batch, pixel and head. *)
LEMMA ValueNumberOfParts ==
    ASSUME NEW i \in 0 .. Batches * SpatialSize * Heads - 1
    PROVE  i = ValueNumber(i \div (SpatialSize * Heads), (i \div Heads) % SpatialSize, i % Heads)
<1> USE CpuAssumption
<1> DEFINE y == i \div Heads
<1>1. i \in Nat /\ Heads * SpatialSize = SpatialSize * Heads
  OBVIOUS
<1>2. i = y * Heads + (i % Heads) /\ y \in Nat
  BY <1>1, DivModSplit
<1>3. Quotient(i, Heads * SpatialSize) = Quotient(Quotient(i, Heads), SpatialSize)
  BY <1>1, DivDiv
<1>4. i \div (SpatialSize * Heads) = y \div SpatialSize
  BY <1>1, <1>3 DEF Quotient
<1> HIDE DEF y
<1>5. y = (y \div SpatialSize) * SpatialSize + (y % SpatialSize)
  BY <1>2, DivModSplit
<1>6. i = ValueNumber(y \div SpatialSize, y % SpatialSize, i % Heads)
  BY <1>2, <1>5 DEF ValueNumber
<1> QED
  BY <1>4, <1>6 DEF y

(* gv[corner] += ... *)
LEMMA ValueStored ==
    ASSUME CpuInv, NEW w \in Cpu!Workers, Cpu!StoreValue(w)
    PROVE  CpuSums' /\ CpuLoads'
<1>1. CpuTypes /\ CpuRunning /\ CpuApart /\ CpuSums /\ CpuLoads
  BY DEF CpuInv
<1>2. Moves(w)
  BY <1>1, WorkerMoves DEF Cpu!WorkerStep
<1> DEFINE sample == Cpu!Sample(w)
           corner == Cpu!Corner(w)
           cell == Cpu!ValueCell(w)
           addend == <<sample, 0, "v">>
<1>3. /\ cpuPc[w] = "added" /\ cpuPc'[w] = "add" /\ cpuBackward /\ cpuBackward' = cpuBackward
      /\ cpuTask' = cpuTask /\ cpuEnd' = cpuEnd /\ cpuQuery' = cpuQuery /\ cpuPoint' = cpuPoint
      /\ cpuCorners'[w] = cpuCorners[w] \ {corner}
      /\ cpuGradSample' = cpuGradSample /\ cpuOutput' = cpuOutput
      /\ cpuGradValue' = [cpuGradValue EXCEPT ![cell] = Cpu!Plus(cpuLoaded[w], {addend})]
  BY <1>1 DEF Cpu!StoreValue, Cpu!Addend, CpuTypes, Cpu!range
<1>4. cpuCorners[w] # {} /\ cpuPc[w] \in Busy
  BY <1>1, <1>3 DEF CpuRunning, Busy
<1>5. /\ corner \in cpuCorners[w] /\ cell \in DOMAIN cpuGradValue
      /\ cell \div (SpatialSize * Heads) = Cpu!BatchOf(cpuTask[w])
      /\ cell % Heads = Cpu!HeadOf(cpuTask[w])
      /\ (cell \div Heads) % SpatialSize = corner
  BY <1>1, <1>4, CornerOf, CurrentCell DEF CpuTypes
<1>6. /\ sample \in Cpu!Samples
      /\ Cpu!PairOf(sample) = <<Cpu!BatchOf(cpuTask[w]), Cpu!HeadOf(cpuTask[w])>>
      /\ corner \in CpuFootprint[sample]
  BY <1>1, <1>3, <1>4, <1>5, CurrentSample DEF CpuRunning
<1>7. \A v \in Cpu!Workers : v # w =>
          /\ \A s : (Ahead(v, s)' <=> Ahead(v, s)) /\ (Adding(v, s)' <=> Adding(v, s))
          /\ ~Ahead(v, sample) /\ ~Adding(v, sample)
          /\ cpuCorners'[v] = cpuCorners[v]
  BY <1>1, <1>2, <1>4, CellsStand, OwnSample DEF Moves
<1>8. \A s : (Ahead(w, s)' <=> Ahead(w, s)) /\ (Adding(w, s)' <=> Adding(w, s))
  <2>1. \A s : /\ TaskOf(s)' = TaskOf(s) /\ QueryOf(s)' = QueryOf(s) /\ PointOf(s)' = PointOf(s)
               /\ Cpu!Sample(w)' = Cpu!Sample(w)
    BY <1>3 DEF TaskOf, QueryOf, PointOf, Cpu!Sample, Cpu!OutputCell, Cpu!BatchOf, Cpu!HeadOf
  <2> QED
    BY <1>3, <2>1 DEF Ahead, Adding
<1>9. Adding(w, sample) /\ ~Ahead(w, sample) /\ \A s : s # sample => ~Adding(w, s)
  BY <1>1, <1>3, NotAhead DEF Adding
<1> HIDE DEF sample, corner, cell
<1>10. \A s, x : PixelAwaits(s, x)' <=> PixelAwaits(s, x) /\ ~(s = sample /\ x = corner)
  BY <1>3, <1>7, <1>8, <1>9 DEF PixelAwaits
<1>11. PixelAwaits(sample, corner)
  BY <1>5, <1>9 DEF PixelAwaits
<1>12. \A s : SampleAwaits(s)' <=> SampleAwaits(s)
  BY <1>7, <1>8 DEF SampleAwaits
<1>13. ASSUME NEW i \in DOMAIN cpuGradValue
       PROVE  cpuGradValue'[i] = {<<s, 0, "v">> : s \in {k \in Cpu!Samples :
                        /\ Cpu!PairOf(k) = <<i \div (SpatialSize * Heads), i % Heads>>
                        /\ (i \div Heads) % SpatialSize \in CpuFootprint[k]
                        /\ ~PixelAwaits(k, (i \div Heads) % SpatialSize)'}}
  <2> DEFINE pair == <<i \div (SpatialSize * Heads), i % Heads>>
             x == (i \div Heads) % SpatialSize
             Got == {k \in Cpu!Samples : Cpu!PairOf(k) = pair /\ x \in CpuFootprint[k] /\ ~PixelAwaits(k, x)}
             GotNow == {k \in Cpu!Samples : Cpu!PairOf(k) = pair /\ x \in CpuFootprint[k] /\ ~PixelAwaits(k, x)'}
  <2>1. cpuGradValue[i] = {<<s, 0, "v">> : s \in Got}
    BY <1>1, <1>3 DEF CpuSums
  <2>2. CASE i # cell
    <3>1. cpuGradValue'[i] = cpuGradValue[i]
      BY <1>3, <2>2
    <3>2. ~(Cpu!PairOf(sample) = pair /\ x = corner)
      <4>1. i \in 0 .. Batches * SpatialSize * Heads - 1 /\ cell \in 0 .. Batches * SpatialSize * Heads - 1
        BY <1>1, <1>5 DEF CpuTypes
      <4>2. /\ i = ValueNumber(i \div (SpatialSize * Heads), x, i % Heads)
            /\ cell = ValueNumber(cell \div (SpatialSize * Heads), (cell \div Heads) % SpatialSize, cell % Heads)
        BY <4>1, ValueNumberOfParts
      <4>3. SUFFICES ASSUME Cpu!PairOf(sample) = pair, x = corner PROVE FALSE
        OBVIOUS
      <4>4. /\ i \div (SpatialSize * Heads) = cell \div (SpatialSize * Heads) /\ i % Heads = cell % Heads
            /\ x = (cell \div Heads) % SpatialSize
        BY <1>5, <1>6, <4>3
      <4> HIDE DEF x
      <4> QED
        BY <2>2, <4>2, <4>4, Zenon
    <3> HIDE DEF pair, x
    <3>3. GotNow = Got
      BY <1>10, <3>2
    <3> QED
      BY <2>1, <3>1, <3>3 DEF pair, x
  <2>3. CASE i = cell
    <3>1. pair = Cpu!PairOf(sample) /\ x = corner
      BY <1>5, <1>6, <2>3
    <3>2. cpuLoaded[w] = cpuGradValue[i]
      BY <1>1, <1>3, <2>3 DEF CpuLoads, cell
    <3> HIDE DEF pair, x
    <3>3. GotNow = Got \cup {sample} /\ sample \notin Got
      BY <1>6, <1>10, <1>11, <3>1
    <3>4. addend \notin {<<s, 0, "v">> : s \in Got}
      BY <3>3
    <3>5. {<<s, 0, "v">> : s \in GotNow} = {<<s, 0, "v">> : s \in Got} \cup {addend}
      BY <3>3
    <3> HIDE DEF Got, GotNow, addend
    <3>6. Cpu!Plus(cpuLoaded[w], {addend}) = {<<s, 0, "v">> : s \in GotNow}
      BY <2>1, <3>2, <3>4, <3>5 DEF Cpu!Plus
    <3>7. cpuGradValue'[i] = Cpu!Plus(cpuLoaded[w], {addend})
      BY <1>3, <2>3
    <3> QED
      BY <3>6, <3>7 DEF GotNow, pair, x
  <2> QED
    BY <2>2, <2>3
<1>14. CpuSums'
  <2>1. \A k : Cpu!PairOf(k)' = Cpu!PairOf(k)
    BY DEF Cpu!PairOf
  <2>2. DOMAIN cpuGradValue' = DOMAIN cpuGradValue
    BY <1>3
  <2> QED
    BY <1>1, <1>3, <1>12, <1>13, <2>1, <2>2 DEF CpuSums
<1>15. ASSUME NEW v \in Cpu!Workers, cpuPc'[v] = "added"
       PROVE  cpuLoaded'[v] = IF cpuBackward' THEN cpuGradValue'[Cpu!ValueCell(v)']
                                              ELSE cpuOutput'[Cpu!OutputCell(v)']
  <2>1. v # w
    BY <1>3, <1>15
  <2>2. /\ cpuPc[v] = "added" /\ cpuLoaded'[v] = cpuLoaded[v]
        /\ Cpu!ValueCell(v)' = Cpu!ValueCell(v)
    BY <1>2, <1>15, <2>1, CellsStand DEF Moves
  <2>3. cpuCorners[v] # {} /\ cpuLoaded[v] = cpuGradValue[Cpu!ValueCell(v)]
    BY <1>1, <1>3, <2>2 DEF CpuRunning, CpuLoads
  <2>4. Cpu!ValueCell(v) # cell
    BY <1>1, <1>3, <1>4, <2>1, <2>2, <2>3, AccessApart DEF cell
  <2>5. cpuGradValue'[Cpu!ValueCell(v)] = cpuGradValue[Cpu!ValueCell(v)]
    <3>1. Cpu!ValueCell(v) \in DOMAIN cpuGradValue
      BY <1>1, <2>2, <2>3, CurrentCell DEF Busy, CpuTypes
    <3> QED
      BY <1>3, <2>4, <3>1
  <2> QED
    BY <1>3, <2>2, <2>3, <2>5
<1>16. CpuLoads'
  BY <1>15 DEF CpuLoads
<1> QED
  BY <1>14, <1>16

(* A store that ends a sample takes it, and no other, off what is awaited. *)
LEMMA SampleEnds ==
    ASSUME CpuInv, NEW w \in Cpu!Workers, Cpu!StoreSample(w) \/ Cpu!StoreOutput(w)
    PROVE  /\ Cpu!Sample(w) \in Cpu!Samples /\ SampleAwaits(Cpu!Sample(w))
           /\ \A s : SampleAwaits(s)' <=> SampleAwaits(s) /\ s # Cpu!Sample(w)
           /\ cpuBackward => \A s, x : PixelAwaits(s, x)' <=> PixelAwaits(s, x)
<1>1. CpuTypes /\ CpuRunning /\ CpuApart /\ CpuSums /\ CpuLoads
  BY DEF CpuInv
<1>2. Moves(w)
  BY <1>1, WorkerMoves DEF Cpu!WorkerStep
<1> DEFINE sample == Cpu!Sample(w)
<1>3. /\ cpuPc[w] \in {"add", "added"} /\ cpuPc'[w] = "next" /\ cpuBackward' = cpuBackward
      /\ cpuTask' = cpuTask /\ cpuEnd' = cpuEnd /\ cpuQuery' = cpuQuery /\ cpuPoint' = cpuPoint
      /\ cpuCorners' = cpuCorners
      /\ cpuBackward => cpuCorners[w] = {}
  BY <1>1 DEF Cpu!StoreSample, Cpu!StoreOutput, CpuTypes, Cpu!range
<1>4. cpuPc[w] \in Busy /\ sample \in Cpu!Samples
  BY <1>1, <1>3, CurrentSample DEF Busy
<1>5. \A v \in Cpu!Workers : v # w =>
          /\ \A s : (Ahead(v, s)' <=> Ahead(v, s)) /\ (Adding(v, s)' <=> Adding(v, s))
          /\ ~Ahead(v, sample) /\ ~Adding(v, sample)
  BY <1>1, <1>2, <1>4, CellsStand, OwnSample
<1>6. \A s : (Ahead(w, s)' <=> Ahead(w, s)) /\ ~Adding(w, s)'
  <2>1. \A s : TaskOf(s)' = TaskOf(s) /\ QueryOf(s)' = QueryOf(s) /\ PointOf(s)' = PointOf(s)
    BY <1>3 DEF TaskOf, QueryOf, PointOf
  <2> QED
    BY <1>3, <2>1 DEF Ahead, Adding
<1>7. Adding(w, sample) /\ ~Ahead(w, sample) /\ \A s : s # sample => ~Adding(w, s)
  BY <1>1, <1>3, NotAhead DEF Adding
<1> HIDE DEF sample
<1>8. \A s : SampleAwaits(s)' <=> SampleAwaits(s) /\ s # sample
  BY <1>5, <1>6, <1>7 DEF SampleAwaits
<1>9. SampleAwaits(sample)
  BY <1>7 DEF SampleAwaits
<1>10. ASSUME cpuBackward PROVE \A s, x : PixelAwaits(s, x)' <=> PixelAwaits(s, x)
  <2> SUFFICES ASSUME NEW s, NEW x PROVE PixelAwaits(s, x)' <=> PixelAwaits(s, x)
    OBVIOUS
  <2>1. cpuCorners' = cpuCorners /\ cpuCorners[w] = {}
    BY <1>3, <1>10
  <2>2. ASSUME NEW v \in Cpu!Workers
        PROVE  (Ahead(v, s) \/ (Adding(v, s) /\ x \in cpuCorners[v]))'
                   <=> Ahead(v, s) \/ (Adding(v, s) /\ x \in cpuCorners[v])
    <3>1. CASE v = w
      BY <1>6, <2>1, <3>1
    <3>2. CASE v # w
      BY <1>5, <2>1, <3>2
    <3> QED
      BY <3>1, <3>2
  <2> QED
    BY <2>2, Zenon DEF PixelAwaits
<1> QED
  BY <1>4, <1>8, <1>9, <1>10 DEF sample

(* gw[i] = ..., gl[2 * i] = ... *)
LEMMA SampleStored ==
    ASSUME CpuInv, NEW w \in Cpu!Workers, Cpu!StoreSample(w)
    PROVE  CpuSums' /\ CpuLoads'
<1>1. CpuTypes /\ CpuRunning /\ CpuApart /\ CpuSums /\ CpuLoads
  BY DEF CpuInv
<1>2. Moves(w)
  BY <1>1, WorkerMoves DEF Cpu!WorkerStep
<1> DEFINE sample == Cpu!Sample(w)
<1>3. /\ cpuPc[w] = "add" /\ cpuPc'[w] = "next" /\ cpuBackward /\ cpuBackward' = cpuBackward
      /\ cpuGradValue' = cpuGradValue /\ cpuOutput' = cpuOutput
      /\ cpuGradSample' = [cpuGradSample EXCEPT ![sample] = {<<sample, 0, "a">>}]
  BY <1>1 DEF Cpu!StoreSample, Cpu!Addend, CpuTypes, Cpu!range
<1>4. /\ sample \in Cpu!Samples /\ SampleAwaits(sample)
      /\ \A s : SampleAwaits(s)' <=> SampleAwaits(s) /\ s # sample
      /\ \A s, x : PixelAwaits(s, x)' <=> PixelAwaits(s, x)
  BY <1>3, SampleEnds
<1>5. CpuFootprint[sample] # {}
  BY <1>1, <1>3 DEF CpuRunning
<1> HIDE DEF sample
<1>6. CpuSums'
  <2>1. \A k : Cpu!PairOf(k)' = Cpu!PairOf(k)
    BY DEF Cpu!PairOf
  <2>2. \A s \in Cpu!Samples :
           cpuGradSample'[s] =
               IF cpuBackward /\ CpuFootprint[s] # {} /\ ~SampleAwaits(s)'
               THEN {<<s, 0, "a">>} ELSE {}
    BY <1>1, <1>3, <1>4, <1>5 DEF CpuSums, CpuTypes
  <2>3. \A i \in DOMAIN cpuGradValue' :
           cpuGradValue'[i] =
               IF cpuBackward'
               THEN {<<s, 0, "v">> : s \in {k \in Cpu!Samples :
                        /\ Cpu!PairOf(k)' = <<i \div (SpatialSize * Heads), i % Heads>>
                        /\ (i \div Heads) % SpatialSize \in CpuFootprint[k]
                        /\ ~PixelAwaits(k, (i \div Heads) % SpatialSize)'}}
               ELSE {}
    BY <1>1, <1>3, <1>4, <2>1 DEF CpuSums
  <2>4. \A i \in DOMAIN cpuOutput' : cpuOutput'[i] = {}
    BY <1>1, <1>3 DEF CpuSums
  <2> QED
    BY <1>3, <2>2, <2>3, <2>4 DEF CpuSums
<1>7. ASSUME NEW v \in Cpu!Workers, cpuPc'[v] = "added"
      PROVE  cpuLoaded'[v] = IF cpuBackward' THEN cpuGradValue'[Cpu!ValueCell(v)']
                                             ELSE cpuOutput'[Cpu!OutputCell(v)']
  <2>1. v # w
    BY <1>3, <1>7
  <2>2. /\ cpuPc[v] = "added" /\ cpuLoaded'[v] = cpuLoaded[v]
        /\ Cpu!ValueCell(v)' = Cpu!ValueCell(v)
    BY <1>2, <1>7, <2>1, CellsStand DEF Moves
  <2> QED
    BY <1>1, <1>3, <2>2 DEF CpuLoads
<1>8. CpuLoads'
  BY <1>7 DEF CpuLoads
<1> QED
  BY <1>6, <1>8

(* out[oi] += ... *)
LEMMA OutputStored ==
    ASSUME CpuInv, NEW w \in Cpu!Workers, Cpu!StoreOutput(w)
    PROVE  CpuSums' /\ CpuLoads'
<1>1. CpuTypes /\ CpuRunning /\ CpuApart /\ CpuSums /\ CpuLoads
  BY DEF CpuInv
<1>2. Moves(w)
  BY <1>1, WorkerMoves DEF Cpu!WorkerStep
<1> DEFINE sample == Cpu!Sample(w)
           cell == Cpu!OutputCell(w)
           addend == <<sample, 0, "v">>
<1>3. /\ cpuPc[w] = "added" /\ cpuPc'[w] = "next" /\ ~cpuBackward /\ cpuBackward' = cpuBackward
      /\ cpuGradValue' = cpuGradValue /\ cpuGradSample' = cpuGradSample
      /\ cpuOutput' = [cpuOutput EXCEPT ![cell] = Cpu!Plus(cpuLoaded[w], {addend})]
  BY <1>1 DEF Cpu!StoreOutput, Cpu!Addend, CpuTypes, Cpu!range
<1>4. /\ sample \in Cpu!Samples /\ SampleAwaits(sample)
      /\ \A s : SampleAwaits(s)' <=> SampleAwaits(s) /\ s # sample
  BY SampleEnds
<1>5. /\ sample \div SamplePoints = cell /\ cell \in DOMAIN cpuOutput
      /\ CpuFootprint[sample] # {}
  BY <1>1, <1>3, CurrentSample DEF Busy, OutputOf, CpuTypes, CpuRunning
<1>6. cpuLoaded[w] = cpuOutput[cell]
  BY <1>1, <1>3 DEF CpuLoads
<1> HIDE DEF sample, cell
<1>7. ASSUME NEW i \in DOMAIN cpuOutput
      PROVE  cpuOutput'[i] = {<<s, 0, "v">> : s \in {k \in Cpu!Samples :
                        k \div SamplePoints = i /\ CpuFootprint[k] # {} /\ ~SampleAwaits(k)'}}
  <2> DEFINE Got == {k \in Cpu!Samples : k \div SamplePoints = i /\ CpuFootprint[k] # {} /\ ~SampleAwaits(k)}
             GotNow == {k \in Cpu!Samples : k \div SamplePoints = i /\ CpuFootprint[k] # {} /\ ~SampleAwaits(k)'}
  <2>1. cpuOutput[i] = {<<s, 0, "v">> : s \in Got}
    BY <1>1, <1>3 DEF CpuSums
  <2>2. CASE i # cell
    <3>1. cpuOutput'[i] = cpuOutput[i]
      BY <1>3, <2>2
    <3>2. GotNow = Got
      BY <1>4, <1>5, <2>2
    <3> QED
      BY <2>1, <3>1, <3>2
  <2>3. CASE i = cell
    <3>1. GotNow = Got \cup {sample} /\ sample \notin Got
      BY <1>4, <1>5, <2>3
    <3>2. addend \notin {<<s, 0, "v">> : s \in Got}
      BY <3>1
    <3>3. {<<s, 0, "v">> : s \in GotNow} = {<<s, 0, "v">> : s \in Got} \cup {addend}
      BY <3>1
    <3> HIDE DEF Got, GotNow, addend
    <3>4. Cpu!Plus(cpuLoaded[w], {addend}) = {<<s, 0, "v">> : s \in GotNow}
      BY <1>6, <2>1, <2>3, <3>2, <3>3 DEF Cpu!Plus
    <3>5. cpuOutput'[i] = Cpu!Plus(cpuLoaded[w], {addend})
      BY <1>3, <2>3
    <3> QED
      BY <3>4, <3>5 DEF GotNow
  <2> QED
    BY <2>2, <2>3
<1>8. CpuSums'
  <2>1. DOMAIN cpuOutput' = DOMAIN cpuOutput
    BY <1>3
  <2>2. \A i \in DOMAIN cpuGradValue : cpuGradValue[i] = {}
    BY <1>1, <1>3 DEF CpuSums
  <2>3. \A s \in Cpu!Samples : cpuGradSample[s] = {}
    BY <1>1, <1>3 DEF CpuSums
  <2> QED
    BY <1>3, <1>7, <2>1, <2>2, <2>3 DEF CpuSums
<1>9. ASSUME NEW v \in Cpu!Workers, cpuPc'[v] = "added"
      PROVE  cpuLoaded'[v] = IF cpuBackward' THEN cpuGradValue'[Cpu!ValueCell(v)']
                                             ELSE cpuOutput'[Cpu!OutputCell(v)']
  <2>1. v # w
    BY <1>3, <1>9
  <2>2. /\ cpuPc[v] = "added" /\ cpuLoaded'[v] = cpuLoaded[v]
        /\ Cpu!OutputCell(v)' = Cpu!OutputCell(v)
    BY <1>2, <1>9, <2>1, CellsStand DEF Moves
  <2>3. cpuLoaded[v] = cpuOutput[Cpu!OutputCell(v)]
    BY <1>1, <1>3, <2>2 DEF CpuLoads
  <2>4. Cpu!OutputCell(v) # cell
    BY <1>1, <1>3, <2>1, <2>2, AccessApart DEF cell
  <2>5. cpuOutput'[Cpu!OutputCell(v)] = cpuOutput[Cpu!OutputCell(v)]
    <3>1. Cpu!OutputCell(v) \in DOMAIN cpuOutput
      BY <1>1, <2>2, CurrentSample DEF Busy, CpuTypes
    <3> QED
      BY <1>3, <2>4, <3>1
  <2> QED
    BY <1>3, <2>2, <2>3, <2>5
<1>10. CpuLoads'
  BY <1>9 DEF CpuLoads
<1> QED
  BY <1>8, <1>10

(* Every step of the CPU kernels keeps the invariant. *)
LEMMA CpuInvNext ==
    ASSUME CpuInv, [Cpu!Next]_(Cpu!vars)
    PROVE  CpuInv'
<1>1. CASE \E w \in Cpu!Workers : Cpu!WorkerStep(w)
  <2> PICK w \in Cpu!Workers : Cpu!WorkerStep(w)
    BY <1>1
  <2>1. CpuTypes' /\ CpuRunning' /\ CpuApart'
    BY WorkerMoves, LoopsKept, RangesKept DEF CpuInv
  <2>2. CpuSums' /\ CpuLoads'
    BY QuietStep, ValueStored, SampleStored, OutputStored DEF Cpu!WorkerStep
  <2> QED
    BY <2>1, <2>2 DEF CpuInv
<1>2. CASE UNCHANGED Cpu!vars
  <2>1. UNCHANGED <<cpuBackward, cpuTask, cpuEnd, cpuQuery, cpuPoint, cpuCorners, cpuLoaded, cpuPc,
                    cpuGradValue, cpuGradSample, cpuOutput>>
    BY <1>2 DEF Cpu!vars, Cpu!range, Cpu!tensors
  <2>2. CpuTypes'
    BY <2>1 DEF CpuInv, CpuTypes
  <2>3. CpuRunning' /\ CpuApart' /\ CpuLoads'
    BY <2>1 DEF CpuInv, CpuRunning, CpuApart, CpuLoads, Cpu!Sample, Cpu!OutputCell, Cpu!ValueCell,
                Cpu!Corner, Cpu!BatchOf, Cpu!HeadOf, Cpu!QueryBegin, Cpu!QueryEnd
  <2>4. CpuSums'
    <3>1. \A v, s : Ahead(v, s)' <=> Ahead(v, s)
      BY <2>1 DEF Ahead, TaskOf, QueryOf, PointOf
    <3>2. \A v, s : Adding(v, s)' <=> Adding(v, s)
      BY <2>1 DEF Adding, Cpu!Sample, Cpu!OutputCell, Cpu!BatchOf, Cpu!HeadOf
    <3>3. \A s, x : PixelAwaits(s, x)' <=> PixelAwaits(s, x)
      BY <2>1, <3>1, <3>2 DEF PixelAwaits
    <3>4. \A s : SampleAwaits(s)' <=> SampleAwaits(s)
      BY <3>1, <3>2 DEF SampleAwaits
    <3> QED
      BY <2>1, <3>3, <3>4, SumsKept DEF CpuInv
  <2> QED
    BY <2>2, <2>3, <2>4 DEF CpuInv
<1> QED
  BY <1>1, <1>2 DEF Cpu!Next, Cpu!Terminating

-----------------------------------------------------------------------------
(* The CPU kernels keep the promise of GradientAccumulation.               *)

(* The kernels start with nothing added. *)
LEMMA CpuStartsEmpty == Cpu!Init => Cpu!acc = [cell \in DOMAIN Cpu!due |-> {}]
<1> SUFFICES ASSUME Cpu!Init PROVE Cpu!acc = [cell \in DOMAIN Cpu!due |-> {}]
  OBVIOUS
<1>1. DOMAIN Cpu!due = Cpu!Cells
  BY DEF Cpu!due
<1>2. /\ DOMAIN cpuGradValue = 0 .. Batches * SpatialSize * Heads - 1
      /\ DOMAIN cpuGradSample = Cpu!Samples
      /\ DOMAIN cpuOutput = 0 .. Batches * Queries * Heads - 1
  BY DEF Cpu!Init
<1>3. ASSUME NEW cell \in Cpu!Cells
      PROVE  Cpu!acc[cell] = {}
  BY <1>2 DEF Cpu!Init, Cpu!acc, Cpu!Cells
<1> QED
  BY <1>1, <1>3 DEF Cpu!acc

(* A cell holds nothing it is not owed. *)
LEMMA CpuOnlyDue == CpuInv => \A cell \in Cpu!Cells : Cpu!acc[cell] \subseteq Cpu!due[cell]
<1> SUFFICES ASSUME CpuInv, NEW cell \in Cpu!Cells PROVE Cpu!acc[cell] \subseteq Cpu!due[cell]
  OBVIOUS
<1>1. CpuTypes /\ CpuSums
  BY DEF CpuInv
<1>2. CASE \E i \in DOMAIN cpuGradValue : cell = <<"value", i>>
  <2> PICK i \in DOMAIN cpuGradValue : cell = <<"value", i>>
    BY <1>2
  <2>1. /\ Cpu!acc[cell] = cpuGradValue[i]
        /\ Cpu!due[cell] = IF cpuBackward THEN Cpu!DueToValue(i) ELSE {}
    BY DEF Cpu!acc, Cpu!due
  <2>2. cpuGradValue[i] \subseteq IF cpuBackward THEN Cpu!DueToValue(i) ELSE {}
    BY <1>1 DEF CpuSums, Cpu!DueToValue
  <2> QED
    BY <2>1, <2>2
<1>3. CASE \E s \in DOMAIN cpuGradSample : cell = <<"sample", s>>
  <2> PICK s \in DOMAIN cpuGradSample : cell = <<"sample", s>>
    BY <1>3
  <2>0. s \in Cpu!Samples
    BY <1>1 DEF CpuTypes
  <2>1. /\ Cpu!acc[cell] = cpuGradSample[s]
        /\ Cpu!due[cell] = IF cpuBackward THEN Cpu!DueToSample(s) ELSE {}
    BY DEF Cpu!acc, Cpu!due
  <2>2. cpuGradSample[s] \subseteq IF cpuBackward THEN Cpu!DueToSample(s) ELSE {}
    BY <1>1, <2>0 DEF CpuSums, Cpu!DueToSample
  <2> QED
    BY <2>1, <2>2
<1>4. CASE \E i \in DOMAIN cpuOutput : cell = <<"output", i>>
  <2> PICK i \in DOMAIN cpuOutput : cell = <<"output", i>>
    BY <1>4
  <2>1. /\ Cpu!acc[cell] = cpuOutput[i]
        /\ Cpu!due[cell] = IF cpuBackward THEN {} ELSE Cpu!DueToOutput(i)
    BY DEF Cpu!acc, Cpu!due
  <2>2. cpuOutput[i] \subseteq IF cpuBackward THEN {} ELSE Cpu!DueToOutput(i)
    BY <1>1 DEF CpuSums, Cpu!DueToOutput
  <2> QED
    BY <2>1, <2>2
<1> QED
  BY <1>2, <1>3, <1>4 DEF Cpu!Cells

(* No step takes anything out of a cell. *)
LEMMA CpuKeeps ==
    ASSUME CpuInv, [Cpu!Next]_(Cpu!vars)
    PROVE  /\ \A i \in DOMAIN cpuGradValue : cpuGradValue[i] \subseteq cpuGradValue'[i]
           /\ \A s \in DOMAIN cpuGradSample : cpuGradSample[s] \subseteq cpuGradSample'[s]
           /\ \A i \in DOMAIN cpuOutput : cpuOutput[i] \subseteq cpuOutput'[i]
<1>1. CpuTypes /\ CpuRunning /\ CpuSums /\ CpuLoads
  BY DEF CpuInv
<1>2. CASE UNCHANGED <<cpuGradValue, cpuGradSample, cpuOutput>>
  BY <1>2
<1>3. ASSUME NEW w \in Cpu!Workers, Cpu!StoreValue(w)
      PROVE  /\ UNCHANGED <<cpuGradSample, cpuOutput>>
             /\ \A i \in DOMAIN cpuGradValue : cpuGradValue[i] \subseteq cpuGradValue'[i]
  <2>1. cpuLoaded[w] = cpuGradValue[Cpu!ValueCell(w)]
    BY <1>1, <1>3 DEF CpuLoads, Cpu!StoreValue
  <2> QED
    BY <1>1, <1>3, <2>1 DEF Cpu!StoreValue, Cpu!Plus, CpuTypes
<1>4. ASSUME NEW w \in Cpu!Workers, Cpu!StoreSample(w)
      PROVE  /\ UNCHANGED <<cpuGradValue, cpuOutput>>
             /\ \A s \in DOMAIN cpuGradSample : cpuGradSample[s] \subseteq cpuGradSample'[s]
  <2>1. \A s \in Cpu!Samples : cpuGradSample[s] \subseteq {<<s, 0, "a">>}
    BY <1>1 DEF CpuSums
  <2>2. cpuGradSample' = [cpuGradSample EXCEPT ![Cpu!Sample(w)] = {<<Cpu!Sample(w), 0, "a">>}]
    BY <1>4 DEF Cpu!StoreSample, Cpu!Addend
  <2> QED
    BY <1>1, <1>4, <2>1, <2>2 DEF Cpu!StoreSample, CpuTypes
<1>5. ASSUME NEW w \in Cpu!Workers, Cpu!StoreOutput(w)
      PROVE  /\ UNCHANGED <<cpuGradValue, cpuGradSample>>
             /\ \A i \in DOMAIN cpuOutput : cpuOutput[i] \subseteq cpuOutput'[i]
  <2>1. cpuLoaded[w] = cpuOutput[Cpu!OutputCell(w)]
    BY <1>1, <1>5 DEF CpuLoads, Cpu!StoreOutput
  <2> QED
    BY <1>1, <1>5, <2>1 DEF Cpu!StoreOutput, Cpu!Plus, CpuTypes
<1>6. ASSUME NEW w \in Cpu!Workers,
             \/ Cpu!BeginTask(w) \/ Cpu!LeaveRange(w) \/ Cpu!BeginSample(w)
             \/ Cpu!LoadValue(w) \/ Cpu!LoadOutput(w)
             \/ Cpu!NextPoint(w) \/ Cpu!NextQuery(w) \/ Cpu!NextTask(w)
      PROVE  UNCHANGED <<cpuGradValue, cpuGradSample, cpuOutput>>
  BY <1>6 DEF Cpu!BeginTask, Cpu!LeaveRange, Cpu!BeginSample, Cpu!LoadValue, Cpu!LoadOutput,
     Cpu!NextPoint, Cpu!NextQuery, Cpu!NextTask, Cpu!tensors
<1>7. UNCHANGED Cpu!vars => UNCHANGED <<cpuGradValue, cpuGradSample, cpuOutput>>
  BY DEF Cpu!vars, Cpu!tensors
<1> QED
  BY <1>2, <1>3, <1>4, <1>5, <1>6, <1>7 DEF Cpu!Next, Cpu!WorkerStep, Cpu!Terminating

(* A step adds to cells what they are owed, and what they are owed stays.  *)
LEMMA CpuAccumulates ==
    ASSUME CpuInv, [Cpu!Next]_(Cpu!vars)
    PROVE  /\ Cpu!due' = Cpu!due
           /\ DOMAIN Cpu!acc' = DOMAIN Cpu!due
           /\ \A cell \in DOMAIN Cpu!due :
                  Cpu!acc[cell] \subseteq Cpu!acc'[cell] /\ Cpu!acc'[cell] \subseteq Cpu!due[cell]
<1>1. CpuInv'
  BY CpuInvNext
<1>2. /\ DOMAIN cpuGradValue' = DOMAIN cpuGradValue
      /\ DOMAIN cpuGradSample' = DOMAIN cpuGradSample
      /\ DOMAIN cpuOutput' = DOMAIN cpuOutput
  BY <1>1 DEF CpuInv, CpuTypes
<1>3. cpuBackward' = cpuBackward
  <2>1. \A w \in Cpu!Workers : Cpu!WorkerStep(w) => cpuBackward' = cpuBackward
    BY DEF Cpu!WorkerStep, Cpu!BeginTask, Cpu!LeaveRange, Cpu!BeginSample, Cpu!LoadValue,
       Cpu!LoadOutput, Cpu!NextPoint, Cpu!NextQuery, Cpu!NextTask, Cpu!StoreValue,
       Cpu!StoreSample, Cpu!StoreOutput, Cpu!range
  <2> QED
    BY <2>1 DEF Cpu!Next, Cpu!Terminating, Cpu!vars, Cpu!range
<1>4. Cpu!Cells' = Cpu!Cells
  BY <1>2 DEF Cpu!Cells
<1>5. Cpu!due' = Cpu!due
  BY <1>3, <1>4 DEF Cpu!due, Cpu!DueToValue, Cpu!DueToSample, Cpu!DueToOutput, Cpu!PairOf
<1>6. DOMAIN Cpu!due = Cpu!Cells /\ DOMAIN Cpu!acc' = Cpu!Cells
  BY <1>4 DEF Cpu!due, Cpu!acc
<1>7. ASSUME NEW cell \in Cpu!Cells
      PROVE  Cpu!acc[cell] \subseteq Cpu!acc'[cell]
  <2>1. /\ \A i \in DOMAIN cpuGradValue : cpuGradValue[i] \subseteq cpuGradValue'[i]
        /\ \A s \in DOMAIN cpuGradSample : cpuGradSample[s] \subseteq cpuGradSample'[s]
        /\ \A i \in DOMAIN cpuOutput : cpuOutput[i] \subseteq cpuOutput'[i]
    BY CpuKeeps
  <2>2. Cpu!acc[cell] = IF cell[1] = "value" THEN cpuGradValue[cell[2]]
                        ELSE IF cell[1] = "sample" THEN cpuGradSample[cell[2]]
                        ELSE cpuOutput[cell[2]]
    BY DEF Cpu!acc
  <2>3. Cpu!acc'[cell] = IF cell[1] = "value" THEN cpuGradValue'[cell[2]]
                         ELSE IF cell[1] = "sample" THEN cpuGradSample'[cell[2]]
                         ELSE cpuOutput'[cell[2]]
    BY <1>4 DEF Cpu!acc
  <2>4. \/ cell[1] = "value" /\ cell[2] \in DOMAIN cpuGradValue
        \/ cell[1] = "sample" /\ cell[2] \in DOMAIN cpuGradSample
        \/ cell[1] = "output" /\ cell[2] \in DOMAIN cpuOutput
    BY DEF Cpu!Cells
  <2> QED
    BY <2>1, <2>2, <2>3, <2>4
<1>8. \A cell \in Cpu!Cells : Cpu!acc'[cell] \subseteq Cpu!due[cell]
  <2>1. (\A cell \in Cpu!Cells : Cpu!acc[cell] \subseteq Cpu!due[cell])'
    BY <1>1, CpuOnlyDue, PTL
  <2> QED
    BY <2>1, <1>4, <1>5
<1> QED
  BY <1>5, <1>6, <1>7, <1>8

-----------------------------------------------------------------------------
(* The MPS pass.                                                           *)

MpsTypes ==
    /\ mpsHost \in {"bind", "encode", "returned", "raised"}
    /\ mpsBegin \in Nat
    /\ mpsPc \in [Mps!Threads -> {"idle", "start", "channel", "load", "cas", "sum", "store", "done"}]
    /\ mpsChannel \in [Mps!Threads -> Nat]
    /\ mpsCorners \in [Mps!Threads -> SUBSET MpsPixels]
    /\ mpsPartial \in [Mps!Threads -> SUBSET Addends]
    /\ mpsGradValue \in [Mps!ValueCells -> SUBSET Addends]
    /\ mpsGradSample \in [Mps!Slots -> SUBSET Addends]

MpsHosted ==
    /\ mpsHost = "bind" => mpsBegin = 0
    /\ mpsHost = "returned" => MpsSlots <= mpsBegin

(* What has been dispatched is a slot, and its lanes wait for the last     *)
(* dispatch.                                                               *)
MpsDispatched(t) ==
    /\ mpsPc[t] # "idle" => t[1] < mpsBegin /\ t[1] < MpsSlots
    /\ mpsPc[t] = "idle" /\ t[1] < MpsSlots => mpsBegin <= t[1] /\ mpsHost # "returned"
    /\ mpsHost # "returned" => mpsPc[t] \in {"idle", "start"}

(* A lane goes through the channels that are its own modulo the width.     *)
MpsRunning(t) ==
    /\ mpsPc[t] \in {"channel", "load", "cas"} =>
           MpsFootprint[t[1]] # {} /\ mpsChannel[t] % Width = t[2]
    /\ mpsPc[t] \in {"load", "cas"} =>
           mpsChannel[t] < MpsChannels /\ mpsCorners[t] \subseteq MpsFootprint[t[1]]
    /\ mpsPc[t] = "cas" => mpsCorners[t] # {}
    /\ mpsPc[t] = "store" => t[2] = 0

(* The lane has added up channel c.                                        *)
Summed(t, c) ==
    IF mpsPc[t] \in {"load", "cas"} THEN c <= mpsChannel[t]
    ELSE IF mpsPc[t] = "channel" THEN c < mpsChannel[t]
    ELSE mpsPc[t] = "sum" /\ MpsFootprint[t[1]] # {}

(* A lane has summed its channels so far, and lane 0 then those of all.    *)
MpsPartial(t) ==
    /\ mpsPc[t] \in {"idle", "start"} => mpsPartial[t] = {}
    /\ mpsPc[t] \in {"channel", "load", "cas", "sum"} =>
           mpsPartial[t] = {<<t[1], c, "a">> : c \in {k \in 0 .. MpsChannels - 1 :
                                                        k % Width = t[2] /\ Summed(t, k)}}
    /\ mpsPc[t] = "store" => mpsPartial[t] = Mps!DueToSample(t[1])

MpsLane(t) == MpsDispatched(t) /\ MpsRunning(t) /\ MpsPartial(t)

MpsLanes == \A t \in Mps!Threads : MpsLane(t)

(* Channel c of the lane's slot has reached the pixel.                     *)
Scattered(t, c, pixel) ==
    \/ mpsPc[t] \in {"sum", "store", "done"}
    \/ mpsPc[t] \in {"channel", "load", "cas"} /\ c < mpsChannel[t]
    \/ mpsPc[t] \in {"load", "cas"} /\ c = mpsChannel[t] /\ pixel \notin mpsCorners[t]

(* Cells hold what has reached them, and what is stored is stored whole.   *)
MpsSums ==
    /\ \A pixel \in MpsPixels, c \in 0 .. MpsChannels - 1 :
           mpsGradValue[<<pixel, c>>] =
               {<<slot, c, "v">> : slot \in {k \in Mps!Slots :
                    pixel \in MpsFootprint[k] /\ Scattered(<<k, c % Width>>, c, pixel)}}
    /\ \A slot \in Mps!Slots :
           mpsGradSample[slot] =
               IF mpsPc[<<slot, 0>>] = "done" THEN Mps!DueToSample(slot) ELSE {Mps!Garbage}

MpsInv == MpsTypes /\ MpsHosted /\ MpsLanes /\ MpsSums

(* Numbers of one remainder are at least the divisor apart. *)
LEMMA ModGap ==
    ASSUME NEW a \in Nat, NEW b \in Nat, NEW d \in Nat \ {0}, a % d = b % d, a < b
    PROVE  a + d <= b
<1> DEFINE q == a \div d
           r == b \div d
           m == a % d
<1>1. q \in Nat /\ m \in 0 .. d - 1 /\ a = q * d + m
  BY DivModSplit
<1>2. r \in Nat /\ b = r * d + m
  BY DivModSplit
<1> HIDE DEF q, r, m
<1>3. q < r
  <2> SUFFICES ASSUME r <= q PROVE FALSE
    BY <1>1, <1>2
  <2>1. r * d <= q * d
    BY <1>1, <1>2
  <2>2. r * d \in Nat /\ q * d \in Nat
    BY <1>1, <1>2
  <2> QED
    BY <1>1, <1>2, <2>1, <2>2
<1>4. q * d + d <= r * d
  BY <1>1, <1>2, <1>3, TimesMonotone
<1>5. r * d \in Nat /\ q * d \in Nat
  BY <1>1, <1>2
<1> QED
  BY <1>1, <1>2, <1>4, <1>5

(* The next number of the same remainder. *)
LEMMA ModNext ==
    ASSUME NEW a \in Nat, NEW d \in Nat \ {0}
    PROVE  (a + d) % d = a % d
<1> DEFINE q == a \div d
           m == a % d
<1>1. q \in Nat /\ m \in 0 .. d - 1 /\ a = q * d + m
  BY DivModSplit
<1> HIDE DEF q, m
<1>2. (q + 1) * d = q * d + d /\ q * d \in Nat
  BY <1>1
<1>3. a + d = (q + 1) * d + m
  BY <1>1, <1>2
<1>4. ((q + 1) * d + m) % d = m
  BY <1>1, DivModOf
<1> QED
  BY <1>3, <1>4 DEF m

(* A remainder is its own remainder, and no more than the number. *)
LEMMA ModSmall ==
    ASSUME NEW a \in Nat, NEW d \in Nat \ {0}
    PROVE  /\ a % d \in 0 .. d - 1 /\ a % d <= a
           /\ a \in 0 .. d - 1 => a % d = a
<1>1. a \div d \in Nat /\ a % d \in 0 .. d - 1 /\ a = (a \div d) * d + (a % d)
  BY DivModSplit
<1>2. (a \div d) * d \in Nat
  BY <1>1
<1>3. a \in 0 .. d - 1 => a % d = a
  OBVIOUS
<1> QED
  BY <1>1, <1>2, <1>3

(* Lanes are numbered by slot and lane. *)
LEMMA MpsThreads ==
    /\ Mps!Slots \subseteq Nat
    /\ \A t \in Mps!Threads : t[1] \in Nat /\ t[2] \in Mps!Lanes /\ t[2] \in Nat /\ t = <<t[1], t[2]>>
    /\ \A t \in Mps!Threads : t[1] < MpsSlots => t[1] \in Mps!Slots
    /\ \A slot \in Mps!Slots : slot < MpsSlots /\ <<slot, 0>> \in Mps!Threads
    /\ \A slot \in Mps!Slots, c \in Nat : <<slot, c % Width>> \in Mps!Threads
<1> USE MpsAssumption
<1>1. \A c \in Nat : c % Width \in Mps!Lanes
  <2> SUFFICES ASSUME NEW c \in Nat PROVE c % Width \in 0 .. Width - 1
    BY DEF Mps!Lanes
  <2> QED
    BY ModSmall
<1>2. Mps!Slots \subseteq Mps!Groups
  BY DEF Mps!Slots, Mps!Groups
<1>3. 0 \in Mps!Lanes
  BY DEF Mps!Lanes
<1>4. \A slot \in Mps!Slots, c \in Nat : <<slot, c % Width>> \in Mps!Threads
  BY <1>1, <1>2 DEF Mps!Threads
<1>5. \A slot \in Mps!Slots : slot < MpsSlots /\ <<slot, 0>> \in Mps!Threads
  BY <1>2, <1>3 DEF Mps!Threads, Mps!Slots
<1>6. \A t \in Mps!Threads : /\ t[1] \in Nat /\ t[2] \in Mps!Lanes /\ t[2] \in Nat
                             /\ t = <<t[1], t[2]>>
  BY DEF Mps!Threads, Mps!Groups, Mps!Lanes
<1> QED
  BY <1>4, <1>5, <1>6 DEF Mps!Slots

-----------------------------------------------------------------------------
(* The invariant holds before the first dispatch. *)
LEMMA MpsInvInit == Mps!Init => MpsInv
<1> USE MpsAssumption
<1> SUFFICES ASSUME Mps!Init PROVE MpsInv
  OBVIOUS
<1>1. {Mps!Garbage} \subseteq Addends
  BY DEF Mps!Garbage, Addends
<1>2. MpsTypes /\ MpsHosted
  BY <1>1 DEF Mps!Init, MpsTypes, MpsHosted
<1>3. MpsLanes
  BY MpsThreads DEF Mps!Init, MpsLanes, MpsLane, MpsDispatched, MpsRunning, MpsPartial
<1>4. MpsSums
  <2>1. \A slot \in Mps!Slots : mpsPc[<<slot, 0>>] = "idle" /\ mpsGradSample[slot] = {Mps!Garbage}
    BY MpsThreads DEF Mps!Init
  <2>2. \A pixel \in MpsPixels, c \in 0 .. MpsChannels - 1 : mpsGradValue[<<pixel, c>>] = {}
    BY DEF Mps!Init, Mps!ValueCells
  <2>3. \A slot \in Mps!Slots, c \in 0 .. MpsChannels - 1 : \A pixel :
            ~Scattered(<<slot, c % Width>>, c, pixel)
    BY MpsThreads DEF Mps!Init, Scattered
  <2> QED
    BY <2>1, <2>2, <2>3 DEF MpsSums
<1> QED
  BY <1>2, <1>3, <1>4 DEF MpsInv

(* A lane none of whose variables change stands. *)
LEMMA LaneStands ==
    ASSUME NEW u, MpsLane(u), mpsHost' = mpsHost, mpsBegin' = mpsBegin,
           mpsPc'[u] = mpsPc[u], mpsChannel'[u] = mpsChannel[u],
           mpsCorners'[u] = mpsCorners[u], mpsPartial'[u] = mpsPartial[u]
    PROVE  MpsLane(u)'
<1>1. \A c : Summed(u, c)' <=> Summed(u, c)
  BY DEF Summed
<1>2. MpsDispatched(u)' /\ MpsRunning(u)'
  BY DEF MpsLane, MpsDispatched, MpsRunning
<1>3. MpsPartial(u)'
  BY <1>1 DEF MpsLane, MpsPartial, Mps!DueToSample
<1> QED
  BY <1>2, <1>3 DEF MpsLane

(* The sums stand while what has reached the cells does. *)
LEMMA MpsSumsStand ==
    ASSUME MpsSums, mpsGradValue' = mpsGradValue, mpsGradSample' = mpsGradSample,
           \A slot \in Mps!Slots : mpsPc'[<<slot, 0>>] = "done" <=> mpsPc[<<slot, 0>>] = "done",
           \A slot \in Mps!Slots, c \in 0 .. MpsChannels - 1 : \A pixel \in MpsFootprint[slot] :
               Scattered(<<slot, c % Width>>, c, pixel)' <=> Scattered(<<slot, c % Width>>, c, pixel)
    PROVE  MpsSums'
<1>1. ASSUME NEW pixel \in MpsPixels, NEW c \in 0 .. MpsChannels - 1
      PROVE  mpsGradValue'[<<pixel, c>>] =
                 {<<slot, c, "v">> : slot \in {k \in Mps!Slots :
                      pixel \in MpsFootprint[k] /\ Scattered(<<k, c % Width>>, c, pixel)'}}
  <2>1. {k \in Mps!Slots : pixel \in MpsFootprint[k] /\ Scattered(<<k, c % Width>>, c, pixel)'}
          = {k \in Mps!Slots : pixel \in MpsFootprint[k] /\ Scattered(<<k, c % Width>>, c, pixel)}
    OBVIOUS
  <2> QED
    BY <2>1 DEF MpsSums
<1>2. \A slot \in Mps!Slots :
           mpsGradSample'[slot] =
               IF mpsPc'[<<slot, 0>>] = "done" THEN Mps!DueToSample(slot) ELSE {Mps!Garbage}
  BY DEF MpsSums
<1> QED
  BY <1>1, <1>2 DEF MpsSums, Mps!DueToSample

(* The host: what is dispatched starts, and nothing else changes. *)
LEMMA MpsHostStep ==
    ASSUME MpsInv, Mps!HostStep
    PROVE  MpsInv'
<1> USE MpsAssumption
<1>1. MpsTypes /\ MpsHosted /\ MpsLanes /\ MpsSums
  BY DEF MpsInv
<1>2. /\ mpsHost \in {"bind", "encode"}
      /\ mpsHost' \in {"encode", "raised", "returned"}
      /\ UNCHANGED <<mpsChannel, mpsCorners, mpsPartial, mpsGradValue, mpsGradSample>>
  BY DEF Mps!HostStep, Mps!Bind, Mps!Dispatch, Mps!Return, Mps!lane, Mps!tensors
<1>3. /\ mpsBegin' \in Nat /\ mpsBegin <= mpsBegin'
      /\ mpsHost' = "returned" => MpsSlots <= mpsBegin'
  BY <1>1 DEF Mps!HostStep, Mps!Bind, Mps!Dispatch, Mps!Return, Mps!MoreToDispatch, MpsTypes, MpsHosted
<1>4. /\ DOMAIN mpsPc' = Mps!Threads
      /\ \A t \in Mps!Threads :
             \/ mpsPc'[t] = mpsPc[t]
             \/ mpsPc[t] = "idle" /\ mpsPc'[t] = "start"
  <2>1. CASE Mps!Dispatch
    <3>1. mpsPc' = [t \in Mps!Threads |->
                       IF t[1] - mpsBegin \in 0 .. Mps!Minimum(Chunk, MpsSlots - mpsBegin) - 1
                       THEN "start" ELSE mpsPc[t]]
      BY <2>1 DEF Mps!Dispatch
    <3>2. \A t \in Mps!Threads : mpsPc[t] # "idle" => t[1] < mpsBegin /\ t[1] \in Nat /\ mpsBegin \in Nat
      BY <1>1, MpsThreads DEF MpsLanes, MpsLane, MpsDispatched, MpsTypes
    <3>3. \A t \in Mps!Threads : mpsPc[t] # "idle" =>
              ~(t[1] - mpsBegin \in 0 .. Mps!Minimum(Chunk, MpsSlots - mpsBegin) - 1)
      BY <3>2
    <3> QED
      BY <3>1, <3>3
  <2>2. CASE Mps!Bind \/ Mps!Return
    BY <2>2, <1>1 DEF Mps!Bind, Mps!Return, MpsTypes
  <2> QED
    BY <2>1, <2>2 DEF Mps!HostStep
<1>5. ASSUME NEW t \in Mps!Threads
      PROVE  MpsDispatched(t)'
  <2>1. MpsDispatched(t) /\ t[1] \in Nat /\ mpsBegin \in Nat
    BY <1>1, MpsThreads DEF MpsLanes, MpsLane, MpsTypes
  <2>2. CASE Mps!Dispatch
    <3>1. /\ mpsPc'[t] = IF t[1] - mpsBegin \in 0 .. Mps!Minimum(Chunk, MpsSlots - mpsBegin) - 1
                         THEN "start" ELSE mpsPc[t]
          /\ mpsBegin' = mpsBegin + Chunk /\ mpsHost' = mpsHost /\ mpsHost = "encode"
          /\ mpsBegin < MpsSlots
      BY <2>2 DEF Mps!Dispatch, Mps!MoreToDispatch
    <3>2. CASE t[1] - mpsBegin \in 0 .. Mps!Minimum(Chunk, MpsSlots - mpsBegin) - 1
      <4>1. mpsPc'[t] = "start"
        BY <3>1, <3>2
      <4>2. t[1] < mpsBegin' /\ t[1] < MpsSlots
        BY <3>1, <3>2, <2>1 DEF Mps!Minimum
      <4> QED
        BY <4>1, <4>2 DEF MpsDispatched
    <3>3. CASE ~(t[1] - mpsBegin \in 0 .. Mps!Minimum(Chunk, MpsSlots - mpsBegin) - 1)
      <4>1. mpsPc'[t] = mpsPc[t]
        BY <3>1, <3>3
      <4>2. mpsBegin <= t[1] /\ t[1] < MpsSlots => mpsBegin' <= t[1]
        BY <3>1, <3>3, <2>1 DEF Mps!Minimum
      <4>3. t[1] < mpsBegin => t[1] < mpsBegin'
        BY <3>1, <2>1
      <4> QED
        BY <4>1, <4>2, <4>3, <3>1, <2>1 DEF MpsDispatched
    <3> QED
      BY <3>2, <3>3
  <2>3. CASE Mps!Bind
    BY <2>1, <2>3 DEF Mps!Bind, MpsDispatched
  <2>4. CASE Mps!Return
    BY <2>1, <2>4 DEF Mps!Return, Mps!MoreToDispatch, MpsDispatched
  <2> QED
    BY <2>2, <2>3, <2>4 DEF Mps!HostStep
<1>6. ASSUME NEW t \in Mps!Threads
      PROVE  MpsRunning(t)' /\ MpsPartial(t)'
  <2>1. MpsRunning(t) /\ MpsPartial(t)
    BY <1>1 DEF MpsLanes, MpsLane
  <2>2. CASE mpsPc'[t] = mpsPc[t]
    <3>1. \A c : Summed(t, c)' <=> Summed(t, c)
      BY <2>2, <1>2 DEF Summed
    <3> QED
      BY <3>1, <2>1, <2>2, <1>2 DEF MpsRunning, MpsPartial, Mps!DueToSample
  <2>3. CASE mpsPc[t] = "idle" /\ mpsPc'[t] = "start"
    BY <2>1, <2>3, <1>2 DEF MpsRunning, MpsPartial
  <2> QED
    BY <1>4, <2>2, <2>3
<1>7. MpsTypes'
  <2>1. \A t \in Mps!Threads :
            mpsPc'[t] \in {"idle", "start", "channel", "load", "cas", "sum", "store", "done"}
    BY <1>1, <1>4 DEF MpsTypes
  <2>2. mpsPc' \in [Mps!Threads ->
            {"idle", "start", "channel", "load", "cas", "sum", "store", "done"}]
    <3>1. mpsPc' = [t \in Mps!Threads |-> mpsPc'[t]]
      BY <1>1, <1>4 DEF Mps!HostStep, Mps!Bind, Mps!Dispatch, Mps!Return, MpsTypes
    <3> QED
      BY <3>1, <2>1
  <2> QED
    BY <2>2, <1>1, <1>2, <1>3 DEF MpsTypes
<1>8. MpsHosted'
  BY <1>1, <1>2, <1>3 DEF MpsHosted
<1>9. MpsSums'
  <2>1. \A slot \in Mps!Slots : mpsPc'[<<slot, 0>>] = "done" <=> mpsPc[<<slot, 0>>] = "done"
    BY <1>4, MpsThreads
  <2>2. \A t \in Mps!Threads : \A c, pixel : Scattered(t, c, pixel)' <=> Scattered(t, c, pixel)
    BY <1>4, <1>2 DEF Scattered
  <2>3. \A slot \in Mps!Slots, c \in 0 .. MpsChannels - 1 : \A pixel \in MpsFootprint[slot] :
            Scattered(<<slot, c % Width>>, c, pixel)' <=> Scattered(<<slot, c % Width>>, c, pixel)
    BY <2>2, MpsThreads
  <2> QED
    BY <2>1, <2>3, <1>1, <1>2, MpsSumsStand
<1> QED
  BY <1>5, <1>6, <1>7, <1>8, <1>9 DEF MpsInv, MpsLanes, MpsLane

-----------------------------------------------------------------------------
(* What a lane's step changes: its own variables, and, when an exchange    *)
(* succeeds, a cell.                                                       *)
LaneMoves(t) ==
    /\ UNCHANGED <<mpsHost, mpsBegin, mpsGradSample>>
    /\ mpsPc[t] \notin {"idle", "store", "done"} /\ mpsPc'[t] \notin {"idle", "store"}
    /\ \A u \in Mps!Threads : u # t =>
           /\ mpsPc'[u] = mpsPc[u] /\ mpsChannel'[u] = mpsChannel[u]
           /\ mpsCorners'[u] = mpsCorners[u] /\ mpsPartial'[u] = mpsPartial[u]

(* A footprint's corners are numbered, and one of them is the next. *)
LEMMA MpsCorner ==
    ASSUME MpsTypes, NEW t \in Mps!Threads, mpsCorners[t] # {}
    PROVE  Mps!Corner(t) \in mpsCorners[t] /\ Mps!Corner(t) \in MpsPixels
<1>1. mpsCorners[t] \in SUBSET Nat /\ mpsCorners[t] \subseteq MpsPixels
  BY MpsAssumption DEF MpsTypes
<1>2. \E x \in mpsCorners[t] : \A y \in mpsCorners[t] : x <= y
  BY <1>1, LeastOf
<1> QED
  BY <1>1, <1>2 DEF Mps!Corner, Mps!Least

(* A lane's step keeps to the lane, and keeps the types. *)
LEMMA LaneStepMoves ==
    ASSUME MpsInv, NEW t \in Mps!Threads, Mps!LaneStep(t)
    PROVE  LaneMoves(t) /\ MpsTypes'
<1> USE MpsAssumption
<1>0. MpsTypes /\ MpsLane(t) /\ t[1] \in Nat /\ t[2] \in Nat
  BY MpsThreads DEF MpsInv, MpsLanes
<1>a. mpsPc[t] # "idle" => t[1] \in Mps!Slots /\ t[1] < MpsSlots
  BY <1>0, MpsThreads DEF MpsLane, MpsDispatched
<1>b. \A c \in Nat : <<t[1], c, "a">> \in Addends /\ <<t[1], c, "v">> \in Addends
  BY <1>0 DEF Addends
<1>c. {Mps!Twice} \subseteq Addends
  BY DEF Mps!Twice, Addends
<1>1. CASE Mps!Start(t)
  BY <1>0, <1>a, <1>1 DEF Mps!Start, LaneMoves, MpsTypes, Mps!hostVars, Mps!tensors
<1>2. CASE Mps!BeginChannel(t)
  <2>1. Mps!Plus(mpsPartial[t], {Mps!Contribution(t, "a")}) \in SUBSET Addends
    <3>1. mpsChannel[t] \in Nat /\ mpsPartial[t] \in SUBSET Addends
      BY <1>0 DEF MpsTypes
    <3>2. Mps!Contribution(t, "a") \in Addends
      BY <3>1, <1>b DEF Mps!Contribution
    <3> QED
      BY <3>1, <3>2, <1>c DEF Mps!Plus, Mps!Twice
  <2>2. MpsFootprint[t[1]] \in SUBSET MpsPixels
    BY <1>a, <1>2 DEF Mps!BeginChannel
  <2>3. /\ mpsPartial' = [mpsPartial EXCEPT ![t] = Mps!Plus(@, {Mps!Contribution(t, "a")})]
        /\ mpsCorners' = [mpsCorners EXCEPT ![t] = MpsFootprint[t[1]]]
        /\ mpsPc' = [mpsPc EXCEPT ![t] = "load"] /\ mpsPc[t] = "channel"
        /\ UNCHANGED <<mpsHost, mpsBegin, mpsChannel, mpsGradValue, mpsGradSample>>
    BY <1>2 DEF Mps!BeginChannel, Mps!hostVars, Mps!tensors
  <2>4. LaneMoves(t)
    BY <2>3, <1>0 DEF LaneMoves, MpsTypes
  <2>5. mpsPartial' \in [Mps!Threads -> SUBSET Addends]
    BY <2>1, <2>3, <1>0 DEF MpsTypes
  <2>6. mpsCorners' \in [Mps!Threads -> SUBSET MpsPixels]
    BY <2>2, <2>3, <1>0 DEF MpsTypes
  <2> QED
    BY <2>3, <2>4, <2>5, <2>6, <1>0 DEF MpsTypes
<1>3. CASE Mps!LeaveChannels(t)
  BY <1>0, <1>3 DEF Mps!LeaveChannels, LaneMoves, MpsTypes, Mps!hostVars, Mps!tensors, Mps!lane
<1>4. CASE Mps!NextChannel(t)
  BY <1>0, <1>4 DEF Mps!NextChannel, LaneMoves, MpsTypes, Mps!hostVars, Mps!tensors
<1>5. CASE Mps!Load(t)
  BY <1>0, <1>5 DEF Mps!Load, LaneMoves, MpsTypes, Mps!hostVars, Mps!tensors
<1>6. CASE Mps!Retry(t)
  BY <1>0, <1>6 DEF Mps!Retry, LaneMoves, MpsTypes, Mps!hostVars, Mps!tensors
<1>7. CASE Mps!Exchange(t)
  <2>1. /\ mpsPc[t] = "cas" /\ mpsChannel[t] \in 0 .. MpsChannels - 1
        /\ mpsCorners[t] # {}
    BY <1>0, <1>7 DEF Mps!Exchange, MpsLane, MpsRunning, MpsTypes
  <2>2. Mps!Cell(t) \in Mps!ValueCells
    BY <2>1, <1>0, MpsCorner DEF Mps!Cell, Mps!ValueCells
  <2>3. mpsGradValue[Mps!Cell(t)] \in SUBSET Addends
    BY <2>2, <1>0 DEF MpsTypes
  <2>4. Mps!Plus(mpsOld[t], {Mps!Contribution(t, "v")}) \in SUBSET Addends
    <3>1. mpsOld[t] \in SUBSET Addends
      BY <2>3, <1>7 DEF Mps!Exchange
    <3>2. Mps!Contribution(t, "v") \in Addends
      <4>1. mpsChannel[t] \in Nat
        BY <2>1
      <4> QED
        BY <4>1, <1>b DEF Mps!Contribution
    <3> QED
      BY <3>1, <3>2, <1>c DEF Mps!Plus, Mps!Twice
  <2>5. /\ mpsGradValue' = [mpsGradValue EXCEPT ![Mps!Cell(t)] =
                                Mps!Plus(mpsOld[t], {Mps!Contribution(t, "v")})]
        /\ mpsCorners' = [mpsCorners EXCEPT ![t] = @ \ {Mps!Corner(t)}]
        /\ mpsPc' = [mpsPc EXCEPT ![t] = "load"]
        /\ UNCHANGED <<mpsHost, mpsBegin, mpsChannel, mpsPartial, mpsGradSample>>
    BY <1>7 DEF Mps!Exchange, Mps!hostVars
  <2>6. LaneMoves(t)
    BY <2>1, <2>5, <1>0 DEF LaneMoves, MpsTypes
  <2>7. mpsGradValue' \in [Mps!ValueCells -> SUBSET Addends]
    BY <2>4, <2>5, <1>0 DEF MpsTypes
  <2>8. mpsCorners' \in [Mps!Threads -> SUBSET MpsPixels]
    BY <2>5, <1>0 DEF MpsTypes
  <2> QED
    BY <2>5, <2>6, <2>7, <2>8, <1>0 DEF MpsTypes
<1> QED
  BY <1>1, <1>2, <1>3, <1>4, <1>5, <1>6, <1>7 DEF Mps!LaneStep

(* A lane's step goes through its own channels, adding up each once. *)
LEMMA LaneKept ==
    ASSUME MpsInv, NEW t \in Mps!Threads, Mps!LaneStep(t)
    PROVE  MpsLane(t)'
<1> USE MpsAssumption
<1>0. MpsTypes /\ MpsLane(t) /\ t[1] \in Nat /\ t[2] \in Mps!Lanes
  BY MpsThreads DEF MpsInv, MpsLanes
<1>1. LaneMoves(t) /\ MpsTypes'
  BY LaneStepMoves
<1>2. mpsChannel[t] \in Nat /\ mpsBegin \in Nat
  BY <1>0 DEF MpsTypes
<1>3. /\ mpsHost = "returned" /\ t[1] < mpsBegin /\ t[1] < MpsSlots
      /\ t[1] \in Mps!Slots
  <2>1. mpsPc[t] # "start" => mpsHost = "returned"
    BY <1>0, <1>1 DEF MpsLane, MpsDispatched, LaneMoves
  <2>2. mpsPc[t] = "start" => mpsHost = "returned"
    BY DEF Mps!LaneStep, Mps!Start, Mps!BeginChannel, Mps!LeaveChannels, Mps!NextChannel,
       Mps!Load, Mps!Exchange, Mps!Retry
  <2> QED
    BY <2>1, <2>2, <1>0, <1>1, MpsThreads DEF MpsLane, MpsDispatched, LaneMoves
<1>4. MpsDispatched(t)'
  BY <1>1, <1>3 DEF MpsDispatched, LaneMoves
<1>5. CASE Mps!Start(t)
  <2>1. /\ mpsPc[t] = "start" /\ mpsPartial' = mpsPartial
        /\ mpsPc'[t] = IF MpsFootprint[t[1]] = {} THEN "sum" ELSE "channel"
        /\ mpsChannel'[t] = t[2]
    <3>1. ~(t[1] >= MpsSlots)
      BY <1>3, <1>0
    <3> QED
      BY <1>5, <3>1, <1>0 DEF Mps!Start, MpsTypes
  <2>2. t[2] \in Nat /\ t[2] % Width = t[2]
    <3>1. t[2] \in Nat /\ t[2] \in 0 .. Width - 1
      BY <1>0 DEF Mps!Lanes
    <3> QED
      BY <3>1, ModSmall
  <2>3. MpsRunning(t)'
    BY <2>1, <2>2 DEF MpsRunning
  <2>4. \A c \in 0 .. MpsChannels - 1 : ~(c % Width = t[2] /\ Summed(t, c)')
    <3> SUFFICES ASSUME NEW c \in 0 .. MpsChannels - 1, c % Width = t[2], Summed(t, c)'
                 PROVE FALSE
      OBVIOUS
    <3>0. c \in Nat
      OBVIOUS
    <3>1. c \in Nat /\ c % Width <= c
      BY <3>0, ModSmall
    <3>2. c < t[2]
      BY <2>1 DEF Summed
    <3> QED
      BY <3>1, <3>2, <2>2
  <2>5. mpsPartial'[t] = {}
    BY <2>1, <1>0 DEF MpsLane, MpsPartial
  <2>6. MpsPartial(t)'
    BY <2>1, <2>4, <2>5 DEF MpsPartial
  <2> QED
    BY <1>4, <2>3, <2>6 DEF MpsLane
<1>6. CASE Mps!BeginChannel(t)
  <2> DEFINE ch == mpsChannel[t]
             mine == {k \in 0 .. MpsChannels - 1 : k % Width = t[2] /\ Summed(t, k)}
  <2>1. /\ mpsPc[t] = "channel" /\ mpsPc'[t] = "load" /\ mpsChannel'[t] = ch
        /\ ch < MpsChannels /\ mpsCorners'[t] = MpsFootprint[t[1]]
        /\ mpsPartial'[t] = Mps!Plus(mpsPartial[t], {<<t[1], ch, "a">>})
    BY <1>6, <1>0 DEF Mps!BeginChannel, Mps!HasChannel, Mps!Contribution, MpsTypes
  <2>2. ch \in 0 .. MpsChannels - 1 /\ ch % Width = t[2] /\ MpsFootprint[t[1]] # {}
    BY <2>1, <1>0, <1>2 DEF MpsLane, MpsRunning
  <2>3. MpsRunning(t)'
    BY <2>1, <2>2 DEF MpsRunning
  <2>4. mpsPartial[t] = {<<t[1], c, "a">> : c \in mine}
    BY <2>1, <1>0 DEF MpsLane, MpsPartial
  <2>5. ch \notin mine
    BY <2>1, <1>2 DEF Summed
  <2>6. mpsPartial'[t] = {<<t[1], c, "a">> : c \in mine \cup {ch}}
    <3> HIDE DEF mine, ch
    <3>1. <<t[1], ch, "a">> \notin mpsPartial[t]
      BY <2>4, <2>5
    <3> QED
      BY <2>1, <2>4, <3>1 DEF Mps!Plus
  <2>7. \A c \in 0 .. MpsChannels - 1 :
            Summed(t, c)' <=> Summed(t, c) \/ c = ch
    BY <2>1, <1>2 DEF Summed
  <2>8. mine \cup {ch} = {k \in 0 .. MpsChannels - 1 : k % Width = t[2] /\ Summed(t, k)'}
    BY <2>7, <2>2
  <2>9. MpsPartial(t)'
    BY <2>1, <2>6, <2>8 DEF MpsPartial
  <2> QED
    BY <1>4, <2>3, <2>9 DEF MpsLane
<1>7. CASE Mps!LeaveChannels(t)
  <2>1. /\ mpsPc[t] = "channel" /\ mpsPc'[t] = "sum" /\ ~(mpsChannel[t] < MpsChannels)
        /\ mpsPartial' = mpsPartial
    BY <1>7, <1>0 DEF Mps!LeaveChannels, Mps!HasChannel, MpsTypes, Mps!lane
  <2>2. MpsFootprint[t[1]] # {}
    BY <2>1, <1>0 DEF MpsLane, MpsRunning
  <2>3. \A c \in 0 .. MpsChannels - 1 : Summed(t, c)' /\ Summed(t, c)
    BY <2>1, <2>2, <1>2 DEF Summed
  <2>4. {k \in 0 .. MpsChannels - 1 : k % Width = t[2] /\ Summed(t, k)'}
          = {k \in 0 .. MpsChannels - 1 : k % Width = t[2] /\ Summed(t, k)}
    BY <2>3
  <2>5. MpsPartial(t)'
    BY <2>1, <2>4, <1>0 DEF MpsPartial, MpsLane
  <2>6. MpsRunning(t)'
    BY <2>1 DEF MpsRunning
  <2> QED
    BY <1>4, <2>5, <2>6 DEF MpsLane
<1>8. CASE Mps!NextChannel(t)
  <2> DEFINE ch == mpsChannel[t]
  <2>1. /\ mpsPc[t] = "load" /\ mpsPc'[t] = "channel" /\ mpsChannel'[t] = ch + Width
        /\ mpsPartial' = mpsPartial
    BY <1>8, <1>0 DEF Mps!NextChannel, MpsTypes
  <2>2. ch \in Nat /\ ch % Width = t[2] /\ MpsFootprint[t[1]] # {}
    BY <2>1, <1>0, <1>2 DEF MpsLane, MpsRunning
  <2>3. (ch + Width) % Width = t[2]
    BY <2>2, ModNext
  <2>4. ASSUME NEW c \in 0 .. MpsChannels - 1, c % Width = t[2]
        PROVE  Summed(t, c)' <=> Summed(t, c)
    <3>1. ch < c => ch + Width <= c
      BY <2>2, <2>4, ModGap
    <3>2. Summed(t, c)' <=> c < ch + Width
      BY <2>1 DEF Summed
    <3>3. Summed(t, c) <=> c <= ch
      BY <2>1 DEF Summed
    <3> QED
      BY <3>1, <3>2, <3>3, <2>2
  <2>5. {k \in 0 .. MpsChannels - 1 : k % Width = t[2] /\ Summed(t, k)'}
          = {k \in 0 .. MpsChannels - 1 : k % Width = t[2] /\ Summed(t, k)}
    BY <2>4
  <2>6. MpsPartial(t)'
    BY <2>1, <2>5, <1>0 DEF MpsPartial, MpsLane
  <2>7. MpsRunning(t)'
    BY <2>1, <2>2, <2>3 DEF MpsRunning
  <2> QED
    BY <1>4, <2>6, <2>7 DEF MpsLane
<1>9. CASE Mps!Load(t) \/ Mps!Retry(t) \/ Mps!Exchange(t)
  <2>1. /\ mpsPc[t] \in {"load", "cas"} /\ mpsPc'[t] \in {"load", "cas"}
        /\ mpsPc'[t] = "cas" => mpsCorners'[t] # {}
        /\ mpsCorners'[t] \subseteq mpsCorners[t]
        /\ mpsChannel' = mpsChannel /\ mpsPartial' = mpsPartial
    <3>1. CASE Mps!Load(t)
      BY <3>1, <1>0 DEF Mps!Load, MpsTypes
    <3>2. CASE Mps!Retry(t)
      BY <3>2, <1>0 DEF Mps!Retry, MpsTypes, MpsLane, MpsRunning
    <3>3. CASE Mps!Exchange(t)
      BY <3>3, <1>0 DEF Mps!Exchange, MpsTypes
    <3> QED
      BY <3>1, <3>2, <3>3, <1>9
  <2>2. \A c : Summed(t, c)' <=> Summed(t, c)
    BY <2>1 DEF Summed
  <2>3. MpsPartial(t)'
    BY <2>1, <2>2, <1>0 DEF MpsPartial, MpsLane
  <2>4. MpsRunning(t)'
    BY <2>1, <1>0 DEF MpsRunning, MpsLane
  <2> QED
    BY <1>4, <2>3, <2>4 DEF MpsLane
<1> QED
  BY <1>5, <1>6, <1>7, <1>8, <1>9 DEF Mps!LaneStep

(* Of the pixels a slot covers, a lane's step reaches none, unless it is an *)
(* exchange that succeeds.                                                  *)
LEMMA ScatterStands ==
    ASSUME MpsInv, NEW t \in Mps!Threads, Mps!LaneStep(t), ~Mps!Exchange(t),
           NEW c \in 0 .. MpsChannels - 1, c % Width = t[2],
           NEW pixel \in MpsFootprint[t[1]]
    PROVE  Scattered(t, c, pixel)' <=> Scattered(t, c, pixel)
<1> USE MpsAssumption
<1>0. MpsTypes /\ MpsLane(t) /\ t[1] \in Nat /\ t[2] \in Mps!Lanes /\ mpsChannel[t] \in Nat
      /\ c \in Nat
  BY MpsThreads DEF MpsInv, MpsLanes, MpsTypes
<1>1. CASE Mps!Start(t)
  <2>1. c % Width <= c /\ t[2] \in Nat
    BY <1>0, ModSmall DEF Mps!Lanes
  <2>2. /\ mpsPc[t] = "start" /\ mpsPc'[t] = "channel" /\ mpsChannel'[t] = t[2]
    <3>1. ~(t[1] >= MpsSlots)
      BY <1>0, <1>1 DEF Mps!Start, MpsLane, MpsDispatched
    <3> QED
      BY <1>1, <3>1, <1>0 DEF Mps!Start, MpsTypes
  <2> QED
    BY <2>1, <2>2 DEF Scattered
<1>2. CASE Mps!BeginChannel(t)
  BY <1>0, <1>2 DEF Mps!BeginChannel, Scattered, MpsTypes
<1>3. CASE Mps!LeaveChannels(t)
  <2>1. mpsPc[t] = "channel" /\ mpsPc'[t] = "sum" /\ ~(mpsChannel[t] < MpsChannels)
    BY <1>3, <1>0 DEF Mps!LeaveChannels, Mps!HasChannel, MpsTypes
  <2>2. c < mpsChannel[t]
    BY <2>1, <1>0
  <2> QED
    BY <2>1, <2>2 DEF Scattered
<1>4. CASE Mps!NextChannel(t)
  <2> DEFINE ch == mpsChannel[t]
  <2>1. /\ mpsPc[t] = "load" /\ mpsPc'[t] = "channel" /\ mpsChannel'[t] = ch + Width
        /\ mpsCorners[t] = {}
    BY <1>4, <1>0 DEF Mps!NextChannel, MpsTypes
  <2>2. ch % Width = c % Width
    BY <2>1, <1>0 DEF MpsLane, MpsRunning
  <2>3. ch < c => ch + Width <= c
    BY <2>2, <1>0, ModGap
  <2>4. Scattered(t, c, pixel)' <=> c < ch + Width
    BY <2>1 DEF Scattered
  <2>5. Scattered(t, c, pixel) <=> c <= ch
    BY <2>1, <1>0 DEF Scattered
  <2> QED
    BY <2>3, <2>4, <2>5, <1>0
<1>5. CASE Mps!Load(t) \/ Mps!Retry(t)
  BY <1>0, <1>5 DEF Mps!Load, Mps!Retry, Scattered, MpsTypes
<1> QED
  BY <1>1, <1>2, <1>3, <1>4, <1>5 DEF Mps!LaneStep

(* A lane's step, short of a successful exchange, leaves the sums alone. *)
LEMMA QuietLane ==
    ASSUME MpsInv, NEW t \in Mps!Threads, Mps!LaneStep(t), ~Mps!Exchange(t)
    PROVE  MpsSums'
<1> USE MpsAssumption
<1>1. LaneMoves(t) /\ MpsTypes /\ MpsSums
  BY LaneStepMoves DEF MpsInv
<1>2. mpsGradValue' = mpsGradValue /\ mpsGradSample' = mpsGradSample /\ mpsPc'[t] # "done"
  <2>0. mpsPc[t] = "start" => ~(t[1] >= MpsSlots)
    BY MpsThreads DEF MpsInv, MpsLanes, MpsLane, MpsDispatched
  <2> QED
    BY <2>0, <1>1 DEF Mps!LaneStep, Mps!Start, Mps!BeginChannel, Mps!LeaveChannels, Mps!NextChannel,
       Mps!Load, Mps!Retry, Mps!tensors, MpsTypes
<1>3. \A slot \in Mps!Slots : mpsPc'[<<slot, 0>>] = "done" <=> mpsPc[<<slot, 0>>] = "done"
  BY <1>1, <1>2, MpsThreads DEF LaneMoves
<1>4. ASSUME NEW slot \in Mps!Slots, NEW c \in 0 .. MpsChannels - 1, NEW pixel \in MpsFootprint[slot]
      PROVE  Scattered(<<slot, c % Width>>, c, pixel)' <=> Scattered(<<slot, c % Width>>, c, pixel)
  <2>1. <<slot, c % Width>> \in Mps!Threads /\ c \in Nat
    BY MpsThreads
  <2>2. CASE <<slot, c % Width>> # t
    BY <2>1, <2>2, <1>1 DEF LaneMoves, Scattered
  <2>3. CASE <<slot, c % Width>> = t
    <3>1. t[1] = slot /\ t[2] = c % Width
      BY <2>3
    <3> QED
      BY <3>1, <2>3, ScatterStands
  <2> QED
    BY <2>2, <2>3
<1> QED
  BY <1>1, <1>2, <1>3, <1>4, MpsSumsStand

(* A successful exchange adds to its cell what the lane had to add there.  *)
LEMMA Exchanged ==
    ASSUME MpsInv, NEW t \in Mps!Threads, Mps!Exchange(t)
    PROVE  MpsSums'
<1> USE MpsAssumption
<1> DEFINE ch == mpsChannel[t]
           px == Mps!Corner(t)
<1>1. LaneMoves(t) /\ MpsTypes /\ MpsSums /\ MpsLane(t)
  BY LaneStepMoves DEF MpsInv, MpsLanes, Mps!LaneStep
<1>2. /\ mpsPc[t] = "cas" /\ mpsPc'[t] = "load"
      /\ mpsChannel' = mpsChannel /\ mpsGradSample' = mpsGradSample
      /\ mpsCorners'[t] = mpsCorners[t] \ {px}
      /\ mpsGradValue' = [mpsGradValue EXCEPT ![<<px, ch>>] =
                              Mps!Plus(mpsGradValue[<<px, ch>>], {<<t[1], ch, "v">>})]
  BY <1>1, Zenon DEF Mps!Exchange, Mps!Cell, Mps!Contribution, MpsTypes
<1>3. /\ ch \in 0 .. MpsChannels - 1 /\ ch % Width = t[2]
      /\ mpsCorners[t] # {} /\ mpsCorners[t] \subseteq MpsFootprint[t[1]]
      /\ t[1] \in Mps!Slots
  BY <1>1, <1>2, MpsThreads DEF MpsLane, MpsRunning, MpsDispatched, MpsTypes
<1>4. px \in mpsCorners[t] /\ px \in MpsPixels /\ px \in MpsFootprint[t[1]]
  BY <1>1, <1>3, MpsCorner
<1>5. t = <<t[1], t[2]>>
  BY MpsThreads
<1> HIDE DEF ch, px
<1>6. ASSUME NEW slot \in Mps!Slots, NEW c \in 0 .. MpsChannels - 1, NEW pixel \in MpsFootprint[slot]
      PROVE  Scattered(<<slot, c % Width>>, c, pixel)'
                 <=> \/ Scattered(<<slot, c % Width>>, c, pixel)
                     \/ slot = t[1] /\ c = ch /\ pixel = px
  <2>1. <<slot, c % Width>> \in Mps!Threads
    BY MpsThreads
  <2>2. CASE <<slot, c % Width>> # t
    <3>1. ~(slot = t[1] /\ c = ch)
      BY <2>2, <1>3, <1>5
    <3> QED
      BY <3>1, <2>1, <2>2, <1>1 DEF LaneMoves, Scattered
  <2>3. CASE <<slot, c % Width>> = t
    <3>1. slot = t[1]
      BY <2>3
    <3> QED
      BY <3>1, <2>3, <1>2, <1>4 DEF Scattered, ch
  <2> QED
    BY <2>2, <2>3
<1>7. ~Scattered(t, ch, px)
  <2>1. ch \in Nat
    BY <1>3
  <2> QED
    BY <2>1, <1>2, <1>4 DEF Scattered, ch
<1>8. ASSUME NEW pixel \in MpsPixels, NEW c \in 0 .. MpsChannels - 1
      PROVE  mpsGradValue'[<<pixel, c>>] =
                 {<<slot, c, "v">> : slot \in {k \in Mps!Slots :
                      pixel \in MpsFootprint[k] /\ Scattered(<<k, c % Width>>, c, pixel)'}}
  <2> DEFINE reached == {k \in Mps!Slots :
                 pixel \in MpsFootprint[k] /\ Scattered(<<k, c % Width>>, c, pixel)}
             reaching == {k \in Mps!Slots :
                 pixel \in MpsFootprint[k] /\ Scattered(<<k, c % Width>>, c, pixel)'}
  <2>1. mpsGradValue[<<pixel, c>>] = {<<slot, c, "v">> : slot \in reached}
    BY <1>1 DEF MpsSums
  <2>2. CASE pixel = px /\ c = ch
    <3>1. reaching = reached \cup {t[1]}
      BY <2>2, <1>3, <1>4, <1>6
    <3>2. t[1] \notin reached
      BY <2>2, <1>3, <1>5, <1>7
    <3>3. <<px, ch>> \in Mps!ValueCells
      BY <1>3, <1>4 DEF Mps!ValueCells
    <3>4. mpsGradValue'[<<px, ch>>] = Mps!Plus(mpsGradValue[<<px, ch>>], {<<t[1], ch, "v">>})
      BY <3>3, <1>1, <1>2 DEF MpsTypes
    <3> HIDE DEF reached, reaching
    <3>5. <<t[1], ch, "v">> \notin mpsGradValue[<<px, ch>>]
      BY <2>1, <2>2, <3>2
    <3>6. mpsGradValue'[<<px, ch>>] = mpsGradValue[<<px, ch>>] \cup {<<t[1], ch, "v">>}
      BY <3>4, <3>5 DEF Mps!Plus
    <3>7. mpsGradValue'[<<pixel, c>>] = {<<slot, c, "v">> : slot \in reaching}
      BY <3>1, <3>6, <2>1, <2>2
    <3> QED
      BY <3>7 DEF reaching
  <2>3. CASE ~(pixel = px /\ c = ch)
    <3>1. reaching = reached
      BY <2>3, <1>6
    <3>2. <<pixel, c>> # <<px, ch>>
      BY <2>3
    <3>3. mpsGradValue'[<<pixel, c>>] = mpsGradValue[<<pixel, c>>]
      BY <3>2, <1>1, <1>2 DEF MpsTypes, Mps!ValueCells
    <3> QED
      BY <3>1, <3>3, <2>1
  <2> QED
    BY <2>2, <2>3
<1>9. \A slot \in Mps!Slots :
          mpsGradSample'[slot] =
              IF mpsPc'[<<slot, 0>>] = "done" THEN Mps!DueToSample(slot) ELSE {Mps!Garbage}
  <2>1. \A slot \in Mps!Slots : mpsPc'[<<slot, 0>>] = "done" <=> mpsPc[<<slot, 0>>] = "done"
    BY <1>1, <1>2, MpsThreads DEF LaneMoves
  <2> QED
    BY <2>1, <1>1, <1>2 DEF MpsSums
<1> QED
  BY <1>8, <1>9 DEF MpsSums, Mps!DueToSample

(* The sum over a group is of every channel's contribution, each once. *)
LEMMA GroupSum ==
    ASSUME MpsInv, NEW g \in Mps!Groups, \A l \in Mps!Lanes : mpsPc[<<g, l>>] = "sum"
    PROVE  /\ g \in Mps!Slots
           /\ Mps!SumOver([l \in Mps!Lanes |-> mpsPartial[<<g, l>>]], Mps!Lanes) = Mps!DueToSample(g)
<1> USE MpsAssumption
<1> DEFINE f == [l \in Mps!Lanes |-> mpsPartial[<<g, l>>]]
           active == MpsFootprint[g] # {}
<1>1. \A l \in Mps!Lanes : <<g, l>> \in Mps!Threads
  BY DEF Mps!Threads
<1>2. 0 \in Mps!Lanes
  BY DEF Mps!Lanes
<1>3. g \in Mps!Slots
  BY <1>1, <1>2, MpsThreads DEF MpsInv, MpsLanes, MpsLane, MpsDispatched
<1>4. ASSUME NEW l \in Mps!Lanes
      PROVE  f[l] = {<<g, c, "a">> : c \in {k \in 0 .. MpsChannels - 1 : k % Width = l /\ active}}
  <2>1. MpsPartial(<<g, l>>) /\ mpsPc[<<g, l>>] = "sum"
    BY <1>1 DEF MpsInv, MpsLanes, MpsLane
  <2>2. \A k : Summed(<<g, l>>, k) <=> active
    BY <2>1 DEF Summed
  <2>3. mpsPartial[<<g, l>>] = {<<g, c, "a">> : c \in {k \in 0 .. MpsChannels - 1 :
                                       k % Width = l /\ Summed(<<g, l>>, k)}}
    BY <2>1 DEF MpsPartial
  <2> QED
    BY <2>2, <2>3
<1>5. \A l, m \in Mps!Lanes : l # m => f[l] \cap f[m] = {}
  <2> HIDE DEF f
  <2> QED
    BY <1>4
<1>6. UNION {f[l] : l \in Mps!Lanes} = {<<g, c, "a">> : c \in {k \in 0 .. MpsChannels - 1 : active}}
  <2> HIDE DEF f, active
  <2>1. \A k \in 0 .. MpsChannels - 1 : k % Width \in Mps!Lanes
    <3>1. \A k \in Nat : k % Width \in 0 .. Width - 1
      BY ModSmall
    <3> QED
      BY <3>1 DEF Mps!Lanes
  <2>2. ASSUME NEW x \in UNION {f[l] : l \in Mps!Lanes}
        PROVE  x \in {<<g, c, "a">> : c \in {k \in 0 .. MpsChannels - 1 : active}}
    BY <1>4
  <2>3. ASSUME NEW k \in 0 .. MpsChannels - 1, active
        PROVE  <<g, k, "a">> \in UNION {f[l] : l \in Mps!Lanes}
    <3>1. <<g, k, "a">> \in f[k % Width]
      BY <2>1, <2>3, <1>4
    <3> QED
      BY <3>1, <2>1
  <2> QED
    BY <2>2, <2>3
<1>7. Mps!DueToSample(g) = {<<g, c, "a">> : c \in {k \in 0 .. MpsChannels - 1 : active}}
  BY DEF Mps!DueToSample
<1>8. Mps!SumOver(f, Mps!Lanes) = UNION {f[l] : l \in Mps!Lanes}
  <2> HIDE DEF f
  <2> QED
    BY <1>5 DEF Mps!SumOver
<1> QED
  BY <1>3, <1>6, <1>7, <1>8

(* The group's steps: lane 0 sums up what the lanes have, then stores it. *)
LEMMA MpsGroupStep ==
    ASSUME MpsInv, NEW g \in Mps!Groups, Mps!GroupStep(g)
    PROVE  MpsInv'
<1> USE MpsAssumption
<1>0. MpsTypes /\ MpsHosted /\ MpsLanes /\ MpsSums
  BY DEF MpsInv
<1> DEFINE zero == <<g, 0>>
<1>a. zero \in Mps!Threads /\ 0 \in Mps!Lanes
  BY DEF Mps!Threads, Mps!Lanes
<1>1. CASE Mps!SimdSum(g)
  <2>1. \A l \in Mps!Lanes : mpsPc[<<g, l>>] = "sum"
    BY <1>1 DEF Mps!SimdSum, Mps!SummedLanes
  <2>2. /\ mpsPartial' = [mpsPartial EXCEPT ![zero] = Mps!DueToSample(g)]
        /\ g \in Mps!Slots
    <3>1. Mps!SummedLanes(g) = Mps!Lanes
      BY <2>1 DEF Mps!SummedLanes
    <3> QED
      BY <3>1, <2>1, <1>1, GroupSum DEF Mps!SimdSum
  <2>3. /\ mpsPc' = [t \in Mps!Threads |->
                       IF t[1] = g THEN IF t[2] = 0 THEN "store" ELSE "done" ELSE mpsPc[t]]
        /\ UNCHANGED <<mpsHost, mpsBegin, mpsChannel, mpsCorners, mpsGradValue, mpsGradSample>>
    BY <1>1 DEF Mps!SimdSum, Mps!hostVars, Mps!tensors
  <2>4. Mps!DueToSample(g) \in SUBSET Addends
    BY <2>2 DEF Mps!DueToSample, Addends, Mps!Slots
  <2>5. MpsTypes'
    <3>1. mpsPartial' \in [Mps!Threads -> SUBSET Addends]
      BY <2>2, <2>4, <1>0 DEF MpsTypes
    <3>2. mpsPc' \in [Mps!Threads ->
              {"idle", "start", "channel", "load", "cas", "sum", "store", "done"}]
      BY <2>3, <1>0 DEF MpsTypes
    <3> QED
      BY <3>1, <3>2, <2>3, <1>0 DEF MpsTypes
  <2>6. ASSUME NEW t \in Mps!Threads
        PROVE  MpsLane(t)'
    <3>1. MpsLane(t) /\ t = <<t[1], t[2]>> /\ t[2] \in Mps!Lanes
      BY <1>0, MpsThreads DEF MpsLanes
    <3>2. CASE t[1] # g
      <4>1. t # zero
        BY <3>2
      <4>2. /\ mpsPc'[t] = mpsPc[t] /\ mpsChannel'[t] = mpsChannel[t]
            /\ mpsCorners'[t] = mpsCorners[t] /\ mpsPartial'[t] = mpsPartial[t]
        BY <4>1, <3>2, <2>2, <2>3, <1>0 DEF MpsTypes
      <4> QED
        BY <4>2, <3>1, <2>3, LaneStands
    <3>3. CASE t[1] = g
      <4>1. /\ mpsPc[t] = "sum"
            /\ mpsPc'[t] = IF t[2] = 0 THEN "store" ELSE "done"
        BY <3>1, <3>3, <2>1, <2>3
      <4>2. MpsDispatched(t)' /\ MpsRunning(t)'
        BY <4>1, <3>1, <2>3 DEF MpsLane, MpsDispatched, MpsRunning
      <4>3. mpsPc'[t] = "store" => mpsPartial'[t] = Mps!DueToSample(t[1])
        BY <4>1, <3>1, <3>3, <2>2, <1>0 DEF MpsTypes
      <4>4. MpsPartial(t)'
        BY <4>1, <4>3 DEF MpsPartial, Mps!DueToSample
      <4> QED
        BY <4>2, <4>4 DEF MpsLane
    <3> QED
      BY <3>2, <3>3
  <2>7. \A t \in Mps!Threads : \/ mpsPc'[t] = mpsPc[t]
                               \/ mpsPc[t] = "sum" /\ mpsPc'[t] \in {"store", "done"}
    BY <2>1, <2>3, MpsThreads
  <2>8. MpsSums'
    <3>1. \A slot \in Mps!Slots : mpsPc'[<<slot, 0>>] = "done" <=> mpsPc[<<slot, 0>>] = "done"
      <4>1. \A slot \in Mps!Slots : mpsPc'[<<slot, 0>>] = IF slot = g THEN "store" ELSE mpsPc[<<slot, 0>>]
        BY <2>3, MpsThreads
      <4> QED
        BY <4>1, <2>1, <1>a
    <3>2. \A t \in Mps!Threads : \A c, pixel : Scattered(t, c, pixel)' <=> Scattered(t, c, pixel)
      BY <2>3, <2>7 DEF Scattered
    <3>3. \A slot \in Mps!Slots, c \in 0 .. MpsChannels - 1 : \A pixel \in MpsFootprint[slot] :
              Scattered(<<slot, c % Width>>, c, pixel)' <=> Scattered(<<slot, c % Width>>, c, pixel)
      BY <3>2, MpsThreads
    <3> QED
      BY <3>1, <3>3, <2>3, <1>0, MpsSumsStand
  <2> QED
    BY <2>3, <2>5, <2>6, <2>8, <1>0 DEF MpsInv, MpsLanes, MpsHosted
<1>2. CASE Mps!StoreSample(g)
  <2>1. /\ mpsPc[zero] = "store"
        /\ mpsGradSample' = [mpsGradSample EXCEPT ![g] = mpsPartial[zero]]
        /\ mpsPc' = [mpsPc EXCEPT ![zero] = "done"]
        /\ UNCHANGED <<mpsHost, mpsBegin, mpsChannel, mpsCorners, mpsPartial, mpsGradValue>>
    BY <1>2 DEF Mps!StoreSample, Mps!hostVars, Mps!lane
  <2>2. MpsLane(zero)
    BY <1>0, <1>a DEF MpsLanes
  <2>3. g \in Mps!Slots /\ mpsPartial[zero] = Mps!DueToSample(g)
    BY <2>1, <2>2, <1>a, MpsThreads DEF MpsLane, MpsDispatched, MpsPartial
  <2>4. MpsTypes'
    <3>1. mpsPartial[zero] \in SUBSET Addends
      BY <1>0, <1>a DEF MpsTypes
    <3>2. mpsGradSample' \in [Mps!Slots -> SUBSET Addends]
      BY <3>1, <2>1, <1>0 DEF MpsTypes
    <3> QED
      BY <3>2, <2>1, <1>0 DEF MpsTypes
  <2>5. ASSUME NEW t \in Mps!Threads
        PROVE  MpsLane(t)'
    <3>1. CASE t # zero
      <4>1. mpsPc'[t] = mpsPc[t] /\ MpsLane(t)
        BY <3>1, <2>1, <1>0 DEF MpsTypes, MpsLanes
      <4> QED
        BY <4>1, <2>1, LaneStands
    <3>2. CASE t = zero
      <4>1. mpsPc'[t] = "done"
        BY <3>2, <2>1, <1>0, <1>a DEF MpsTypes
      <4> QED
        BY <4>1, <3>2, <2>1, <2>2 DEF MpsLane, MpsDispatched, MpsRunning, MpsPartial
    <3> QED
      BY <3>1, <3>2
  <2>6. MpsSums'
    <3>1. \A t \in Mps!Threads : \/ mpsPc'[t] = mpsPc[t]
                                 \/ mpsPc[t] = "store" /\ mpsPc'[t] = "done"
      BY <2>1, <1>0 DEF MpsTypes
    <3>2. \A t \in Mps!Threads : \A c, pixel : Scattered(t, c, pixel)' <=> Scattered(t, c, pixel)
      BY <3>1, <2>1 DEF Scattered
    <3>3. \A slot \in Mps!Slots, c \in 0 .. MpsChannels - 1 : \A pixel :
              Scattered(<<slot, c % Width>>, c, pixel)' <=> Scattered(<<slot, c % Width>>, c, pixel)
      BY <3>2, MpsThreads
    <3>4. ASSUME NEW pixel \in MpsPixels, NEW c \in 0 .. MpsChannels - 1
          PROVE  mpsGradValue'[<<pixel, c>>] =
                     {<<slot, c, "v">> : slot \in {k \in Mps!Slots :
                          pixel \in MpsFootprint[k] /\ Scattered(<<k, c % Width>>, c, pixel)'}}
      <4>1. {k \in Mps!Slots : pixel \in MpsFootprint[k] /\ Scattered(<<k, c % Width>>, c, pixel)'}
              = {k \in Mps!Slots : pixel \in MpsFootprint[k] /\ Scattered(<<k, c % Width>>, c, pixel)}
        BY <3>3
      <4> QED
        BY <4>1, <2>1, <1>0 DEF MpsSums
    <3>5. ASSUME NEW slot \in Mps!Slots
          PROVE  mpsGradSample'[slot] =
                     IF mpsPc'[<<slot, 0>>] = "done" THEN Mps!DueToSample(slot) ELSE {Mps!Garbage}
      <4>1. <<slot, 0>> \in Mps!Threads
        BY MpsThreads
      <4>2. CASE slot = g
        BY <4>2, <2>1, <2>3, <1>0, <1>a DEF MpsTypes
      <4>3. CASE slot # g
        <5>1. <<slot, 0>> # zero
          BY <4>3
        <5>2. mpsPc'[<<slot, 0>>] = mpsPc[<<slot, 0>>] /\ mpsGradSample'[slot] = mpsGradSample[slot]
          BY <5>1, <4>1, <4>3, <2>1, <1>0 DEF MpsTypes
        <5> QED
          BY <5>2, <1>0 DEF MpsSums
      <4> QED
        BY <4>2, <4>3
    <3> QED
      BY <3>4, <3>5 DEF MpsSums, Mps!DueToSample
  <2> QED
    BY <2>1, <2>4, <2>5, <2>6, <1>0 DEF MpsInv, MpsLanes, MpsHosted
<1> QED
  BY <1>1, <1>2 DEF Mps!GroupStep

(* Every step of the MPS pass keeps the invariant. *)
LEMMA MpsInvNext ==
    ASSUME MpsInv, [Mps!Next]_(Mps!vars)
    PROVE  MpsInv'
<1>0. MpsTypes /\ MpsHosted /\ MpsLanes /\ MpsSums
  BY DEF MpsInv
<1>1. CASE \E t \in Mps!Threads : Mps!LaneStep(t)
  <2> PICK t \in Mps!Threads : Mps!LaneStep(t)
    BY <1>1
  <2>1. LaneMoves(t) /\ MpsTypes'
    BY LaneStepMoves
  <2>2. MpsSums'
    BY QuietLane, Exchanged
  <2>3. MpsLanes'
    <3>1. ASSUME NEW u \in Mps!Threads
          PROVE  MpsLane(u)'
      <4>1. CASE u = t
        BY <4>1, LaneKept
      <4>2. CASE u # t
        <5>1. MpsLane(u)
          BY <1>0 DEF MpsLanes
        <5> QED
          BY <5>1, <4>2, <2>1, LaneStands DEF LaneMoves
      <4> QED
        BY <4>1, <4>2
    <3> QED
      BY <3>1 DEF MpsLanes
  <2>4. MpsHosted'
    BY <1>0, <2>1 DEF MpsHosted, LaneMoves
  <2> QED
    BY <2>1, <2>2, <2>3, <2>4 DEF MpsInv
<1>2. CASE UNCHANGED Mps!vars
  <2>1. UNCHANGED <<mpsHost, mpsBegin, mpsPc, mpsChannel, mpsCorners, mpsPartial,
                    mpsGradValue, mpsGradSample>>
    BY <1>2 DEF Mps!vars, Mps!hostVars, Mps!lane, Mps!tensors
  <2>2. MpsTypes' /\ MpsHosted'
    BY <2>1, <1>0 DEF MpsTypes, MpsHosted
  <2>3. \A t \in Mps!Threads : MpsLane(t)'
    BY <2>1, <1>0, LaneStands DEF MpsLanes
  <2>4. \A t, c, pixel : Scattered(t, c, pixel)' <=> Scattered(t, c, pixel)
    BY <2>1 DEF Scattered
  <2>5. MpsSums'
    BY <2>1, <2>4, <1>0, MpsSumsStand
  <2> QED
    BY <2>2, <2>3, <2>5 DEF MpsInv, MpsLanes
<1> QED
  BY <1>1, <1>2, MpsHostStep, MpsGroupStep DEF Mps!Next, Mps!Terminating

(* When the pass is over, everything has reached its cell. *)
LEMMA MpsInvExact == MpsInv => MpsExactWhenOver
<1> USE MpsAssumption
<1> SUFFICES ASSUME MpsInv, mpsHost = "returned", Mps!KernelsDone
             PROVE  /\ Mps!acc = Mps!due
                    /\ \A slot \in Mps!Slots : Mps!Garbage \notin mpsGradSample[slot]
  BY DEF MpsExactWhenOver, Mps!ExactWhenOver
<1>1. ASSUME NEW slot \in Mps!Slots, NEW c \in Nat
      PROVE  mpsPc[<<slot, c % Width>>] = "done"
  <2>1. <<slot, c % Width>> \in Mps!Threads /\ slot < MpsSlots
    BY MpsThreads
  <2>2. MpsDispatched(<<slot, c % Width>>)
    BY <2>1 DEF MpsInv, MpsLanes, MpsLane
  <2> QED
    BY <2>1, <2>2 DEF Mps!KernelsDone, MpsDispatched
<1>2. ASSUME NEW slot \in Mps!Slots
      PROVE  /\ mpsGradSample[slot] = Mps!DueToSample(slot)
             /\ Mps!Garbage \notin mpsGradSample[slot]
  <2>1. mpsPc[<<slot, 0>>] = "done"
    <3>1. 0 % Width = 0
      BY ModSmall
    <3> QED
      BY <3>1, <1>1
  <2>2. mpsGradSample[slot] = Mps!DueToSample(slot)
    BY <2>1 DEF MpsInv, MpsSums
  <2> QED
    BY <2>2 DEF Mps!DueToSample, Mps!Garbage
<1>3. ASSUME NEW cell \in Mps!ValueCells
      PROVE  mpsGradValue[cell] = Mps!DueToValue(cell)
  <2>1. cell[1] \in MpsPixels /\ cell[2] \in 0 .. MpsChannels - 1 /\ cell = <<cell[1], cell[2]>>
    BY DEF Mps!ValueCells
  <2>2. mpsGradValue[cell] =
            {<<slot, cell[2], "v">> : slot \in {k \in Mps!Slots :
                 cell[1] \in MpsFootprint[k] /\ Scattered(<<k, cell[2] % Width>>, cell[2], cell[1])}}
    BY <2>1 DEF MpsInv, MpsSums
  <2>3. \A k \in Mps!Slots : Scattered(<<k, cell[2] % Width>>, cell[2], cell[1])
    BY <1>1, <2>1 DEF Scattered
  <2> QED
    BY <2>2, <2>3 DEF Mps!DueToValue
<1>4. ASSUME NEW cell \in Mps!Cells
      PROVE  Mps!acc[cell] = Mps!due[cell]
  <2>1. \/ cell[1] = "value" /\ cell[2] \in Mps!ValueCells
        \/ cell[1] = "sample" /\ cell[2] \in Mps!Slots
    BY DEF Mps!Cells
  <2>2. cell[1] = "value" => Mps!acc[cell] = mpsGradValue[cell[2]] /\ Mps!due[cell] = Mps!DueToValue(cell[2])
    BY DEF Mps!acc, Mps!due
  <2>3. cell[1] = "sample" => /\ Mps!acc[cell] = mpsGradSample[cell[2]] \ {Mps!Garbage}
                              /\ Mps!due[cell] = Mps!DueToSample(cell[2])
    BY DEF Mps!acc, Mps!due
  <2> QED
    BY <2>1, <2>2, <2>3, <1>2, <1>3
<1>5. Mps!acc = Mps!due
  BY <1>4 DEF Mps!acc, Mps!due
<1> QED
  BY <1>2, <1>5

-----------------------------------------------------------------------------
(* The MPS kernels keep the promise of GradientAccumulation.               *)

(* A pass starts with nothing added, as nothing in the uninitialized       *)
(* tensors has been written.                                               *)
LEMMA MpsStartsEmpty == Mps!Init => Mps!acc = [cell \in DOMAIN Mps!due |-> {}]
<1> SUFFICES ASSUME Mps!Init PROVE Mps!acc = [cell \in DOMAIN Mps!due |-> {}]
  OBVIOUS
<1>1. DOMAIN Mps!due = Mps!Cells
  BY DEF Mps!due
<1>2. \A cell \in Mps!Cells : Mps!acc[cell] = {}
  BY DEF Mps!Init, Mps!acc, Mps!Cells
<1> QED
  BY <1>1, <1>2 DEF Mps!acc

(* A cell holds nothing it is not owed. *)
LEMMA MpsOnlyDue == MpsInv => \A cell \in Mps!Cells : Mps!acc[cell] \subseteq Mps!due[cell]
<1> SUFFICES ASSUME MpsInv, NEW cell \in Mps!Cells PROVE Mps!acc[cell] \subseteq Mps!due[cell]
  OBVIOUS
<1>1. \/ cell[1] = "value" /\ cell[2] \in Mps!ValueCells
      \/ cell[1] = "sample" /\ cell[2] \in Mps!Slots
  BY DEF Mps!Cells
<1>2. CASE cell[1] = "value" /\ cell[2] \in Mps!ValueCells
  <2> DEFINE at == cell[2]
  <2>1. at[1] \in MpsPixels /\ at[2] \in 0 .. MpsChannels - 1 /\ at = <<at[1], at[2]>>
    BY <1>2 DEF Mps!ValueCells
  <2>2. mpsGradValue[at] =
            {<<slot, at[2], "v">> : slot \in {k \in Mps!Slots :
                 at[1] \in MpsFootprint[k] /\ Scattered(<<k, at[2] % Width>>, at[2], at[1])}}
    BY <2>1 DEF MpsInv, MpsSums
  <2>3. mpsGradValue[at] \subseteq Mps!DueToValue(at)
    BY <2>2 DEF Mps!DueToValue
  <2> QED
    BY <2>3, <1>2 DEF Mps!acc, Mps!due
<1>3. CASE cell[1] = "sample" /\ cell[2] \in Mps!Slots
  <2>1. mpsGradSample[cell[2]] \ {Mps!Garbage} \subseteq Mps!DueToSample(cell[2])
    BY <1>3 DEF MpsInv, MpsSums
  <2> QED
    BY <2>1, <1>3 DEF Mps!acc, Mps!due
<1> QED
  BY <1>1, <1>2, <1>3

(* A step adds to cells what they are owed. *)
LEMMA MpsAccumulates ==
    ASSUME MpsInv, [Mps!Next]_(Mps!vars)
    PROVE  /\ Mps!due' = Mps!due
           /\ DOMAIN Mps!acc' = DOMAIN Mps!due
           /\ \A cell \in DOMAIN Mps!due :
                  Mps!acc[cell] \subseteq Mps!acc'[cell] /\ Mps!acc'[cell] \subseteq Mps!due[cell]
<1>1. MpsInv'
  BY MpsInvNext
<1>2. Mps!due' = Mps!due /\ DOMAIN Mps!due = Mps!Cells /\ DOMAIN Mps!acc' = Mps!Cells
  BY DEF Mps!due, Mps!DueToValue, Mps!DueToSample, Mps!acc, Mps!Cells, Mps!ValueCells, Mps!Slots
<1>3. (\A cell \in Mps!Cells : Mps!acc[cell] \subseteq Mps!due[cell])'
  BY <1>1, MpsOnlyDue, PTL
<1>4. \A cell \in Mps!Cells : Mps!acc'[cell] \subseteq Mps!due[cell]
  BY <1>2, <1>3 DEF Mps!Cells, Mps!ValueCells, Mps!Slots
<1>5. /\ \A cell \in Mps!ValueCells : mpsGradValue[cell] \subseteq mpsGradValue'[cell]
      /\ \A slot \in Mps!Slots :
             mpsGradSample[slot] \ {Mps!Garbage} \subseteq mpsGradSample'[slot] \ {Mps!Garbage}
  <2>1. ASSUME NEW t \in Mps!Threads, Mps!Exchange(t)
        PROVE  /\ mpsGradSample' = mpsGradSample
               /\ \A cell \in Mps!ValueCells : mpsGradValue[cell] \subseteq mpsGradValue'[cell]
    BY <2>1 DEF Mps!Exchange, Mps!Plus, MpsInv, MpsTypes
  <2>2. ASSUME NEW g \in Mps!Groups, Mps!StoreSample(g)
        PROVE  /\ mpsGradValue' = mpsGradValue
               /\ \A slot \in Mps!Slots : mpsGradSample[slot] \ {Mps!Garbage} \subseteq mpsGradSample'[slot]
    <3>1. \A slot \in Mps!Slots : slot # g => mpsGradSample'[slot] = mpsGradSample[slot]
      BY <2>2 DEF Mps!StoreSample, MpsInv, MpsTypes
    <3>2. g \in Mps!Slots => mpsGradSample[g] = {Mps!Garbage}
      BY <2>2 DEF Mps!StoreSample, MpsInv, MpsSums
    <3> QED
      BY <3>1, <3>2, <2>2 DEF Mps!StoreSample
  <2>3. ASSUME NEW t \in Mps!Threads, Mps!LaneStep(t), ~Mps!Exchange(t)
        PROVE  UNCHANGED <<mpsGradValue, mpsGradSample>>
    BY <2>3 DEF Mps!LaneStep, Mps!Start, Mps!BeginChannel, Mps!LeaveChannels, Mps!NextChannel,
       Mps!Load, Mps!Retry, Mps!tensors, Mps!lane
  <2>4. ASSUME NEW g \in Mps!Groups, Mps!SimdSum(g)
        PROVE  UNCHANGED <<mpsGradValue, mpsGradSample>>
    BY <2>4 DEF Mps!SimdSum, Mps!tensors
  <2>5. Mps!HostStep \/ UNCHANGED Mps!vars => UNCHANGED <<mpsGradValue, mpsGradSample>>
    BY DEF Mps!HostStep, Mps!Bind, Mps!Dispatch, Mps!Return, Mps!vars, Mps!tensors
  <2>6. CASE UNCHANGED <<mpsGradValue, mpsGradSample>>
    BY <2>6
  <2> QED
    BY <2>1, <2>2, <2>3, <2>4, <2>5, <2>6 DEF Mps!Next, Mps!GroupStep, Mps!Terminating
<1>6. ASSUME NEW cell \in Mps!Cells
      PROVE  Mps!acc[cell] \subseteq Mps!acc'[cell]
  <2>1. \/ cell[1] = "value" /\ cell[2] \in Mps!ValueCells
        \/ cell[1] = "sample" /\ cell[2] \in Mps!Slots
    BY DEF Mps!Cells
  <2>2. Mps!acc[cell] = IF cell[1] = "value" THEN mpsGradValue[cell[2]]
                        ELSE mpsGradSample[cell[2]] \ {Mps!Garbage}
    BY DEF Mps!acc
  <2>3. Mps!acc'[cell] = IF cell[1] = "value" THEN mpsGradValue'[cell[2]]
                         ELSE mpsGradSample'[cell[2]] \ {Mps!Garbage}
    BY DEF Mps!acc, Mps!Cells, Mps!ValueCells, Mps!Slots, Mps!Garbage
  <2> QED
    BY <2>1, <2>2, <2>3, <1>5
<1> QED
  BY <1>2, <1>4, <1>6

-----------------------------------------------------------------------------
(* What the launch has added up so far.                                    *)

Kinds == {"w", "h", "a"}

(* The sampling a thread computes a channel of, and its slots.             *)
SamplingOf(t) == FirstIndex(t) \div launch.channels
SlotAt(t, p) == SamplingOf(t) * LP + p

(* What a thread contributes to the sum over its sampling's channels.      *)
Part(t, p, k) == IF Footprint[SlotAt(t, p)] = {} THEN {} ELSE {<<FirstIndex(t), p, k>>}

(* A lane of a block's scratch, and the gradients of a slot, by kind.      *)
Scratch(b, i, k) ==
    IF k = "a" THEN cacheAttn[b][i] ELSE IF k = "w" THEN cacheLoc[b][2 * i] ELSE cacheLoc[b][2 * i + 1]

Gradient(slot, k) ==
    IF k = "a" THEN gradAttn[slot] ELSE IF k = "w" THEN gradLoc[2 * slot] ELSE gradLoc[2 * slot + 1]

(* The thread has sampled point p; has stored it.                          *)
Sampled(t, p) == p < point[t] \/ (p = point[t] /\ pc[t] \notin {"loop", "sample", "exit"})
Stored(t, p) == p < point[t] \/ (p = point[t] /\ pc[t] \in {"stored", "next"})

(* The thread that stores what t has contributed.                          *)
Leader(t) == IF launch.kernel = "gm" THEN t ELSE <<t[1], 0>>

(* A thread that has work begins and ends with it, short of a bad level.   *)
WorkBounds ==
    \A t \in Threads :
        /\ pc[t] \notin {"loop", "exit"} \/ point[t] > 0 => FirstIndex(t) < launch.n
        /\ pc[t] = "exit" => point[t] = LP \/ BadLevelAt(t) \/ FirstIndex(t) >= launch.n
        /\ launch.checked => point[t] <= launch.badLevel * PointsPerLevel

(* The strides of a reduction, and of those after it.                      *)
Reducing == {"fold", "folded", "store"}
Strides ==
    \A t \in Threads : pc[t] \in Reducing =>
        /\ prevStride[t] > 0
        /\ Tree => stride[t] = prevStride[t] \div 2
        /\ pc[t] \in {"fold", "folded"} => Tree /\ stride[t] > 0
        /\ pc[t] = "store" => stride[t] = 0
        /\ ~Tree => prevStride[t] = launch.blockDim
        /\ launch.kernel = "aware_reduce_v2" => prevStride[t] \in PowersOfTwo
        /\ \A u \in Threads : u[1] = t[1] /\ pc[u] \in Reducing => prevStride[u] = prevStride[t]

(* The lanes of t's block that have not been folded into another one.      *)
Kept(t) ==
    {i \in Lanes :
        /\ i < prevStride[t]
        /\ \A u \in Threads : u[1] = t[1] /\ pc[u] = "folded" /\ u[2] < stride[u] => i \notin FoldSources(u)}

(* Before and in a reduction, the lanes in use hold what the block's       *)
(* threads contribute, nothing twice.                                      *)
BlockSum(b, p, k) == UNION {Part(u, p, k) : u \in BlockThreads(b)}
ScratchSums ==
    \A t \in Threads, k \in Kinds :
        /\ pc[t] = "sampled" => Scratch(t[1], t[2], k) = Part(t, point[t], k)
        /\ pc[t] \in Reducing =>
               /\ \A i, j \in Kept(t) : i # j => Scratch(t[1], i, k) \cap Scratch(t[1], j, k) = {}
               /\ UNION {Scratch(t[1], i, k) : i \in Kept(t)} = BlockSum(t[1], point[t], k)

(* A slot's gradients are what its threads' leaders have stored.           *)
Storers(slot) == {u \in Threads : /\ SamplingOf(u) = slot \div LP
                                  /\ Stored(Leader(u), slot % LP)}
StoredParts(slot, k) ==
    IF Footprint[slot] = {} THEN {} ELSE {<<FirstIndex(t), slot % LP, k>> : t \in Storers(slot)}
SlotSums == \A slot \in Slots, k \in Kinds : Gradient(slot, k) = StoredParts(slot, k)

(* A value cell holds what threads whose corners it is have sampled.       *)
Covers(t, p, i) ==
    /\ i % launch.channels = FirstIndex(t) % launch.channels
    /\ i \div launch.channels \in Footprint[SlotAt(t, p)]
Samplers(i) ==
    {at \in Threads \X (0 .. LP - 1) : Sampled(at[1], at[2]) /\ Covers(at[1], at[2], i)}
ValueSums ==
    \A i \in DOMAIN gradValue :
        gradValue[i] = {<<FirstIndex(at[1]), at[2], "v">> : at \in Samplers(i)}

SumsInv == WorkBounds /\ Strides /\ ScratchSums /\ SlotSums /\ ValueSums

CudaInv == IInv /\ SumsInv

-----------------------------------------------------------------------------
(* Indices, samplings and slots.                                           *)

(* A thread is told by the first index it computes. *)
LEMMA IndexOfThread ==
    ASSUME LaunchType, NEW t \in Threads
    PROVE  /\ FirstIndex(t) \in Nat
           /\ FirstIndex(t) \div launch.blockDim = t[1]
           /\ \A u \in Threads : FirstIndex(u) = FirstIndex(t) => u = t
<1>1. \A u \in Threads : /\ u[1] \in Nat /\ u[2] \in 0 .. launch.blockDim - 1
                         /\ u = <<u[1], u[2]>>
  BY ThreadLane DEF Blocks, Lanes
<1>2. launch.blockDim \in Nat \ {0}
  BY TypeFacts
<1>3. \A u \in Threads : /\ FirstIndex(u) \div launch.blockDim = u[1]
                         /\ FirstIndex(u) % launch.blockDim = u[2]
  BY <1>1, <1>2, DivModOf DEF FirstIndex
<1>4. FirstIndex(t) \in Nat
  BY <1>1, <1>2 DEF FirstIndex
<1> QED
  BY <1>1, <1>3, <1>4

(* The slots of a thread with work are slots, one for each point. *)
LEMMA SlotOfThread ==
    ASSUME LaunchType, NEW t \in Threads, FirstIndex(t) < launch.n, NEW p \in 0 .. LP - 1
    PROVE  /\ SamplingOf(t) \in 0 .. SamplingCount - 1
           /\ SlotAt(t, p) \in Slots /\ SlotAt(t, p) \in Nat
           /\ SlotAt(t, p) \div LP = SamplingOf(t) /\ SlotAt(t, p) % LP = p
<1>1. FirstIndex(t) \in Nat
  BY IndexOfThread
<1>2. launch.channels \in Nat \ {0} /\ launch.n = SamplingCount * launch.channels
  BY TypeFacts
<1>3. LP \in Nat \ {0} /\ SamplingCount \in Nat
  BY LPPositive, SizesAssumption
<1>4. SamplingOf(t) \in 0 .. SamplingCount - 1
  BY <1>1, <1>2, <1>3, DivBelow DEF SamplingOf
<1>5. SlotAt(t, p) \in 0 .. SamplingCount * LP - 1
  BY <1>3, <1>4, PairBelow DEF SlotAt
<1>8. SamplingOf(t) \in Nat /\ p \in 0 .. LP - 1
  BY <1>3, <1>4
<1>6. SlotAt(t, p) \div LP = SamplingOf(t) /\ SlotAt(t, p) % LP = p
  BY <1>3, <1>8, DivModOf DEF SlotAt
<1>7. SamplingCount * LP \in Nat
  BY <1>3
<1> QED
  BY <1>4, <1>5, <1>6, <1>7 DEF Slots

(* A block of a reducing kernel computes channels of one sampling, and, in *)
(* the kernels for one block, all of them.                                 *)
LEMMA BlockSampling ==
    ASSUME LaunchType, launch.kernel # "gm", NEW t \in Threads, NEW u \in Threads
    PROVE  /\ t[1] = u[1] => SamplingOf(t) = SamplingOf(u)
           /\ launch.kernel # "shm_reduce_v2_multi_blocks" => SamplingOf(t) = t[1]
<1>1. PICK c \in ChannelChoices, checked \in BOOLEAN, level \in 0 .. Levels :
          launch = Launch(c, checked, level)
  BY DEF LaunchType
<1> DEFINE b == BlockDim(c)
<1>2. /\ launch.channels = c /\ launch.blockDim = b /\ launch.kernel = KernelFor(c)
  BY <1>1 DEF Launch
<1>3. c \in Nat \ {0} /\ b \in Nat \ {0}
  BY SizesAssumption DEF BlockDim
<1>4. PICK m \in Nat \ {0} : c = b * m /\ (launch.kernel # "shm_reduce_v2_multi_blocks" => m = 1)
  <2>1. CASE c <= MaxThreads
    <3>1. b = c /\ c = b * 1
      BY <2>1, <1>3, SizesAssumption DEF BlockDim
    <3> QED
      BY <3>1
  <2>2. CASE c > MaxThreads /\ c % MaxThreads = 0
    <3>1. b = MaxThreads /\ launch.kernel = "shm_reduce_v2_multi_blocks"
      BY <2>2, <1>2 DEF BlockDim, KernelFor
    <3>2. c \div MaxThreads \in Nat /\ c = (c \div MaxThreads) * MaxThreads + (c % MaxThreads)
      BY <1>3, SizesAssumption, DivModSplit
    <3> DEFINE m == c \div MaxThreads
    <3>3. m \in Nat /\ c = m * MaxThreads + (c % MaxThreads)
      BY <3>2
    <3> HIDE DEF m
    <3>4. c = m * MaxThreads
      BY <3>3, <2>2, SizesAssumption
    <3>5. m # 0 /\ c = MaxThreads * m
      BY <3>3, <3>4, <1>3, SizesAssumption
    <3> QED
      BY <3>1, <3>3, <3>5
  <2>3. CASE c > MaxThreads /\ c % MaxThreads # 0
    BY <2>3, <1>2 DEF KernelFor
  <2> QED
    BY <2>1, <2>2, <2>3, <1>3, SizesAssumption
<1>5. ASSUME NEW v \in Threads
      PROVE  SamplingOf(v) = Quotient(v[1], m)
  <2>1. FirstIndex(v) \in Nat /\ FirstIndex(v) \div b = v[1]
    BY <1>2, IndexOfThread
  <2>2. Quotient(FirstIndex(v), b * m) = Quotient(Quotient(FirstIndex(v), b), m)
    BY <2>1, <1>3, DivDiv
  <2> QED
    BY <2>1, <2>2, <1>2, <1>4 DEF SamplingOf, Quotient
<1>6. t[1] \in Nat
  BY ThreadLane DEF Blocks
<1>7. m = 1 => Quotient(t[1], m) = t[1]
  BY <1>6 DEF Quotient
<1> QED
  BY <1>4, <1>5, <1>7

(* What a thread in the loop adds is its part. *)
LEMMA AddendIsPart ==
    ASSUME IInv, NEW t \in Threads, pc[t] \notin {"loop", "exit"}, NEW k
    PROVE  /\ Addend(t, k) = Part(t, point[t], k)
           /\ gradPtr[t] = SlotAt(t, point[t]) /\ index[t] = FirstIndex(t)
           /\ SlotOf(t) = SlotAt(t, point[t])
BY DEF IInv, LoopInv, SlotPointer, SlotOf, Addend, Inside, Part, SlotAt, SamplingOf

-----------------------------------------------------------------------------
(* Progress through the points.                                            *)

(* The step in which a thread samples its point, and that in which it      *)
(* stores it.                                                              *)
Samples(t) == pc[t] = "sample" /\ pc'[t] # "exit"
Stores(t) == pc[t] = "store" \/ (launch.kernel = "gm" /\ Samples(t))

(* A thread samples and stores at its own point only; no other moves.      *)
LEMMA ThreadProgress ==
    ASSUME IInv, NEW t \in Threads, ThreadStep(t), NEW u \in Threads, NEW p \in 0 .. LP - 1
    PROVE  /\ Sampled(u, p)' <=> Sampled(u, p) \/ (u = t /\ p = point[t] /\ Samples(t))
           /\ Stored(u, p)' <=> Stored(u, p) \/ (u = t /\ p = point[t] /\ Stores(t))
<1>1. /\ \A v \in Threads : v # t => pc'[v] = pc[v] /\ Stays(v)
      /\ Enters(t) \/ Leaves(t) \/ Works(t) \/ Advances(t)
  BY ThreadControl DEF IInv, TypeInv
<1>2. CASE u # t
  BY <1>1, <1>2 DEF Sampled, Stored, Stays
<1>3. CASE u = t
  <2>1. point[t] \in Nat /\ p \in Nat
    BY LPPositive DEF IInv, TypeInv, TypeOK, ThreadType
  <2>2. CASE Enters(t)
    <3>1. point[t] = 0 /\ point'[t] = 0 /\ pc[t] = "loop" /\ pc'[t] = "sample"
      <4>1. index[t] \in Nat /\ launch.n \in Nat
        BY TypeFacts DEF IInv, TypeInv, TypeOK, ThreadType
      <4> QED
        BY <4>1, <2>2 DEF Enters, IInv, LoopInv, LoopHead
    <3> QED
      BY <3>1, <1>3, <2>1 DEF Sampled, Stored, Samples, Stores
  <2>3. CASE Leaves(t)
    BY <2>3, <1>3, <2>1 DEF Leaves, Stays, Sampled, Stored, Samples, Stores
  <2>4. CASE Works(t)
    BY <2>4, <1>3, <2>1 DEF Works, Stays, Sampled, Stored, Samples, Stores
  <2>5. CASE Advances(t)
    BY <2>5, <1>3, <2>1 DEF Advances, Sampled, Stored, Samples, Stores
  <2> QED
    BY <1>1, <2>2, <2>3, <2>4, <2>5
<1> QED
  BY <1>2, <1>3

(* A barrier is no progress. *)
LEMMA SyncProgress ==
    ASSUME IInv, NEW b \in Blocks, Syncthreads(b), NEW u \in Threads, NEW p
    PROVE  (Sampled(u, p)' <=> Sampled(u, p)) /\ (Stored(u, p)' <=> Stored(u, p))
<1>1. /\ Stays(u)
      /\ pc'[u] = pc[u] \/ (pc[u] \in Barriers /\ pc'[u] = AfterSync(u))
  BY SyncControl DEF IInv, TypeInv
<1> QED
  BY <1>1, AfterSyncLabels DEF Sampled, Stored, Stays, Barriers

-----------------------------------------------------------------------------
(* Bounds and strides.                                                     *)

(* Who has work begins with it, and leaves when it is done or reaches a    *)
(* bad level.                                                              *)
LEMMA WorkBoundsStep ==
    ASSUME IInv, WorkBounds, [Next]_vars
    PROVE  WorkBounds'
<1>1. ASSUME NEW t \in Threads, ThreadStep(t)
      PROVE  WorkBounds'
  <2>1. /\ UNCHANGED <<launch, Threads>>
        /\ \A u \in Threads : u # t => pc'[u] = pc[u] /\ Stays(u)
        /\ Enters(t) \/ Leaves(t) \/ Works(t) \/ Advances(t)
    BY <1>1, ThreadControl DEF IInv, TypeInv
  <2>2. /\ index[t] \in Nat /\ launch.n \in Nat /\ point[t] \in Nat /\ FirstIndex(t) \in Nat
        /\ launch.badLevel \in Nat /\ launch.badLevel * PointsPerLevel \in Nat
    <3>1. launch.badLevel \in Nat
      BY SizesAssumption DEF IInv, TypeInv, TypeOK, LaunchType, Launch
    <3> QED
      BY <3>1, TypeFacts, LPPositive, SizesAssumption, IndexOfThread
      DEF IInv, TypeInv, TypeOK, ThreadType
  <2>3. \A u \in Threads : FirstIndex(u)' = FirstIndex(u)
    BY <2>1 DEF FirstIndex
  <2>4. pc[t] = "loop" => \/ point[t] = 0 /\ index[t] = FirstIndex(t)
                          \/ point[t] = LP /\ index[t] >= launch.n
    BY DEF IInv, LoopInv, LoopHead
  <2>5. pc[t] = "next" => ~BadLevelAt(t)
    BY DEF IInv, UniformInv, PastCheck
  <2>6. ASSUME NEW u \in Threads, u # t
        PROVE  BadLevelAt(u)' <=> BadLevelAt(u)
    BY <2>1, <2>6 DEF BadLevelAt, Stays
  <2>7. /\ pc'[t] \notin {"loop", "exit"} \/ point'[t] > 0 => FirstIndex(t) < launch.n
        /\ pc'[t] = "exit" => point'[t] = LP \/ BadLevelAt(t)' \/ FirstIndex(t) >= launch.n
        /\ launch.checked => point'[t] <= launch.badLevel * PointsPerLevel
    <3>1. /\ pc[t] \notin {"loop", "exit"} \/ point[t] > 0 => FirstIndex(t) < launch.n
          /\ launch.checked => point[t] <= launch.badLevel * PointsPerLevel
      BY DEF WorkBounds
    <3>2. CASE Enters(t)
      BY <3>1, <3>2, <2>2, <2>4 DEF Enters
    <3>3. CASE Leaves(t)
      <4>1. BadLevelAt(t)' <=> BadLevelAt(t)
        BY <3>3, <2>1 DEF BadLevelAt, Leaves, Stays
      <4> QED
        BY <3>1, <3>3, <4>1, <2>2, <2>4 DEF Leaves, Stays
    <3>4. CASE Works(t)
      BY <3>1, <3>4 DEF Works, Stays
    <3>5. CASE Advances(t)
      BY <3>1, <3>5, <2>2, <2>5 DEF Advances, BadLevelAt
    <3> QED
      BY <2>1, <3>2, <3>3, <3>4, <3>5
  <2> QED
    BY <2>1, <2>3, <2>6, <2>7 DEF WorkBounds, Stays
<1>2. ASSUME NEW b \in Blocks, Syncthreads(b)
      PROVE  WorkBounds'
  <2>1. /\ UNCHANGED <<launch, Threads>>
        /\ \A u \in Threads : Stays(u)
        /\ \A u \in Threads : \/ pc'[u] = pc[u]
                              \/ pc[u] \in Barriers /\ pc'[u] = AfterSync(u)
    BY <1>2, SyncControl DEF IInv, TypeInv
  <2>2. \A u \in Threads : /\ FirstIndex(u)' = FirstIndex(u)
                           /\ BadLevelAt(u)' <=> BadLevelAt(u)
    BY <2>1 DEF FirstIndex, BadLevelAt, Stays
  <2>3. \A u \in Threads : /\ pc'[u] \in {"loop", "exit"} <=> pc[u] \in {"loop", "exit"}
                           /\ pc'[u] = "exit" <=> pc[u] = "exit"
    BY <2>1, AfterSyncLabels DEF Barriers
  <2> QED
    BY <2>1, <2>2, <2>3 DEF WorkBounds, Stays
<1>3. CASE UNCHANGED vars
  BY <1>3 DEF vars, WorkBounds, BadLevelAt, FirstIndex, Threads, Blocks, Lanes
<1> QED
  BY <1>1, <1>2, <1>3 DEF Next, Terminating

(* Halving a power of two above one gives a power of two. *)
LEMMA HalfPower ==
    ASSUME NEW r \in PowersOfTwo, r \div 2 > 0
    PROVE  r \div 2 \in PowersOfTwo /\ r = 2 * (r \div 2)
BY DEF PowersOfTwo

(* The kernel for powers of two has blocks of a power of two. *)
LEMMA AwareBlock ==
    ASSUME LaunchType, launch.kernel = "aware_reduce_v2"
    PROVE  launch.blockDim \in PowersOfTwo
<1>1. PICK c \in ChannelChoices, checked \in BOOLEAN, level \in 0 .. Levels :
          launch = Launch(c, checked, level)
  BY DEF LaunchType
<1>2. launch.kernel = KernelFor(c) /\ launch.blockDim = BlockDim(c)
  BY <1>1 DEF Launch
<1>3. ~(c > MaxThreads) /\ c \in PowersOfTwo
  BY <1>2 DEF KernelFor
<1> QED
  BY <1>2, <1>3 DEF BlockDim

(* What a barrier does to the strides of the block that opens it. *)
LEMMA SyncStrides ==
    ASSUME IInv, Strides, NEW b \in Blocks, Syncthreads(b), NEW t \in Threads
    PROVE  /\ t[1] # b => prevStride'[t] = prevStride[t] /\ pc'[t] = pc[t] /\ stride'[t] = stride[t]
           /\ t[1] = b => \/ pc[t] = "exit" /\ pc'[t] = "exit"
                          \/ /\ pc[t] \in Barriers /\ pc'[t] = AfterSync(t)
                             /\ prevStride'[t] = NextPrevStride(t) /\ stride'[t] = NextStride(t)
<1>1. CASE t[1] # b
  <2>1. t \notin Live(b)
    BY <1>1 DEF Live, BlockThreads
  <2> QED
    BY <1>1, <2>1 DEF Syncthreads
<1>2. CASE t[1] = b /\ pc[t] = "exit"
  BY <1>2 DEF Syncthreads, AfterSync
<1>3. CASE t[1] = b /\ pc[t] # "exit"
  <2>1. t \in Live(b)
    BY <1>3 DEF Live, BlockThreads
  <2> QED
    BY <1>3, <2>1 DEF Syncthreads
<1> QED
  BY <1>1, <1>2, <1>3

(* The stride a thread has read is the one before its block's.             *)
LEMMA StridesStep ==
    ASSUME IInv, Strides, [Next]_vars
    PROVE  Strides'
<1>0. TypeOK /\ LaunchType /\ SameRegion
  BY DEF IInv, TypeInv, TypeOK
<1>a. /\ prevStride \in [Threads -> 0 .. launch.blockDim]
      /\ launch.blockDim \in Nat \ {0}
  BY <1>0, TypeFacts DEF TypeOK, ThreadType
<1>1. ASSUME NEW t \in Threads, ThreadStep(t)
      PROVE  Strides'
  <2>1. /\ UNCHANGED <<launch, stride, Threads>>
        /\ \A u \in Threads : u # t => pc'[u] = pc[u]
        /\ Enters(t) \/ Leaves(t) \/ Works(t) \/ Advances(t)
    BY <1>0, <1>1, ThreadControl
  <2>2. prevStride' = prevStride
    BY <1>1, ThreadStepCases DEF KernelLoop, ReturnOnBadLevel, SamplePoint, SampleToGlobal,
       SerialStore, Fold, LeaderStore, LeaderAtomicAdd, NextPoint
  <2>3. \A u \in Threads :
            /\ pc'[u] \in Reducing => pc[u] \in Reducing
            /\ pc'[u] = "store" => pc[u] = "store"
            /\ pc'[u] \in {"fold", "folded"} => pc[u] \in {"fold", "folded"}
    BY <2>1 DEF Reducing, Enters, Leaves, Works, Advances
  <2>4. Tree' <=> Tree
    BY <2>1 DEF Tree
  <2> QED
    BY <2>1, <2>2, <2>3, <2>4 DEF Strides
<1>2. ASSUME NEW b \in Blocks, Syncthreads(b)
      PROVE  Strides'
  <2>1. UNCHANGED <<launch, Threads>> /\ (Tree' <=> Tree)
    BY <1>2, SyncControl, <1>0 DEF Tree
  <2>2. ASSUME NEW t \in Threads, t[1] = b, pc'[t] \in Reducing
        PROVE  /\ prevStride'[t] > 0
               /\ Tree => stride'[t] = prevStride'[t] \div 2
               /\ pc'[t] \in {"fold", "folded"} => Tree /\ stride'[t] > 0
               /\ pc'[t] = "store" => stride'[t] = 0
               /\ ~Tree => prevStride'[t] = launch.blockDim
               /\ launch.kernel = "aware_reduce_v2" => prevStride'[t] \in PowersOfTwo
    <3>1. /\ pc[t] \in Barriers /\ pc'[t] = AfterSync(t)
          /\ prevStride'[t] = NextPrevStride(t) /\ stride'[t] = NextStride(t)
      BY <2>2, <1>2, SyncStrides DEF Reducing
    <3>2. CASE pc[t] = "sampled"
      <4>1. /\ prevStride'[t] = launch.blockDim
            /\ stride'[t] = IF Tree THEN launch.blockDim \div 2 ELSE 0
            /\ pc'[t] = IF stride'[t] > 0 THEN "fold" ELSE "store"
        BY <3>1, <3>2 DEF NextPrevStride, NextStride, AfterSync
      <4>2. stride'[t] \in Nat
        BY <4>1, <1>a
      <4> QED
        BY <4>1, <4>2, <1>0, <1>a, AwareBlock
    <3>3. CASE pc[t] = "folded"
      <4>1. /\ prevStride'[t] = prevStride[t] \div 2
            /\ stride'[t] = stride[t] \div 2
            /\ pc'[t] = IF stride'[t] > 0 THEN "fold" ELSE "store"
        BY <3>1, <3>3 DEF NextPrevStride, NextStride, AfterSync
      <4>2. /\ stride[t] = prevStride[t] \div 2 /\ Tree /\ stride[t] > 0
            /\ launch.kernel = "aware_reduce_v2" => prevStride[t] \in PowersOfTwo
        BY <3>3 DEF Strides, Reducing
      <4>3. prevStride[t] \in Nat
        BY <1>a
      <4>4. stride'[t] \in Nat /\ prevStride'[t] = stride[t] /\ stride[t] \in Nat
        BY <4>1, <4>2, <4>3
      <4>5. launch.kernel = "aware_reduce_v2" => prevStride'[t] \in PowersOfTwo
        BY <4>1, <4>2, HalfPower
      <4> QED
        BY <4>1, <4>2, <4>4, <4>5
    <3>4. pc[t] # "stored"
      BY <3>1, <2>2 DEF AfterSync, Reducing
    <3> QED
      BY <3>1, <3>2, <3>3, <3>4 DEF Barriers
  <2>3. ASSUME NEW t \in Threads, NEW u \in Threads, u[1] = t[1], t[1] = b,
               pc'[t] \in Reducing, pc'[u] \in Reducing
        PROVE  prevStride'[u] = prevStride'[t]
    <3>1. /\ pc[t] \in Barriers /\ prevStride'[t] = NextPrevStride(t) /\ pc'[t] = AfterSync(t)
          /\ pc[u] \in Barriers /\ prevStride'[u] = NextPrevStride(u)
      BY <2>3, <1>2, SyncStrides DEF Reducing
    <3>2. pc[t] = pc[u] /\ pc[t] # "stored"
      BY <3>1, <2>3, <1>0, SameBarrier DEF AfterSync, Reducing
    <3>3. pc[t] = "folded" => prevStride[t] = prevStride[u]
      BY <3>2, <2>3 DEF Strides, Reducing
    <3> QED
      BY <3>1, <3>2, <3>3 DEF NextPrevStride, Barriers
  <2>4. ASSUME NEW t \in Threads, t[1] # b
        PROVE  prevStride'[t] = prevStride[t] /\ pc'[t] = pc[t] /\ stride'[t] = stride[t]
    BY <2>4, <1>2, SyncStrides
  <2> QED
    BY <2>1, <2>2, <2>3, <2>4 DEF Strides
<1>3. CASE UNCHANGED vars
  BY <1>3 DEF vars, Strides, Tree, Threads, Blocks, Lanes
<1> QED
  BY <1>1, <1>2, <1>3 DEF Next, Terminating
-----------------------------------------------------------------------------
(* The scratch.                                                            *)

(* What a thread contributes does not change. *)
LEMMA SamePart ==
    ASSUME UNCHANGED launch
    PROVE  /\ \A t : FirstIndex(t)' = FirstIndex(t) /\ SamplingOf(t)' = SamplingOf(t)
           /\ \A t, p : SlotAt(t, p)' = SlotAt(t, p)
           /\ \A t, p, k : Part(t, p, k)' = Part(t, p, k)
           /\ \A b, p, k : BlockSum(b, p, k)' = BlockSum(b, p, k)
           /\ \A t : Leader(t)' = Leader(t)
           /\ \A t, p, i : Covers(t, p, i)' <=> Covers(t, p, i)
BY DEF FirstIndex, SamplingOf, SlotAt, Part, BlockSum, BlockThreads, Threads, Blocks, Lanes,
       Leader, Covers

(* Writing one lane of one block. *)
LEMMA LaneWrite ==
    ASSUME MemoryType, LaunchType, NEW c \in Blocks, NEW x \in Lanes, NEW W, NEW H, NEW A,
           cacheLoc' = [cacheLoc EXCEPT ![c][2 * x] = W, ![c][2 * x + 1] = H],
           cacheAttn' = [cacheAttn EXCEPT ![c][x] = A]
    PROVE  /\ Scratch(c, x, "w")' = W /\ Scratch(c, x, "h")' = H /\ Scratch(c, x, "a")' = A
           /\ \A b \in Blocks, i \in Lanes, k \in Kinds :
                  b # c \/ i # x => Scratch(b, i, k)' = Scratch(b, i, k)
<1>1. \A i \in Lanes : /\ i \in Nat
                       /\ 2 * i \in 0 .. 2 * launch.blockDim - 1
                       /\ 2 * i + 1 \in 0 .. 2 * launch.blockDim - 1
  BY LaneCells DEF Lanes
<1>2. \A i \in Lanes : /\ 2 * i # 2 * x + 1 /\ 2 * i + 1 # 2 * x
                       /\ i # x => 2 * i # 2 * x /\ 2 * i + 1 # 2 * x + 1
  BY <1>1
<1> DEFINE loc == [cacheLoc[c] EXCEPT ![2 * x] = W, ![2 * x + 1] = H]
<1>3. cacheLoc' = [cacheLoc EXCEPT ![c] = loc]
  BY DEF MemoryType
<1>4. loc[2 * x] = W /\ loc[2 * x + 1] = H
  BY <1>1, <1>2 DEF MemoryType
<1>5. \A i \in Lanes : i # x => /\ loc[2 * i] = cacheLoc[c][2 * i]
                                /\ loc[2 * i + 1] = cacheLoc[c][2 * i + 1]
  BY <1>1, <1>2 DEF MemoryType
<1> HIDE DEF loc
<1>6. /\ cacheLoc'[c] = loc
      /\ \A b \in Blocks : b # c => cacheLoc'[b] = cacheLoc[b]
  BY <1>3 DEF MemoryType
<1>7. /\ cacheAttn'[c][x] = A
      /\ \A b \in Blocks, i \in Lanes : b # c \/ i # x => cacheAttn'[b][i] = cacheAttn[b][i]
  BY DEF MemoryType
<1>8. Scratch(c, x, "w")' = W /\ Scratch(c, x, "h")' = H /\ Scratch(c, x, "a")' = A
  BY <1>4, <1>6, <1>7 DEF Scratch
<1>9. ASSUME NEW b \in Blocks, NEW i \in Lanes, NEW k \in Kinds, b # c \/ i # x
      PROVE  Scratch(b, i, k)' = Scratch(b, i, k)
  <2>1. /\ cacheLoc'[b][2 * i] = cacheLoc[b][2 * i]
        /\ cacheLoc'[b][2 * i + 1] = cacheLoc[b][2 * i + 1]
        /\ cacheAttn'[b][i] = cacheAttn[b][i]
    BY <1>5, <1>6, <1>7, <1>9
  <2> QED
    BY <2>1 DEF Scratch
<1> QED
  BY <1>8, <1>9

(* A sum over disjoint lanes is their union. *)
LEMMA LaneUnions ==
    ASSUME LaunchType, NEW b \in Blocks, NEW lanes \in SUBSET Lanes,
           \A i, j \in lanes, k \in Kinds : i # j => Scratch(b, i, k) \cap Scratch(b, j, k) = {}
    PROVE  /\ SumOver(cacheAttn[b], lanes) = UNION {Scratch(b, i, "a") : i \in lanes}
           /\ SumOver(cacheLoc[b], {2 * i : i \in lanes}) = UNION {Scratch(b, i, "w") : i \in lanes}
           /\ SumOver(cacheLoc[b], {2 * i + 1 : i \in lanes})
                  = UNION {Scratch(b, i, "h") : i \in lanes}
<1>1. \A i : /\ Scratch(b, i, "a") = cacheAttn[b][i]
             /\ Scratch(b, i, "w") = cacheLoc[b][2 * i]
             /\ Scratch(b, i, "h") = cacheLoc[b][2 * i + 1]
  BY DEF Scratch
<1>2. \A i, j \in lanes : i # j => /\ cacheAttn[b][i] \cap cacheAttn[b][j] = {}
                                   /\ cacheLoc[b][2 * i] \cap cacheLoc[b][2 * j] = {}
                                   /\ cacheLoc[b][2 * i + 1] \cap cacheLoc[b][2 * j + 1] = {}
  BY <1>1 DEF Kinds
<1> DEFINE evens == {2 * i : i \in lanes}
           odds == {2 * i + 1 : i \in lanes}
<1>3. /\ \A m, n \in evens : m # n => cacheLoc[b][m] \cap cacheLoc[b][n] = {}
      /\ \A m, n \in odds : m # n => cacheLoc[b][m] \cap cacheLoc[b][n] = {}
  BY <1>2
<1>4. /\ UNION {cacheLoc[b][m] : m \in evens} = UNION {cacheLoc[b][2 * i] : i \in lanes}
      /\ UNION {cacheLoc[b][m] : m \in odds} = UNION {cacheLoc[b][2 * i + 1] : i \in lanes}
  OBVIOUS
<1> HIDE DEF evens, odds
<1>5. /\ SumOver(cacheAttn[b], lanes) = UNION {cacheAttn[b][i] : i \in lanes}
      /\ SumOver(cacheLoc[b], evens) = UNION {cacheLoc[b][m] : m \in evens}
      /\ SumOver(cacheLoc[b], odds) = UNION {cacheLoc[b][m] : m \in odds}
  BY <1>2, <1>3 DEF SumOver
<1> QED
  BY <1>1, <1>4, <1>5 DEF evens, odds

(* From f to g, the disjoint lanes S of K are merged into lane x. *)
Merges(K, x, S, f, g) ==
    /\ x \in K /\ S \subseteq K /\ x \notin S
    /\ \A i, j \in K : i # j => f[i] \cap f[j] = {}
    /\ g[x] = UNION {f[i] : i \in {x} \cup S}
    /\ \A i \in K \ S : i # x => g[i] = f[i]

(* Merging lanes into one of them keeps a disjoint union. *)
LEMMA Merging ==
    ASSUME NEW K, NEW x, NEW S, NEW f, NEW g, Merges(K, x, S, f, g)
    PROVE  /\ \A i, j \in K \ S : i # j => g[i] \cap g[j] = {}
           /\ UNION {g[i] : i \in K \ S} = UNION {f[i] : i \in K}
<1> USE DEF Merges
<1>1. ASSUME NEW i \in K \ S, i # x
      PROVE  g[i] \cap g[x] = {}
  BY <1>1
<1>2. UNION {g[i] : i \in K \ S} \subseteq UNION {f[i] : i \in K}
  OBVIOUS
<1>3. ASSUME NEW i \in K, NEW e \in f[i]
      PROVE  e \in UNION {g[j] : j \in K \ S}
  <2>1. CASE i \in {x} \cup S
    <3>1. e \in g[x] /\ x \in K \ S
      BY <1>3, <2>1
    <3> QED
      BY <3>1
  <2>2. CASE i \notin {x} \cup S
    <3>1. e \in g[i] /\ i \in K \ S
      BY <1>3, <2>2
    <3> QED
      BY <3>1
  <2> QED
    BY <2>1, <2>2
<1> QED
  BY <1>1, <1>2, <1>3

(* The threads of a block that reduce have the same lanes left. *)
LEMMA SameKept ==
    ASSUME IInv, Strides, NEW t \in Threads, NEW u \in Threads, t[1] = u[1],
           pc[t] \in Reducing, pc[u] \in Reducing
    PROVE  Kept(t) = Kept(u) /\ point[t] = point[u] /\ stride[t] = stride[u]
<1>1. prevStride[t] = prevStride[u]
  BY DEF Strides
<1>2. launch.kernel # "gm"
  BY DEF IInv, UniformInv, GmLabels, Reducing
<1>3. point[t] = point[u]
  BY <1>2 DEF IInv, UniformInv, SameTarget, Target, Reducing
<1>4. stride[t] = stride[u]
  BY DEF IInv, SameRegion, Reducing
<1> QED
  BY <1>1, <1>3, <1>4 DEF Kept

(* A thread folds lanes that are left, into its own. *)
LEMMA FoldKept ==
    ASSUME IInv, Strides, NEW t \in Threads, pc[t] = "fold", t[2] < stride[t]
    PROVE  /\ {t[2]} \cup FoldSources(t) \subseteq Kept(t)
           /\ t[2] \notin FoldSources(t)
<1>1. /\ t[2] \in Nat /\ stride[t] \in Nat /\ prevStride[t] \in Nat
      /\ \A u \in Threads : u[2] \in Nat
  BY ThreadLane, TypeFacts DEF Lanes, IInv, TypeInv, TypeOK, ThreadType
<1>2. stride[t] = prevStride[t] \div 2 /\ stride[t] > 0
  BY DEF Strides, Reducing
<1>3. {t[2]} \cup FoldSources(t) \subseteq Lanes
  BY FoldLanes DEF IInv, TypeInv, TypeOK
<1>4. ASSUME NEW i \in {t[2]} \cup FoldSources(t)
      PROVE  i < prevStride[t]
  BY <1>1, <1>2, <1>4 DEF FoldSources
<1>5. ASSUME NEW u \in Threads, u[1] = t[1], pc[u] = "folded", u[2] < stride[u],
             NEW i \in {t[2]} \cup FoldSources(t)
      PROVE  i \notin FoldSources(u)
  <2>1. stride[u] = stride[t]
    BY <1>5 DEF IInv, SameRegion
  <2>2. u[2] # t[2]
    BY <1>5, OtherLane
  <2> QED
    BY <1>1, <1>2, <1>5, <2>1, <2>2 DEF FoldSources
<1>6. t[2] \notin FoldSources(t)
  BY <1>1, <1>2 DEF FoldSources
<1> QED
  BY <1>3, <1>4, <1>5, <1>6 DEF Kept

(* The conjuncts of ScratchSums about one thread. *)
ScratchSum(t) ==
    \A k \in Kinds :
        /\ pc[t] = "sampled" => Scratch(t[1], t[2], k) = Part(t, point[t], k)
        /\ pc[t] \in Reducing =>
               /\ \A i, j \in Kept(t) : i # j => Scratch(t[1], i, k) \cap Scratch(t[1], j, k) = {}
               /\ UNION {Scratch(t[1], i, k) : i \in Kept(t)} = BlockSum(t[1], point[t], k)

(* A fold moves the sums of the lanes it reads into the lane it writes. *)
LEMMA FoldWrites ==
    ASSUME IInv, Strides, ScratchSums, NEW t \in Threads, Fold(t), t[2] < stride[t]
    PROVE  /\ \A k \in Kinds : Scratch(t[1], t[2], k)'
                                   = UNION {Scratch(t[1], i, k) : i \in {t[2]} \cup FoldSources(t)}
           /\ \A b \in Blocks, i \in Lanes, k \in Kinds :
                  b # t[1] \/ i # t[2] => Scratch(b, i, k)' = Scratch(b, i, k)
<1> DEFINE lanes == {t[2]} \cup FoldSources(t)
           sumW == SumOver(cacheLoc[t[1]], {2 * i : i \in lanes})
           sumH == SumOver(cacheLoc[t[1]], {2 * i + 1 : i \in lanes})
           sumA == SumOver(cacheAttn[t[1]], lanes)
<1>1. pc[t] = "fold"
  BY DEF Fold
<1>2. /\ cacheLoc' = [cacheLoc EXCEPT ![t[1]][2 * t[2]] = sumW, ![t[1]][2 * t[2] + 1] = sumH]
      /\ cacheAttn' = [cacheAttn EXCEPT ![t[1]][t[2]] = sumA]
  BY DEF Fold
<1>3. t[1] \in Blocks /\ t[2] \in Lanes /\ LaunchType /\ MemoryType
  BY ThreadLane DEF IInv, TypeInv, TypeOK
<1>4. lanes \in SUBSET Lanes /\ lanes \subseteq Kept(t)
  BY <1>1, FoldKept DEF Kept
<1>5. \A i, j \in lanes, k \in Kinds : i # j => Scratch(t[1], i, k) \cap Scratch(t[1], j, k) = {}
  BY <1>1, <1>4 DEF ScratchSums, Reducing
<1> HIDE DEF lanes
<1>6. /\ sumA = UNION {Scratch(t[1], i, "a") : i \in lanes}
      /\ sumW = UNION {Scratch(t[1], i, "w") : i \in lanes}
      /\ sumH = UNION {Scratch(t[1], i, "h") : i \in lanes}
  BY <1>3, <1>4, <1>5, LaneUnions
<1> HIDE DEF sumA, sumW, sumH
<1>7. /\ Scratch(t[1], t[2], "w")' = sumW
      /\ Scratch(t[1], t[2], "h")' = sumH
      /\ Scratch(t[1], t[2], "a")' = sumA
      /\ \A b \in Blocks, i \in Lanes, k \in Kinds :
                  b # t[1] \/ i # t[2] => Scratch(b, i, k)' = Scratch(b, i, k)
  BY <1>2, <1>3, LaneWrite
<1>8. \A k \in Kinds : Scratch(t[1], t[2], k)' = UNION {Scratch(t[1], i, k) : i \in lanes}
  BY <1>6, <1>7 DEF Kinds
<1> QED
  BY <1>7, <1>8 DEF lanes

(* A fold keeps the sums of its block. *)
LEMMA ScratchFold ==
    ASSUME IInv, Strides, ScratchSums, NEW t \in Threads, ThreadStep(t), Fold(t)
    PROVE  ScratchSums'
<1>1. /\ UNCHANGED <<launch, point, stride, prevStride, Threads, Blocks, Lanes>>
      /\ pc[t] = "fold" /\ pc'[t] = "folded"
      /\ \A u \in Threads : u # t => pc'[u] = pc[u]
  BY SameThreads DEF Fold, IInv, TypeInv, TypeOK, ThreadType
<1>2. /\ \A u, p, k : Part(u, p, k)' = Part(u, p, k)
      /\ \A b, p, k : BlockSum(b, p, k)' = BlockSum(b, p, k)
  BY <1>1, SamePart
<1>3. \A u : FoldSources(u)' = FoldSources(u)
  BY <1>1 DEF FoldSources
<1>4. \A u \in Threads : u[1] \in Blocks /\ u[2] \in Lanes
  BY ThreadLane
<1>5. \A u \in Threads : u[1] = t[1] => pc[u] # "sampled"
  BY <1>1 DEF IInv, SameRegion, Region
<1>6. \A u \in Threads : u[1] # t[1] => Kept(u)' = Kept(u)
  BY <1>1, <1>3 DEF Kept
<1>7. \A u \in Threads : /\ pc'[u] \in Reducing <=> pc[u] \in Reducing
                         /\ pc'[u] = "sampled" <=> pc[u] = "sampled"
  BY <1>1 DEF Reducing
<1>8. ASSUME NEW u \in Threads
      PROVE  Kept(u) \subseteq Lanes /\ (Kept(u) \subseteq Lanes)'
  BY DEF Kept
<1>9. CASE ~(t[2] < stride[t])
  <2>1. UNCHANGED caches
    BY <1>9 DEF Fold
  <2>2. \A b, i, k : Scratch(b, i, k)' = Scratch(b, i, k)
    BY <2>1 DEF Scratch, caches
  <2>3. \A u \in Threads : Kept(u)' = Kept(u)
    BY <1>1, <1>3, <1>9 DEF Kept
  <2> QED
    BY <1>1, <1>2, <1>7, <2>2, <2>3 DEF ScratchSums
<1>10. CASE t[2] < stride[t]
  <2>1. /\ \A k \in Kinds : Scratch(t[1], t[2], k)'
                                = UNION {Scratch(t[1], i, k) : i \in {t[2]} \cup FoldSources(t)}
        /\ \A b \in Blocks, i \in Lanes, k \in Kinds :
               b # t[1] \/ i # t[2] => Scratch(b, i, k)' = Scratch(b, i, k)
    BY <1>10, FoldWrites
  <2>2. ASSUME NEW u \in Threads, u[1] # t[1]
        PROVE  ScratchSum(u)'
    <3>1. \A i \in Lanes, k \in Kinds : Scratch(u[1], i, k)' = Scratch(u[1], i, k)
      BY <2>1, <2>2, <1>4
    <3> QED
      BY <1>1, <1>2, <1>4, <1>6, <1>7, <1>8, <2>2, <3>1 DEF ScratchSums, ScratchSum
  <2>3. ASSUME NEW u \in Threads, u[1] = t[1], pc[u] \in Reducing
        PROVE  ScratchSum(u)'
    <3>1. Kept(u) = Kept(t)
      BY <2>3, <1>1, SameKept DEF Reducing
    <3>2. Kept(u)' = Kept(t) \ FoldSources(t)
      BY <1>1, <1>3, <1>10, <2>3, <3>1 DEF Kept
    <3>3. {t[2]} \cup FoldSources(t) \subseteq Kept(t) /\ t[2] \notin FoldSources(t)
      BY <1>1, <1>10, FoldKept
    <3>4. Kept(t) \subseteq Lanes
      BY <1>8
    <3>5. ASSUME NEW k \in Kinds
          PROVE  /\ \A i, j \in Kept(u)' :
                        i # j => Scratch(u[1], i, k)' \cap Scratch(u[1], j, k)' = {}
                 /\ UNION {Scratch(u[1], i, k)' : i \in Kept(u)'} = BlockSum(u[1], point[u], k)
      <4> DEFINE K == Kept(t)
                 S == FoldSources(t)
                 x == t[2]
                 f == [i \in K |-> Scratch(t[1], i, k)]
                 g == [i \in K |-> Scratch(t[1], i, k)']
      <4>1. \A i, j \in K : i # j => f[i] \cap f[j] = {}
        BY <1>1 DEF ScratchSums, Reducing
      <4>2. g[x] = UNION {f[i] : i \in {x} \cup S}
        <5>1. \A i \in {x} \cup S : f[i] = Scratch(t[1], i, k)
          BY <3>3
        <5>2. {f[i] : i \in {x} \cup S} = {Scratch(t[1], i, k) : i \in {x} \cup S}
          BY <5>1
        <5> QED
          BY <2>1, <3>3, <5>2
      <4>3. \A i \in K \ S : i # x => g[i] = f[i]
        BY <2>1, <3>4, <1>4
      <4>4. /\ UNION {f[i] : i \in K} = BlockSum(t[1], point[t], k)
            /\ point[u] = point[t]
        <5>1. UNION {Scratch(t[1], i, k) : i \in K} = BlockSum(t[1], point[t], k)
          BY <1>1 DEF ScratchSums, Reducing
        <5>2. point[u] = point[t]
          BY <2>3, <1>1, SameKept DEF Reducing
        <5> QED
          BY <5>1, <5>2
      <4>5. \A i \in K : g[i] = Scratch(u[1], i, k)'
        BY <2>3
      <4>6. x \in K /\ S \in SUBSET K /\ x \notin S
        BY <3>3
      <4> HIDE DEF f, g, K, S, x
      <4>7. /\ \A i, j \in K \ S : i # j => g[i] \cap g[j] = {}
            /\ UNION {g[i] : i \in K \ S} = UNION {f[i] : i \in K}
        <5>1. Merges(K, x, S, f, g)
          BY <4>1, <4>2, <4>3, <4>6 DEF Merges
        <5> QED
          BY <5>1, Merging
      <4>8. Kept(u)' = K \ S
        BY <3>2 DEF K, S
      <4> QED
        BY <2>3, <4>4, <4>5, <4>7, <4>8
    <3>6. pc'[u] # "sampled"
      BY <1>5, <1>7, <2>3
    <3> QED
      BY <1>1, <1>2, <3>5, <3>6 DEF ScratchSum
  <2>4. ASSUME NEW u \in Threads, u[1] = t[1], pc[u] \notin Reducing
        PROVE  ScratchSum(u)'
    BY <1>5, <1>7, <2>4 DEF ScratchSum
  <2>5. \A u \in Threads : ScratchSum(u)'
    BY <2>2, <2>3, <2>4
  <2> QED
    BY <1>1, <2>5 DEF ScratchSums, ScratchSum
<1> QED
  BY <1>9, <1>10

(* Sampling puts the thread's part into its own lane. *)
LEMMA ScratchSample ==
    ASSUME IInv, Strides, ScratchSums, NEW t \in Threads, ThreadStep(t), SamplePoint(t)
    PROVE  ScratchSums'
<1>1. /\ UNCHANGED <<launch, point, stride, prevStride, Threads, Blocks, Lanes>>
      /\ pc[t] = "sample" /\ pc'[t] = "sampled"
      /\ \A u \in Threads : u # t => pc'[u] = pc[u]
  BY SameThreads DEF SamplePoint, IInv, TypeInv, TypeOK, ThreadType
<1>2. /\ \A u, p, k : Part(u, p, k)' = Part(u, p, k)
      /\ \A b, p, k : BlockSum(b, p, k)' = BlockSum(b, p, k)
  BY <1>1, SamePart
<1>3. \A u : FoldSources(u)' = FoldSources(u)
  BY <1>1 DEF FoldSources
<1>4. \A u \in Threads : u[1] \in Blocks /\ u[2] \in Lanes
  BY ThreadLane
<1>5. \A k : Addend(t, k) = Part(t, point[t], k)
  BY <1>1, AddendIsPart
<1>6. /\ \A k \in Kinds : Scratch(t[1], t[2], k)' = Part(t, point[t], k)
      /\ \A b \in Blocks, i \in Lanes, k \in Kinds :
             b # t[1] \/ i # t[2] => Scratch(b, i, k)' = Scratch(b, i, k)
  <2> DEFINE W == Addend(t, "w")
             H == Addend(t, "h")
             A == Addend(t, "a")
  <2>1. /\ cacheLoc' = [cacheLoc EXCEPT ![t[1]][2 * t[2]] = W, ![t[1]][2 * t[2] + 1] = H]
        /\ cacheAttn' = [cacheAttn EXCEPT ![t[1]][t[2]] = A]
    BY DEF SamplePoint
  <2>2. MemoryType /\ LaunchType
    BY DEF IInv, TypeInv, TypeOK
  <2> HIDE DEF W, H, A
  <2>3. /\ Scratch(t[1], t[2], "w")' = W
        /\ Scratch(t[1], t[2], "h")' = H
        /\ Scratch(t[1], t[2], "a")' = A
        /\ \A b \in Blocks, i \in Lanes, k \in Kinds :
               b # t[1] \/ i # t[2] => Scratch(b, i, k)' = Scratch(b, i, k)
    BY <1>4, <2>1, <2>2, LaneWrite
  <2>4. \A k \in Kinds : Scratch(t[1], t[2], k)' = Addend(t, k)
    BY <2>3 DEF Kinds, W, H, A
  <2> QED
    BY <2>3, <2>4, <1>5
<1>7. \A u \in Threads : u[1] = t[1] => pc[u] \notin Reducing
  BY <1>1 DEF IInv, SameRegion, Region, Reducing
<1>8. ASSUME NEW u \in Threads, u # t
      PROVE  ScratchSum(u)'
  <2>1. u[1] # t[1] \/ u[2] # t[2]
    BY <1>8, OtherLane
  <2>2. \A k \in Kinds : Scratch(u[1], u[2], k)' = Scratch(u[1], u[2], k)
    BY <1>4, <1>6, <2>1
  <2>3. CASE pc[u] \in Reducing
    <3>1. u[1] # t[1]
      BY <1>7, <2>3
    <3>2. Kept(u)' = Kept(u) /\ Kept(u) \subseteq Lanes
      BY <1>1, <1>3, <3>1 DEF Kept
    <3>3. \A i \in Lanes, k \in Kinds : Scratch(u[1], i, k)' = Scratch(u[1], i, k)
      BY <1>4, <1>6, <3>1
    <3> QED
      BY <1>1, <1>2, <1>8, <2>2, <3>2, <3>3 DEF ScratchSums, ScratchSum
  <2>4. CASE pc[u] \notin Reducing
    BY <1>1, <1>2, <1>8, <2>2, <2>4 DEF ScratchSums, ScratchSum
  <2> QED
    BY <2>3, <2>4
<1>9. ScratchSum(t)'
  BY <1>1, <1>2, <1>6 DEF ScratchSum, Reducing
<1>10. \A u \in Threads : ScratchSum(u)'
  BY <1>8, <1>9
<1> QED
  BY <1>1, <1>10 DEF ScratchSums, ScratchSum

(* The other steps of a thread leave the scratch alone. *)
LEMMA ScratchOther ==
    ASSUME IInv, ScratchSums, NEW t \in Threads, ThreadStep(t),
           pc[t] \notin {"fold", "folded"}, UNCHANGED <<prevStride, cacheLoc, cacheAttn>>,
           pc'[t] # "sampled"
    PROVE  ScratchSums'
<1>1. /\ UNCHANGED <<launch, stride, Threads, Blocks, Lanes>>
      /\ \A u \in Threads : u # t => pc'[u] = pc[u] /\ point'[u] = point[u]
      /\ pc'[t] \notin Reducing
  BY ThreadControl DEF Enters, Leaves, Works, Advances, Stays, Reducing, IInv, TypeInv
<1>2. /\ \A u, p, k : Part(u, p, k)' = Part(u, p, k)
      /\ \A b, p, k : BlockSum(b, p, k)' = BlockSum(b, p, k)
  BY <1>1, SamePart
<1>3. \A u : FoldSources(u)' = FoldSources(u)
  BY <1>1 DEF FoldSources
<1>4. \A b, i, k : Scratch(b, i, k)' = Scratch(b, i, k)
  BY DEF Scratch
<1>5. \A u \in Threads : pc'[u] = "folded" <=> pc[u] = "folded"
  BY <1>1 DEF Reducing
<1>6. \A u \in Threads : Kept(u)' = Kept(u)
  BY <1>1, <1>3, <1>5 DEF Kept
<1>7. ASSUME NEW u \in Threads, u # t
      PROVE  ScratchSum(u)'
  BY <1>1, <1>2, <1>4, <1>6, <1>7 DEF ScratchSums, ScratchSum
<1>8. ScratchSum(t)'
  BY <1>1 DEF ScratchSum
<1>9. \A u \in Threads : ScratchSum(u)'
  BY <1>7, <1>8
<1> QED
  BY <1>1, <1>9 DEF ScratchSums, ScratchSum

(* When a block has folded, the lanes below the stride are left. *)
LEMMA FoldedKept ==
    ASSUME IInv, Strides, NEW t \in Threads, pc[t] = "folded",
           \A u \in Threads : u[1] = t[1] => pc[u] = "folded"
    PROVE  Kept(t) = {i \in Lanes : i < stride[t]}
<1> DEFINE s == stride[t]
           r == prevStride[t]
<1>1. /\ s \in Nat /\ r \in Nat /\ launch.blockDim \in Nat /\ r <= launch.blockDim
      /\ \A u \in Threads : u[2] \in Nat
  BY ThreadLane, TypeFacts DEF Lanes, IInv, TypeInv, TypeOK, ThreadType
<1>2. /\ s = r \div 2 /\ s > 0
      /\ launch.kernel = "aware_reduce_v2" => r \in PowersOfTwo
  BY DEF Strides, Reducing
<1>3. launch.kernel = "aware_reduce_v2" => r = 2 * s
  BY <1>2, HalfPower
<1>4. ASSUME NEW u \in Threads, u[1] = t[1]
      PROVE  pc[u] = "folded" /\ stride[u] = s /\ prevStride[u] = r
  BY <1>4 DEF IInv, SameRegion, Strides, Reducing
<1>5. ASSUME NEW i \in Lanes, i < s
      PROVE  i \in Kept(t)
  <2>1. i < r
    BY <1>1, <1>2, <1>5 DEF Lanes
  <2>2. ASSUME NEW u \in Threads, u[1] = t[1]
        PROVE  i \notin FoldSources(u)
    <3>1. stride[u] = s
      BY <1>4, <2>2
    <3> HIDE DEF s
    <3> QED
      BY <1>1, <1>5, <3>1 DEF FoldSources, Lanes
  <2> QED
    BY <2>1, <2>2 DEF Kept
<1>6. ASSUME NEW i \in Kept(t), ~(i < s)
      PROVE  FALSE
  <2>1. i \in Nat /\ i \in Lanes /\ i < r
    BY DEF Kept, Lanes
  <2>2. i - s \in Lanes /\ 0 \in Lanes
    BY <1>1, <1>6, <2>1 DEF Lanes
  <2>3. \A x \in Lanes : <<t[1], x>> \in Threads
    BY ThreadLane DEF Threads
  <2>4. \A x \in Lanes : x < s => i \notin FoldSources(<<t[1], x>>)
    <3> SUFFICES ASSUME NEW x \in Lanes, x < s
                 PROVE  i \notin FoldSources(<<t[1], x>>)
      OBVIOUS
    <3>1. <<t[1], x>> \in Threads /\ <<t[1], x>>[1] = t[1] /\ <<t[1], x>>[2] = x
      BY <2>3
    <3>2. pc[<<t[1], x>>] = "folded" /\ stride[<<t[1], x>>] = s
      BY <1>4, <3>1
    <3> QED
      BY <3>1, <3>2 DEF Kept
  <2>5. CASE i - s < s
    <3> DEFINE u == <<t[1], i - s>>
    <3>1. u \in Threads /\ u[1] = t[1] /\ u[2] = i - s
      BY <2>2, <2>3
    <3>2. stride[u] = s
      BY <1>4, <3>1
    <3>3. i \notin FoldSources(u)
      BY <2>2, <2>4, <2>5
    <3> HIDE DEF u, s
    <3>4. u[2] + stride[u] = i
      BY <1>1, <2>1, <3>1, <3>2
    <3> QED
      BY <3>3, <3>4 DEF FoldSources
  <2>6. CASE ~(i - s < s)
    <3> DEFINE u == <<t[1], 0>>
    <3>1. u \in Threads /\ u[1] = t[1] /\ u[2] = 0
      BY <2>2, <2>3
    <3>2. stride[u] = s /\ prevStride[u] = r
      BY <1>4, <3>1
    <3>3. i \notin FoldSources(u)
      BY <1>1, <1>2, <2>2, <2>4
    <3>4. i = 2 * s /\ launch.kernel # "aware_reduce_v2"
      BY <1>1, <1>2, <1>3, <2>1, <2>6
    <3> HIDE DEF u, s, r
    <3>5. u[2] + 2 * stride[u] = i /\ i < prevStride[u]
      BY <1>1, <2>1, <3>1, <3>2, <3>4
    <3> QED
      BY <3>3, <3>4, <3>5 DEF FoldSources
  <2> QED
    BY <2>5, <2>6
<1>7. Kept(t) \subseteq Lanes
  BY DEF Kept
<1> QED
  BY <1>5, <1>6, <1>7

(* A waiting block waits at one barrier. *)
LEMMA BlockWaits ==
    ASSUME IInv, NEW b \in Blocks, Syncthreads(b), NEW t \in Threads, t[1] = b, pc[t] # "exit",
           NEW u \in Threads, u[1] = b
    PROVE  pc[u] = pc[t] /\ pc[t] \in Barriers /\ pc[u] # "exit"
<1>1. pc[t] \in Barriers
  BY SyncControl DEF IInv, TypeInv, Syncthreads, Live, BlockThreads
<1>2. pc[u] # "exit"
  BY <1>1, NobodyLeft DEF IInv
<1>3. pc[u] \in Barriers
  BY <1>2 DEF Syncthreads, Live, BlockThreads
<1> QED
  BY <1>1, <1>2, <1>3, SameBarrier DEF IInv

(* After sampling, the lanes of a block are its threads' parts. *)
LEMMA SampledBlock ==
    ASSUME IInv, ScratchSums, NEW b \in Blocks, NEW p, NEW k \in Kinds,
           \A u \in Threads : u[1] = b => pc[u] = "sampled" /\ point[u] = p
    PROVE  /\ \A i, j \in Lanes : i # j => Scratch(b, i, k) \cap Scratch(b, j, k) = {}
           /\ UNION {Scratch(b, i, k) : i \in Lanes} = BlockSum(b, p, k)
<1>1. \A i \in Lanes : /\ <<b, i>> \in Threads /\ <<b, i>> \in BlockThreads(b)
                       /\ Scratch(b, i, k) = Part(<<b, i>>, p, k)
  <2> SUFFICES ASSUME NEW i \in Lanes
               PROVE  /\ <<b, i>> \in Threads /\ <<b, i>> \in BlockThreads(b)
                      /\ Scratch(b, i, k) = Part(<<b, i>>, p, k)
    OBVIOUS
  <2> DEFINE u == <<b, i>>
  <2>1. u \in Threads /\ u[1] = b /\ u[2] = i
    BY DEF Threads
  <2>2. pc[u] = "sampled" /\ point[u] = p
    BY <2>1
  <2>3. Scratch(u[1], u[2], k) = Part(u, point[u], k)
    BY <2>1, <2>2 DEF ScratchSums
  <2> QED
    BY <2>1, <2>2, <2>3 DEF BlockThreads
<1>2. \A u \in BlockThreads(b) : u = <<b, u[2]>> /\ u[2] \in Lanes
  BY ThreadLane DEF BlockThreads
<1>3. ASSUME NEW i \in Lanes, NEW j \in Lanes, i # j
      PROVE  Scratch(b, i, k) \cap Scratch(b, j, k) = {}
  <2>1. <<b, i>> # <<b, j>>
    BY <1>3
  <2>2. FirstIndex(<<b, i>>) # FirstIndex(<<b, j>>)
    BY <1>1, <2>1, IndexOfThread DEF IInv, TypeInv, TypeOK
  <2>3. Part(<<b, i>>, p, k) \cap Part(<<b, j>>, p, k) = {}
    BY <2>2 DEF Part
  <2> QED
    BY <1>1, <2>3
<1>4. UNION {Scratch(b, i, k) : i \in Lanes} = UNION {Part(<<b, i>>, p, k) : i \in Lanes}
  BY <1>1
<1>5. UNION {Part(<<b, i>>, p, k) : i \in Lanes} = BlockSum(b, p, k)
  BY <1>1, <1>2 DEF BlockSum
<1> QED
  BY <1>3, <1>4, <1>5

(* A barrier starts or continues the reduction of its block. *)
LEMMA ScratchSync ==
    ASSUME IInv, Strides, ScratchSums, NEW b \in Blocks, Syncthreads(b)
    PROVE  ScratchSums'
<1>1. /\ UNCHANGED <<launch, Threads, Blocks, Lanes, point>>
      /\ \A v, i, k : Scratch(v, i, k)' = Scratch(v, i, k)
  BY SyncControl DEF Syncthreads, caches, Scratch, IInv, TypeInv
<1>2. /\ \A u, p, k : Part(u, p, k)' = Part(u, p, k)
      /\ \A v, p, k : BlockSum(v, p, k)' = BlockSum(v, p, k)
  BY <1>1, SamePart
<1>3. LaunchType /\ launch.blockDim \in Nat
  BY TypeFacts DEF IInv, TypeInv, TypeOK
<1>4. ASSUME NEW u \in Threads, u[1] # b
      PROVE  ScratchSum(u)'
  <2>1. \A w \in Threads : w[1] # b =>
            prevStride'[w] = prevStride[w] /\ pc'[w] = pc[w] /\ stride'[w] = stride[w]
    BY SyncStrides
  <2>2. \A w \in Threads : w[1] # b => FoldSources(w)' = FoldSources(w)
    BY <1>1, <2>1 DEF FoldSources
  <2>3. Kept(u)' = Kept(u)
    BY <1>1, <1>4, <2>1, <2>2 DEF Kept
  <2> QED
    BY <1>1, <1>2, <1>4, <2>1, <2>3 DEF ScratchSums, ScratchSum
<1>5. ASSUME NEW u \in Threads, u[1] = b
      PROVE  ScratchSum(u)'
  <2>1. CASE pc[u] = "exit"
    <3>1. pc'[u] = "exit"
      BY <1>5, <2>1, SyncStrides DEF Barriers
    <3> QED
      BY <3>1 DEF ScratchSum, Reducing
  <2>2. CASE pc[u] # "exit"
    <3>1. /\ pc[u] \in Barriers
          /\ \A w \in Threads : w[1] = b => pc[w] = pc[u]
      BY <1>5, <2>2, BlockWaits
    <3>2. \A w \in Threads : w[1] = b =>
              /\ pc'[w] = AfterSync(w)
              /\ prevStride'[w] = NextPrevStride(w) /\ stride'[w] = NextStride(w)
      BY <3>1, SyncStrides DEF Barriers
    <3>3. \A w \in Threads : w[1] = b => pc'[w] \in {"next", "fold", "store"}
      BY <3>1, <3>2, AfterSyncLabels
    <3>4. Kept(u)' = {i \in Lanes : i < prevStride'[u]}
      BY <1>1, <1>5, <3>3 DEF Kept
    <3>5. CASE pc[u] = "stored"
      <4>1. pc'[u] = "next"
        BY <1>5, <3>2, <3>5 DEF AfterSync
      <4> QED
        BY <4>1 DEF ScratchSum, Reducing
    <3>6. CASE pc[u] = "sampled"
      <4>1. prevStride'[u] = launch.blockDim
        BY <1>5, <3>2, <3>6 DEF NextPrevStride
      <4>2. Kept(u)' = Lanes
        BY <1>3, <3>4, <4>1 DEF Lanes
      <4>3. launch.kernel # "gm"
        BY <3>6 DEF IInv, UniformInv, GmLabels
      <4>4. \A w \in Threads : w[1] = b => pc[w] = "sampled" /\ point[w] = point[u]
        BY <1>5, <3>1, <3>6, <4>3 DEF IInv, UniformInv, SameTarget, Target
      <4>5. \A k \in Kinds :
                /\ \A i, j \in Lanes : i # j => Scratch(b, i, k) \cap Scratch(b, j, k) = {}
                /\ UNION {Scratch(b, i, k) : i \in Lanes} = BlockSum(b, point[u], k)
        BY <4>4, SampledBlock
      <4>6. pc'[u] # "sampled"
        BY <1>5, <3>3
      <4> QED
        BY <1>1, <1>2, <1>5, <4>2, <4>5, <4>6 DEF ScratchSum
    <3>7. CASE pc[u] = "folded"
      <4>1. Kept(u) = {i \in Lanes : i < stride[u]}
        BY <1>5, <3>1, <3>7, FoldedKept
      <4>2. prevStride'[u] = stride[u]
        BY <1>5, <3>2, <3>7 DEF NextPrevStride, Strides, Reducing
      <4>3. Kept(u)' = Kept(u)
        BY <3>4, <4>1, <4>2
      <4>4. pc'[u] # "sampled"
        BY <1>5, <3>3
      <4> QED
        BY <1>1, <1>2, <1>5, <3>7, <4>3, <4>4 DEF ScratchSum, ScratchSums, Reducing
    <3> QED
      BY <3>1, <3>5, <3>6, <3>7 DEF Barriers
  <2> QED
    BY <2>1, <2>2
<1>6. \A u \in Threads : ScratchSum(u)'
  BY <1>4, <1>5
<1> QED
  BY <1>1, <1>6 DEF ScratchSums, ScratchSum

(* Every step keeps the sums in the scratch. *)
LEMMA ScratchStep ==
    ASSUME IInv, Strides, ScratchSums, [Next]_vars
    PROVE  ScratchSums'
<1>1. ASSUME NEW t \in Threads, ThreadStep(t)
      PROVE  ScratchSums'
  <2>0. pc \in [Threads -> Labels]
    BY DEF IInv, TypeInv, TypeOK, ThreadType
  <2>1. CASE SamplePoint(t)
    BY <1>1, <2>1, ScratchSample
  <2>2. CASE Fold(t)
    BY <1>1, <2>2, ScratchFold
  <2>3. CASE KernelLoop(t) \/ ReturnOnBadLevel(t) \/ NextPoint(t)
    <3>1. /\ UNCHANGED <<prevStride, cacheLoc, cacheAttn>>
          /\ pc[t] \notin {"fold", "folded"} /\ pc'[t] # "sampled"
      BY <2>0, <2>3 DEF KernelLoop, ReturnOnBadLevel, NextPoint, caches
    <3> QED
      BY <1>1, <3>1, ScratchOther
  <2>4. CASE SampleToGlobal(t) \/ SerialStore(t) \/ LeaderStore(t) \/ LeaderAtomicAdd(t)
    <3>1. /\ UNCHANGED <<prevStride, cacheLoc, cacheAttn>>
          /\ pc[t] \notin {"fold", "folded"} /\ pc'[t] # "sampled"
      BY <2>0, <2>4 DEF SampleToGlobal, SerialStore, LeaderStore, LeaderAtomicAdd, caches
    <3> QED
      BY <1>1, <3>1, ScratchOther
  <2> QED
    BY <1>1, <2>1, <2>2, <2>3, <2>4, ThreadStepCases
<1>2. CASE UNCHANGED vars
  <2>1. UNCHANGED <<launch, pc, point, stride, prevStride, cacheLoc, cacheAttn, Threads, Lanes>>
    BY <1>2, SameThreads DEF vars, caches
  <2>2. /\ \A u, p, k : Part(u, p, k)' = Part(u, p, k)
        /\ \A v, p, k : BlockSum(v, p, k)' = BlockSum(v, p, k)
    BY <2>1, SamePart
  <2>3. \A v, i, k : Scratch(v, i, k)' = Scratch(v, i, k)
    BY <2>1 DEF Scratch
  <2>4. \A u \in Threads : Kept(u)' = Kept(u)
    BY <2>1 DEF Kept, FoldSources
  <2> QED
    BY <2>1, <2>2, <2>3, <2>4 DEF ScratchSums
<1> QED
  BY <1>1, <1>2, ScratchSync DEF Next, Terminating

-----------------------------------------------------------------------------
(* The gradients of locations and weights.                                 *)

(* Slots are told by their sampling and point. *)
LEMMA SlotParts ==
    ASSUME NEW slot \in Slots
    PROVE  /\ slot \in Nat /\ slot \div LP \in Nat /\ slot % LP \in 0 .. LP - 1
           /\ slot = (slot \div LP) * LP + (slot % LP)
<1>1. LP \in Nat \ {0} /\ SamplingCount * LP \in Nat
  <2>1. LP \in Nat \ {0} /\ SamplingCount \in Nat
    BY LPPositive, SizesAssumption
  <2> QED
    BY <2>1
<1>2. slot \in Nat
  BY <1>1 DEF Slots
<1> QED
  BY <1>1, <1>2, DivModSplit, Zenon

(* The two location cells of a slot. *)
LEMMA SlotCells ==
    ASSUME NEW slot \in Slots
    PROVE  /\ slot \in Nat
           /\ 2 * slot \in 0 .. 2 * SamplingCount * LP - 1
           /\ 2 * slot + 1 \in 0 .. 2 * SamplingCount * LP - 1
<1> DEFINE m == SamplingCount * LP
<1>1. m \in Nat /\ 2 * SamplingCount * LP = 2 * m
  BY LPPositive, SizesAssumption
<1> HIDE DEF m
<1>2. Slots = 0 .. m - 1
  BY DEF Slots, m
<1> QED
  BY <1>1, <1>2

(* A leader is a thread. *)
LEMMA LeaderThread ==
    ASSUME LaunchType, NEW u \in Threads
    PROVE  Leader(u) \in Threads
<1>1. 0 \in Lanes
  BY TypeFacts DEF Lanes
<1> QED
  BY <1>1, ThreadLane DEF Leader, Threads

(* Where nothing is stored, the sums stay. *)
LEMMA SlotsKept ==
    ASSUME SlotSums, LaunchType, UNCHANGED <<launch, Threads, gradLoc, gradAttn>>,
           \A u \in Threads, p \in 0 .. LP - 1 : Stored(u, p)' <=> Stored(u, p)
    PROVE  SlotSums'
<1>1. ASSUME NEW slot \in Slots, NEW k \in Kinds
      PROVE  Gradient(slot, k)' = StoredParts(slot, k)'
  <2>1. Gradient(slot, k)' = Gradient(slot, k)
    BY DEF Gradient
  <2>2. slot % LP \in 0 .. LP - 1
    BY SlotParts
  <2>3. Storers(slot)' = Storers(slot)
    <3>1. \A u \in Threads, p \in 0 .. LP - 1 :
              p < point'[u] \/ (p = point'[u] /\ pc'[u] \in {"stored", "next"}) <=> Stored(u, p)
      BY DEF Stored
    <3>2. \A u \in Threads : Leader(u)' = Leader(u) /\ Leader(u) \in Threads
      BY SamePart, LeaderThread
    <3>3. ASSUME NEW u \in Threads
          PROVE  Stored(Leader(u), slot % LP)' <=> Stored(Leader(u), slot % LP)
      <4> DEFINE p == slot % LP
      <4>1. p \in 0 .. LP - 1 /\ p' = p
        BY <2>2 DEF LP
      <4> HIDE DEF p
      <4>2. Stored(Leader(u), p)' <=> \/ p < point'[Leader(u)]
                                      \/ p = point'[Leader(u)] /\ pc'[Leader(u)] \in {"stored", "next"}
        BY <3>2, <4>1 DEF Stored
      <4>3. Stored(Leader(u), p)' <=> Stored(Leader(u), p)
        BY <3>1, <3>2, <4>1, <4>2
      <4> QED
        BY <4>3 DEF p
    <3>4. \A u : SamplingOf(u)' = SamplingOf(u)
      BY SamePart
    <3> QED
      BY <3>3, <3>4 DEF Storers
  <2>4. \A u : FirstIndex(u)' = FirstIndex(u)
    BY SamePart
  <2>5. StoredParts(slot, k)' = StoredParts(slot, k)
    BY <2>3, <2>4 DEF StoredParts
  <2> QED
    BY <2>1, <2>5 DEF SlotSums
<1> QED
  BY <1>1 DEF SlotSums, Slots, LP

(* The threads whose parts thread t stores, and what that adds up to. *)
Followers(t) == {u \in Threads : Leader(u) = t}
FollowerSum(t, p, k) == UNION {Part(u, p, k) : u \in Followers(t)}

(* What thread t stores for its point, its followers have stored. *)
LEMMA StorersStep ==
    ASSUME LaunchType, UNCHANGED <<launch, Threads>>, NEW t \in Threads, NEW q,
           \A u \in Threads, p \in 0 .. LP - 1 :
               Stored(u, p)' <=> Stored(u, p) \/ (u = t /\ p = q),
           NEW slot \in Slots
    PROVE  Storers(slot)' = Storers(slot)
               \cup {u \in Followers(t) : SamplingOf(u) = slot \div LP /\ slot % LP = q}
<1>1. \A u \in Threads, p \in 0 .. LP - 1 :
          p < point'[u] \/ (p = point'[u] /\ pc'[u] \in {"stored", "next"})
              <=> Stored(u, p) \/ (u = t /\ p = q)
  BY DEF Stored
<1>2. \A u \in Threads : Leader(u)' = Leader(u) /\ Leader(u) \in Threads
  BY SamePart, LeaderThread
<1>3. ASSUME NEW u \in Threads
      PROVE  Stored(Leader(u), slot % LP)' <=>
                 Stored(Leader(u), slot % LP) \/ (Leader(u) = t /\ slot % LP = q)
  <2> DEFINE p == slot % LP
  <2>1. p \in 0 .. LP - 1 /\ p' = p
    BY SlotParts DEF LP
  <2> HIDE DEF p
  <2>2. Stored(Leader(u), p)' <=> \/ p < point'[Leader(u)]
                                  \/ p = point'[Leader(u)] /\ pc'[Leader(u)] \in {"stored", "next"}
    BY <1>2, <2>1 DEF Stored
  <2>3. Stored(Leader(u), p)' <=> Stored(Leader(u), p) \/ (Leader(u) = t /\ p = q)
    BY <1>1, <1>2, <2>1, <2>2
  <2> QED
    BY <2>3 DEF p
<1>4. \A u : SamplingOf(u)' = SamplingOf(u)
  BY SamePart
<1> QED
  BY <1>3, <1>4 DEF Storers, Followers

(* The followers of a thread compute channels of its sampling. *)
LEMMA FollowerSampling ==
    ASSUME LaunchType, NEW t \in Threads, NEW u \in Followers(t)
    PROVE  u \in Threads /\ SamplingOf(u) = SamplingOf(t)
<1>1. u \in Threads /\ Leader(u) = t
  BY DEF Followers
<1>2. launch.kernel # "gm" => u[1] = t[1]
  BY <1>1 DEF Leader
<1>3. launch.kernel = "gm" => u = t
  BY <1>1 DEF Leader
<1> QED
  BY <1>1, <1>2, <1>3, BlockSampling

(* Adding its followers' parts to the slot of a thread's point. *)
LEMMA SlotsAdd ==
    ASSUME SlotSums, LaunchType, UNCHANGED <<launch, Threads>>, NEW t \in Threads,
           FirstIndex(t) < launch.n, NEW q \in 0 .. LP - 1, NEW g, g = SlotAt(t, q),
           \A u \in Threads, p \in 0 .. LP - 1 :
               Stored(u, p)' <=> Stored(u, p) \/ (u = t /\ p = q),
           \A k \in Kinds : Gradient(g, k)' = Gradient(g, k) \cup FollowerSum(t, q, k),
           \A slot \in Slots, k \in Kinds : slot # g => Gradient(slot, k)' = Gradient(slot, k)
    PROVE  SlotSums'
<1>1. /\ g \in Slots
      /\ g \div LP = SamplingOf(t) /\ g % LP = q
  BY SlotOfThread
<1>2. \A u : FirstIndex(u)' = FirstIndex(u)
  BY SamePart
<1>3. ASSUME NEW k \in Kinds
      PROVE  Gradient(g, k)' = StoredParts(g, k)'
  <2>1. \A u \in Followers(t) : SamplingOf(u) = SamplingOf(t)
    BY FollowerSampling
  <2>2. Storers(g)' = Storers(g) \cup Followers(t)
    BY <1>1, <2>1, StorersStep
  <2>3. FollowerSum(t, q, k) =
            IF Footprint[g] = {} THEN {} ELSE {<<FirstIndex(u), q, k>> : u \in Followers(t)}
    <3>1. \A u \in Followers(t) : SlotAt(u, q) = g
      BY <2>1 DEF SlotAt
    <3>2. \A u \in Followers(t) :
              Part(u, q, k) = IF Footprint[g] = {} THEN {} ELSE {<<FirstIndex(u), q, k>>}
      BY <3>1 DEF Part
    <3>3. CASE Footprint[g] = {}
      BY <3>2, <3>3 DEF FollowerSum
    <3>4. CASE Footprint[g] # {}
      <4>1. FollowerSum(t, q, k) = UNION {{<<FirstIndex(u), q, k>>} : u \in Followers(t)}
        BY <3>2, <3>4 DEF FollowerSum
      <4> QED
        BY <3>4, <4>1
    <3> QED
      BY <3>3, <3>4
  <2>4. Gradient(g, k) = IF Footprint[g] = {} THEN {}
                         ELSE {<<FirstIndex(u), q, k>> : u \in Storers(g)}
    BY <1>1 DEF SlotSums, StoredParts
  <2>5. StoredParts(g, k)' = IF Footprint[g] = {} THEN {}
                             ELSE {<<FirstIndex(u), q, k>> : u \in Storers(g)'}
    BY <1>1, <1>2 DEF StoredParts
  <2> QED
    BY <2>2, <2>3, <2>4, <2>5
<1>4. ASSUME NEW slot \in Slots, NEW k \in Kinds, slot # g
      PROVE  Gradient(slot, k)' = StoredParts(slot, k)'
  <2>1. ~(slot \div LP = SamplingOf(t) /\ slot % LP = q)
    BY <1>4, SlotParts DEF SlotAt
  <2>2. \A u \in Followers(t) : SamplingOf(u) = SamplingOf(t)
    BY FollowerSampling
  <2>3. Storers(slot)' = Storers(slot)
    <3>1. Storers(slot)' = Storers(slot)
              \cup {u \in Followers(t) : SamplingOf(u) = slot \div LP /\ slot % LP = q}
      BY StorersStep
    <3>2. {u \in Followers(t) : SamplingOf(u) = slot \div LP /\ slot % LP = q} = {}
      BY <2>1, <2>2
    <3> QED
      BY <3>1, <3>2
  <2>4. StoredParts(slot, k)' = StoredParts(slot, k)
    BY <1>2, <2>3 DEF StoredParts
  <2> QED
    BY <1>4, <2>4 DEF SlotSums
<1> QED
  BY <1>3, <1>4 DEF SlotSums, Slots, LP

(* What a thread is about to store, its slot does not have yet. *)
LEMMA NotYetStored ==
    ASSUME SlotSums, LaunchType, NEW t \in Threads, FirstIndex(t) < launch.n,
           NEW q \in 0 .. LP - 1, ~Stored(t, q), NEW g, g = SlotAt(t, q), NEW k \in Kinds
    PROVE  /\ Gradient(g, k) \cap FollowerSum(t, q, k) = {}
           /\ t[2] = 0 /\ launch.kernel \notin {"gm", "shm_reduce_v2_multi_blocks"}
                  => Gradient(g, k) = {}
<1>1. /\ g \in Slots
      /\ g \div LP = SamplingOf(t) /\ g % LP = q
  BY SlotOfThread
<1>2. Gradient(g, k) \subseteq {<<FirstIndex(u), q, k>> : u \in Storers(g)}
  BY <1>1 DEF SlotSums, StoredParts
<1>3. FollowerSum(t, q, k) \subseteq {<<FirstIndex(u), q, k>> : u \in Followers(t)}
  BY DEF FollowerSum, Part
<1>4. \A u \in Storers(g) : u \in Threads /\ SamplingOf(u) = SamplingOf(t) /\ Stored(Leader(u), q)
  BY <1>1 DEF Storers
<1>5. \A u \in Storers(g), v \in Followers(t) : FirstIndex(u) # FirstIndex(v)
  BY <1>4, IndexOfThread DEF Followers
<1>6. ASSUME launch.kernel \notin {"gm", "shm_reduce_v2_multi_blocks"}, t[2] = 0
      PROVE  Storers(g) = {}
  <2> SUFFICES ASSUME NEW u \in Storers(g) PROVE FALSE
    OBVIOUS
  <2>1. u[1] = t[1]
    BY <1>4, <1>6, BlockSampling
  <2>2. Leader(u) = t
    BY <1>6, <2>1, ThreadLane DEF Leader
  <2> QED
    BY <1>4, <2>2
<1> QED
  BY <1>2, <1>3, <1>5, <1>6

(* Writing the gradients of one slot; adding to them. *)
SlotWrites(g, W, H, A) ==
    /\ gradLoc' = [gradLoc EXCEPT ![2 * g] = W, ![2 * g + 1] = H]
    /\ gradAttn' = [gradAttn EXCEPT ![g] = A]

SlotAdds(g, W, H, A) ==
    /\ gradLoc' = [gradLoc EXCEPT ![2 * g] = Plus(@, W), ![2 * g + 1] = Plus(@, H)]
    /\ gradAttn' = [gradAttn EXCEPT ![g] = Plus(@, A)]

(* A write goes to the slot's own cells. *)
LEMMA SlotWrite ==
    ASSUME MemoryType, NEW g \in Slots, NEW W, NEW H, NEW A,
           SlotWrites(g, W, H, A)
    PROVE  /\ Gradient(g, "w")' = W /\ Gradient(g, "h")' = H /\ Gradient(g, "a")' = A
           /\ \A slot \in Slots, k \in Kinds : slot # g => Gradient(slot, k)' = Gradient(slot, k)
<1>1. \A slot \in Slots : /\ slot \in Nat
                          /\ 2 * slot \in 0 .. 2 * SamplingCount * LP - 1
                          /\ 2 * slot + 1 \in 0 .. 2 * SamplingCount * LP - 1
  BY SlotCells
<1>2. \A slot \in Slots : /\ 2 * slot # 2 * g + 1 /\ 2 * slot + 1 # 2 * g
                          /\ slot # g => 2 * slot # 2 * g /\ 2 * slot + 1 # 2 * g + 1
  BY <1>1
<1>3. gradLoc'[2 * g] = W /\ gradLoc'[2 * g + 1] = H /\ gradAttn'[g] = A
  BY <1>1, <1>2 DEF MemoryType, SlotWrites
<1>4. \A slot \in Slots : slot # g => /\ gradLoc'[2 * slot] = gradLoc[2 * slot]
                                      /\ gradLoc'[2 * slot + 1] = gradLoc[2 * slot + 1]
                                      /\ gradAttn'[slot] = gradAttn[slot]
  BY <1>1, <1>2 DEF MemoryType, SlotWrites
<1>5. Gradient(g, "w")' = W /\ Gradient(g, "h")' = H /\ Gradient(g, "a")' = A
  <2> HIDE DEF Slots
  <2> QED
    BY <1>3 DEF Gradient
<1>6. ASSUME NEW slot \in Slots, NEW k \in Kinds, slot # g
      PROVE  Gradient(slot, k)' = Gradient(slot, k)
  BY <1>4, <1>6 DEF Gradient
<1> QED
  BY <1>5, <1>6

(* The thread that stores for its block finds the block's sum. *)
LEMMA LeaderFinds ==
    ASSUME IInv, Strides, ScratchSums, NEW t \in Threads, pc[t] = "store", t[2] = 0, NEW k \in Kinds
    PROVE  /\ Serial => /\ \A i, j \in Lanes : i # j => Scratch(t[1], i, k) \cap Scratch(t[1], j, k) = {}
                        /\ UNION {Scratch(t[1], i, k) : i \in Lanes} = FollowerSum(t, point[t], k)
           /\ Tree => Scratch(t[1], 0, k) = FollowerSum(t, point[t], k)
<1>1. \A u \in Threads : u[1] = t[1] => pc[u] # "folded"
  BY DEF IInv, SameRegion, Region
<1>2. Kept(t) = {i \in Lanes : i < prevStride[t]}
  BY <1>1 DEF Kept
<1>3. launch.kernel # "gm"
  BY DEF IInv, UniformInv, GmLabels
<1>4. /\ prevStride[t] \in Nat /\ prevStride[t] > 0 /\ launch.blockDim \in Nat \ {0}
      /\ stride[t] = 0
      /\ Tree => stride[t] = prevStride[t] \div 2
      /\ ~Tree => prevStride[t] = launch.blockDim
  BY TypeFacts DEF IInv, TypeInv, TypeOK, ThreadType, Strides, Reducing
<1>5. BlockSum(t[1], point[t], k) = FollowerSum(t, point[t], k)
  <2>1. Followers(t) = BlockThreads(t[1])
    BY <1>3, ThreadLane DEF Followers, Leader, BlockThreads
  <2> QED
    BY <2>1 DEF BlockSum, FollowerSum
<1>6. CASE Serial
  <2>1. ~Tree
    BY <1>6 DEF Serial, Tree
  <2>2. Kept(t) = Lanes
    BY <1>2, <1>4, <2>1 DEF Lanes
  <2> QED
    BY <1>5, <2>1, <2>2 DEF ScratchSums, Reducing
<1>7. CASE Tree
  <2>1. prevStride[t] = 1
    BY <1>4, <1>7
  <2>2. Kept(t) = {0}
    BY <1>2, <1>4, <2>1 DEF Lanes
  <2>3. UNION {Scratch(t[1], i, k) : i \in {0}} = FollowerSum(t, point[t], k)
    BY <1>5, <2>2 DEF ScratchSums, Reducing
  <2>4. UNION {Scratch(t[1], i, k) : i \in {0}} = Scratch(t[1], 0, k)
    OBVIOUS
  <2> QED
    BY <1>7, <2>3, <2>4 DEF Serial, Tree
<1> QED
  BY <1>6, <1>7

(* Adding to the gradients of one slot. *)
LEMMA SlotPlus ==
    ASSUME MemoryType, NEW g \in Slots, NEW W, NEW H, NEW A,
           Gradient(g, "w") \cap W = {}, Gradient(g, "h") \cap H = {}, Gradient(g, "a") \cap A = {},
           SlotAdds(g, W, H, A)
    PROVE  /\ Gradient(g, "w")' = Gradient(g, "w") \cup W
           /\ Gradient(g, "h")' = Gradient(g, "h") \cup H
           /\ Gradient(g, "a")' = Gradient(g, "a") \cup A
           /\ \A slot \in Slots, k \in Kinds : slot # g => Gradient(slot, k)' = Gradient(slot, k)
<1> DEFINE w == Plus(gradLoc[2 * g], W)
           h == Plus(gradLoc[2 * g + 1], H)
           a == Plus(gradAttn[g], A)
<1>1. /\ Gradient(g, "w") = gradLoc[2 * g]
      /\ Gradient(g, "h") = gradLoc[2 * g + 1]
      /\ Gradient(g, "a") = gradAttn[g]
  BY DEF Gradient
<1>2. w = Gradient(g, "w") \cup W /\ h = Gradient(g, "h") \cup H /\ a = Gradient(g, "a") \cup A
  BY <1>1 DEF Plus
<1>3. 2 * g + 1 # 2 * g
  <2>1. g \in Nat
    BY SlotParts
  <2> QED
    BY <2>1
<1>4. SlotWrites(g, w, h, a)
  BY <1>3 DEF MemoryType, SlotAdds, SlotWrites
<1> HIDE DEF w, h, a
<1>5. /\ Gradient(g, "w")' = w /\ Gradient(g, "h")' = h /\ Gradient(g, "a")' = a
      /\ \A slot \in Slots, k \in Kinds : slot # g => Gradient(slot, k)' = Gradient(slot, k)
  BY <1>4, SlotWrite
<1> QED
  BY <1>2, <1>5

(* Which kernel stores how. *)
LEMMA StoreCases ==
    ASSUME NEW t \in Threads, ThreadStep(t), pc[t] = "store"
    PROVE  \/ Serial /\ SerialStore(t)
           \/ launch.kernel \in {"aware_reduce_v2", "shm_reduce_v2"} /\ LeaderStore(t)
           \/ launch.kernel = "shm_reduce_v2_multi_blocks" /\ LeaderAtomicAdd(t)
BY DEF ThreadStep, Serial, aware_reduce_v1, aware_reduce_v2, shm_reduce_v1, shm_reduce_v2,
       shm_reduce_v2_multi_blocks, gm, KernelLoop, ReturnOnBadLevel, SamplePoint, SampleToGlobal,
       Fold, NextPoint

(* A thread of the storing region adds its followers' parts to its slot. *)
LEMMA StoreAdds ==
    ASSUME IInv, WorkBounds, Strides, ScratchSums, SlotSums, NEW t \in Threads, ThreadStep(t),
           pc[t] = "store", t[2] = 0, NEW g, g = gradPtr[t]
    PROVE  /\ \A k \in Kinds : Gradient(g, k)' = Gradient(g, k) \cup FollowerSum(t, point[t], k)
           /\ \A slot \in Slots, k \in Kinds : slot # g => Gradient(slot, k)' = Gradient(slot, k)
<1> DEFINE b == t[1]
           q == point[t]
<1>1. MemoryType /\ LaunchType
  BY DEF IInv, TypeInv, TypeOK
<1>2. g = SlotAt(t, q)
  BY AddendIsPart
<1>3. /\ FirstIndex(t) < launch.n
      /\ q \in 0 .. LP - 1
  BY LPPositive DEF WorkBounds, IInv, TypeInv, TypeOK, ThreadType, PointInRange
<1>4. g \in Slots
  BY <1>1, <1>2, <1>3, SlotOfThread
<1>5. ~Stored(t, q)
  BY <1>3, LPPositive DEF Stored
<1>6. \A k \in Kinds : /\ Gradient(g, k) \cap FollowerSum(t, q, k) = {}
                       /\ launch.kernel \notin {"gm", "shm_reduce_v2_multi_blocks"}
                              => Gradient(g, k) = {}
  BY <1>1, <1>2, <1>3, <1>5, NotYetStored
<1>7. b \in Blocks
  BY ThreadLane
<1> DEFINE f(k) == FollowerSum(t, q, k)
<1>8. CASE Serial /\ SerialStore(t)
  <2>1. Serial /\ launch.kernel \notin {"gm", "shm_reduce_v2_multi_blocks"}
    BY <1>8 DEF Serial
  <2>2. ASSUME NEW k \in Kinds
        PROVE  /\ \A i, j \in Lanes : i # j => Scratch(b, i, k) \cap Scratch(b, j, k) = {}
               /\ UNION {Scratch(b, i, k) : i \in Lanes} = f(k)
    BY <2>1, LeaderFinds
  <2>3. /\ SumOver(cacheAttn[b], Lanes) = f("a")
        /\ SumOver(cacheLoc[b], {2 * i : i \in Lanes}) = f("w")
        /\ SumOver(cacheLoc[b], {2 * i + 1 : i \in Lanes}) = f("h")
    <3>1. /\ SumOver(cacheAttn[b], Lanes) = UNION {Scratch(b, i, "a") : i \in Lanes}
          /\ SumOver(cacheLoc[b], {2 * i : i \in Lanes}) = UNION {Scratch(b, i, "w") : i \in Lanes}
          /\ SumOver(cacheLoc[b], {2 * i + 1 : i \in Lanes})
                 = UNION {Scratch(b, i, "h") : i \in Lanes}
      BY <1>1, <1>7, <2>2, LaneUnions
    <3> QED
      BY <2>2, <3>1 DEF Kinds
  <2>4. SlotWrites(g, f("w"), f("h"), f("a"))
    BY <1>8, <2>3 DEF SerialStore, SlotWrites
  <2> HIDE DEF f
  <2>5. /\ Gradient(g, "w")' = f("w") /\ Gradient(g, "h")' = f("h") /\ Gradient(g, "a")' = f("a")
        /\ \A slot \in Slots, k \in Kinds : slot # g => Gradient(slot, k)' = Gradient(slot, k)
    BY <1>1, <1>4, <2>4, SlotWrite
  <2>6. \A k \in Kinds : Gradient(g, k)' = f(k)
    BY <2>5 DEF Kinds
  <2> QED
    BY <1>6, <2>1, <2>5, <2>6 DEF f
<1>9. CASE launch.kernel \in {"aware_reduce_v2", "shm_reduce_v2"} /\ LeaderStore(t)
  <2>1. Tree /\ launch.kernel \notin {"gm", "shm_reduce_v2_multi_blocks"}
    BY <1>9 DEF Tree
  <2>2. \A k \in Kinds : Scratch(b, 0, k) = f(k)
    BY <2>1, LeaderFinds
  <2>3. cacheAttn[b][0] = f("a") /\ cacheLoc[b][0] = f("w") /\ cacheLoc[b][1] = f("h")
    BY <2>2 DEF Scratch, Kinds
  <2>4. SlotWrites(g, f("w"), f("h"), f("a"))
    BY <1>9, <2>3 DEF LeaderStore, SlotWrites
  <2> HIDE DEF f
  <2>5. /\ Gradient(g, "w")' = f("w") /\ Gradient(g, "h")' = f("h") /\ Gradient(g, "a")' = f("a")
        /\ \A slot \in Slots, k \in Kinds : slot # g => Gradient(slot, k)' = Gradient(slot, k)
    BY <1>1, <1>4, <2>4, SlotWrite
  <2>6. \A k \in Kinds : Gradient(g, k)' = f(k)
    BY <2>5 DEF Kinds
  <2> QED
    BY <1>6, <2>1, <2>5, <2>6 DEF f
<1>10. CASE launch.kernel = "shm_reduce_v2_multi_blocks" /\ LeaderAtomicAdd(t)
  <2>1. Tree
    BY <1>10 DEF Tree
  <2>2. \A k \in Kinds : Scratch(b, 0, k) = f(k)
    BY <2>1, LeaderFinds
  <2>3. cacheAttn[b][0] = f("a") /\ cacheLoc[b][0] = f("w") /\ cacheLoc[b][1] = f("h")
    BY <2>2 DEF Scratch, Kinds
  <2>4. SlotAdds(g, f("w"), f("h"), f("a"))
    BY <1>10, <2>3 DEF LeaderAtomicAdd, SlotAdds
  <2>5. \A k \in Kinds : Gradient(g, k) \cap f(k) = {}
    BY <1>6
  <2> HIDE DEF f
  <2>6. /\ Gradient(g, "w") \cap f("w") = {}
        /\ Gradient(g, "h") \cap f("h") = {}
        /\ Gradient(g, "a") \cap f("a") = {}
    BY <2>5 DEF Kinds
  <2>7. /\ Gradient(g, "w")' = Gradient(g, "w") \cup f("w")
        /\ Gradient(g, "h")' = Gradient(g, "h") \cup f("h")
        /\ Gradient(g, "a")' = Gradient(g, "a") \cup f("a")
        /\ \A slot \in Slots, k \in Kinds : slot # g => Gradient(slot, k)' = Gradient(slot, k)
    BY <1>1, <1>4, <2>4, <2>6, SlotPlus
  <2>8. \A k \in Kinds : Gradient(g, k)' = Gradient(g, k) \cup f(k)
    BY <2>7 DEF Kinds
  <2> QED
    BY <2>7, <2>8 DEF f
<1> QED
  BY <1>8, <1>9, <1>10, StoreCases

(* A store, plain or atomic, keeps the sums. *)
LEMMA SlotsStore ==
    ASSUME IInv, WorkBounds, Strides, ScratchSums, SlotSums, NEW t \in Threads, ThreadStep(t),
           pc[t] = "store"
    PROVE  SlotSums'
<1> DEFINE q == point[t]
<1>1. PICK g : g = gradPtr[t]
  OBVIOUS
<1>2. UNCHANGED <<launch, Threads>> /\ LaunchType /\ launch.kernel # "gm"
  BY ThreadControl DEF IInv, TypeInv, TypeOK, UniformInv, GmLabels
<1>3. g = SlotAt(t, q)
  BY <1>1, AddendIsPart
<1>4. /\ FirstIndex(t) < launch.n
      /\ q \in 0 .. LP - 1
  BY LPPositive DEF WorkBounds, IInv, TypeInv, TypeOK, ThreadType, PointInRange
<1>5. \A u \in Threads, p \in 0 .. LP - 1 : Stored(u, p)' <=> Stored(u, p) \/ (u = t /\ p = q)
  BY ThreadProgress DEF Stores
<1>6. /\ \A k \in Kinds : Gradient(g, k)' = Gradient(g, k) \cup FollowerSum(t, q, k)
      /\ \A slot \in Slots, k \in Kinds : slot # g => Gradient(slot, k)' = Gradient(slot, k)
  <2>1. CASE t[2] = 0
    BY <1>1, <2>1, StoreAdds
  <2>2. CASE t[2] # 0
    <3>1. UNCHANGED <<gradLoc, gradAttn>>
      BY <2>2, StoreCases DEF SerialStore, LeaderStore, LeaderAtomicAdd
    <3>2. \A slot, k : Gradient(slot, k)' = Gradient(slot, k)
      BY <3>1 DEF Gradient
    <3>3. Followers(t) = {}
      BY <1>2, <2>2 DEF Followers, Leader
    <3>4. \A k : FollowerSum(t, q, k) = {}
      BY <3>3 DEF FollowerSum
    <3> QED
      BY <3>2, <3>4
  <2> QED
    BY <2>1, <2>2
<1> HIDE DEF q
<1> QED
  BY <1>2, <1>3, <1>4, <1>5, <1>6, SlotsAdd

(* The atomics of the gm kernel keep the sums. *)
LEMMA SlotsGlobal ==
    ASSUME IInv, WorkBounds, SlotSums, NEW t \in Threads, ThreadStep(t),
           launch.kernel = "gm", SampleToGlobal(t)
    PROVE  SlotSums'
<1> DEFINE q == point[t]
<1>1. PICK g : g = gradPtr[t]
  OBVIOUS
<1>2. /\ UNCHANGED <<launch, Threads>> /\ LaunchType /\ MemoryType
      /\ pc[t] = "sample" /\ pc'[t] = "next"
  BY ThreadControl DEF IInv, TypeInv, TypeOK, ThreadType, SampleToGlobal
<1>3. g = SlotAt(t, q) /\ \A k : Addend(t, k) = Part(t, q, k)
  BY <1>1, <1>2, AddendIsPart
<1>4. /\ FirstIndex(t) < launch.n
      /\ q \in 0 .. LP - 1
  BY <1>2, LPPositive DEF WorkBounds, IInv, TypeInv, TypeOK, ThreadType, PointInRange
<1>5. \A u \in Threads, p \in 0 .. LP - 1 : Stored(u, p)' <=> Stored(u, p) \/ (u = t /\ p = q)
  BY <1>2, ThreadProgress DEF Stores, Samples
<1>6. ASSUME NEW k \in Kinds
      PROVE  FollowerSum(t, q, k) = Addend(t, k)
  <2>1. Followers(t) = {t}
    BY DEF Followers, Leader
  <2> QED
    BY <1>3, <2>1 DEF FollowerSum
<1>7. ~Stored(t, q)
  BY <1>2, <1>4, LPPositive DEF Stored
<1>8. g \in Slots
  BY <1>2, <1>3, <1>4, SlotOfThread
<1>9. \A k \in Kinds : Gradient(g, k) \cap Addend(t, k) = {}
  <2> SUFFICES ASSUME NEW k \in Kinds PROVE Gradient(g, k) \cap Addend(t, k) = {}
    OBVIOUS
  <2>1. Gradient(g, k) \cap FollowerSum(t, q, k) = {}
    BY <1>2, <1>3, <1>4, <1>7, NotYetStored
  <2> QED
    BY <1>6, <2>1
<1> DEFINE f(k) == Addend(t, k)
<1>10. SlotAdds(g, f("w"), f("h"), f("a"))
  BY <1>1 DEF SampleToGlobal, SlotAdds
<1>11. \A k \in Kinds : Gradient(g, k) \cap f(k) = {}
  BY <1>9
<1>12. \A k \in Kinds : FollowerSum(t, q, k) = f(k)
  BY <1>6
<1> HIDE DEF f
<1>13. /\ Gradient(g, "w") \cap f("w") = {}
       /\ Gradient(g, "h") \cap f("h") = {}
       /\ Gradient(g, "a") \cap f("a") = {}
  BY <1>11 DEF Kinds
<1>14. /\ Gradient(g, "w")' = Gradient(g, "w") \cup f("w")
       /\ Gradient(g, "h")' = Gradient(g, "h") \cup f("h")
       /\ Gradient(g, "a")' = Gradient(g, "a") \cup f("a")
       /\ \A slot \in Slots, k \in Kinds : slot # g => Gradient(slot, k)' = Gradient(slot, k)
  BY <1>2, <1>8, <1>10, <1>13, SlotPlus
<1>15. \A k \in Kinds : Gradient(g, k)' = Gradient(g, k) \cup FollowerSum(t, q, k)
  BY <1>12, <1>14 DEF Kinds
<1> HIDE DEF q
<1> QED
  BY <1>2, <1>3, <1>4, <1>5, <1>14, <1>15, SlotsAdd

(* Every step keeps the sums of locations and weights. *)
LEMMA SlotsStep ==
    ASSUME IInv, WorkBounds, Strides, ScratchSums, SlotSums, [Next]_vars
    PROVE  SlotSums'
<1>0. LaunchType
  BY DEF IInv, TypeInv, TypeOK
<1>1. ASSUME NEW t \in Threads, ThreadStep(t)
      PROVE  SlotSums'
  <2>1. CASE pc[t] = "store"
    BY <1>1, <2>1, SlotsStore
  <2>2. CASE launch.kernel = "gm" /\ SampleToGlobal(t)
    BY <1>1, <2>2, SlotsGlobal
  <2>3. CASE KernelLoop(t) \/ ReturnOnBadLevel(t) \/ NextPoint(t) \/ Fold(t)
                \/ (launch.kernel # "gm" /\ SamplePoint(t))
    <3>1. UNCHANGED <<gradLoc, gradAttn>>
      BY <2>3 DEF KernelLoop, ReturnOnBadLevel, NextPoint, Fold, SamplePoint, grads
    <3>2. ~Stores(t)
      BY <2>3 DEF Stores, Samples, KernelLoop, ReturnOnBadLevel, NextPoint, Fold, SamplePoint,
         IInv, TypeInv, TypeOK, ThreadType
    <3>3. UNCHANGED <<launch, Threads>>
      BY <1>1, ThreadControl DEF IInv, TypeInv
    <3>4. \A u \in Threads, p \in 0 .. LP - 1 : Stored(u, p)' <=> Stored(u, p)
      BY <1>1, <3>2, ThreadProgress
    <3> QED
      BY <1>0, <3>1, <3>3, <3>4, SlotsKept
  <2> QED
    BY <1>1, <2>1, <2>2, <2>3, ThreadStepCases DEF SerialStore, LeaderStore, LeaderAtomicAdd
<1>2. ASSUME NEW b \in Blocks, Syncthreads(b)
      PROVE  SlotSums'
  <2>1. UNCHANGED <<launch, Threads, gradLoc, gradAttn>>
    BY <1>2, SyncControl DEF Syncthreads, grads, IInv, TypeInv
  <2>2. \A u \in Threads, p \in 0 .. LP - 1 : Stored(u, p)' <=> Stored(u, p)
    BY <1>2, SyncProgress
  <2> QED
    BY <1>0, <2>1, <2>2, SlotsKept
<1>3. CASE UNCHANGED vars
  <2>1. UNCHANGED <<launch, Threads, gradLoc, gradAttn, point, pc>>
    BY <1>3, SameThreads DEF vars, grads
  <2>2. \A u \in Threads, p \in 0 .. LP - 1 : Stored(u, p)' <=> Stored(u, p)
    BY <2>1 DEF Stored
  <2> QED
    BY <1>0, <2>1, <2>2, SlotsKept
<1> QED
  BY <1>1, <1>2, <1>3 DEF Next, Terminating

-----------------------------------------------------------------------------
(* The gradients of values.                                                *)

(* The samples a cell holds an addend of. *)
LEMMA CornersCover ==
    ASSUME LaunchType, NEW i \in 0 .. PixelCount * launch.channels - 1, NEW t \in Threads,
           NEW g \in Slots
    PROVE  i \in {pixel * launch.channels + (FirstIndex(t) % launch.channels) :
                      pixel \in Footprint[g]}
               <=> /\ i % launch.channels = FirstIndex(t) % launch.channels
                   /\ i \div launch.channels \in Footprint[g]
<1> DEFINE c == launch.channels
           r == FirstIndex(t) % launch.channels
<1>1. c \in Nat \ {0} /\ i \in Nat /\ FirstIndex(t) \in Nat
  <2>1. launch.channels \in Nat \ {0} /\ PixelCount \in Nat
    BY TypeFacts, SizesAssumption
  <2>2. PixelCount * launch.channels \in Nat
    BY <2>1
  <2> QED
    BY <2>1, <2>2, IndexOfThread
<1>2. r \in 0 .. c - 1
  BY <1>1, DivModSplit
<1>3. i = (i \div c) * c + (i % c) /\ i \div c \in Nat
  BY <1>1, DivModSplit
<1>4. \A pixel \in Footprint[g] : pixel \in Nat
  BY SizesAssumption, FootprintAssumption
<1> HIDE DEF c, r
<1>5. \A pixel \in Footprint[g] : (pixel * c + r) \div c = pixel /\ (pixel * c + r) % c = r
  BY <1>1, <1>2, <1>4, DivModOf
<1>6. i \in {pixel * c + r : pixel \in Footprint[g]}
          <=> i % c = r /\ i \div c \in Footprint[g]
  BY <1>3, <1>5
<1> QED
  BY <1>6 DEF c, r

(* A step that samples nothing adds nothing. *)
LEMMA ValuesKept ==
    ASSUME ValueSums, UNCHANGED <<launch, Threads, gradValue>>,
           \A u \in Threads, p \in 0 .. LP - 1 : Sampled(u, p)' <=> Sampled(u, p)
    PROVE  ValueSums'
<1>1. ASSUME NEW i \in DOMAIN gradValue
      PROVE  gradValue'[i] = {<<FirstIndex(at[1])', at[2], "v">> : at \in Samplers(i)'}
  <2>1. Samplers(i)' = Samplers(i)
    <3>1. \A at \in Threads \X (0 .. LP - 1) :
              /\ Sampled(at[1], at[2])' <=> Sampled(at[1], at[2])
              /\ Covers(at[1], at[2], i)' <=> Covers(at[1], at[2], i)
      BY SamePart
    <3> QED
      BY <3>1 DEF Samplers, LP
  <2>2. \A u : FirstIndex(u)' = FirstIndex(u)
    BY SamePart
  <2> QED
    BY <2>1, <2>2 DEF ValueSums
<1> QED
  BY <1>1 DEF ValueSums

(* Sampling adds to the cells its corners are in. *)
LEMMA ValuesSample ==
    ASSUME IInv, WorkBounds, ValueSums, NEW t \in Threads, ThreadStep(t), pc[t] = "sample",
           pc'[t] # "exit", AddToValue(t)
    PROVE  ValueSums'
<1> DEFINE q == point[t]
           ch == launch.channels
<1>1. UNCHANGED <<launch, Threads>> /\ LaunchType
  BY ThreadControl DEF IInv, TypeInv, TypeOK
<1>2. PICK g : g = SlotAt(t, q)
  OBVIOUS
<1>3. /\ FirstIndex(t) < launch.n
      /\ q \in 0 .. LP - 1 /\ q \in Nat
  BY LPPositive DEF WorkBounds, IInv, TypeInv, TypeOK, ThreadType, PointInRange
<1>4. g \in Slots
  BY <1>1, <1>2, <1>3, SlotOfThread
<1>5. /\ \A k : Addend(t, k) = IF Footprint[g] = {} THEN {} ELSE {<<FirstIndex(t), q, k>>}
      /\ index[t] = FirstIndex(t) /\ SlotOf(t) = g
  BY <1>2, AddendIsPart DEF Part
<1>6. \A u \in Threads, p \in 0 .. LP - 1 : Sampled(u, p)' <=> Sampled(u, p) \/ (u = t /\ p = q)
  BY ThreadProgress DEF Samples
<1>7. ~Sampled(t, q)
  BY <1>3 DEF Sampled
<1>8. DOMAIN gradValue = 0 .. PixelCount * ch - 1
  BY DEF IInv, TypeInv, TypeOK, MemoryType
<1> DEFINE corners == {pixel * ch + (FirstIndex(t) % ch) : pixel \in Footprint[g]}
<1>9. gradValue' = [i \in DOMAIN gradValue |->
                        IF i \in corners THEN Plus(gradValue[i], Addend(t, "v")) ELSE gradValue[i]]
  BY <1>5 DEF AddToValue
<1>10. ASSUME NEW i \in DOMAIN gradValue
       PROVE  gradValue'[i] = {<<FirstIndex(at[1])', at[2], "v">> : at \in Samplers(i)'}
  <2>1. i \in corners <=> Covers(t, q, i)
    BY <1>1, <1>2, <1>4, <1>8, CornersCover DEF Covers
  <2>2. i \in corners => Footprint[g] # {}
    OBVIOUS
  <2>3. Samplers(i)' = Samplers(i) \cup {at \in {<<t, q>>} : Covers(t, q, i)}
    <3>1. \A at \in Threads \X (0 .. LP - 1) :
              /\ Sampled(at[1], at[2])' <=> Sampled(at[1], at[2]) \/ at = <<t, q>>
              /\ Covers(at[1], at[2], i)' <=> Covers(at[1], at[2], i)
      <4> SUFFICES ASSUME NEW u \in Threads, NEW p \in 0 .. LP - 1
                   PROVE  /\ Sampled(u, p)' <=> Sampled(u, p) \/ <<u, p>> = <<t, q>>
                          /\ Covers(u, p, i)' <=> Covers(u, p, i)
        OBVIOUS
      <4> QED
        BY <1>1, <1>6, SamePart
    <3>2. <<t, q>> \in Threads \X (0 .. LP - 1) /\ <<t, q>>[1] = t /\ <<t, q>>[2] = q
      BY <1>3
    <3> HIDE DEF q
    <3>3. Samplers(i)' = {at \in Threads \X (0 .. LP - 1) :
                             Sampled(at[1], at[2])' /\ Covers(at[1], at[2], i)'}
      BY <1>1 DEF Samplers, LP
    <3> QED
      BY <3>1, <3>2, <3>3 DEF Samplers
  <2>4. \A u : FirstIndex(u)' = FirstIndex(u)
    BY <1>1, SamePart
  <2>5. gradValue[i] = {<<FirstIndex(at[1]), at[2], "v">> : at \in Samplers(i)}
    BY DEF ValueSums
  <2>6. CASE i \in corners
    <3>1. gradValue'[i] = Plus(gradValue[i], {<<FirstIndex(t), q, "v">>})
      BY <1>5, <1>9, <2>2, <2>6
    <3>2. <<FirstIndex(t), q, "v">> \notin gradValue[i]
      <4> SUFFICES ASSUME NEW at \in Samplers(i), FirstIndex(at[1]) = FirstIndex(t), at[2] = q
                   PROVE  FALSE
        BY <2>5
      <4>1. at[1] \in Threads /\ Sampled(at[1], at[2])
        BY DEF Samplers
      <4>2. at[1] = t
        BY <1>1, <4>1, IndexOfThread
      <4> QED
        BY <1>7, <4>1, <4>2
    <3>3. gradValue'[i] = gradValue[i] \cup {<<FirstIndex(t), q, "v">>}
      BY <3>1, <3>2 DEF Plus
    <3>4. Samplers(i)' = Samplers(i) \cup {<<t, q>>}
      BY <2>1, <2>3, <2>6
    <3> HIDE DEF q
    <3>5. gradValue'[i] = {<<FirstIndex(at[1]), at[2], "v">> : at \in Samplers(i) \cup {<<t, q>>}}
      <4> DEFINE tq == <<t, q>>
      <4>1. tq = <<t, q>> /\ tq[1] = t /\ tq[2] = q
        OBVIOUS
      <4> HIDE DEF tq
      <4>2. gradValue'[i] = {<<FirstIndex(at[1]), at[2], "v">> : at \in Samplers(i) \cup {tq}}
        BY <2>5, <3>3, <4>1
      <4> QED
        BY <4>1, <4>2
    <3> QED
      BY <2>4, <3>4, <3>5
  <2>7. CASE i \notin corners
    <3>1. gradValue'[i] = gradValue[i]
      BY <1>9, <2>7
    <3>2. Samplers(i)' = Samplers(i)
      BY <2>1, <2>3, <2>7
    <3> QED
      BY <2>4, <2>5, <3>1, <3>2
  <2> QED
    BY <2>6, <2>7
<1>11. DOMAIN gradValue' = DOMAIN gradValue
  BY <1>9
<1> QED
  BY <1>10, <1>11 DEF ValueSums

(* Every step keeps the sums of values. *)
LEMMA ValuesStep ==
    ASSUME IInv, WorkBounds, ValueSums, [Next]_vars
    PROVE  ValueSums'
<1>1. ASSUME NEW t \in Threads, ThreadStep(t)
      PROVE  ValueSums'
  <2>1. CASE SamplePoint(t) \/ SampleToGlobal(t)
    <3>1. pc[t] = "sample" /\ pc'[t] # "exit" /\ AddToValue(t)
      BY <2>1 DEF SamplePoint, SampleToGlobal, IInv, TypeInv, TypeOK, ThreadType
    <3> QED
      BY <1>1, <3>1, ValuesSample
  <2>2. CASE \/ KernelLoop(t) \/ ReturnOnBadLevel(t) \/ NextPoint(t) \/ Fold(t)
             \/ SerialStore(t) \/ LeaderStore(t) \/ LeaderAtomicAdd(t)
    <3>1. UNCHANGED gradValue
      BY <2>2 DEF KernelLoop, ReturnOnBadLevel, NextPoint, Fold, SerialStore, LeaderStore,
         LeaderAtomicAdd, grads
    <3>2. ~Samples(t)
      BY <2>2 DEF Samples, KernelLoop, ReturnOnBadLevel, NextPoint, Fold, SerialStore,
         LeaderStore, LeaderAtomicAdd, IInv, TypeInv, TypeOK, ThreadType
    <3>3. UNCHANGED <<launch, Threads>>
      BY <1>1, ThreadControl DEF IInv, TypeInv
    <3>4. \A u \in Threads, p \in 0 .. LP - 1 : Sampled(u, p)' <=> Sampled(u, p)
      BY <1>1, <3>2, ThreadProgress
    <3> QED
      BY <3>1, <3>3, <3>4, ValuesKept
  <2> QED
    BY <1>1, <2>1, <2>2, ThreadStepCases
<1>2. ASSUME NEW b \in Blocks, Syncthreads(b)
      PROVE  ValueSums'
  <2>1. UNCHANGED <<launch, Threads, gradValue>>
    BY <1>2, SyncControl DEF Syncthreads, grads, IInv, TypeInv
  <2>2. \A u \in Threads, p \in 0 .. LP - 1 : Sampled(u, p)' <=> Sampled(u, p)
    BY <1>2, SyncProgress
  <2> QED
    BY <2>1, <2>2, ValuesKept
<1>3. CASE UNCHANGED vars
  <2>1. UNCHANGED <<launch, Threads, gradValue, point, pc>>
    BY <1>3, SameThreads DEF vars, grads
  <2>2. \A u \in Threads, p \in 0 .. LP - 1 : Sampled(u, p)' <=> Sampled(u, p)
    BY <2>1 DEF Sampled
  <2> QED
    BY <2>1, <2>2, ValuesKept
<1> QED
  BY <1>1, <1>2, <1>3 DEF Next, Terminating

-----------------------------------------------------------------------------
(* The invariant of the sums.                                              *)

(* A launch has added nothing when it starts. *)
LEMMA SumsInit == Init => IInv /\ SumsInv
<1> SUFFICES ASSUME Init PROVE IInv /\ SumsInv
  OBVIOUS
<1>1. IInv
  BY TypeInit, UniformInit DEF IInv, TypeInv
<1>2. \A t \in Threads : pc[t] = "loop" /\ point[t] = 0
  BY DEF Init
<1>3. LaunchType
  BY <1>1 DEF IInv, TypeInv, TypeOK
<1>4. WorkBounds
  <2>1. launch.badLevel * PointsPerLevel >= 0
    <3>1. launch.badLevel \in Nat /\ PointsPerLevel \in Nat
      BY <1>3, SizesAssumption DEF LaunchType, Launch
    <3> QED
      BY <3>1
  <2> QED
    BY <1>2, <2>1 DEF WorkBounds
<1>5. Strides
  BY <1>2 DEF Strides, Reducing
<1>6. ScratchSums
  BY <1>2 DEF ScratchSums, Reducing
<1>7. \A u \in Threads, p \in 0 .. LP - 1 : ~Stored(u, p) /\ ~Sampled(u, p)
  BY <1>2, LPPositive DEF Stored, Sampled
<1>8. SlotSums
  <2> SUFFICES ASSUME NEW slot \in Slots, NEW k \in Kinds
               PROVE  Gradient(slot, k) = StoredParts(slot, k)
    BY DEF SlotSums
  <2>1. Storers(slot) = {}
    BY <1>3, <1>7, SlotParts, LeaderThread DEF Storers
  <2>2. StoredParts(slot, k) = {}
    BY <2>1 DEF StoredParts
  <2>3. slot \in Nat /\ 2 * slot \in 0 .. 2 * SamplingCount * LP - 1
        /\ 2 * slot + 1 \in 0 .. 2 * SamplingCount * LP - 1
    BY SlotCells
  <2>4. Gradient(slot, k) = {}
    BY <2>3 DEF Gradient, Init
  <2> QED
    BY <2>2, <2>4
<1>9. ValueSums
  <2>1. \A i : Samplers(i) = {}
    BY <1>7 DEF Samplers
  <2>2. \A i \in DOMAIN gradValue : gradValue[i] = {}
    BY DEF Init
  <2> QED
    BY <2>1, <2>2 DEF ValueSums
<1> QED
  BY <1>1, <1>4, <1>5, <1>6, <1>8, <1>9 DEF SumsInv

(* The sums are kept by every step. *)
LEMMA CudaInvNext == CudaInv /\ [Next]_vars => CudaInv'
<1> SUFFICES ASSUME CudaInv, [Next]_vars PROVE CudaInv'
  OBVIOUS
<1>1. IInv /\ WorkBounds /\ Strides /\ ScratchSums /\ SlotSums /\ ValueSums
  BY DEF CudaInv, SumsInv
<1> QED
  BY <1>1, IInvInductive, WorkBoundsStep, StridesStep, ScratchStep, SlotsStep, ValuesStep
  DEF CudaInv, SumsInv

(***************************************************************************)
(* Through the whole launch, every scratch lane holds what its threads     *)
(* have contributed and every gradient what has been stored: nothing else, *)
(* nothing twice.                                                          *)
(***************************************************************************)
THEOREM SumsInductive == Spec => []CudaInv
<1>1. Init => CudaInv
  BY SumsInit DEF CudaInv
<1> QED
  BY <1>1, CudaInvNext, PTL DEF Spec

-----------------------------------------------------------------------------
(* What is owed.                                                           *)

(* The cells, by gradient. *)
LEMMA CellsOf ==
    ASSUME MemoryType
    PROVE  /\ \A cell \in DOMAIN due :
                \/ \E slot \in Slots : \/ cell = <<"loc", 2 * slot>>
                                       \/ cell = <<"loc", 2 * slot + 1>>
                                       \/ cell = <<"attn", slot>>
                \/ \E i \in DOMAIN gradValue : cell = <<"value", i>>
           /\ \A slot \in Slots :
                /\ <<"loc", 2 * slot>> \in DOMAIN due
                /\ acc[<<"loc", 2 * slot>>] = Gradient(slot, "w")
                /\ due[<<"loc", 2 * slot>>] = DueTo(slot, "w")
                /\ <<"loc", 2 * slot + 1>> \in DOMAIN due
                /\ acc[<<"loc", 2 * slot + 1>>] = Gradient(slot, "h")
                /\ due[<<"loc", 2 * slot + 1>>] = DueTo(slot, "h")
                /\ <<"attn", slot>> \in DOMAIN due
                /\ acc[<<"attn", slot>>] = Gradient(slot, "a")
                /\ due[<<"attn", slot>>] = DueTo(slot, "a")
           /\ \A i \in DOMAIN gradValue :
                /\ <<"value", i>> \in DOMAIN due
                /\ acc[<<"value", i>>] = gradValue[i]
                /\ due[<<"value", i>>] = DueToValue(i)
<1>1. \A slot \in Slots : /\ slot \in Nat
                          /\ 2 * slot \in 0 .. 2 * SamplingCount * LP - 1
                          /\ 2 * slot + 1 \in 0 .. 2 * SamplingCount * LP - 1
  BY SlotCells
<1>2. \A m \in 0 .. 2 * SamplingCount * LP - 1 :
          \E slot \in Slots : m = 2 * slot \/ m = 2 * slot + 1
  <2> DEFINE n == SamplingCount * LP
  <2>1. n \in Nat /\ 2 * SamplingCount * LP = 2 * n
    BY LPPositive, SizesAssumption
  <2> HIDE DEF n
  <2>2. Slots = 0 .. n - 1
    BY DEF Slots, n
  <2>3. ASSUME NEW m \in 0 .. 2 * n - 1
        PROVE  m \div 2 \in 0 .. n - 1 /\ (m = 2 * (m \div 2) \/ m = 2 * (m \div 2) + 1)
    BY <2>1
  <2> QED
    BY <2>1, <2>2, <2>3
<1>3. \A slot \in Slots : /\ (2 * slot) \div 2 = slot /\ (2 * slot) % 2 = 0
                          /\ (2 * slot + 1) \div 2 = slot /\ (2 * slot + 1) % 2 = 1
  BY <1>1
<1>4. DOMAIN gradLoc = 0 .. 2 * SamplingCount * LP - 1 /\ DOMAIN gradAttn = Slots
  BY DEF MemoryType
<1>5. DOMAIN due = Cells
  BY DEF due
<1>6. \A cell \in DOMAIN due :
          \/ \E slot \in Slots : \/ cell = <<"loc", 2 * slot>>
                                 \/ cell = <<"loc", 2 * slot + 1>>
                                 \/ cell = <<"attn", slot>>
          \/ \E i \in DOMAIN gradValue : cell = <<"value", i>>
  BY <1>2, <1>4, <1>5 DEF Cells
<1>7. ASSUME NEW slot \in Slots
      PROVE  /\ <<"loc", 2 * slot>> \in Cells
             /\ <<"loc", 2 * slot + 1>> \in Cells
             /\ <<"attn", slot>> \in Cells
  BY <1>1, <1>4 DEF Cells
<1>8. \A i \in DOMAIN gradValue : <<"value", i>> \in Cells
  BY DEF Cells
<1>9. ASSUME NEW slot \in Slots
      PROVE  /\ acc[<<"loc", 2 * slot>>] = Gradient(slot, "w")
             /\ acc[<<"loc", 2 * slot + 1>>] = Gradient(slot, "h")
             /\ acc[<<"attn", slot>>] = Gradient(slot, "a")
  BY <1>7 DEF acc, Gradient
<1>10. ASSUME NEW slot \in Slots
       PROVE  /\ due[<<"loc", 2 * slot>>] = DueTo(slot, "w")
              /\ due[<<"loc", 2 * slot + 1>>] = DueTo(slot, "h")
              /\ due[<<"attn", slot>>] = DueTo(slot, "a")
  BY <1>3, <1>7 DEF due
<1>11. \A i \in DOMAIN gradValue : /\ acc[<<"value", i>>] = gradValue[i]
                                   /\ due[<<"value", i>>] = DueToValue(i)
  BY <1>8 DEF acc, due
<1> QED
  BY <1>5, <1>6, <1>7, <1>8, <1>9, <1>10, <1>11

(* What is stored or sampled of a thread's points lies before a bad level. *)
LEMMA BeforeBadLevel ==
    ASSUME CudaInv, NEW t \in Threads, NEW p \in 0 .. LP - 1, Stored(t, p) \/ Sampled(t, p)
    PROVE  /\ launch.checked => p < launch.badLevel * PointsPerLevel
           /\ FirstIndex(t) < launch.n
<1>1. /\ launch.badLevel * PointsPerLevel \in Nat
      /\ point[t] \in Nat /\ p \in Nat
      /\ launch.n \in Nat /\ FirstIndex(t) \in Nat
  <2>1. launch.badLevel \in Nat /\ PointsPerLevel \in Nat
    BY SizesAssumption DEF CudaInv, IInv, TypeInv, TypeOK, LaunchType, Launch
  <2> QED
    BY <2>1, LPPositive, TypeFacts, IndexOfThread
    DEF CudaInv, IInv, TypeInv, TypeOK, ThreadType
<1>2. /\ p < point[t] \/ (p = point[t] /\ pc[t] \notin {"loop", "sample", "exit"})
  BY DEF Stored, Sampled
<1>3. /\ pc[t] \notin {"loop", "exit"} \/ point[t] > 0 => FirstIndex(t) < launch.n
      /\ launch.checked => point[t] <= launch.badLevel * PointsPerLevel
  BY DEF CudaInv, SumsInv, WorkBounds
<1>4. pc[t] \notin {"loop", "sample", "exit"} /\ launch.checked
          => point[t] # launch.badLevel * PointsPerLevel
  BY DEF CudaInv, IInv, UniformInv, PastCheck, BadLevelAt
<1> QED
  BY <1>1, <1>2, <1>3, <1>4

(* A thread's index is a channel of its sampling. *)
LEMMA ChannelOfThread ==
    ASSUME LaunchType, NEW t \in Threads
    PROVE  /\ FirstIndex(t) % launch.channels \in 0 .. launch.channels - 1
           /\ FirstIndex(t) = SamplingOf(t) * launch.channels + (FirstIndex(t) % launch.channels)
<1>1. FirstIndex(t) \in Nat /\ launch.channels \in Nat \ {0}
  BY IndexOfThread, TypeFacts
<1> QED
  BY <1>1, DivModSplit, Zenon DEF SamplingOf

(* No gradient holds a contribution it is not owed. *)
LEMMA SlotsDue ==
    ASSUME CudaInv, NEW slot \in Slots, NEW k \in Kinds
    PROVE  Gradient(slot, k) \subseteq DueTo(slot, k)
<1> DEFINE p == slot % LP
<1>1. LaunchType /\ p \in 0 .. LP - 1
  BY SlotParts DEF CudaInv, IInv, TypeInv, TypeOK
<1>2. SUFFICES ASSUME Footprint[slot] # {}, NEW u \in Storers(slot)
               PROVE  <<FirstIndex(u), p, k>> \in DueTo(slot, k)
  BY DEF CudaInv, SumsInv, SlotSums, StoredParts
<1>3. u \in Threads /\ SamplingOf(u) = slot \div LP /\ Stored(Leader(u), p)
  BY DEF Storers
<1>4. Leader(u) \in Threads
  BY <1>1, <1>3, LeaderThread
<1> HIDE DEF p
<1>5. launch.checked => p < launch.badLevel * PointsPerLevel
  BY <1>1, <1>3, <1>4, BeforeBadLevel
<1>6. Owed(slot)
  BY <1>2, <1>5 DEF Owed, p
<1>7. \E c \in 0 .. launch.channels - 1 :
          FirstIndex(u) = (slot \div LP) * launch.channels + c
  BY <1>1, <1>3, ChannelOfThread
<1> QED
  BY <1>6, <1>7 DEF DueTo, p

(* A pixel's cell holds contributions of samplings that touch it.          *)
LEMMA ValuesDue ==
    ASSUME CudaInv, NEW i \in DOMAIN gradValue
    PROVE  gradValue[i] \subseteq DueToValue(i)
<1>1. LaunchType
  BY DEF CudaInv, IInv, TypeInv, TypeOK
<1>2. SUFFICES ASSUME NEW at \in Samplers(i)
               PROVE  <<FirstIndex(at[1]), at[2], "v">> \in DueToValue(i)
  BY DEF CudaInv, SumsInv, ValueSums
<1>3. PICK t \in Threads, p \in 0 .. LP - 1 : at[1] = t /\ at[2] = p /\ Sampled(t, p) /\ Covers(t, p, i)
  BY DEF Samplers
<1>4. /\ launch.checked => p < launch.badLevel * PointsPerLevel
      /\ FirstIndex(t) < launch.n
  BY <1>3, BeforeBadLevel
<1>5. PICK slot : slot = SlotAt(t, p)
  OBVIOUS
<1>6. slot \in Slots /\ slot \div LP = SamplingOf(t) /\ slot % LP = p
  BY <1>1, <1>4, <1>5, SlotOfThread
<1>7. /\ i % launch.channels = FirstIndex(t) % launch.channels
      /\ i \div launch.channels \in Footprint[slot]
  BY <1>3, <1>5 DEF Covers
<1>8. Owed(slot)
  BY <1>4, <1>6, <1>7 DEF Owed
<1>9. FirstIndex(t) = (slot \div LP) * launch.channels + (i % launch.channels)
  BY <1>1, <1>6, <1>7, ChannelOfThread
<1> QED
  BY <1>3, <1>6, <1>7, <1>8, <1>9 DEF DueToValue

(* The grid has a thread for every index, which computes its slot's points *)
(* when the launch ends.                                                   *)
LEMMA DoneStored ==
    ASSUME CudaInv, LaunchDone, NEW slot \in Slots, Owed(slot), NEW c \in 0 .. launch.channels - 1
    PROVE  \E t \in Threads :
               /\ FirstIndex(t) = (slot \div LP) * launch.channels + c
               /\ SamplingOf(t) = slot \div LP
               /\ FirstIndex(t) % launch.channels = c
               /\ Stored(Leader(t), slot % LP) /\ Sampled(t, slot % LP)
<1> DEFINE p == slot % LP
           ch == launch.channels
           bd == launch.blockDim
           q == slot \div LP
           idx == q * ch + c
<1>1. /\ LaunchType
      /\ ch \in Nat \ {0} /\ bd \in Nat \ {0} /\ launch.gridDim \in Nat \ {0}
      /\ launch.n = SamplingCount * ch /\ launch.n \in Nat
      /\ launch.n <= launch.gridDim * bd
  BY TypeFacts, GridCovers DEF CudaInv, IInv, TypeInv, TypeOK
<1>2. q \in 0 .. SamplingCount - 1
  <2>1. LP \in Nat \ {0} /\ SamplingCount \in Nat
    BY LPPositive, SizesAssumption
  <2>2. SamplingCount * LP \in Nat
    BY <2>1
  <2>3. slot \in Nat /\ slot < SamplingCount * LP
    BY <2>2 DEF Slots
  <2> QED
    BY <2>1, <2>3, DivBelow
<1>3. p \in 0 .. LP - 1 /\ p \in Nat
  BY SlotParts, LPPositive
<1>4. SamplingCount \in Nat
  BY SizesAssumption
<1> HIDE DEF p, q, ch, bd
<1>5. idx \in 0 .. SamplingCount * ch - 1
  BY <1>1, <1>2, <1>4, PairBelow DEF ch
<1>6. idx \div ch = q /\ idx % ch = c
  <2>1. q \in Nat /\ c \in 0 .. ch - 1
    BY <1>2, <1>4 DEF ch
  <2> QED
    BY <1>1, <2>1, DivModOf
<1>7. idx \in Nat /\ idx < launch.gridDim * bd /\ idx < launch.n
  <2>1. launch.gridDim * bd \in Nat
    BY <1>1
  <2> HIDE DEF idx
  <2> QED
    BY <1>1, <1>5, <2>1
<1> HIDE DEF idx
<1> DEFINE t == <<idx \div bd, idx % bd>>
<1>8. /\ idx \div bd \in 0 .. launch.gridDim - 1 /\ idx % bd \in 0 .. bd - 1
      /\ idx = (idx \div bd) * bd + (idx % bd)
  BY <1>1, <1>7, DivBelow, DivModSplit
<1>9. t \in Threads /\ FirstIndex(t) = idx
  BY <1>8 DEF Threads, Blocks, Lanes, FirstIndex, bd
<1> HIDE DEF t
<1>10. SamplingOf(t) = q /\ FirstIndex(t) % ch = c
  BY <1>6, <1>9 DEF SamplingOf, ch
<1>11. ASSUME NEW u \in Threads, FirstIndex(u) < launch.n
       PROVE  Stored(u, p) /\ Sampled(u, p)
  <2>1. pc[u] = "exit"
    BY DEF LaunchDone
  <2>2. point[u] = LP \/ BadLevelAt(u)
    <3>1. FirstIndex(u) \in Nat
      BY <1>1, IndexOfThread
    <3> QED
      BY <1>1, <1>11, <2>1, <3>1 DEF CudaInv, SumsInv, WorkBounds
  <2>3. p < point[u]
    BY <1>3, <2>2, LPPositive DEF BadLevelAt, Owed, p
  <2> QED
    BY <2>3 DEF Stored, Sampled
<1>12. Leader(t) \in Threads /\ FirstIndex(Leader(t)) < launch.n
  <2>1. Leader(t) \in Threads
    BY <1>1, <1>9, LeaderThread
  <2>2. CASE launch.kernel = "gm"
    BY <1>7, <1>9, <2>1, <2>2 DEF Leader
  <2>3. CASE launch.kernel # "gm"
    <3>1. Leader(t)[1] = t[1] /\ Leader(t)[2] = 0 /\ t[1] \in Nat /\ t[2] \in Nat
      BY <1>9, <2>3, ThreadLane DEF Leader, Blocks, Lanes
    <3>2. t[1] * bd \in Nat
      BY <1>1, <3>1
    <3>3. FirstIndex(Leader(t)) = t[1] * bd /\ FirstIndex(t) = t[1] * bd + t[2]
      BY <3>1, <3>2 DEF FirstIndex, bd
    <3> QED
      BY <1>1, <1>7, <1>9, <2>1, <3>1, <3>2, <3>3
  <2> QED
    BY <2>2, <2>3
<1>13. Stored(Leader(t), p) /\ Sampled(t, p)
  BY <1>7, <1>9, <1>11, <1>12
<1> QED
  BY <1>9, <1>10, <1>13 DEF idx, p, q, ch

(* When the launch has ended, every gradient has what it is owed. *)
LEMMA SlotsDone ==
    ASSUME CudaInv, LaunchDone, NEW slot \in Slots, NEW k \in Kinds
    PROVE  DueTo(slot, k) \subseteq Gradient(slot, k)
<1> SUFFICES ASSUME Owed(slot), NEW c \in 0 .. launch.channels - 1
             PROVE  <<(slot \div LP) * launch.channels + c, slot % LP, k>> \in Gradient(slot, k)
  BY DEF DueTo
<1>1. PICK t \in Threads : /\ FirstIndex(t) = (slot \div LP) * launch.channels + c
                           /\ SamplingOf(t) = slot \div LP
                           /\ Stored(Leader(t), slot % LP)
  BY DoneStored
<1>2. t \in Storers(slot) /\ Footprint[slot] # {}
  BY <1>1 DEF Storers, Owed
<1>3. <<FirstIndex(t), slot % LP, k>> \in StoredParts(slot, k)
  BY <1>2 DEF StoredParts
<1> QED
  BY <1>1, <1>3 DEF CudaInv, SumsInv, SlotSums

(* When all threads have left, a pixel's cell has all it is owed.          *)
LEMMA ValuesDone ==
    ASSUME CudaInv, LaunchDone, NEW i \in DOMAIN gradValue
    PROVE  DueToValue(i) \subseteq gradValue[i]
<1> DEFINE c == i % launch.channels
<1> SUFFICES ASSUME NEW slot \in Slots, Owed(slot), i \div launch.channels \in Footprint[slot]
             PROVE  <<(slot \div LP) * launch.channels + c, slot % LP, "v">> \in gradValue[i]
  BY DEF DueToValue
<1>1. LaunchType /\ MemoryType
  BY DEF CudaInv, IInv, TypeInv, TypeOK
<1>2. c \in 0 .. launch.channels - 1
  <2>1. launch.channels \in Nat \ {0} /\ PixelCount * launch.channels \in Nat
    <3>1. launch.channels \in Nat \ {0} /\ PixelCount \in Nat
      BY <1>1, TypeFacts, SizesAssumption
    <3> QED
      BY <3>1
  <2>2. i \in Nat
    BY <1>1, <2>1 DEF MemoryType
  <2> QED
    BY <2>1, <2>2, DivModSplit
<1> HIDE DEF c
<1>3. PICK t \in Threads : /\ FirstIndex(t) = (slot \div LP) * launch.channels + c
                           /\ SamplingOf(t) = slot \div LP
                           /\ FirstIndex(t) % launch.channels = c
                           /\ Sampled(t, slot % LP)
  BY <1>2, DoneStored
<1>4. SlotAt(t, slot % LP) = slot /\ slot % LP \in 0 .. LP - 1
  BY <1>3, SlotParts DEF SlotAt
<1>5. <<t, slot % LP>> \in Samplers(i)
  <2>1. Covers(t, slot % LP, i)
    BY <1>3, <1>4 DEF Covers, c
  <2> QED
    BY <1>3, <1>4, <2>1 DEF Samplers
<1> DEFINE at == <<t, slot % LP>>
<1>6. at[1] = t /\ at[2] = slot % LP /\ at \in Samplers(i)
  BY <1>5
<1> HIDE DEF at
<1>7. <<FirstIndex(at[1]), at[2], "v">> \in gradValue[i]
  BY <1>6 DEF CudaInv, SumsInv, ValueSums
<1> QED
  BY <1>3, <1>6, <1>7

(* In every state nothing is there that is not owed, in the last one       *)
(* everything that is.                                                     *)
LEMMA CudaOnlyDue ==
    ASSUME CudaInv, NEW cell \in DOMAIN due
    PROVE  acc[cell] \subseteq due[cell]
<1>1. MemoryType
  BY DEF CudaInv, IInv, TypeInv, TypeOK
<1>2. ASSUME NEW slot \in Slots
      PROVE  \A k \in Kinds : Gradient(slot, k) \subseteq DueTo(slot, k)
  BY SlotsDue
<1>3. "w" \in Kinds /\ "h" \in Kinds /\ "a" \in Kinds
  BY DEF Kinds
<1>4. CASE \E slot \in Slots : \/ cell = <<"loc", 2 * slot>>
                             \/ cell = <<"loc", 2 * slot + 1>>
                             \/ cell = <<"attn", slot>>
  <2>1. PICK slot \in Slots : \/ cell = <<"loc", 2 * slot>>
                             \/ cell = <<"loc", 2 * slot + 1>>
                             \/ cell = <<"attn", slot>>
    BY <1>4
  <2>2. \E k \in Kinds : acc[cell] = Gradient(slot, k) /\ due[cell] = DueTo(slot, k)
    BY <1>1, <1>3, <2>1, CellsOf
  <2> QED
    BY <1>2, <2>2
<1>5. CASE \E i \in DOMAIN gradValue : cell = <<"value", i>>
  BY <1>1, <1>5, CellsOf, ValuesDue
<1> QED
  BY <1>1, <1>4, <1>5, CellsOf

(* Named for the step below, which primes it.                              *)
LEMMA CudaDueState == CudaInv => \A cell \in DOMAIN due : acc[cell] \subseteq due[cell]
BY CudaOnlyDue

(* `acc` is the function of its values. *)
LEMMA AccFunction == acc = [cell \in Cells |-> acc[cell]]
<1> DEFINE A(cell) ==
      CASE cell[1] = "loc" -> gradLoc[cell[2]]
        [] cell[1] = "attn" -> gradAttn[cell[2]]
        [] cell[1] = "value" -> gradValue[cell[2]]
<1>1. acc = [cell \in Cells |-> A(cell)]
  BY Zenon DEF acc
<1> HIDE DEF A
<1> QED
  BY <1>1

(* When all threads have left, every gradient is exact.                    *)
LEMMA CudaDone == CudaInv => ExactWhenDone
<1> SUFFICES ASSUME CudaInv, LaunchDone PROVE acc = due
  BY DEF ExactWhenDone
<1>1. MemoryType
  BY DEF CudaInv, IInv, TypeInv, TypeOK
<1>2. "w" \in Kinds /\ "h" \in Kinds /\ "a" \in Kinds
  BY DEF Kinds
<1>3. ASSUME NEW cell \in DOMAIN due
      PROVE  due[cell] \subseteq acc[cell]
  <2>1. CASE \E slot \in Slots : \/ cell = <<"loc", 2 * slot>>
                               \/ cell = <<"loc", 2 * slot + 1>>
                               \/ cell = <<"attn", slot>>
    <3>1. PICK slot \in Slots : \/ cell = <<"loc", 2 * slot>>
                               \/ cell = <<"loc", 2 * slot + 1>>
                               \/ cell = <<"attn", slot>>
      BY <2>1
    <3>2. \E k \in Kinds : acc[cell] = Gradient(slot, k) /\ due[cell] = DueTo(slot, k)
      BY <1>1, <1>2, <3>1, CellsOf
    <3> QED
      BY <3>2, SlotsDone
  <2>2. CASE \E i \in DOMAIN gradValue : cell = <<"value", i>>
    BY <1>1, <2>2, CellsOf, ValuesDone
  <2> QED
    BY <1>1, <1>3, <2>1, <2>2, CellsOf
<1>4. \A cell \in DOMAIN due : acc[cell] = due[cell]
  BY <1>3, CudaOnlyDue
<1>5. DOMAIN due = Cells /\ DOMAIN acc = Cells
  BY DEF due, acc
<1>6. due = [cell \in Cells |-> due[cell]]
  <2> DEFINE D(cell) ==
        CASE cell[1] = "loc" -> DueTo(cell[2] \div 2, IF cell[2] % 2 = 0 THEN "w" ELSE "h")
          [] cell[1] = "attn" -> DueTo(cell[2], "a")
          [] cell[1] = "value" -> DueToValue(cell[2])
  <2>1. due = [cell \in Cells |-> D(cell)]
    BY Zenon DEF due
  <2> HIDE DEF D
  <2> QED
    BY <2>1
<1>7. acc = [cell \in Cells |-> acc[cell]]
  BY AccFunction
<1> HIDE DEF due, acc
<1> QED
  BY <1>4, <1>5, <1>6, <1>7

(***************************************************************************)
(* Whichever kernel the channel count selects, when the launch ends every  *)
(* gradient cell holds exactly the contributions it is owed.               *)
(***************************************************************************)
THEOREM LaunchesExact == Spec => []ExactWhenDone
BY SumsInductive, CudaDone, PTL

-----------------------------------------------------------------------------
(* The promise of GradientAccumulation.                                    *)

(* A launch starts with empty gradients. *)
LEMMA CudaStartsEmpty == Init => acc = [cell \in DOMAIN due |-> {}]
<1> SUFFICES ASSUME Init PROVE acc = [cell \in DOMAIN due |-> {}]
  OBVIOUS
<1>1. MemoryType
  BY SumsInit DEF IInv, TypeInv, TypeOK
<1>2. /\ \A i \in DOMAIN gradLoc : gradLoc[i] = {}
      /\ \A i \in DOMAIN gradAttn : gradAttn[i] = {}
      /\ \A i \in DOMAIN gradValue : gradValue[i] = {}
  BY DEF Init
<1>3. DOMAIN due = Cells /\ DOMAIN acc = Cells
  BY DEF due, acc
<1>4. ASSUME NEW cell \in Cells
      PROVE  acc[cell] = {}
  <2>1. \/ cell[1] = "loc" /\ cell[2] \in DOMAIN gradLoc
        \/ cell[1] = "attn" /\ cell[2] \in DOMAIN gradAttn
        \/ cell[1] = "value" /\ cell[2] \in DOMAIN gradValue
    BY <1>4 DEF Cells
  <2> QED
    BY <1>2, <1>4, <2>1 DEF acc
<1>5. acc = [cell \in Cells |-> acc[cell]]
  BY AccFunction
<1> HIDE DEF acc
<1> QED
  BY <1>3, <1>4, <1>5

(* What has been stored or sampled stays so. *)
LEMMA ProgressStays ==
    ASSUME IInv, [Next]_vars, NEW u \in Threads, NEW p \in 0 .. LP - 1
    PROVE  (Stored(u, p) => Stored(u, p)') /\ (Sampled(u, p) => Sampled(u, p)')
<1>1. CASE UNCHANGED vars
  BY <1>1 DEF vars, Stored, Sampled
<1> QED
  BY <1>1, ThreadProgress, SyncProgress DEF Next, Terminating

(* No step takes a contribution back. *)
LEMMA CudaKeeps ==
    ASSUME CudaInv, [Next]_vars, UNCHANGED <<launch, Threads>>
    PROVE  /\ \A slot \in Slots, k \in Kinds : Gradient(slot, k) \subseteq Gradient(slot, k)'
           /\ \A i \in DOMAIN gradValue : gradValue[i] \subseteq gradValue'[i]
<1>0. IInv /\ LaunchType /\ CudaInv'
  BY CudaInvNext DEF CudaInv, IInv, TypeInv, TypeOK
<1>1. \A u : FirstIndex(u)' = FirstIndex(u)
  BY SamePart
<1>2. ASSUME NEW slot \in Slots, NEW k \in Kinds
      PROVE  Gradient(slot, k) \subseteq Gradient(slot, k)'
  <2>1. \A u \in Threads, p \in 0 .. LP - 1 :
            Stored(u, p) => p < point'[u] \/ (p = point'[u] /\ pc'[u] \in {"stored", "next"})
    BY <1>0, ProgressStays DEF Stored
  <2>2. \A u \in Threads : /\ Leader(u)' = Leader(u) /\ Leader(u) \in Threads
                           /\ SamplingOf(u)' = SamplingOf(u)
    BY <1>0, SamePart, LeaderThread
  <2>3. ASSUME NEW u \in Threads, Stored(Leader(u), slot % LP)
        PROVE  Stored(Leader(u), slot % LP)'
    <3> DEFINE p == slot % LP
    <3>1. p \in 0 .. LP - 1 /\ p' = p
      BY SlotParts DEF LP
    <3> HIDE DEF p
    <3>2. Stored(Leader(u), p)' <=> \/ p < point'[Leader(u)]
                                    \/ p = point'[Leader(u)] /\ pc'[Leader(u)] \in {"stored", "next"}
      BY <2>2, <3>1 DEF Stored
    <3>3. Stored(Leader(u), p)
      BY <2>3 DEF p
    <3>4. Stored(Leader(u), p)'
      BY <2>1, <2>2, <3>1, <3>2, <3>3
    <3> QED
      BY <3>4 DEF p
  <2>4. Storers(slot) \subseteq Storers(slot)'
    BY <2>2, <2>3 DEF Storers
  <2>5. StoredParts(slot, k) \subseteq StoredParts(slot, k)'
    BY <1>1, <2>4 DEF StoredParts
  <2>6. Gradient(slot, k) = StoredParts(slot, k) /\ Gradient(slot, k)' = StoredParts(slot, k)'
    BY <1>0 DEF CudaInv, SumsInv, SlotSums, Slots, LP
  <2> QED
    BY <2>5, <2>6
<1>3. ASSUME NEW i \in DOMAIN gradValue
      PROVE  gradValue[i] \subseteq gradValue'[i]
  <2>1. Samplers(i) \subseteq Samplers(i)'
    <3>1. \A at \in Threads \X (0 .. LP - 1) :
              /\ Sampled(at[1], at[2]) => Sampled(at[1], at[2])'
              /\ Covers(at[1], at[2], i)' <=> Covers(at[1], at[2], i)
      BY <1>0, SamePart, ProgressStays
    <3> QED
      BY <3>1 DEF Samplers, LP
  <2>2. DOMAIN gradValue' = DOMAIN gradValue
    BY <1>0 DEF CudaInv, IInv, TypeInv, TypeOK, MemoryType
  <2>3. /\ gradValue[i] = {<<FirstIndex(at[1]), at[2], "v">> : at \in Samplers(i)}
        /\ gradValue'[i] = {<<FirstIndex(at[1])', at[2], "v">> : at \in Samplers(i)'}
    BY <1>0, <2>2 DEF CudaInv, SumsInv, ValueSums
  <2> QED
    BY <1>1, <2>1, <2>3
<1> QED
  BY <1>2, <1>3

(* Every step of a launch is a step of GradientAccumulation. *)
LEMMA CudaAccumulates ==
    ASSUME CudaInv, [Next]_vars
    PROVE  /\ due' = due
           /\ DOMAIN acc' = DOMAIN due
           /\ \A cell \in DOMAIN due :
                  acc[cell] \subseteq acc'[cell] /\ acc'[cell] \subseteq due[cell]
<1>1. CudaInv'
  BY CudaInvNext
<1>2. UNCHANGED <<launch, Threads>>
  <2>1. TypeOK
    BY DEF CudaInv, IInv, TypeInv
  <2>2. CASE UNCHANGED vars
    BY <2>2, SameThreads DEF vars
  <2> QED
    BY <2>1, <2>2, ThreadControl, SyncControl DEF Next, Terminating
<1>3. /\ DOMAIN gradLoc' = DOMAIN gradLoc
      /\ DOMAIN gradAttn' = DOMAIN gradAttn
      /\ DOMAIN gradValue' = DOMAIN gradValue
      /\ MemoryType /\ MemoryType'
  BY <1>1, <1>2 DEF CudaInv, IInv, TypeInv, TypeOK, MemoryType
<1>4. Cells' = Cells
  BY <1>3 DEF Cells
<1>5. due' = due
  BY <1>2, <1>4 DEF due, DueTo, DueToValue, Owed, LP, Slots
<1>6. DOMAIN due = Cells /\ DOMAIN acc = Cells /\ DOMAIN acc' = Cells
  BY <1>4 DEF due, acc
<1>7. /\ \A slot \in Slots, k \in Kinds : Gradient(slot, k) \subseteq Gradient(slot, k)'
      /\ \A i \in DOMAIN gradValue : gradValue[i] \subseteq gradValue'[i]
  BY <1>2, CudaKeeps
<1>8. "w" \in Kinds /\ "h" \in Kinds /\ "a" \in Kinds
  BY DEF Kinds
<1>9. /\ \A slot \in Slots :
            /\ acc'[<<"loc", 2 * slot>>] = Gradient(slot, "w")'
            /\ acc'[<<"loc", 2 * slot + 1>>] = Gradient(slot, "h")'
            /\ acc'[<<"attn", slot>>] = Gradient(slot, "a")'
      /\ \A i \in DOMAIN gradValue : acc'[<<"value", i>>] = gradValue'[i]
  <2>1. /\ \A slot \in Slots : /\ <<"loc", 2 * slot>> \in Cells
                               /\ <<"loc", 2 * slot + 1>> \in Cells
                               /\ <<"attn", slot>> \in Cells
        /\ \A i \in DOMAIN gradValue : <<"value", i>> \in Cells
    BY <1>3, <1>6, CellsOf
  <2> QED
    BY <1>4, <2>1 DEF acc, Gradient
<1>10. ASSUME NEW cell \in DOMAIN due
       PROVE  acc[cell] \subseteq acc'[cell]
  <2>1. CASE \E slot \in Slots : \/ cell = <<"loc", 2 * slot>>
                               \/ cell = <<"loc", 2 * slot + 1>>
                               \/ cell = <<"attn", slot>>
    <3>1. PICK slot \in Slots : \/ cell = <<"loc", 2 * slot>>
                               \/ cell = <<"loc", 2 * slot + 1>>
                               \/ cell = <<"attn", slot>>
      BY <2>1
    <3>2. /\ acc[<<"loc", 2 * slot>>] \subseteq acc'[<<"loc", 2 * slot>>]
          /\ acc[<<"loc", 2 * slot + 1>>] \subseteq acc'[<<"loc", 2 * slot + 1>>]
          /\ acc[<<"attn", slot>>] \subseteq acc'[<<"attn", slot>>]
      BY <1>3, <1>7, <1>8, <1>9, CellsOf
    <3> QED
      BY <3>1, <3>2
  <2>2. CASE \E i \in DOMAIN gradValue : cell = <<"value", i>>
    BY <1>3, <1>7, <1>9, <2>2, CellsOf
  <2> QED
    BY <1>3, <1>10, <2>1, <2>2, CellsOf
<1>11. (\A cell \in DOMAIN due : acc[cell] \subseteq due[cell])'
  BY <1>1, CudaDueState, PTL
<1>12. \A cell \in DOMAIN due : acc'[cell] \subseteq due[cell]
  <2> HIDE DEF due, acc
  <2> QED
    BY <1>5, <1>11
<1> QED
  BY <1>4, <1>5, <1>6, <1>10, <1>12

(***************************************************************************)
(* The six kernels keep the promise of GradientAccumulation, whatever the  *)
(* interleaving of their threads: Col2Im implements it under the mapping   *)
(* of its memory to gradient cells.                                        *)
(***************************************************************************)
THEOREM LaunchAccumulates == Spec => AccumulatesOnlyDue
<1>1. Init => Gradients!Init
  BY CudaStartsEmpty DEF Gradients!Init
<1>2. CudaInv /\ [Next]_vars => [Gradients!Next]_(Gradients!vars)
  <2> SUFFICES ASSUME CudaInv, [Next]_vars PROVE [Gradients!Next]_(Gradients!vars)
    OBVIOUS
  <2>1. Gradients!Accumulate
    BY CudaAccumulates DEF Gradients!Accumulate, Gradients!Grows
  <2> QED
    BY <2>1 DEF Gradients!Next
<1> QED
  BY <1>1, <1>2, SumsInductive, PTL DEF Spec, AccumulatesOnlyDue, Gradients!Spec

-----------------------------------------------------------------------------
(* The three devices together.                                             *)

(* The kernels of a device run alone: the others' stand.                   *)
LEMMA DevicesSteps ==
    ASSUME [DevicesNext]_allVars
    PROVE  [Next]_vars /\ [Cpu!Next]_(Cpu!vars) /\ [Mps!Next]_(Mps!vars) /\ UNCHANGED device
<1>1. UNCHANGED cpuVars => UNCHANGED Cpu!vars
  BY DEF cpuVars, Cpu!vars, Cpu!range, Cpu!tensors
<1>2. UNCHANGED mpsVars => UNCHANGED Mps!vars
  BY DEF mpsVars, Mps!vars, Mps!hostVars, Mps!lane, Mps!tensors
<1>3. UNCHANGED allVars => UNCHANGED <<device, vars, cpuVars, mpsVars>>
  BY DEF allVars
<1> QED
  BY <1>1, <1>2, <1>3 DEF DevicesNext, OnCuda, OnCpu, OnMps

(* The invariants of the three devices hold whichever kernels run.         *)
THEOREM KernelsInductive == DevicesSpec => [](CudaInv /\ CpuInv /\ MpsInv)
<1>1. DevicesInit => CudaInv /\ CpuInv /\ MpsInv
  BY SumsInit, CpuInvInit, MpsInvInit DEF DevicesInit, CudaInv
<1>2. CudaInv /\ CpuInv /\ MpsInv /\ [DevicesNext]_allVars => CudaInv' /\ CpuInv' /\ MpsInv'
  BY DevicesSteps, CudaInvNext, CpuInvNext, MpsInvNext
<1> QED
  BY <1>1, <1>2, PTL DEF DevicesSpec

(* The results of the device in use start empty. *)
LEMMA ResultsEmpty == DevicesInit => Results!Init
<1> SUFFICES ASSUME DevicesInit PROVE Results!Init
  OBVIOUS
<1>1. /\ acc = [cell \in DOMAIN due |-> {}]
      /\ Cpu!acc = [cell \in DOMAIN Cpu!due |-> {}]
      /\ Mps!acc = [cell \in DOMAIN Mps!due |-> {}]
  BY CudaStartsEmpty, CpuStartsEmpty, MpsStartsEmpty DEF DevicesInit
<1>2. CASE device = "cuda"
  BY <1>1, <1>2 DEF Results!Init
<1>3. CASE device = "cpu"
  BY <1>1, <1>3 DEF Results!Init
<1>4. CASE device # "cuda" /\ device # "cpu"
  BY <1>1, <1>4 DEF Results!Init
<1> QED
  BY <1>2, <1>3, <1>4

(* A step adds to them what they are owed. *)
LEMMA ResultsAccumulate ==
    ASSUME CudaInv, CpuInv, MpsInv, [DevicesNext]_allVars
    PROVE  [Results!Next]_(Results!vars)
<1>1. [Next]_vars /\ [Cpu!Next]_(Cpu!vars) /\ [Mps!Next]_(Mps!vars) /\ UNCHANGED device
  BY DevicesSteps
<1>2. CASE device = "cuda"
  <2>1. /\ due' = due /\ DOMAIN acc' = DOMAIN due
        /\ \A cell \in DOMAIN due :
              acc[cell] \subseteq acc'[cell] /\ acc'[cell] \subseteq due[cell]
    BY <1>1, CudaAccumulates
  <2>2. Results!Accumulate
    BY <1>1, <1>2, <2>1 DEF Results!Accumulate, Results!Grows
  <2> QED
    BY <2>2 DEF Results!Next
<1>3. CASE device = "cpu"
  <2>1. /\ Cpu!due' = Cpu!due /\ DOMAIN Cpu!acc' = DOMAIN Cpu!due
        /\ \A cell \in DOMAIN Cpu!due :
              Cpu!acc[cell] \subseteq Cpu!acc'[cell] /\ Cpu!acc'[cell] \subseteq Cpu!due[cell]
    BY <1>1, CpuAccumulates
  <2>2. Results!Accumulate
    BY <1>1, <1>3, <2>1 DEF Results!Accumulate, Results!Grows
  <2> QED
    BY <2>2 DEF Results!Next
<1>4. CASE device # "cuda" /\ device # "cpu"
  <2>1. /\ Mps!due' = Mps!due /\ DOMAIN Mps!acc' = DOMAIN Mps!due
        /\ \A cell \in DOMAIN Mps!due :
              Mps!acc[cell] \subseteq Mps!acc'[cell] /\ Mps!acc'[cell] \subseteq Mps!due[cell]
    BY <1>1, MpsAccumulates
  <2>2. Results!Accumulate
    BY <1>1, <1>4, <2>1 DEF Results!Accumulate, Results!Grows
  <2> QED
    BY <2>2 DEF Results!Next
<1> QED
  BY <1>2, <1>3, <1>4

(***************************************************************************)
(* On every device, under every interleaving of its threads, workers or    *)
(* SIMD groups, results only gain what they are owed: Devices implements   *)
(* GradientAccumulation.                                                   *)
(***************************************************************************)
THEOREM KernelsOnlyAccumulate == DevicesSpec => KernelsAccumulateOnlyDue
BY KernelsInductive, ResultsEmpty, ResultsAccumulate, PTL
DEF DevicesSpec, KernelsAccumulateOnlyDue, Results!Spec

(***************************************************************************)
(* The CPU kernels add to shared tensors with a plain +=, and no two       *)
(* workers ever touch the same cell, however at::parallel_for cuts the     *)
(* tasks and whatever the footprints.                                      *)
(***************************************************************************)
THEOREM CpuKernelsRaceFree == DevicesSpec => []CpuRaceFree
BY KernelsInductive, CpuInvRaceFree, PTL

(***************************************************************************)
(* When an MPS pass is over its gradients are exact, and every element of  *)
(* its uninitialized tensors has been written.                             *)
(***************************************************************************)
THEOREM MpsPassExact == DevicesSpec => []MpsExactWhenOver
BY KernelsInductive, MpsInvExact, PTL

=============================================================================
