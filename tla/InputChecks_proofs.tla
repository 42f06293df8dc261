------------------------- MODULE InputChecks_proofs -------------------------
(***************************************************************************)
(* The input checks of the operators do what they are for: those of sizes  *)
(* (CudaIndexing), for every width, block size and set of calls, and those *)
(* of metadata (InputContract), for every build and every set of calls of  *)
(* the types that PyTorch gives them.                                      *)
(*                                                                         *)
(* What the fake registration accepts and what a native entry point does   *)
(* is compared in WhatRunsTraces and RefusedFor.  The properties of a call *)
(* follow once it is known, at every stage, which operator call was made   *)
(* of the program's (Passed) and which checks that has met: a backward     *)
(* pass, in particular, meets checks that its forward pass has decided     *)
(* (BackpropInv).                                                          *)
(***************************************************************************)
EXTENDS CudaIndexing, InputContract, TLAPS

-----------------------------------------------------------------------------
(* Integer arithmetic.                                                     *)

(* Euclidean division. *)
LEMMA DivBounds ==
    ASSUME NEW a \in Nat, NEW b \in Nat \ {0}
    PROVE  /\ a \div b \in Nat
           /\ (a \div b) * b <= a
           /\ a < (a \div b) * b + b
OBVIOUS

(* Multiplication is strictly monotone. *)
LEMMA TimesMonotone ==
    ASSUME NEW a \in Nat, NEW b \in Nat, NEW c \in Nat, a < b
    PROVE  a * c + c <= b * c
OBVIOUS

(* Multiplication is monotone. *)
LEMMA TimesLeq ==
    ASSUME NEW a \in Nat, NEW b \in Nat, NEW c \in Nat, a <= b
    PROVE  a * c <= b * c
OBVIOUS

(* A product of positive numbers bounds its factors. *)
LEMMA TimesPositive ==
    ASSUME NEW a \in Nat \ {0}, NEW b \in Nat \ {0}
    PROVE  a * b \in Nat \ {0} /\ a <= a * b /\ b <= a * b
OBVIOUS

(* Half of a number, rounded down. *)
LEMMA HalfBound ==
    ASSUME NEW k \in Nat
    PROVE  k \div 2 \in Nat /\ 2 * (k \div 2) <= k
OBVIOUS

-----------------------------------------------------------------------------
(* cuda_blocks.                                                            *)

(* Rounding up a multiple of the block size gives exactly that multiple. *)
LEMMA CudaBlocksBounds ==
    ASSUME NEW work \in Nat \ {0}, NEW b \in Nat \ {0}
    PROVE  /\ cuda_blocks(work, b) \in Nat \ {0}
           /\ work <= cuda_blocks(work, b) * b
           /\ \A m \in Nat : work = m * b => cuda_blocks(work, b) = m
<1> DEFINE q == (work - 1) \div b
<1>1. work - 1 \in Nat
  OBVIOUS
<1>2. q \in Nat /\ q * b <= work - 1 /\ work - 1 < q * b + b
  BY <1>1, DivBounds
<1>3. (q + 1) * b = q * b + b
  BY <1>2
<1>4. work <= (q + 1) * b
  BY <1>2, <1>3
<1>5. ASSUME NEW m \in Nat, work = m * b PROVE q + 1 = m
  <2>1. ~(m < q + 1)
    <3> SUFFICES ASSUME m <= q PROVE FALSE
      BY <1>2
    <3>1. m * b <= q * b
      BY <1>2, TimesMonotone
    <3> QED
      BY <3>1, <1>2, <1>5
  <2>2. ~(q + 1 < m)
    <3> SUFFICES ASSUME q + 1 < m PROVE FALSE
      OBVIOUS
    <3>1. (q + 1) * b + b <= m * b
      BY <1>2, TimesMonotone
    <3> QED
      BY <3>1, <1>2, <1>3, <1>5
  <2> QED
    BY <2>1, <2>2, <1>2
<1> QED
  BY <1>2, <1>4, <1>5 DEF cuda_blocks

(* The padded grid exceeds the work by less than one block. *)
LEMMA CudaBlocksPadding ==
    ASSUME NEW work \in Nat \ {0}, NEW b \in Nat \ {0}
    PROVE  cuda_blocks(work, b) * b <= work - 1 + b
<1> DEFINE q == (work - 1) \div b
<1>1. work - 1 \in Nat
  OBVIOUS
<1>2. q \in Nat /\ q * b <= work - 1
  BY <1>1, DivBounds
<1>3. (q + 1) * b = q * b + b
  BY <1>2
<1> QED
  BY <1>2, <1>3 DEF cuda_blocks

(* Less work in larger blocks needs no more blocks. *)
LEMMA CudaBlocksMonotone ==
    ASSUME NEW m \in Nat \ {0}, NEW work \in Nat \ {0}, m <= work,
           NEW a \in Nat \ {0}, NEW b \in Nat \ {0}, a <= b
    PROVE  cuda_blocks(m, b) <= cuda_blocks(work, a)
<1> DEFINE q == (m - 1) \div b
           u == (work - 1) \div a
<1>1. m - 1 \in Nat /\ work - 1 \in Nat
  OBVIOUS
<1>2. q \in Nat /\ q * b <= m - 1
  BY <1>1, DivBounds
<1>3. u \in Nat /\ work - 1 < u * a + a
  BY <1>1, DivBounds
<1>4. u * a + a = (u + 1) * a
  BY <1>3
<1>5. (u + 1) * a <= (u + 1) * b
  BY <1>3
<1>6. q < u + 1
  <2> SUFFICES ASSUME u + 1 <= q PROVE FALSE
    BY <1>2, <1>3
  <2>1. (u + 1) * b <= q * b
    BY <1>2, <1>3
  <2> HIDE DEF q, u
  <2> QED
    BY <2>1, <1>2, <1>3, <1>4, <1>5
<1> HIDE DEF q, u
<1>7. cuda_blocks(m, b) = q + 1 /\ cuda_blocks(work, a) = u + 1
  BY DEF cuda_blocks, q, u
<1> QED
  BY <1>2, <1>3, <1>6, <1>7

-----------------------------------------------------------------------------
(* CudaIndexing: what an accepted call guarantees.                         *)

(* Every dimension of an accepted call is positive, and so are its sizes. *)
LEMMA AcceptedSizes ==
    ASSUME NEW r \in RequestType, Accepts(r)
    PROVE  /\ r.N \in Nat \ {0} /\ r.step \in Nat \ {0} /\ r.D \in Nat \ {0}
           /\ ChunkOf(r) \in 1 .. r.N
           /\ PerValue(r) \in Nat \ {0}
           /\ PerWeights(r) \in Nat \ {0}
           /\ PerLocations(r) \in Nat \ {0}
           /\ 2 * r.L <= PerLocations(r)
           /\ r.Q * (r.M * r.D) \in Nat \ {0}
<1>1. /\ r.N \in Nat \ {0} /\ r.S \in Nat \ {0} /\ r.M \in Nat \ {0} /\ r.D \in Nat \ {0}
      /\ r.L \in Nat \ {0} /\ r.Q \in Nat \ {0} /\ r.P \in Nat \ {0}
  <2>1. /\ r.N \in Nat /\ r.S \in Nat /\ r.M \in Nat /\ r.D \in Nat
        /\ r.L \in Nat /\ r.Q \in Nat /\ r.P \in Nat
    BY DEF RequestType
  <2>2. \A dim \in {r.N, r.S, r.M, r.D, r.L, r.Q, r.P} : dim > 0
    BY DEF Accepts, DimensionsFit
  <2> QED
    BY <2>1, <2>2
<1>2. r.step \in Nat \ {0}
  BY DEF RequestType, Accepts, DimensionsFit
<1>3. ChunkOf(r) \in 1 .. r.N
  BY <1>1, <1>2 DEF ChunkOf, Least
<1>4. r.M * r.D \in Nat \ {0} /\ r.L * r.P \in Nat \ {0} /\ r.L <= r.L * r.P
  BY <1>1, TimesPositive
<1>5. r.S * (r.M * r.D) \in Nat \ {0} /\ r.Q * (r.M * r.D) \in Nat \ {0}
  BY <1>1, <1>4, TimesPositive
<1>6. r.M * (r.L * r.P) \in Nat \ {0} /\ r.L * r.P <= r.M * (r.L * r.P)
  BY <1>1, <1>4, TimesPositive
<1>7. /\ r.Q * (r.M * (r.L * r.P)) \in Nat \ {0}
      /\ r.M * (r.L * r.P) <= r.Q * (r.M * (r.L * r.P))
  BY <1>1, <1>6, TimesPositive
<1>8. PerWeights(r) \in Nat \ {0} /\ r.L <= PerWeights(r)
  <2> DEFINE a == r.L * r.P
             b == r.M * (r.L * r.P)
             c == r.Q * (r.M * (r.L * r.P))
  <2>1. a \in Nat /\ b \in Nat /\ c \in Nat \ {0} /\ r.L <= a /\ a <= b /\ b <= c
    BY <1>4, <1>6, <1>7
  <2>2. PerWeights(r) = c
    BY DEF PerWeights
  <2> HIDE DEF a, b, c
  <2> QED
    BY <1>1, <2>1, <2>2
<1>9. PerLocations(r) \in Nat \ {0} /\ 2 * r.L <= PerLocations(r)
  <2> DEFINE w == PerWeights(r)
  <2>1. PerLocations(r) = w * 2
    BY DEF PerLocations
  <2>2. w \in Nat \ {0} /\ r.L <= w
    BY <1>8
  <2> HIDE DEF w
  <2> QED
    BY <1>1, <2>1, <2>2
<1>10. PerValue(r) \in Nat \ {0}
  BY <1>5 DEF PerValue
<1> QED
  BY <1>1, <1>2, <1>3, <1>5, <1>8, <1>9, <1>10

(* Work of a chunk, and of the part of it that is left at the end.         *)
LEMMA WorkMonotone ==
    ASSUME NEW r \in RequestType, Accepts(r),
           NEW a \in Nat \ {0}, NEW b \in Nat, a <= b
    PROVE  /\ Work(r, a) \in Nat \ {0} /\ Work(r, b) \in Nat \ {0}
           /\ Work(r, a) <= Work(r, b)
<1> DEFINE x == r.Q * (r.M * r.D)
<1>1. x \in Nat \ {0}
  BY AcceptedSizes
<1>2. Work(r, a) = a * x /\ Work(r, b) = b * x
  BY DEF Work
<1> HIDE DEF x
<1>3. a * x \in Nat \ {0} /\ b * x \in Nat \ {0} /\ a * x <= b * x
  BY <1>1, TimesLeq, TimesPositive
<1> QED
  BY <1>2, <1>3

(* A launch has at least the threads its grid was planned for. *)
LEMMA ThreadsType ==
    ASSUME NEW r \in RequestType, Accepts(r)
    PROVE  /\ Threads(r) \in 1 .. MaxThreads
           /\ Least(r.D, MaxThreads) \in Nat \ {0}
           /\ Least(r.D, MaxThreads) <= Threads(r)
<1>1. r.D \in Nat \ {0}
  BY AcceptedSizes
<1> QED
  BY <1>1, WidthAssumption DEF Threads, Least

(* The grid that was planned bounds the grid of every chunk.               *)
LEMMA GridBound ==
    ASSUME NEW r \in RequestType, Accepts(r),
           NEW a \in Nat \ {0}, a <= ChunkOf(r)
    PROVE  cuda_blocks(Work(r, a), Threads(r)) <= IntMax
<1> DEFINE c == ChunkOf(r)
           planned == cuda_blocks(Work(r, c), Least(r.D, MaxThreads))
           actual == cuda_blocks(Work(r, a), Threads(r))
<1>1. c \in Nat
  BY AcceptedSizes
<1>2. Work(r, a) \in Nat \ {0} /\ Work(r, c) \in Nat \ {0} /\ Work(r, a) <= Work(r, c)
  BY <1>1, WorkMonotone
<1>3. actual <= planned
  BY <1>2, ThreadsType, CudaBlocksMonotone
<1>4. planned <= IntMax
  BY DEF Accepts, PlannedGridFits
<1>5. actual \in Nat /\ planned \in Nat
  BY <1>2, ThreadsType, CudaBlocksBounds
<1> HIDE DEF actual, planned
<1>6. actual <= IntMax
  BY <1>3, <1>4, <1>5, WidthAssumption
<1> QED
  BY <1>6 DEF actual

-----------------------------------------------------------------------------
(* CudaIndexing: the inductive invariant.                                  *)

(* The plan is there from the check on, and a refused call has none.       *)
Planned ==
    /\ phase \in {"called", "rejected"} => plan = NoPlan /\ batch_n = 0
    /\ phase = "called" => n = 0
    /\ phase \in {"launching", "returned"} =>
           Accepts(request) /\ plan = check_cuda_indexing(request)
    /\ phase = "returned" => n >= request.N
    /\ batch_n <= plan.chunk

CoveredOnce == \A b \in DOMAIN launched : launched[b] = IF b < n THEN 1 ELSE 0

IInv == TypeOK /\ Planned /\ CoveredOnce

(* check_cuda_indexing returns a plan. *)
LEMMA PlanType ==
    ASSUME NEW r \in RequestType, Accepts(r)
    PROVE  /\ check_cuda_indexing(r) \in
                [chunk : Nat, perValue : Nat, perLocations : Nat, useInt32 : BOOLEAN]
           /\ check_cuda_indexing(r).chunk = ChunkOf(r)
<1>1. ChunkOf(r) \in Nat /\ PerValue(r) \in Nat /\ PerLocations(r) \in Nat
  BY AcceptedSizes
<1>2. UseInt32(r) \in BOOLEAN
  BY DEF UseInt32
<1> QED
  BY <1>1, <1>2 DEF check_cuda_indexing

(* A chunk is never refused, never empty and never reaches beyond the call. *)
LEMMA ChunkAccepted ==
    ASSUME TypeOK, Planned, phase = "launching", n < request.N
    PROVE  /\ Accepts(request) /\ request \in RequestType
           /\ plan.chunk = ChunkOf(request) /\ plan.chunk \in 1 .. request.N
           /\ BatchesLeft \in 1 .. plan.chunk
           /\ n + BatchesLeft <= request.N
           /\ BatchesLeft \in {plan.chunk, request.N - n}
           /\ Grid(BatchesLeft) <= IntMax
<1>1. Accepts(request) /\ request \in RequestType /\ plan = check_cuda_indexing(request)
  BY WidthAssumption DEF TypeOK, Planned
<1>2. plan.chunk = ChunkOf(request) /\ plan.chunk \in 1 .. request.N
  BY <1>1, PlanType, AcceptedSizes
<1>3. n \in Nat /\ request.N \in Nat
  BY <1>1, AcceptedSizes DEF TypeOK
<1>4. /\ BatchesLeft \in 1 .. plan.chunk
      /\ n + BatchesLeft <= request.N
      /\ BatchesLeft \in {plan.chunk, request.N - n}
  BY <1>2, <1>3 DEF BatchesLeft, Least
<1>5. Grid(BatchesLeft) <= IntMax
  BY <1>1, <1>2, <1>4, GridBound DEF Grid
<1> QED
  BY <1>1, <1>2, <1>4, <1>5

(* The invariant holds when the operator is called. *)
LEMMA InitInv == Init => IInv
<1> SUFFICES ASSUME Init PROVE IInv
  OBVIOUS
<1>1. request \in RequestType /\ request.N \in Nat
  BY WidthAssumption DEF Init, RequestType
<1>2. TypeOK
  BY <1>1 DEF Init, TypeOK, NoPlan
<1>3. Planned
  BY DEF Init, Planned, NoPlan
<1>4. CoveredOnce
  BY <1>1 DEF Init, CoveredOnce
<1> QED
  BY <1>2, <1>3, <1>4 DEF IInv

(* One iteration of the chunk loop preserves it. *)
LEMMA LaunchInv ==
    ASSUME IInv, LaunchChunk
    PROVE  IInv'
<1>1. phase = "launching" /\ n < request.N /\ TypeOK /\ Planned
  BY DEF IInv, LaunchChunk
<1> DEFINE c == plan.chunk
           k == BatchesLeft
<1>2. /\ Accepts(request) /\ request \in RequestType
      /\ c \in 1 .. request.N /\ k \in 1 .. c /\ n + k <= request.N
      /\ k \in {c, request.N - n} /\ Grid(BatchesLeft) <= IntMax
  BY <1>1, ChunkAccepted
<1>3. n \in Nat /\ request.N \in Nat /\ launched \in [0 .. request.N - 1 -> Nat]
  BY <1>1, <1>2, AcceptedSizes DEF TypeOK
<1>4. /\ batch_n' = k /\ n' = n + c
      /\ launched' = [b \in DOMAIN launched \cup n .. n + k - 1 |->
             IF b \in n .. n + k - 1
             THEN (IF b \in DOMAIN launched THEN launched[b] ELSE 0) + 1
             ELSE launched[b]]
      /\ UNCHANGED <<phase, request, plan>>
  BY <1>2 DEF LaunchChunk, NextBatch
<1> HIDE DEF c, k
<1>5. DOMAIN launched \cup n .. n + k - 1 = 0 .. request.N - 1
  BY <1>2, <1>3
<1>6. launched' = [b \in 0 .. request.N - 1 |->
                      IF b \in n .. n + k - 1 THEN launched[b] + 1 ELSE launched[b]]
  BY <1>3, <1>4, <1>5
<1>7. TypeOK'
  BY <1>1, <1>2, <1>3, <1>4, <1>6 DEF TypeOK
<1>8. Planned'
  BY <1>1, <1>2, <1>4 DEF Planned, c
<1>9. CoveredOnce'
  <2> SUFFICES ASSUME NEW b \in 0 .. request.N - 1
               PROVE  launched'[b] = IF b < n + c THEN 1 ELSE 0
    BY <1>4, <1>6 DEF CoveredOnce
  <2>1. launched[b] = IF b < n THEN 1 ELSE 0
    BY <1>3 DEF IInv, CoveredOnce
  <2>2. b \in n .. n + k - 1 <=> b >= n /\ b < n + c
    BY <1>2, <1>3
  <2> QED
    BY <1>2, <1>3, <1>6, <2>1, <2>2
<1> QED
  BY <1>7, <1>8, <1>9 DEF IInv

(* So does every step. *)
LEMMA NextInv ==
    ASSUME IInv, [Next]_vars
    PROVE  IInv'
<1>1. CASE Reject
  BY <1>1 DEF Reject, IInv, TypeOK, Planned, CoveredOnce
<1>2. CASE Plan
  <2>1. /\ Accepts(request) /\ request \in RequestType
        /\ plan' = check_cuda_indexing(request) /\ phase' = "launching"
        /\ UNCHANGED <<request, n, batch_n, launched>>
    BY <1>2, WidthAssumption DEF Plan, IInv, TypeOK
  <2>2. plan' \in [chunk : Nat, perValue : Nat, perLocations : Nat, useInt32 : BOOLEAN]
    BY <2>1, PlanType
  <2>3. batch_n = 0
    BY <1>2 DEF Plan, IInv, Planned
  <2> QED
    BY <2>1, <2>2, <2>3 DEF IInv, TypeOK, Planned, CoveredOnce
<1>3. CASE LaunchChunk
  BY <1>3, LaunchInv
<1>4. CASE Return
  BY <1>4 DEF Return, IInv, TypeOK, Planned, CoveredOnce
<1>5. CASE UNCHANGED vars
  BY <1>5 DEF vars, IInv, TypeOK, Planned, CoveredOnce
<1> QED
  BY <1>1, <1>2, <1>3, <1>4, <1>5 DEF Next, Finished

(***************************************************************************)
(* The invariant of the chunk loop: the plan is the one of an accepted     *)
(* call, and the batches before n are exactly those that were launched.    *)
(***************************************************************************)
THEOREM Inductive == Spec => []IInv
<1>1. Init => IInv
  BY InitInv
<1>2. IInv /\ [Next]_vars => IInv'
  BY NextInv
<1> QED
  BY <1>1, <1>2, PTL DEF Spec

-----------------------------------------------------------------------------
(* CudaIndexing: the properties.                                           *)

(* Type correctness of the host's check and chunk loop, as TypeOK says.    *)
THEOREM TypeCorrect == Spec => []TypeOK
<1>1. IInv => TypeOK
  BY DEF IInv
<1> QED
  BY <1>1, Inductive, PTL

(***************************************************************************)
(* GET_BLOCKS never refuses a chunk of a call whose plan was accepted:     *)
(* check_cuda_indexing's own cuda_blocks call is the strictest one.        *)
(***************************************************************************)
THEOREM NoLateRefusal == Spec => []RefusedUpFront
<1>1. IInv => RefusedUpFront
  BY DEF IInv, Planned, RefusedUpFront
<1> QED
  BY <1>1, Inductive, PTL

(* The chunk loop launches each batch exactly once, whatever im2col_step.  *)
THEOREM BatchesCovered == Spec => []EachBatchOnce
<1>1. IInv => EachBatchOnce
  <2> SUFFICES ASSUME IInv PROVE EachBatchOnce
    OBVIOUS
  <2>1. \A b \in DOMAIN launched : launched[b] = IF b < n THEN 1 ELSE 0
    BY DEF IInv, CoveredOnce
  <2>2. ASSUME phase = "returned", NEW b \in 0 .. request.N - 1
        PROVE  launched[b] = 1
    <3>1. n >= request.N /\ Accepts(request) /\ request \in RequestType
      BY <2>2, WidthAssumption DEF IInv, Planned, TypeOK
    <3>2. request.N \in Nat /\ n \in Nat /\ b \in DOMAIN launched
      BY <3>1, AcceptedSizes DEF IInv, TypeOK
    <3>3. b < n
      BY <2>2, <3>1, <3>2
    <3> QED
      BY <2>1, <3>2, <3>3
  <2> QED
    BY <2>1, <2>2 DEF EachBatchOnce
<1> QED
  BY <1>1, Inductive, PTL

(* A tensor that was accepted as a whole bounds the part up to any batch.  *)
LEMMA SpanBound ==
    ASSUME NEW N \in Nat, NEW size \in Nat, NEW a \in Nat, a <= N,
           Safe(N * size)
    PROVE  a * size <= LongMax \div 2
<1>1. a * size \in Nat /\ N * size \in Nat /\ a * size <= N * size
  BY TimesLeq
<1>2. N * size <= LongMax \div 2 /\ LongMax \div 2 \in Nat
  BY HalfBound, WidthAssumption DEF Safe
<1> QED
  BY <1>1, <1>2

(* The host's 64-bit pointer offsets and loop variable never overflow.     *)
THEOREM HostOffsetsSafe == Spec => []OffsetsFit
<1>1. IInv => OffsetsFit
  <2> SUFFICES ASSUME IInv, phase = "launching", n < request.N
               PROVE  /\ (n + BatchesLeft) * plan.perValue <= LongMax
                      /\ (n + BatchesLeft) * plan.perLocations <= LongMax
                      /\ n + plan.chunk <= LongMax
    BY DEF OffsetsFit
  <2> DEFINE m == n + BatchesLeft
             V == PerValue(request)
             W == PerLocations(request)
  <2>1. /\ Accepts(request) /\ request \in RequestType
        /\ plan.chunk \in 1 .. request.N
        /\ BatchesLeft \in 1 .. plan.chunk /\ m <= request.N
    BY ChunkAccepted DEF IInv
  <2>2. request.N \in Nat /\ V \in Nat \ {0} /\ W \in Nat \ {0} /\ n \in Nat
    BY <2>1, AcceptedSizes DEF IInv, TypeOK
  <2>3. plan.perValue = V /\ plan.perLocations = W
    BY DEF IInv, Planned, check_cuda_indexing
  <2>4. Safe(request.N * V) /\ Safe(request.N * W)
    BY <2>1 DEF Accepts, SafeTensors
  <2>5. m \in Nat
    BY <2>1, <2>2
  <2>6. LongMax \in Nat /\ LongMax \div 2 \in Nat /\ 2 * (LongMax \div 2) <= LongMax
    BY HalfBound, WidthAssumption
  <2> HIDE DEF m, V, W
  <2>7. m * V <= LongMax \div 2 /\ m * W <= LongMax \div 2
    BY <2>1, <2>2, <2>4, <2>5, SpanBound
  <2>8. m * V \in Nat /\ m * W \in Nat
    BY <2>2, <2>5
  <2>9. request.N <= LongMax \div 2
    <3>1. request.N <= request.N * V /\ request.N * V \in Nat
      BY <2>2, TimesPositive
    <3> QED
      BY <3>1, <2>2, <2>4, <2>6 DEF Safe
  <2>10. n + plan.chunk <= LongMax
    BY <2>1, <2>2, <2>6, <2>9
  <2>11. m * V <= LongMax /\ m * W <= LongMax
    BY <2>6, <2>7, <2>8
  <2> QED
    BY <2>3, <2>10, <2>11 DEF m
<1> QED
  BY <1>1, Inductive, PTL

(***************************************************************************)
(* The bounds check_cuda_indexing puts on a chunk suffice for the index    *)
(* type it picks, including the increment after the last live thread.      *)
(***************************************************************************)
THEOREM KernelIndicesSafe == Spec => []IndicesFit
<1>1. IInv => IndicesFit
  <2> DEFINE r == request
             k == batch_n
             c == ChunkOf(request)
             w == Work(r, k)
             g == Grid(batch_n)
             T == Threads(r)
             V == PerValue(r)
             W == PerLocations(r)
             limit == IF plan.useInt32 THEN IntMax ELSE LongMax
  <2> SUFFICES ASSUME IInv, k > 0
               PROVE  /\ w - 1 + T * g <= limit
                      /\ k * W <= limit
                      /\ k * V <= limit
                      /\ 2 * r.L <= limit
    BY DEF IndicesFit, DevicePeaks
  <2>1. Accepts(r) /\ r \in RequestType /\ plan = check_cuda_indexing(r)
    BY WidthAssumption DEF IInv, TypeOK, Planned
  <2>2. k \in Nat \ {0} /\ k <= c /\ c \in Nat /\ c <= r.N /\ r.N \in Nat
    BY <2>1, PlanType, AcceptedSizes DEF IInv, TypeOK, Planned
  <2>3. V \in Nat \ {0} /\ W \in Nat \ {0} /\ 2 * r.L <= W
    BY <2>1, AcceptedSizes
  <2>4. w \in Nat \ {0} /\ Work(r, c) \in Nat \ {0} /\ w <= Work(r, c)
    BY <2>1, <2>2, WorkMonotone
  <2>5. T \in 1 .. MaxThreads
    BY <2>1, ThreadsType
  <2>6. g \in Nat \ {0} /\ g <= IntMax
    <3>1. T \in Nat \ {0}
      BY <2>5, WidthAssumption
    <3>2. cuda_blocks(w, T) \in Nat \ {0}
      BY <2>4, <3>1, CudaBlocksBounds
    <3>3. cuda_blocks(w, T) <= IntMax
      BY <2>1, <2>2, GridBound
    <3> QED
      BY <3>2, <3>3 DEF Grid
  <2>7. g * T <= w - 1 + T
    <3>1. T \in Nat \ {0}
      BY <2>5, WidthAssumption
    <3> QED
      BY <2>4, <3>1, CudaBlocksPadding DEF Grid
  <2>8. plan.useInt32 = UseInt32(r)
    BY <2>1 DEF check_cuda_indexing
  <2>9. /\ IntMax \in Nat /\ IntMax \div 2 \in Nat /\ 2 * (IntMax \div 2) <= IntMax
        /\ LongMax \in Nat /\ LongMax \div 2 \in Nat /\ 2 * (LongMax \div 2) <= LongMax
        /\ MaxThreads \in Nat \ {0} /\ IntMax * MaxThreads <= LongMax \div 2
    BY HalfBound, WidthAssumption
  <2>10. T * g = g * T /\ g * T \in Nat /\ g * T <= IntMax * MaxThreads
    <3>1. g * T <= IntMax * T
      BY <2>5, <2>6, <2>9, TimesLeq
    <3>2. T * IntMax <= MaxThreads * IntMax
      BY <2>5, <2>9, TimesLeq
    <3> HIDE DEF g, T
    <3>3. IntMax * T = T * IntMax /\ MaxThreads * IntMax = IntMax * MaxThreads
      BY <2>5, <2>9
    <3>4. g * T \in Nat /\ T * g = g * T /\ IntMax * T \in Nat /\ IntMax * MaxThreads \in Nat
      BY <2>5, <2>6, <2>9
    <3> QED
      BY <3>1, <3>2, <3>3, <3>4
  <2>11. /\ k * W \in Nat /\ c * W \in Nat /\ k * W <= c * W /\ W <= k * W
         /\ k * V \in Nat /\ c * V \in Nat /\ k * V <= c * V
         /\ 2 * r.L \in Nat /\ 2 * r.L <= k * W
    <3>1. /\ k * W \in Nat /\ c * W \in Nat /\ k * W <= c * W /\ W <= k * W
          /\ k * V \in Nat /\ c * V \in Nat /\ k * V <= c * V
      BY <2>2, <2>3, TimesLeq, TimesPositive
    <3>2. 2 * r.L \in Nat
      BY <2>1 DEF RequestType
    <3> HIDE DEF W
    <3>3. 2 * r.L <= k * W
      BY <2>3, <3>1, <3>2
    <3> QED
      BY <3>1, <3>2, <3>3
  <2>12. CASE plan.useInt32
    <3>1. /\ c * V <= IntMax \div 2 /\ c * W <= IntMax \div 2
          /\ Work(r, c) <= IntMax \div 2 - (MaxThreads - 1)
      BY <2>8, <2>12 DEF UseInt32
    <3> DEFINE full == Work(r, c)
               half == IntMax \div 2
    <3>2. full \in Nat /\ w <= full /\ full <= half - (MaxThreads - 1)
          /\ half \in Nat /\ 2 * half <= IntMax
      BY <2>4, <2>9, <3>1
    <3>3. limit = IntMax
      BY <2>12
    <3> HIDE DEF full, half, w, g, T, V, W, limit, k
    <3>4. w - 1 + T * g <= IntMax
      BY <3>2, <2>4, <2>5, <2>7, <2>9, <2>10
    <3>5. k * W <= IntMax /\ k * V <= IntMax
      BY <3>1, <2>9, <2>11
    <3>6. 2 * r.L <= IntMax
      BY <3>5, <2>9, <2>11
    <3> QED
      BY <3>3, <3>4, <3>5, <3>6
  <2>13. CASE ~plan.useInt32
    <3>1. c * V <= LongMax \div 2 /\ c * W <= LongMax \div 2
      BY <2>1, <2>2, <2>3, SpanBound DEF Accepts, SafeTensors
    <3>2. Work(r, c) <= LongMax \div 2
      BY <2>1 DEF Accepts, SafeTensors, Safe
    <3>3. limit = LongMax
      BY <2>13
    <3> DEFINE full == Work(r, c)
               half == LongMax \div 2
    <3>4. full \in Nat /\ w <= full /\ full <= half /\ half \in Nat /\ 2 * half <= LongMax
      BY <2>4, <2>9, <3>2
    <3>5. T * g <= half /\ T * g \in Nat
      <4> HIDE DEF g, T
      <4>1. IntMax * MaxThreads \in Nat
        BY <2>9
      <4> QED
        BY <2>9, <2>10, <4>1
    <3> HIDE DEF full, half, w, g, T, V, W, limit, k
    <3>6. w - 1 + T * g <= LongMax
      BY <2>4, <2>9, <3>4, <3>5
    <3>7. k * W <= LongMax /\ k * V <= LongMax
      BY <3>1, <2>9, <2>11
    <3>8. 2 * r.L <= LongMax
      BY <3>7, <2>9, <2>11
    <3> QED
      BY <3>3, <3>6, <3>7, <3>8
  <2> QED
    BY <2>12, <2>13
<1> QED
  BY <1>1, Inductive, PTL

-----------------------------------------------------------------------------
(* InputContract: the invariant.                                           *)

HubEntry == "ms_deform_attn_backward"

(* The operator call made of a program's call. *)
Passed(c) ==
    IF c.entry = "ms_deform_attn" THEN
        IF UnderAutocast(c) THEN [AutocastFloat(c) EXCEPT !.entry = "forward"]
        ELSE IF WidensInput(c)
        THEN [[c EXCEPT !.value = Float(@), !.locations = Float(@), !.weights = Float(@)]
                 EXCEPT !.entry = "forward"]
        ELSE [c EXCEPT !.entry = "forward"]
    ELSE IF c.entry = HubEntry THEN
        IF c.value.dtype \in LowPrecision
        THEN [c EXCEPT !.entry = "backward", !.value = Float(@), !.locations = Float(@),
                       !.weights = Float(@), !.grad = Float(@)]
        ELSE [c EXCEPT !.entry = "backward"]
    ELSE c

StageInv ==
    /\ stage \in {"convert", "convert gradient", "operator", "return", "returned", "raised"}
    /\ stage = "convert" => call.entry = "ms_deform_attn" /\ fake = <<>> /\ ~backprop
    /\ stage = "convert gradient" => call.entry = HubEntry /\ fake = <<>> /\ ~backprop
    /\ stage \in {"operator", "return", "returned"} =>
           /\ op.entry \in {"forward", "backward"}
           /\ ~backprop => op = Passed(call)
           /\ call.entry = "ms_deform_attn" /\ WidensInput(call) => Matches(call)
           /\ call.entry = HubEntry /\ call.value.dtype \in LowPrecision => HubConvertible(call)

(* The operator accepts the backward call of a forward call that ran. *)
BackpropInv ==
    backprop =>
        /\ stage \in {"operator", "return", "returned"}
        /\ op.entry = "backward"
        /\ call.entry # HubEntry
        /\ NativeAccepts(op)

TracedInv == stage = "operator" /\ fake # <<>> => FakeAccepts(op)

AnswerDtype ==
    IF call.entry = "ms_deform_attn" /\ NarrowsAnswer(call)
    THEN call.value.dtype ELSE op.value.dtype

ResultInv ==
    /\ stage = "return" => result = NativeResult(op)
    /\ stage \in {"return", "returned"} => NativeAccepts(op)
    /\ stage = "returned" /\ op.entry = "forward" =>
           result[1] = [shape |-> Output(op), dtype |-> AnswerDtype, device |-> op.value.device]
    /\ stage = "returned" /\ call.entry = HubEntry =>
           \A k \in 1 .. 3 : result[k].dtype = call.value.dtype

RaisedInv ==
    stage = "raised" =>
        /\ ~backprop
        /\ fake # <<>> =>
               \/ ~op.fit
               \/ op.step > StepMax
               \/ op.value.device[1] \notin Built \cup {"cpu"}
        /\ call.entry = "ms_deform_attn" =>
               WidensInput(call) \/ (op = Passed(call) /\ ~NativeAccepts(op))

ContractInv ==
    /\ call \in Calls /\ op \in CallType /\ backprop \in BOOLEAN
    /\ StageInv
    /\ BackpropInv
    /\ TracedInv
    /\ ResultInv
    /\ RaisedInv

-----------------------------------------------------------------------------
(* InputContract: the checks agree.                                        *)

(* There is one CPU. *)
LEMMA OneCpu == \A d \in DeviceType : d[1] = "cpu" => d = <<"cpu", 0>>
BY DEF DeviceType

LEMMA PrefixOfSix ==
    ASSUME NEW l \in Seq(Nat), NEW w \in Seq(Nat), Len(l) = 6
    PROVE  w = SubSeq(l, 1, 5) <=> Len(w) = 5 /\ \A k \in 1 .. 5 : w[k] = l[k]
OBVIOUS

LEMMA ThreeSizes ==
    ASSUME NEW s \in Seq(Nat), NEW a \in Nat, NEW b \in Nat, NEW c \in Nat
    PROVE  s = <<a, b, c>> <=> Len(s) = 3 /\ s[1] = a /\ s[2] = b /\ s[3] = c
OBVIOUS

LEMMA CallFields ==
    ASSUME NEW c \in CallType
    PROVE  /\ c.value \in TensorType /\ c.shapes \in TensorType /\ c.starts \in TensorType
           /\ c.locations \in TensorType /\ c.weights \in TensorType /\ c.grad \in TensorType
           /\ c.entry \in Entries /\ c.step \in Int
           /\ c.fit \in BOOLEAN /\ c.autocast \in BOOLEAN /\ c.compiled \in BOOLEAN
BY DEF CallType

LEMMA TensorFields ==
    ASSUME NEW t \in TensorType
    PROVE  /\ t.shape \in Seq(Nat) /\ t.dtype \in DtypeType /\ t.device \in DeviceType
           /\ DOMAIN t = {"shape", "dtype", "device"}
BY DEF TensorType

LEMMA GradShape ==
    ASSUME NEW c \in CallType, Rank(c.value) = 4, Rank(c.locations) = 6
    PROVE  Output(c) \in Seq(Nat) /\
           (c.grad.shape = Output(c) <=>
              /\ Rank(c.grad) = 3
              /\ c.grad.shape[1] = c.value.shape[1]
              /\ c.grad.shape[2] = c.locations.shape[2]
              /\ c.grad.shape[3] = c.value.shape[3] * c.value.shape[4])
<1>1. c.value.shape \in Seq(Nat) /\ c.locations.shape \in Seq(Nat) /\ c.grad.shape \in Seq(Nat)
  BY CallFields, TensorFields
<1>2. Len(c.value.shape) = 4 /\ Len(c.locations.shape) = 6
  BY DEF Rank
<1>3. \A q \in Seq(Nat) : \A k \in 1 .. Len(q) : q[k] \in Nat
  OBVIOUS
<1>4. c.value.shape[1] \in Nat /\ c.value.shape[3] \in Nat /\ c.value.shape[4] \in Nat
  BY <1>1, <1>2, <1>3
<1>5. c.locations.shape[2] \in Nat
  BY <1>1, <1>2, <1>3
<1>6. c.value.shape[3] * c.value.shape[4] \in Nat
  BY <1>4
<1> DEFINE size == c.value.shape[3] * c.value.shape[4]
<1> HIDE DEF size
<1>7. size \in Nat /\ Output(c) = <<c.value.shape[1], c.locations.shape[2], size>>
  BY <1>6 DEF Output, size
<1>8. Output(c) \in Seq(Nat)
  BY <1>4, <1>5, <1>7
<1>9. c.grad.shape = Output(c) <=>
          /\ Len(c.grad.shape) = 3
          /\ c.grad.shape[1] = c.value.shape[1]
          /\ c.grad.shape[2] = c.locations.shape[2]
          /\ c.grad.shape[3] = size
  <2> DEFINE q == c.grad.shape
             x == c.value.shape[1]
             y == c.locations.shape[2]
  <2>1. q \in Seq(Nat) /\ x \in Nat /\ y \in Nat /\ size \in Nat
    BY <1>1, <1>4, <1>5, <1>7
  <2> HIDE DEF q, x, y
  <2>2. q = <<x, y, size>> <=> Len(q) = 3 /\ q[1] = x /\ q[2] = y /\ q[3] = size
    BY <2>1, ThreeSizes
  <2> QED
    BY <2>2, <1>7 DEF q, x, y
<1> QED
  BY <1>8, <1>9 DEF Rank, size

(* What a native entry point accepts, the fake registration accepts. *)
LEMMA WhatRunsTraces ==
    ASSUME NEW c \in CallType, NativeAccepts(c)
    PROVE  FakeAccepts(c)
<1> DEFINE others == {c.shapes, c.starts, c.locations, c.weights}
           kind == c.value.device[1]
<1>1. c.step > 0
  BY CallFields, ContractAssumption DEF NativeAccepts
<1>2. \/ kind = "mps" /\ MpsInputs(c) /\ (c.entry = "backward" => MpsGrad(c))
      \/ kind = "cuda" /\ CudaInputs(c) /\ (c.entry = "backward" => CudaGrad(c))
      \/ kind = "cpu" /\ CpuInputs(c) /\ (c.entry = "backward" => CpuGrad(c))
  BY DEF NativeAccepts, CpuInputs
<1>3. /\ Rank(c.value) = 4 /\ Rank(c.shapes) = 2 /\ Rank(c.starts) = 1 /\ Rank(c.locations) = 6
      /\ c.weights.shape = SubSeq(c.locations.shape, 1, 5)
  BY <1>2 DEF MpsInputs, CudaInputs, CpuInputs
<1>4. c.locations.shape \in Seq(Nat) /\ c.weights.shape \in Seq(Nat)
  BY CallFields, TensorFields
<1>5. Rank(c.weights) = 5 /\ \A k \in 1 .. 5 : c.weights.shape[k] = c.locations.shape[k]
  BY <1>3, <1>4, PrefixOfSix DEF Rank
<1>6. FakeRanks(c)
  BY <1>3, <1>5 DEF FakeRanks
<1>7. FakeTypes(c)
  <2>1. \A t \in others : t.device = c.value.device
    <3>1. CASE kind = "cpu"
      <4>1. \A t \in others \cup {c.value} : t.device[1] = "cpu" /\ t.device \in DeviceType
        BY <1>2, <3>1, CallFields, TensorFields DEF CpuInputs
      <4> QED
        BY <4>1, OneCpu
    <3>2. CASE kind # "cpu"
      BY <1>2, <3>2 DEF MpsInputs, CudaInputs
    <3> QED
      BY <3>1, <3>2
  <2>2. /\ c.value.dtype \in {"float32", "float64"}
        /\ kind = "mps" => c.value.dtype = "float32"
        /\ c.locations.dtype = c.value.dtype /\ c.weights.dtype = c.value.dtype
        /\ c.shapes.dtype = "int64" /\ c.starts.dtype = "int64"
    BY <1>2 DEF MpsInputs, CudaInputs, CpuInputs
  <2> QED
    BY <2>1, <2>2 DEF FakeTypes
<1>8. FakeShapes(c)
  <2>1. /\ c.shapes.shape[2] = 2
        /\ c.starts.shape[1] = c.shapes.shape[1]
        /\ c.locations.shape[1] = c.value.shape[1]
        /\ c.locations.shape[3] = c.value.shape[3]
        /\ c.locations.shape[4] = c.shapes.shape[1]
        /\ c.locations.shape[6] = 2
    BY <1>2 DEF MpsInputs, CudaInputs, CpuInputs
  <2> QED
    BY <2>1, <1>5 DEF FakeShapes
<1>9. FakeNonempty(c)
  <2>1. CASE kind = "cuda"
    BY <1>2, <2>1 DEF CudaInputs, FakeNonempty
  <2>2. CASE kind = "mps"
    <3>1. MpsInputs(c)
      BY <1>2, <2>2
    <3>2. \A k \in 1 .. 4 : c.value.shape[k] > 0
      BY <3>1 DEF MpsInputs
    <3>3. c.locations.shape[2] > 0 /\ c.locations.shape[4] > 0 /\ c.locations.shape[5] > 0
      BY <3>1 DEF MpsInputs
    <3>4. c.shapes.shape[1] > 0
      BY <3>1, <3>3 DEF MpsInputs
    <3> QED
      BY <3>2, <3>3, <3>4 DEF FakeNonempty
  <2> QED
    BY <2>1, <2>2 DEF FakeNonempty
<1>10. ASSUME c.entry = "backward"
       PROVE  /\ Rank(c.grad) = 3
              /\ c.grad.dtype = c.value.dtype
              /\ c.grad.device = c.value.device
              /\ c.grad.shape = <<c.value.shape[1], c.locations.shape[2],
                                  c.value.shape[3] * c.value.shape[4]>>
  <2>1. /\ Rank(c.grad) = 3
        /\ c.grad.shape[1] = c.value.shape[1]
        /\ c.grad.shape[2] = c.locations.shape[2]
        /\ c.grad.shape[3] = c.value.shape[3] * c.value.shape[4]
        /\ c.grad.dtype = c.value.dtype
    BY <1>2, <1>10 DEF MpsGrad, CudaGrad, CpuGrad
  <2>2. c.grad.shape = Output(c)
    BY <1>3, <2>1, GradShape
  <2>3. c.grad.device = c.value.device
    <3>1. CASE kind = "cpu"
      <4>1. c.grad.device[1] = "cpu" /\ c.grad.device \in DeviceType /\ c.value.device \in DeviceType
        BY <1>2, <1>10, <3>1, CallFields, TensorFields DEF CpuGrad
      <4> QED
        BY <3>1, <4>1, OneCpu
    <3>2. CASE kind # "cpu"
      BY <1>2, <1>10, <3>2 DEF MpsGrad, CudaGrad
    <3> QED
      BY <3>1, <3>2
  <2> QED
    BY <2>1, <2>2, <2>3 DEF Output
<1> QED
  BY <1>1, <1>6, <1>7, <1>8, <1>9, <1>10 DEF FakeAccepts

(* And answers the same tensors. *)
LEMMA SameAnswer ==
    ASSUME NEW c \in CallType
    PROVE  FakeResult(c) = NativeResult(c)
<1>1. \A t \in TensorType : New(t.shape, t) = t
  BY DEF New, TensorType
<1>2. CASE c.entry = "backward"
  BY <1>1, <1>2, CallFields DEF FakeResult, NativeResult
<1>3. CASE c.entry # "backward"
  BY <1>3 DEF FakeResult, NativeResult, Output
<1> QED
  BY <1>2, <1>3

(* What was traced is refused for what metadata cannot show. *)
LEMMA RefusedFor ==
    ASSUME NEW c \in CallType, FakeAccepts(c), c.fit, c.step <= StepMax,
           c.value.device[1] \in Built \cup {"cpu"}
    PROVE  NativeAccepts(c)
<1> DEFINE kind == c.value.device[1]
           inputs == {c.shapes, c.starts, c.locations, c.weights}
<1>1. FakeRanks(c) /\ FakeTypes(c) /\ FakeShapes(c) /\ FakeNonempty(c) /\ c.step > 0
  BY DEF FakeAccepts
<1>2. c.step \in 1 .. StepMax
  BY <1>1, CallFields, ContractAssumption
<1>3. kind \in {"cpu", "cuda", "mps"}
  BY ContractAssumption
<1>4. c.locations.shape \in Seq(Nat) /\ c.weights.shape \in Seq(Nat) /\ c.value.shape \in Seq(Nat)
  BY CallFields, TensorFields
<1>5. Len(c.weights.shape) = 5 /\ \A k \in 1 .. 5 : c.weights.shape[k] = c.locations.shape[k]
  BY <1>1 DEF FakeRanks, FakeShapes, Rank
<1>6. c.weights.shape = SubSeq(c.locations.shape, 1, 5)
  <2>1. Len(c.locations.shape) = 6
    BY <1>1 DEF FakeRanks, Rank
  <2> QED
    BY <1>4, <1>5, <2>1, PrefixOfSix
<1>7. /\ Rank(c.value) = 4 /\ Rank(c.shapes) = 2 /\ Rank(c.starts) = 1 /\ Rank(c.locations) = 6
      /\ c.shapes.shape[2] = 2
      /\ c.starts.shape[1] = c.shapes.shape[1]
      /\ c.locations.shape[1] = c.value.shape[1]
      /\ c.locations.shape[3] = c.value.shape[3]
      /\ c.locations.shape[4] = c.shapes.shape[1]
      /\ c.locations.shape[6] = 2
  BY <1>1 DEF FakeRanks, FakeShapes
<1>8. /\ c.value.dtype \in {"float32", "float64"}
      /\ kind = "mps" => c.value.dtype = "float32"
      /\ c.locations.dtype = c.value.dtype /\ c.weights.dtype = c.value.dtype
      /\ c.shapes.dtype = "int64" /\ c.starts.dtype = "int64"
      /\ \A t \in inputs : t.device = c.value.device
  BY <1>1 DEF FakeTypes
<1>9. ASSUME c.entry = "backward"
      PROVE  /\ c.grad.device = c.value.device /\ c.grad.dtype = c.value.dtype
             /\ Rank(c.grad) = 3
             /\ c.grad.shape[1] = c.value.shape[1]
             /\ c.grad.shape[2] = c.locations.shape[2]
             /\ c.grad.shape[3] = c.value.shape[3] * c.value.shape[4]
  <2>1. /\ c.grad.device = c.value.device /\ c.grad.dtype = c.value.dtype
        /\ c.grad.shape = Output(c)
    BY <1>9 DEF FakeAccepts, Output
  <2> QED
    BY <2>1, <1>7, GradShape
<1>10. CASE kind = "cpu"
  <2>1. CpuInputs(c)
    BY <1>1, <1>6, <1>7, <1>8, <1>10 DEF CpuInputs
  <2>2. c.entry = "backward" => CpuGrad(c)
    BY <1>9, <1>10 DEF CpuGrad
  <2> QED
    BY <1>2, <1>10, <2>1, <2>2 DEF NativeAccepts
<1>11. CASE kind = "cuda"
  <2>1. /\ \A k \in 1 .. 4 : c.value.shape[k] > 0
        /\ c.shapes.shape[1] > 0 /\ c.locations.shape[2] > 0 /\ c.locations.shape[5] > 0
    BY <1>1, <1>11 DEF FakeNonempty
  <2>2. CudaInputs(c)
    BY <1>1, <1>6, <1>7, <1>8, <2>1 DEF CudaInputs
  <2>3. c.entry = "backward" => CudaGrad(c)
    BY <1>9 DEF CudaGrad
  <2> QED
    BY <1>2, <1>11, <2>2, <2>3 DEF NativeAccepts
<1>12. CASE kind = "mps"
  <2>1. /\ \A k \in 1 .. 4 : c.value.shape[k] > 0
        /\ c.shapes.shape[1] > 0 /\ c.locations.shape[2] > 0 /\ c.locations.shape[5] > 0
    BY <1>1, <1>12 DEF FakeNonempty
  <2>2. \A k \in {2, 4, 5} : c.locations.shape[k] > 0
    BY <1>7, <2>1
  <2>3. MpsInputs(c)
    BY <1>1, <1>6, <1>7, <1>8, <1>12, <2>1, <2>2 DEF MpsInputs
  <2>4. c.entry = "backward" => MpsGrad(c)
    BY <1>9 DEF MpsGrad
  <2> QED
    BY <1>2, <1>12, <2>3, <2>4 DEF NativeAccepts
<1> QED
  BY <1>3, <1>10, <1>11, <1>12

(* Every entry point computes in one dtype, float32 or double. *)
LEMMA OneDtype ==
    ASSUME NEW c, NativeAccepts(c)
    PROVE  /\ c.value.dtype \in {"float32", "float64"}
           /\ c.locations.dtype = c.value.dtype /\ c.weights.dtype = c.value.dtype
           /\ Rank(c.value) = 4 /\ Rank(c.locations) = 6
<1>1. MpsInputs(c) \/ CudaInputs(c) \/ CpuInputs(c)
  BY DEF NativeAccepts
<1> QED
  BY <1>1 DEF MpsInputs, CudaInputs, CpuInputs

-----------------------------------------------------------------------------
(* InputContract: conversions.                                             *)

LEMMA FloatType ==
    ASSUME NEW t \in TensorType
    PROVE  /\ Float(t) \in TensorType
           /\ Float(t).dtype = "float32" /\ Float(t).shape = t.shape
           /\ Float(t).device = t.device
           /\ t.dtype = "float32" => Float(t) = t
BY DEF Float, TensorType, DtypeType

(* AutocastFloat, field by field. *)
LEMMA AutocastFields ==
    ASSUME NEW c \in CallType
    PROVE  LET low(t) == IF t.dtype \in LowPrecision THEN Float(t) ELSE t IN
           AutocastFloat(c) =
               [c EXCEPT !.value = low(@), !.locations = low(@), !.weights = low(@)]
BY DEF AutocastFloat, CallType

LEMMA PassedType ==
    ASSUME NEW c \in CallType
    PROVE  Passed(c) \in CallType
<1>1. \A t \in TensorType : Float(t) \in TensorType
  BY FloatType
<1>2. AutocastFloat(c) \in CallType
  BY <1>1, AutocastFields DEF CallType
<1> QED
  BY <1>1, <1>2 DEF Passed, CallType, Entries

LEMMA PassedFields ==
    ASSUME NEW c \in CallType
    PROVE  /\ c.entry = "ms_deform_attn" => Passed(c).entry = "forward"
           /\ c.entry = HubEntry => Passed(c).entry = "backward"
           /\ c.entry = HubEntry =>
                  Passed(c).value.dtype =
                      IF c.value.dtype \in LowPrecision THEN "float32" ELSE c.value.dtype
           /\ c.entry = "ms_deform_attn" =>
                  Passed(c).value.dtype =
                      IF c.value.dtype \in LowPrecision /\ (UnderAutocast(c) \/ WidensInput(c))
                      THEN "float32" ELSE c.value.dtype
           /\ c.entry \notin {"ms_deform_attn", HubEntry} => Passed(c) = c
<1>1. \A t \in TensorType : Float(t).dtype = "float32"
  BY FloatType
<1>2. c.value \in TensorType
  BY CallFields
<1>3. CASE c.entry = "ms_deform_attn" /\ UnderAutocast(c)
  BY <1>1, <1>2, <1>3, AutocastFields DEF Passed, HubEntry, CallType
<1>4. CASE c.entry = "ms_deform_attn" /\ ~UnderAutocast(c) /\ WidensInput(c)
  <2>1. c.value.dtype \in LowPrecision
    BY <1>4 DEF WidensInput
  <2> QED
    BY <1>1, <1>2, <1>4, <2>1 DEF Passed, HubEntry, CallType
<1>5. CASE c.entry = "ms_deform_attn" /\ ~UnderAutocast(c) /\ ~WidensInput(c)
  BY <1>5 DEF Passed, HubEntry, CallType
<1>6. CASE c.entry = HubEntry
  BY <1>1, <1>2, <1>6 DEF Passed, HubEntry, CallType
<1>7. CASE c.entry \notin {"ms_deform_attn", HubEntry}
  BY <1>7 DEF Passed
<1> QED
  BY <1>3, <1>4, <1>5, <1>6, <1>7

-----------------------------------------------------------------------------
(* InputContract: the invariant holds.                                     *)

LEMMA InitContract == ContractInit => ContractInv
<1> SUFFICES ASSUME ContractInit PROVE ContractInv
  OBVIOUS
<1>1. call \in Calls /\ op = call /\ op \in CallType /\ ~backprop /\ backprop \in BOOLEAN
  BY CallsAssumption DEF ContractInit
<1>2. StageInv
  <2>1. /\ call \in CallType /\ fake = <<>>
        /\ stage = IF call.entry = "ms_deform_attn" THEN "convert"
                   ELSE IF call.entry = HubEntry THEN "convert gradient"
                   ELSE "operator"
    BY <1>1 DEF ContractInit, HubEntry
  <2>2. CASE stage = "operator"
    <3>1. call.entry \in {"forward", "backward"} /\ call.entry # HubEntry
      BY <2>1, <2>2, CallFields DEF Entries, HubEntry
    <3>2. op = Passed(call)
      BY <1>1, <2>1, <3>1, PassedFields DEF HubEntry
    <3> QED
      BY <1>1, <2>2, <3>1, <3>2 DEF StageInv
  <2>3. CASE stage # "operator"
    BY <1>1, <2>1, <2>3 DEF StageInv
  <2> QED
    BY <2>2, <2>3
<1>3. BackpropInv /\ TracedInv /\ ResultInv /\ RaisedInv
  BY <1>1 DEF ContractInit, BackpropInv, TracedInv, ResultInv, RaisedInv
<1> QED
  BY <1>1, <1>2, <1>3 DEF ContractInv

(* A conversion makes the operator call. *)
LEMMA MakesCall ==
    ASSUME ContractInv, stage \in {"convert", "convert gradient"},
           op' = Passed(call), stage' = "operator",
           call.entry = "ms_deform_attn" /\ WidensInput(call) => Matches(call),
           call.entry = HubEntry /\ call.value.dtype \in LowPrecision => HubConvertible(call),
           UNCHANGED <<call, backprop, fake, result>>
    PROVE  ContractInv'
<1>1. call \in Calls /\ call \in CallType
  BY CallsAssumption DEF ContractInv
<1>2. op' \in CallType
  BY <1>1, PassedType
<1>3. ~backprop /\ fake = <<>> /\ call.entry \in {"ms_deform_attn", HubEntry}
  BY DEF ContractInv, StageInv
<1>4. StageInv'
  BY <1>1, <1>3, PassedFields DEF StageInv
<1>5. BackpropInv' /\ TracedInv' /\ ResultInv' /\ RaisedInv'
  BY <1>3 DEF BackpropInv, TracedInv, ResultInv, RaisedInv
<1> QED
  BY <1>1, <1>2, <1>3, <1>4, <1>5 DEF ContractInv

(* A conversion refuses the call. *)
LEMMA RefusesCall ==
    ASSUME ContractInv, stage \in {"convert", "convert gradient"}, stage' = "raised",
           call.entry = "ms_deform_attn" => WidensInput(call),
           UNCHANGED <<call, op, backprop, fake, result>>
    PROVE  ContractInv'
<1>1. ~backprop /\ fake = <<>>
  BY DEF ContractInv, StageInv
<1>2. StageInv' /\ BackpropInv' /\ TracedInv' /\ ResultInv' /\ RaisedInv'
  BY <1>1 DEF StageInv, BackpropInv, TracedInv, ResultInv, RaisedInv
<1> QED
  BY <1>2 DEF ContractInv

LEMMA ConvertSteps ==
    ASSUME ContractInv,
           ConvertUnderAutocast \/ ConvertExplicitly \/ RefuseMixed \/ PassOn
           \/ HubConvert \/ HubRefuse \/ HubPassOn
    PROVE  ContractInv'
<1>1. /\ stage = "convert" => call.entry = "ms_deform_attn"
      /\ stage = "convert gradient" => call.entry = HubEntry
  BY DEF ContractInv, StageInv
<1> USE DEF Enter
<1>2. CASE ConvertUnderAutocast
  <2>1. op' = Passed(call)
    BY <1>1, <1>2 DEF ConvertUnderAutocast, Passed
  <2> QED
    BY <1>1, <1>2, <2>1, MakesCall DEF ConvertUnderAutocast, WidensInput, HubEntry
<1>3. CASE ConvertExplicitly
  <2>1. op' = Passed(call)
    BY <1>1, <1>3 DEF ConvertExplicitly, Passed, WidensInput
  <2> QED
    BY <1>1, <1>3, <2>1, MakesCall DEF ConvertExplicitly, HubEntry
<1>4. CASE RefuseMixed
  BY <1>1, <1>4, RefusesCall DEF RefuseMixed
<1>5. CASE PassOn
  <2>1. op' = Passed(call)
    BY <1>1, <1>5 DEF PassOn, Passed
  <2> QED
    BY <1>1, <1>5, <2>1, MakesCall DEF PassOn, HubEntry
<1>6. CASE HubConvert
  <2>1. op' = Passed(call)
    BY <1>1, <1>6 DEF HubConvert, Passed, HubEntry
  <2> QED
    BY <1>1, <1>6, <2>1, MakesCall DEF HubConvert, HubEntry
<1>7. CASE HubRefuse
  BY <1>1, <1>7, RefusesCall DEF HubRefuse, HubEntry
<1>8. CASE HubPassOn
  <2>1. op' = Passed(call)
    BY <1>1, <1>8 DEF HubPassOn, Passed, HubEntry
  <2> QED
    BY <1>1, <1>8, <2>1, MakesCall DEF HubPassOn, HubEntry
<1> QED
  BY <1>2, <1>3, <1>4, <1>5, <1>6, <1>7, <1>8

(* An operator call that the fake registration refuses is refused by the   *)
(* native entry points, and one that it accepts for known reasons only.    *)
LEMMA TraceStep ==
    ASSUME ContractInv, Trace
    PROVE  ContractInv'
<1>1. /\ stage = "operator" /\ fake = <<>> /\ op \in CallType /\ call \in Calls
      /\ op.entry \in {"forward", "backward"}
      /\ call.entry = HubEntry /\ call.value.dtype \in LowPrecision => HubConvertible(call)
      /\ call.entry = "ms_deform_attn" /\ WidensInput(call) => Matches(call)
      /\ ~backprop => op = Passed(call)
      /\ backprop => NativeAccepts(op) /\ op.entry = "backward" /\ call.entry # HubEntry
      /\ UNCHANGED <<call, op, backprop, result>>
      /\ backprop \in BOOLEAN
  BY DEF Trace, ContractInv, StageInv, BackpropInv
<1>2. CASE FakeAccepts(op)
  <2>1. stage' = "operator" /\ FakeAccepts(op)
    BY <1>1, <1>2 DEF Trace
  <2>2. StageInv' /\ BackpropInv' /\ TracedInv' /\ ResultInv' /\ RaisedInv'
    BY <1>1, <2>1 DEF StageInv, BackpropInv, TracedInv, ResultInv, RaisedInv
  <2> QED
    BY <1>1, <2>2 DEF ContractInv
<1>3. CASE ~FakeAccepts(op)
  <2>1. stage' = "raised" /\ fake' = fake
    BY <1>1, <1>3 DEF Trace
  <2>2. ~NativeAccepts(op)
    BY <1>1, <1>3, WhatRunsTraces
  <2>3. ~backprop
    BY <1>1, <2>2
  <2>4. StageInv' /\ BackpropInv' /\ TracedInv' /\ ResultInv' /\ RaisedInv'
    BY <1>1, <2>1, <2>2, <2>3 DEF StageInv, BackpropInv, TracedInv, ResultInv, RaisedInv
  <2> QED
    BY <1>1, <2>4 DEF ContractInv
<1> QED
  BY <1>2, <1>3

LEMMA ExecuteStep ==
    ASSUME ContractInv, Execute
    PROVE  ContractInv'
<1>1. /\ stage = "operator" /\ op \in CallType /\ call \in Calls
      /\ op.entry \in {"forward", "backward"}
      /\ call.entry = HubEntry /\ call.value.dtype \in LowPrecision => HubConvertible(call)
      /\ call.entry = "ms_deform_attn" /\ WidensInput(call) => Matches(call)
      /\ ~backprop => op = Passed(call)
      /\ backprop => NativeAccepts(op) /\ op.entry = "backward" /\ call.entry # HubEntry
      /\ fake # <<>> => FakeAccepts(op)
      /\ UNCHANGED <<call, op, backprop, fake>>
      /\ backprop \in BOOLEAN
  BY DEF Execute, ContractInv, StageInv, BackpropInv, TracedInv
<1>2. CASE NativeAccepts(op)
  <2>1. stage' = "return" /\ result' = NativeResult(op)
    BY <1>1, <1>2 DEF Execute
  <2>2. StageInv' /\ BackpropInv' /\ TracedInv' /\ RaisedInv'
    BY <1>1, <2>1 DEF StageInv, BackpropInv, TracedInv, RaisedInv
  <2>3. ResultInv'
    BY <1>1, <1>2, <2>1 DEF ResultInv
  <2> QED
    BY <1>1, <2>2, <2>3 DEF ContractInv
<1>3. CASE ~NativeAccepts(op)
  <2>1. stage' = "raised"
    BY <1>1, <1>3 DEF Execute
  <2>2. ~backprop
    BY <1>1, <1>3
  <2>3. fake # <<>> =>
            ~op.fit \/ op.step > StepMax \/ op.value.device[1] \notin Built \cup {"cpu"}
    BY <1>1, <1>3, RefusedFor, CallFields, ContractAssumption
  <2>4. StageInv' /\ BackpropInv' /\ TracedInv' /\ ResultInv'
    BY <1>1, <2>1, <2>2 DEF StageInv, BackpropInv, TracedInv, ResultInv
  <2>5. RaisedInv'
    BY <1>1, <1>3, <2>1, <2>2, <2>3 DEF RaisedInv
  <2> QED
    BY <1>1, <2>4, <2>5 DEF ContractInv
<1> QED
  BY <1>2, <1>3

LEMMA ForwardAnswer ==
    ASSUME NEW c \in CallType, c.entry = "forward"
    PROVE  NativeResult(c) =
               <<[shape |-> Output(c), dtype |-> c.value.dtype, device |-> c.value.device]>>
<1>1. ASSUME NEW s, NEW t \in TensorType
      PROVE  New(s, t) = [shape |-> s, dtype |-> t.dtype, device |-> t.device]
  BY DEF New, TensorType
<1> QED
  BY <1>1, CallFields DEF NativeResult

LEMMA BackwardAnswer ==
    ASSUME NEW c \in CallType, c.entry = "backward"
    PROVE  NativeResult(c) = <<c.value, c.locations, c.weights>>
<1>1. \A t \in TensorType : New(t.shape, t) = t
  BY DEF New, TensorType
<1> QED
  BY <1>1, CallFields DEF NativeResult

LEMMA ReturnOutputStep ==
    ASSUME ContractInv, ReturnOutput
    PROVE  ContractInv'
<1>1. /\ stage = "return" /\ stage' = "returned" /\ op.entry = "forward"
      /\ op \in CallType /\ call \in Calls /\ ~backprop /\ backprop \in BOOLEAN
      /\ result = NativeResult(op) /\ NativeAccepts(op)
      /\ call.entry = "ms_deform_attn" /\ WidensInput(call) => Matches(call)
      /\ UNCHANGED <<call, op, backprop, fake>>
  BY DEF ReturnOutput, ContractInv, StageInv, BackpropInv, ResultInv
<1>2. op = Passed(call) /\ call \in CallType
  BY <1>1, CallsAssumption DEF ContractInv, StageInv
<1>3. call.entry # HubEntry
  BY <1>1, <1>2, PassedFields
<1>4. result'[1] = [shape |-> Output(op), dtype |-> AnswerDtype, device |-> op.value.device]
  <2> DEFINE answer == [shape |-> Output(op), dtype |-> op.value.dtype, device |-> op.value.device]
  <2>1. result = <<answer>>
    BY <1>1, ForwardAnswer
  <2>2. CASE call.entry = "ms_deform_attn" /\ NarrowsAnswer(call)
    <3>1. result' = <<[answer EXCEPT !.dtype = call.value.dtype]>>
      BY <2>1, <2>2 DEF ReturnOutput
    <3> QED
      BY <2>2, <3>1 DEF AnswerDtype
  <2>3. CASE ~(call.entry = "ms_deform_attn" /\ NarrowsAnswer(call))
    <3>1. result' = result
      BY <2>3 DEF ReturnOutput
    <3> QED
      BY <2>1, <2>3, <3>1 DEF AnswerDtype
  <2> QED
    BY <2>2, <2>3
<1>5. StageInv' /\ BackpropInv' /\ TracedInv' /\ RaisedInv'
  BY <1>1, <1>2, <1>3 DEF StageInv, BackpropInv, TracedInv, RaisedInv
<1>6. ResultInv'
  BY <1>1, <1>3, <1>4 DEF ResultInv, AnswerDtype
<1> QED
  BY <1>1, <1>5, <1>6 DEF ContractInv

(* The gradient has the shape that the backward pass asks for. *)
LEMMA DifferentiateStep ==
    ASSUME ContractInv, Differentiate
    PROVE  ContractInv'
<1> DEFINE grad == [shape |-> Output(op), dtype |-> op.value.dtype, device |-> op.value.device]
<1>1. /\ stage = "returned" /\ stage' = "operator" /\ op.entry = "forward"
      /\ backprop' = TRUE /\ fake' = <<>> /\ call' = call
      /\ op' = [op EXCEPT !.entry = "backward",
                          !.grad = [result[1] EXCEPT !.dtype = op.value.dtype]]
      /\ op \in CallType /\ call \in Calls /\ ~backprop
      /\ NativeAccepts(op)
      /\ call.entry = "ms_deform_attn" /\ WidensInput(call) => Matches(call)
      /\ result[1] = [shape |-> Output(op), dtype |-> AnswerDtype, device |-> op.value.device]
  BY DEF Differentiate, ContractInv, StageInv, BackpropInv, ResultInv
<1>2. op = Passed(call) /\ call \in CallType
  BY <1>1, CallsAssumption DEF ContractInv, StageInv
<1>3. call.entry # HubEntry
  BY <1>1, <1>2, PassedFields
<1>4. [result[1] EXCEPT !.dtype = op.value.dtype] = grad
  BY <1>1
<1>5. Output(op) \in Seq(Nat) /\ op.value \in TensorType
  BY <1>1, OneDtype, GradShape, CallFields
<1>6. grad \in TensorType /\ grad.shape = Output(op) /\ grad.dtype = op.value.dtype
      /\ grad.device = op.value.device
  BY <1>5 DEF TensorType
<1> HIDE DEF grad
<1>7. /\ op' \in CallType /\ op'.entry = "backward" /\ op'.grad = grad
      /\ op'.step = op.step /\ op'.fit = op.fit
      /\ op'.value = op.value /\ op'.shapes = op.shapes /\ op'.starts = op.starts
      /\ op'.locations = op.locations /\ op'.weights = op.weights
  BY <1>1, <1>4, <1>6 DEF CallType, Entries
<1>8. NativeAccepts(op')
  <2> DEFINE b == op'
  <2>1. Output(b) = Output(op)
    BY <1>7 DEF Output
  <2>2. Rank(b.value) = 4 /\ Rank(b.locations) = 6
    BY <1>1, <1>7, OneDtype
  <2>3. /\ Rank(b.grad) = 3
        /\ b.grad.shape[1] = b.value.shape[1]
        /\ b.grad.shape[2] = b.locations.shape[2]
        /\ b.grad.shape[3] = b.value.shape[3] * b.value.shape[4]
    BY <1>6, <1>7, <2>1, <2>2, GradShape
  <2>4. b.grad.dtype = b.value.dtype /\ b.grad.device = b.value.device
    BY <1>6, <1>7
  <2>5. /\ MpsInputs(op) => MpsInputs(b)
        /\ CudaInputs(op) => CudaInputs(b)
        /\ CpuInputs(op) => CpuInputs(b)
    BY <1>7 DEF MpsInputs, CudaInputs, CpuInputs, Rank
  <2>6. CpuInputs(b) => b.grad.device[1] = "cpu"
    BY <2>4 DEF CpuInputs
  <2>7. MpsGrad(b) /\ CudaGrad(b) /\ (CpuInputs(b) => CpuGrad(b))
    BY <2>3, <2>4, <2>6 DEF MpsGrad, CudaGrad, CpuGrad
  <2> QED
    BY <1>1, <1>7, <2>5, <2>7 DEF NativeAccepts
<1>9. StageInv' /\ BackpropInv' /\ TracedInv' /\ ResultInv' /\ RaisedInv'
  BY <1>1, <1>3, <1>7, <1>8 DEF StageInv, BackpropInv, TracedInv, ResultInv, RaisedInv
<1> QED
  BY <1>1, <1>7, <1>9 DEF ContractInv

LEMMA ReturnGradientsStep ==
    ASSUME ContractInv, ReturnGradients
    PROVE  ContractInv'
<1>1. /\ stage = "return" /\ stage' = "returned" /\ op.entry = "backward"
      /\ op \in CallType /\ call \in Calls /\ backprop \in BOOLEAN
      /\ result = NativeResult(op) /\ NativeAccepts(op)
      /\ call.entry = "ms_deform_attn" /\ WidensInput(call) => Matches(call)
      /\ UNCHANGED <<call, op, backprop, fake>>
      /\ backprop => call.entry # HubEntry
      /\ ~backprop => op = Passed(call)
      /\ call \in CallType
  BY CallsAssumption DEF ReturnGradients, ContractInv, StageInv, BackpropInv, ResultInv
<1>2. ASSUME call.entry = HubEntry
      PROVE  \A k \in 1 .. 3 : result'[k].dtype = call.value.dtype
  <2>1. result' = HubNarrows(call, result)
    BY <1>1, <1>2 DEF ReturnGradients, HubEntry
  <2>2. /\ result = <<op.value, op.locations, op.weights>>
        /\ \A k \in 1 .. 3 : result[k].dtype = op.value.dtype /\ result[k] \in TensorType
    BY <1>1, BackwardAnswer, OneDtype, CallFields
  <2>3. CASE call.value.dtype \in LowPrecision
    <3>1. result' = [k \in 1 .. 3 |-> [result[k] EXCEPT !.dtype = call.value.dtype]]
      BY <2>1, <2>2, <2>3 DEF HubNarrows
    <3> QED
      BY <2>2, <3>1, TensorFields
  <2>4. CASE call.value.dtype \notin LowPrecision
    <3>1. op.value.dtype = call.value.dtype
      BY <1>1, <1>2, <2>4, PassedFields
    <3> QED
      BY <2>1, <2>2, <2>4, <3>1 DEF HubNarrows
  <2> QED
    BY <2>3, <2>4
<1>3. StageInv' /\ BackpropInv' /\ TracedInv' /\ RaisedInv'
  BY <1>1 DEF ContractInv, StageInv, BackpropInv, TracedInv, RaisedInv
<1>4. ResultInv'
  BY <1>1, <1>2 DEF ResultInv
<1> QED
  BY <1>1, <1>3, <1>4 DEF ContractInv

LEMMA ContractStep == ContractInv /\ [ContractNext]_contractVars => ContractInv'
<1> SUFFICES ASSUME ContractInv, [ContractNext]_contractVars PROVE ContractInv'
  OBVIOUS
<1>1. CASE UNCHANGED contractVars
  BY <1>1 DEF contractVars, ContractInv, StageInv, BackpropInv, TracedInv, ResultInv,
              AnswerDtype, RaisedInv
<1>2. CASE ContractNext
  BY <1>2, ConvertSteps, TraceStep, ExecuteStep, ReturnOutputStep, DifferentiateStep,
     ReturnGradientsStep DEF ContractNext
<1> QED
  BY <1>1, <1>2

(* ContractInv is an inductive invariant of every call. *)
THEOREM ContractInductive == ContractSpec => []ContractInv
<1> QED
  BY InitContract, ContractStep, PTL DEF ContractSpec

-----------------------------------------------------------------------------
(* What it means for those who call.                                       *)

(* Whatever runs can be compiled: of the four copies of the contract, the  *)
(* one in Python accepts what the three native ones do, with their answer. *)
THEOREM Traced == ContractSpec => []TracesWhatRuns
<1>1. ContractInv => TracesWhatRuns
  BY WhatRunsTraces, SameAnswer DEF ContractInv, ResultInv, TracesWhatRuns
<1> QED
  BY <1>1, ContractInductive, PTL

(* No backward pass of a call that ran is refused, and no compiled call    *)
(* for what its metadata show.                                             *)
THEOREM Foreseen == ContractSpec => []RefusalsForeseen
<1>1. ContractInv => RefusalsForeseen
  BY DEF ContractInv, RaisedInv, RefusalsForeseen
<1> QED
  BY <1>1, ContractInductive, PTL

(* A call is computed in float32 or, for double, in double; its answer has *)
(* the dtype of value but for low precision under autocast; and what       *)
(* autocast could make one dtype of is not refused for its dtypes.         *)
THEOREM Documented == ContractSpec => []ComputesAsDocumented
<1>1. ASSUME ContractInv
      PROVE  call \in CallType /\ op \in CallType
             /\ (stage = "returned" => NativeAccepts(op))
             /\ (stage = "returned" /\ ~backprop => op = Passed(call))
  BY <1>1, CallsAssumption DEF ContractInv, StageInv, ResultInv
<1>2. ASSUME ContractInv, call.entry = HubEntry, stage = "returned"
      PROVE  /\ op.value.dtype = IF call.value.dtype = "float64" THEN "float64" ELSE "float32"
             /\ \A k \in 1 .. 3 : result[k].dtype = call.value.dtype
             /\ \A t \in {call.locations, call.weights} : t.dtype = call.value.dtype
  <2>1. ~backprop
    BY <1>2 DEF ContractInv, BackpropInv
  <2>2. op = Passed(call) /\ NativeAccepts(op)
    BY <1>1, <1>2, <2>1
  <2>3. op.value.dtype = IF call.value.dtype \in LowPrecision THEN "float32" ELSE call.value.dtype
    BY <1>1, <1>2, <2>2, PassedFields
  <2>4. op.value.dtype = IF call.value.dtype = "float64" THEN "float64" ELSE "float32"
    BY <2>2, <2>3, OneDtype DEF LowPrecision
  <2>5. call.locations.dtype = call.value.dtype /\ call.weights.dtype = call.value.dtype
    <3>1. CASE call.value.dtype \in LowPrecision
      BY <1>2, <3>1 DEF ContractInv, StageInv, HubConvertible
    <3>2. CASE call.value.dtype \notin LowPrecision
      <4>1. op = [call EXCEPT !.entry = "backward"]
        BY <1>2, <2>2, <3>2 DEF Passed, HubEntry
      <4>2. op.value = call.value /\ op.locations = call.locations /\ op.weights = call.weights
        BY <4>1, <1>1, <1>2 DEF CallType
      <4> QED
        BY <2>2, <4>2, OneDtype
    <3> QED
      BY <3>1, <3>2
  <2> QED
    BY <1>2, <2>4, <2>5 DEF ContractInv, ResultInv
<1>3. ASSUME ContractInv, call.entry = "ms_deform_attn", stage = "returned", ~backprop
      PROVE  /\ op.value.dtype = IF call.value.dtype = "float64" THEN "float64" ELSE "float32"
             /\ result[1].dtype = IF call.autocast /\ call.value.dtype \in LowPrecision
                                  THEN op.value.dtype ELSE call.value.dtype
             /\ ~UnderAutocast(call) =>
                    \A t \in {call.locations, call.weights} : t.dtype = call.value.dtype
  <2>1. op = Passed(call) /\ NativeAccepts(op)
    BY <1>1, <1>3
  <2>2. op.value.dtype = IF /\ call.value.dtype \in LowPrecision
                            /\ UnderAutocast(call) \/ WidensInput(call)
                         THEN "float32" ELSE call.value.dtype
    BY <1>1, <1>3, <2>1, PassedFields
  <2>3. op.entry = "forward"
    BY <1>1, <1>3, <2>1, PassedFields
  <2>4. result[1].dtype = IF WidensInput(call) THEN call.value.dtype ELSE op.value.dtype
    BY <1>3, <2>3 DEF ContractInv, ResultInv, AnswerDtype, NarrowsAnswer
  <2>5. op.value.dtype \in {"float32", "float64"}
    BY <2>1, OneDtype
  <2>6. op.value.dtype = IF call.value.dtype = "float64" THEN "float64" ELSE "float32"
    BY <2>2, <2>5 DEF LowPrecision
  <2>7. WidensInput(call) => ~call.autocast /\ call.value.dtype \in LowPrecision
    BY <1>3, CallsAssumption DEF ContractInv, WidensInput, UnderAutocast
  <2>8. ~WidensInput(call) /\ call.value.dtype \in LowPrecision => UnderAutocast(call)
    BY <2>2, <2>5 DEF LowPrecision
  <2>9. UnderAutocast(call) => call.autocast
    BY DEF UnderAutocast
  <2>10. ASSUME ~UnderAutocast(call) PROVE Matches(call)
    <3>1. CASE WidensInput(call)
      BY <1>3, <3>1 DEF ContractInv, StageInv
    <3>2. CASE ~WidensInput(call)
      <4>1. op = [call EXCEPT !.entry = "forward"]
        BY <1>3, <2>1, <2>10, <3>2 DEF Passed
      <4>2. op.value = call.value /\ op.locations = call.locations /\ op.weights = call.weights
        BY <4>1, <1>1, <1>3 DEF CallType
      <4> QED
        BY <2>1, <4>2, OneDtype DEF Matches
    <3> QED
      BY <3>1, <3>2
  <2> QED
    BY <2>2, <2>4, <2>6, <2>7, <2>8, <2>9, <2>10 DEF Matches
<1>4. ASSUME ContractInv, call.entry = "ms_deform_attn", stage = "raised", UnderAutocast(call),
             NativeAccepts([call EXCEPT !.entry = "forward", !.value = Float(@),
                                        !.locations = Float(@), !.weights = Float(@)]),
             \A t \in {call.value, call.locations, call.weights} :
                 t.dtype \in LowPrecision \cup {"float32"}
      PROVE  FALSE
  <2>1. op = Passed(call) /\ ~NativeAccepts(op)
    BY <1>4 DEF ContractInv, RaisedInv, WidensInput
  <2>2. Passed(call) = [AutocastFloat(call) EXCEPT !.entry = "forward"]
    BY <1>4 DEF Passed
  <2> DEFINE low(t) == IF t.dtype \in LowPrecision THEN Float(t) ELSE t
  <2>3. low(call.value) = Float(call.value) /\ low(call.locations) = Float(call.locations)
        /\ low(call.weights) = Float(call.weights)
    BY <1>1, <1>4, CallFields, FloatType
  <2>4. AutocastFloat(call) = [call EXCEPT !.value = low(@), !.locations = low(@),
                                           !.weights = low(@)]
    BY <1>1, <1>4, AutocastFields
  <2>5. AutocastFloat(call) = [call EXCEPT !.value = Float(@), !.locations = Float(@),
                                           !.weights = Float(@)]
    BY <2>3, <2>4
  <2>6. [AutocastFloat(call) EXCEPT !.entry = "forward"] =
            [call EXCEPT !.entry = "forward", !.value = Float(@), !.locations = Float(@),
                         !.weights = Float(@)]
    BY <2>5, <1>1, <1>4 DEF CallType
  <2> QED
    BY <1>4, <2>1, <2>2, <2>6
<1>5. ContractInv => ComputesAsDocumented
  BY <1>2, <1>3, <1>4 DEF ComputesAsDocumented, HubEntry
<1> QED
  BY <1>5, ContractInductive, PTL

=============================================================================
