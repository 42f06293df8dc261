------------------------------ MODULE CpuKernel ------------------------------
(***************************************************************************)
(* kernel<scalar_t, backward> of ms_deform_attn_cpu.cpp: the tasks of an   *)
(* at::parallel_for, on concurrent workers, adding to shared tensors with  *)
(* a plain +=.  A backward task is a (batch, head) pair and goes through   *)
(* all queries; a forward task is one query of it.                         *)
(*                                                                         *)
(* A += is a load and a store, so that of two additions to one cell one    *)
(* could be lost.  The innermost loop, over channels, is sequential and    *)
(* touches cells of its own channel only: one channel stands for all.      *)
(***************************************************************************)
EXTENDS Naturals, Sums

CONSTANTS
    WorkerCount,    \* threads of at::parallel_for
    N, M, Q,        \* batches, heads, queries
    LP,             \* levels * points
    S,              \* spatial size
    Footprint       \* [sample -> the pixels of its valid corners]; {}: outside

Workers == 1 .. WorkerCount
Samples == 0 .. N * Q * M * LP - 1

VARIABLES
    backward,   \* the template argument
    task, end,  \* [worker -> loop variable and end of its range]
    query,      \* [worker -> q]
    point,      \* [worker -> l * P + p]
    corners,    \* [worker -> valid corners still to be added]
    loaded,     \* [worker -> what the += in progress has read]
    pc,         \* [worker -> "task", "sample", "add", "added", "next" or "idle"]
    gradValue,  \* gv, by batch, pixel and head
    gradSample, \* gl and gw, by sample
    output      \* out, by batch, query and head

range == <<backward, end>>
tensors == <<gradValue, gradSample, output>>
vars == <<range, task, query, point, corners, loaded, pc, tensors>>

-----------------------------------------------------------------------------
(* Index arithmetic.                                                       *)

work_items(back) == IF back THEN N * M ELSE N * Q * M

BatchOf(i) == IF backward THEN i \div M ELSE i \div (Q * M)

(* Mutant: the remainder that tells the heads apart is taken too late. *)
HeadOfQuotient(i) == (i \div M) % M

HeadOf(i) == i % M

QueryBegin(i) == IF backward THEN 0 ELSE (i \div M) % Q

(* Mutant: the last query is left out. *)
QueryEndShort(i) == IF backward THEN IF Q > 1 THEN Q - 1 ELSE Q ELSE QueryBegin(i) + 1

QueryEnd(i) == IF backward THEN Q ELSE QueryBegin(i) + 1

OutputCell(w) == (BatchOf(task[w]) * Q + query[w]) * M + HeadOf(task[w])
Sample(w) == OutputCell(w) * LP + point[w]
Corner(w) == CHOOSE pixel \in corners[w] : \A other \in corners[w] : pixel <= other
ValueCell(w) == (BatchOf(task[w]) * S + Corner(w)) * M + HeadOf(task[w])

Addend(w, component) == {<<Sample(w), 0, component>>}

-----------------------------------------------------------------------------
(* at::parallel_for gives each worker a range of consecutive tasks.        *)
Cuts(items) ==
    {cut \in [0 .. WorkerCount -> 0 .. items] :
        /\ cut[0] = 0 /\ cut[WorkerCount] = items
        /\ \A w \in Workers : cut[w - 1] <= cut[w]}

(* The tensors are zero-filled before the kernel runs.                     *)
Init ==
    /\ backward \in BOOLEAN
    /\ \E cut \in Cuts(work_items(backward)) :
        /\ task = [w \in Workers |-> cut[w - 1]]
        /\ end = [w \in Workers |-> cut[w]]
    /\ query = [w \in Workers |-> 0]
    /\ point = [w \in Workers |-> 0]
    /\ corners = [w \in Workers |-> {}]
    /\ loaded = [w \in Workers |-> {}]
    /\ pc = [w \in Workers |-> "task"]
    /\ gradValue = [i \in 0 .. N * S * M - 1 |-> {}]
    /\ gradSample = [i \in Samples |-> {}]
    /\ output = [i \in 0 .. N * Q * M - 1 |-> {}]

BeginTask(w) ==
    /\ pc[w] = "task"
    /\ task[w] < end[w]
    /\ query' = [query EXCEPT ![w] = QueryBegin(task[w])]
    /\ point' = [point EXCEPT ![w] = 0]
    /\ pc' = [pc EXCEPT ![w] = "sample"]
    /\ UNCHANGED <<range, task, corners, loaded, tensors>>

LeaveRange(w) ==
    /\ pc[w] = "task"
    /\ task[w] >= end[w]
    /\ pc' = [pc EXCEPT ![w] = "idle"]
    /\ UNCHANGED <<range, task, query, point, corners, loaded, tensors>>

(* The support check; a sample outside its level is skipped.               *)
BeginSample(w) ==
    /\ pc[w] = "sample"
    /\ corners' = [corners EXCEPT ![w] = Footprint[Sample(w)]]
    /\ pc' = [pc EXCEPT ![w] = IF Footprint[Sample(w)] = {} THEN "next" ELSE "add"]
    /\ UNCHANGED <<range, task, query, point, loaded, tensors>>

(* Backward: gv[corner] += ..., for each valid corner.                     *)
LoadValue(w) ==
    /\ pc[w] = "add"
    /\ backward /\ corners[w] # {}
    /\ loaded' = [loaded EXCEPT ![w] = gradValue[ValueCell(w)]]
    /\ pc' = [pc EXCEPT ![w] = "added"]
    /\ UNCHANGED <<range, task, query, point, corners, tensors>>

(* Mutant: = for +=. *)
StoreValuePlain(w) ==
    /\ pc[w] = "added"
    /\ backward
    /\ gradValue' = [gradValue EXCEPT ![ValueCell(w)] = Addend(w, "v")]
    /\ corners' = [corners EXCEPT ![w] = @ \ {Corner(w)}]
    /\ pc' = [pc EXCEPT ![w] = "add"]
    /\ UNCHANGED <<range, task, query, point, loaded, gradSample, output>>

StoreValue(w) ==
    /\ pc[w] = "added"
    /\ backward
    /\ gradValue' = [gradValue EXCEPT ![ValueCell(w)] = Plus(loaded[w], Addend(w, "v"))]
    /\ corners' = [corners EXCEPT ![w] = @ \ {Corner(w)}]
    /\ pc' = [pc EXCEPT ![w] = "add"]
    /\ UNCHANGED <<range, task, query, point, loaded, gradSample, output>>

(* Backward, after the last corner: gw[i] and gl[2 * i], gl[2 * i + 1].    *)
StoreSample(w) ==
    /\ pc[w] = "add"
    /\ backward /\ corners[w] = {}
    /\ gradSample' = [gradSample EXCEPT ![Sample(w)] = Addend(w, "a")]
    /\ pc' = [pc EXCEPT ![w] = "next"]
    /\ UNCHANGED <<range, task, query, point, corners, loaded, gradValue, output>>

(* Forward: out[oi] += sample * attention.                                 *)
LoadOutput(w) ==
    /\ pc[w] = "add"
    /\ ~backward
    /\ loaded' = [loaded EXCEPT ![w] = output[OutputCell(w)]]
    /\ pc' = [pc EXCEPT ![w] = "added"]
    /\ UNCHANGED <<range, task, query, point, corners, tensors>>

StoreOutput(w) ==
    /\ pc[w] = "added"
    /\ ~backward
    /\ output' = [output EXCEPT ![OutputCell(w)] = Plus(loaded[w], Addend(w, "v"))]
    /\ pc' = [pc EXCEPT ![w] = "next"]
    /\ UNCHANGED <<range, task, query, point, corners, loaded, gradValue, gradSample>>

NextPoint(w) ==
    /\ pc[w] = "next"
    /\ point[w] + 1 < LP
    /\ point' = [point EXCEPT ![w] = @ + 1]
    /\ pc' = [pc EXCEPT ![w] = "sample"]
    /\ UNCHANGED <<range, task, query, corners, loaded, tensors>>

NextQuery(w) ==
    /\ pc[w] = "next"
    /\ point[w] + 1 = LP /\ query[w] + 1 < QueryEnd(task[w])
    /\ query' = [query EXCEPT ![w] = @ + 1]
    /\ point' = [point EXCEPT ![w] = 0]
    /\ pc' = [pc EXCEPT ![w] = "sample"]
    /\ UNCHANGED <<range, task, corners, loaded, tensors>>

NextTask(w) ==
    /\ pc[w] = "next"
    /\ point[w] + 1 = LP /\ query[w] + 1 >= QueryEnd(task[w])
    /\ task' = [task EXCEPT ![w] = @ + 1]
    /\ pc' = [pc EXCEPT ![w] = "task"]
    /\ UNCHANGED <<range, query, point, corners, loaded, tensors>>

WorkerStep(w) ==
    \/ BeginTask(w) \/ LeaveRange(w) \/ BeginSample(w)
    \/ LoadValue(w) \/ StoreValue(w) \/ StoreSample(w)
    \/ LoadOutput(w) \/ StoreOutput(w)
    \/ NextPoint(w) \/ NextQuery(w) \/ NextTask(w)

KernelDone == \A w \in Workers : pc[w] = "idle"

(* parallel_for has returned.                                              *)
Terminating == KernelDone /\ UNCHANGED vars

Next == (\E w \in Workers : WorkerStep(w)) \/ Terminating

Spec == Init /\ [][Next]_vars

-----------------------------------------------------------------------------
(* What the kernel owes: to a value cell the samples of its batch and head *)
(* whose footprint covers the pixel, to a sample or an output its own.     *)

PairOf(sample) == <<sample \div (LP * M * Q), (sample \div LP) % M>>

DueToValue(cell) ==
    {<<s, 0, "v">> : s \in {k \in Samples :
        /\ PairOf(k) = <<cell \div (S * M), cell % M>>
        /\ (cell \div M) % S \in Footprint[k]}}

DueToSample(s) == IF Footprint[s] = {} THEN {} ELSE {<<s, 0, "a">>}

DueToOutput(cell) == {<<s, 0, "v">> : s \in {k \in Samples : k \div LP = cell /\ Footprint[k] # {}}}

Cells ==
    {<<"value", i>> : i \in DOMAIN gradValue}
        \cup {<<"sample", i>> : i \in DOMAIN gradSample}
        \cup {<<"output", i>> : i \in DOMAIN output}

due == [cell \in Cells |->
           IF backward
           THEN IF cell[1] = "value" THEN DueToValue(cell[2])
                ELSE IF cell[1] = "sample" THEN DueToSample(cell[2]) ELSE {}
           ELSE IF cell[1] = "output" THEN DueToOutput(cell[2]) ELSE {}]

acc == [cell \in Cells |->
           IF cell[1] = "value" THEN gradValue[cell[2]]
           ELSE IF cell[1] = "sample" THEN gradSample[cell[2]]
           ELSE output[cell[2]]]

-----------------------------------------------------------------------------
(* Properties.                                                             *)

(* The cell the worker's next step reads or writes, if any.                *)
Access(w) ==
    IF pc[w] \notin {"add", "added"} THEN {}
    ELSE IF ~backward THEN {<<"output", OutputCell(w)>>}
    ELSE IF corners[w] = {} THEN {<<"sample", Sample(w)>>}
    ELSE {<<"value", ValueCell(w)>>}

(***************************************************************************)
(* No data race: two workers never touch the same cell of a tensor, which  *)
(* is why the comment at the top of the kernel needs no atomics.           *)
(***************************************************************************)
RaceFree == \A v, w \in Workers : v # w => Access(v) \cap Access(w) = {}

=============================================================================
