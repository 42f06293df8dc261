---------------------------- MODULE MpsBackward ----------------------------
(***************************************************************************)
(* The MPS backward pass: the dispatch loop of run() in                    *)
(* ms_deform_attn_mps.mm and the kernel msda_backward it dispatches.       *)
(*                                                                         *)
(* One SIMD group owns one sampling point (a slot); the channels stride    *)
(* across its lanes.  Lanes of different groups add to shared cells of     *)
(* grad_value with a compare-and-swap loop; the two other gradients are    *)
(* summed over the group and stored once, into uninitialized tensors.      *)
(*                                                                         *)
(* The command buffer is committed after run() has encoded every dispatch; *)
(* all their groups may then run concurrently and in any order, as nothing *)
(* in the kernel relies on an order of the dispatches.                     *)
(***************************************************************************)
EXTENDS Integers, FiniteSets, Sums

CONSTANTS
    Width,      \* threadExecutionWidth: lanes of a SIMD group
    Channels,   \* d.D
    Count,      \* slots: d.N * d.Q * d.M * d.L * d.P
    Chunk,      \* slots of one dispatch, 2^30 / Width in the code
    Pixels,     \* grad_value's cells of one channel: batch, pixel, head
    Footprint   \* [slot -> the pixels of its valid corners]; {}: not active

Lanes == 0 .. Width - 1
Slots == 0 .. Count - 1
Groups == 0 .. Count + Chunk - 1
Threads == Groups \X Lanes
ValueCells == Pixels \X (0 .. Channels - 1)

VARIABLES
    host,       \* "bind", "encode", "returned" or "raised"
    begin,      \* the dispatch loop's variable
    pc,         \* [thread -> "idle" until dispatched, "start", "channel", "load", "cas", "sum", "store", "done"]
    channel,    \* [thread -> c]
    corners,    \* [thread -> pixels still to be scattered to]
    old,        \* [thread -> add_float's old]
    partial,    \* [thread -> ga, gx and gy]
    gradValue,  \* [pixel, channel -> sum]
    gradSample  \* [slot -> grad_weights and grad_locations]

hostVars == <<host, begin>>
lane == <<channel, corners, old, partial>>
tensors == <<gradValue, gradSample>>
vars == <<hostVars, pc, lane, tensors>>

-----------------------------------------------------------------------------
(* Helpers.                                                                *)

Least(pixels) == CHOOSE p \in pixels : \A other \in pixels : p <= other
Corner(t) == Least(corners[t])
Cell(t) == <<Corner(t), channel[t]>>
Contribution(t, component) == <<t[1], channel[t], component>>

(* grad_value is zero-filled, the two other gradients are at::empty.       *)
Init ==
    /\ host = "bind"
    /\ begin = 0
    /\ pc = [t \in Threads |-> "idle"]
    /\ channel = [t \in Threads |-> 0]
    /\ corners = [t \in Threads |-> {}]
    /\ old = [t \in Threads |-> {}]
    /\ partial = [t \in Threads |-> {}]
    /\ gradValue = [cell \in ValueCells |-> {}]
    /\ gradSample = [slot \in Slots |-> {Garbage}]

-----------------------------------------------------------------------------
(* The host.                                                               *)

(* A buffer beyond the device's limit is refused before any dispatch.      *)
Bind ==
    /\ host = "bind"
    /\ host' \in {"encode", "raised"}
    /\ UNCHANGED <<begin, pc, lane, tensors>>

(* Mutant: the partial last chunk is left out. *)
MoreToDispatchWholeChunks == begin + Chunk <= Count

MoreToDispatch == begin < Count

Minimum(a, b) == IF a < b THEN a ELSE b

(* dispatchThreads of min(chunk, count - begin) * width threads.           *)
Dispatch ==
    /\ host = "encode"
    /\ MoreToDispatch
    /\ pc' = [t \in Threads |->
                 IF t[1] - begin \in 0 .. Minimum(Chunk, Count - begin) - 1 THEN "start" ELSE pc[t]]
    /\ begin' = begin + Chunk
    /\ UNCHANGED <<host, lane, tensors>>

Return ==
    /\ host = "encode"
    /\ ~MoreToDispatch
    /\ host' = "returned"
    /\ UNCHANGED <<begin, pc, lane, tensors>>

-----------------------------------------------------------------------------
(* The kernel.                                                             *)

(* The early return and the branch on s.active are taken by whole groups.  *)
Start(t) ==
    /\ host = "returned"
    /\ pc[t] = "start"
    /\ channel' = [channel EXCEPT ![t] = t[2]]
    /\ pc' = [pc EXCEPT ![t] = IF t[1] >= Count THEN "done"
                               ELSE IF Footprint[t[1]] = {} THEN "sum"
                               ELSE "channel"]
    /\ UNCHANGED <<hostVars, corners, old, partial, tensors>>

HasChannel(t) == channel[t] < Channels

(* ga, gx and gy gain a channel, whose gradient is then scattered.         *)
BeginChannel(t) ==
    /\ pc[t] = "channel"
    /\ HasChannel(t)
    /\ partial' = [partial EXCEPT ![t] = Plus(@, {Contribution(t, "a")})]
    /\ corners' = [corners EXCEPT ![t] = Footprint[t[1]]]
    /\ pc' = [pc EXCEPT ![t] = "load"]
    /\ UNCHANGED <<hostVars, channel, old, tensors>>

LeaveChannels(t) ==
    /\ pc[t] = "channel"
    /\ ~HasChannel(t)
    /\ pc' = [pc EXCEPT ![t] = "sum"]
    /\ UNCHANGED <<hostVars, lane, tensors>>

(* add_float's first line, for the next valid corner.                      *)
Load(t) ==
    /\ pc[t] = "load"
    /\ corners[t] # {}
    /\ old' = [old EXCEPT ![t] = gradValue[Cell(t)]]
    /\ pc' = [pc EXCEPT ![t] = "cas"]
    /\ UNCHANGED <<hostVars, channel, corners, partial, tensors>>

NextChannel(t) ==
    /\ pc[t] = "load"
    /\ corners[t] = {}
    /\ channel' = [channel EXCEPT ![t] = @ + Width]
    /\ pc' = [pc EXCEPT ![t] = "channel"]
    /\ UNCHANGED <<hostVars, corners, old, partial, tensors>>

(* Mutant: an atomic store in place of the exchange. *)
ExchangeUncompared(t) ==
    /\ pc[t] = "cas"
    /\ gradValue' = [gradValue EXCEPT ![Cell(t)] = Plus(old[t], {Contribution(t, "v")})]
    /\ corners' = [corners EXCEPT ![t] = @ \ {Corner(t)}]
    /\ pc' = [pc EXCEPT ![t] = "load"]
    /\ UNCHANGED <<hostVars, channel, old, partial, gradSample>>

(***************************************************************************)
(* The exchange succeeds.  Sums of different addends are taken to differ   *)
(* in their bits: were they equal, the value stored would be right too.    *)
(***************************************************************************)
Exchange(t) ==
    /\ pc[t] = "cas"
    /\ gradValue[Cell(t)] = old[t]
    /\ gradValue' = [gradValue EXCEPT ![Cell(t)] = Plus(old[t], {Contribution(t, "v")})]
    /\ corners' = [corners EXCEPT ![t] = @ \ {Corner(t)}]
    /\ pc' = [pc EXCEPT ![t] = "load"]
    /\ UNCHANGED <<hostVars, channel, old, partial, gradSample>>

(* Mutant: a failed exchange does not refresh old. *)
RetryStale(t) ==
    /\ pc[t] = "cas"
    /\ gradValue[Cell(t)] # old[t]
    /\ UNCHANGED vars

(* The exchange fails and reads the cell anew.  The weak exchange may also *)
(* fail on an unchanged cell, which leaves everything as it is.            *)
Retry(t) ==
    /\ pc[t] = "cas"
    /\ gradValue[Cell(t)] # old[t]
    /\ old' = [old EXCEPT ![t] = gradValue[Cell(t)]]
    /\ UNCHANGED <<hostVars, pc, channel, corners, partial, tensors>>

(* Mutant: lane 0 does not wait for the lanes with channels left. *)
SummedLanesArrived(g) ==
    IF pc[<<g, 0>>] = "sum" THEN {l \in Lanes : pc[<<g, l>>] = "sum"} ELSE {}

(* The lanes a simd_sum is over: all, once all have come to it.            *)
SummedLanes(g) ==
    IF \A l \in Lanes : pc[<<g, l>>] = "sum" THEN Lanes ELSE {}

SimdSum(g) ==
    /\ SummedLanes(g) # {}
    /\ partial' = [partial EXCEPT ![<<g, 0>>] =
                      SumOver([l \in Lanes |-> partial[<<g, l>>]], SummedLanes(g))]
    /\ pc' = [t \in Threads |->
                 IF t[1] = g THEN IF t[2] = 0 THEN "store" ELSE "done" ELSE pc[t]]
    /\ UNCHANGED <<hostVars, channel, corners, old, tensors>>

(* if (lane == 0): grad_weights[i] and grad_locations[i].                  *)
StoreSample(g) ==
    /\ pc[<<g, 0>>] = "store"
    /\ gradSample' = [gradSample EXCEPT ![g] = partial[<<g, 0>>]]
    /\ pc' = [pc EXCEPT ![<<g, 0>>] = "done"]
    /\ UNCHANGED <<hostVars, lane, gradValue>>

LaneStep(t) ==
    \/ Start(t) \/ BeginChannel(t) \/ LeaveChannels(t) \/ NextChannel(t)
    \/ Load(t) \/ Exchange(t) \/ Retry(t)

GroupStep(g) == SimdSum(g) \/ StoreSample(g)

HostStep == Bind \/ Dispatch \/ Return

KernelsDone == \A t \in Threads : pc[t] \in {"idle", "done"}

RunOver == host = "raised" \/ (host = "returned" /\ KernelsDone)

Terminating == RunOver /\ UNCHANGED vars

Next ==
    \/ HostStep
    \/ \E t \in Threads : LaneStep(t)
    \/ \E g \in Groups : GroupStep(g)
    \/ Terminating

Spec == Init /\ [][Next]_vars

-----------------------------------------------------------------------------
(* What the pass owes: to a value cell a contribution of every slot whose  *)
(* footprint covers it, to an active slot one of every channel.            *)

DueToValue(cell) ==
    {<<slot, cell[2], "v">> : slot \in {k \in Slots : cell[1] \in Footprint[k]}}

DueToSample(slot) ==
    IF Footprint[slot] = {} THEN {} ELSE {<<slot, c, "a">> : c \in 0 .. Channels - 1}

Cells == ({"value"} \X ValueCells) \cup ({"sample"} \X Slots)

due == [cell \in Cells |->
           IF cell[1] = "value" THEN DueToValue(cell[2]) ELSE DueToSample(cell[2])]

(* Cells of the at::empty tensors hold nothing until they are written.     *)
acc == [cell \in Cells |->
           IF cell[1] = "value" THEN gradValue[cell[2]] ELSE gradSample[cell[2]] \ {Garbage}]

-----------------------------------------------------------------------------
(* Properties.                                                             *)

(***************************************************************************)
(* Once a run is over, every gradient is exact, and no element of the      *)
(* uninitialized tensors is left unwritten, inactive points included.      *)
(***************************************************************************)
ExactWhenOver ==
    host = "returned" /\ KernelsDone
        => /\ acc = due
           /\ \A slot \in Slots : Garbage \notin gradSample[slot]

=============================================================================
