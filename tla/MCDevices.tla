------------------------------- MODULE MCDevices -------------------------------
(***************************************************************************)
(* CUDA: one sampling of two points, the second outside its level; one to  *)
(* four channels on blocks of two threads: a partial block, a whole one,   *)
(* two blocks of which the last is partial, two whole ones.                *)
(* CPU: two batches of two heads and two queries of two points; samples of *)
(* a pair share a pixel, and two samples lie outside their level.          *)
(* MPS: slots 0 and 1 contend for pixel 0, slot 2 is outside its level and *)
(* in the second, partial dispatch.  Three channels on two lanes.          *)
(***************************************************************************)
EXTENDS Devices, TLC

CudaFootprint == 0 :> {0, 1} @@ 1 :> {}

SharedPixels ==
    [s \in 0 .. Batches * Queries * Heads * SamplePoints - 1 |->
        CASE s \in {1, 4} -> {}
          [] s \in {0, 2, 6, 8, 10, 12, 14} -> {0}
          [] OTHER -> {0, 1}]

Contended ==
    [slot \in 0 .. MpsSlots - 1 |->
        CASE slot = 0 -> {0}
          [] slot = 1 -> {0, 1}
          [] OTHER -> {}]

=============================================================================
