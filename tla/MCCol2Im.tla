------------------------------ MODULE MCCol2Im ------------------------------
(***************************************************************************)
(* Instances of Col2Im for TLC.  MaxThreads and SerialBelow are scaled     *)
(* down so that a few channel counts reach every kernel.                   *)
(***************************************************************************)
EXTENDS Col2Im, TLC

(* One sampling with two points: the first one in range, the second one    *)
(* outside, so that scratch left by the first could leak into the second.  *)
BlockFootprint == 0 :> {0, 1} @@ 1 :> {}

(* Two queries with one point each, sharing a pixel.                       *)
GridFootprint == 0 :> {0, 1} @@ 1 :> {1}

=============================================================================
