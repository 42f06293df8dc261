--------------------------- MODULE MCCudaIndexing ---------------------------
(* Calls around the limits of 5-bit ints and 8-bit longs, blocks of 4.     *)
EXTENDS CudaIndexing

(* 31: a dimension, the grid and the int32 indices at their limit; 32: a   *)
(* dimension beyond it.  Channels on both sides of a block of 4 threads.   *)
CallsAtTheLimits ==
    [N : {1, 3, 4, 5}, S : {1, 3, 32}, M : {1, 2}, D : {1, 3, 4, 5, 31},
     L : {1, 3}, Q : {1, 2, 8, 31}, P : {1, 2},
     step : {0, 1, 2, 4, 32},
     backward : BOOLEAN, malformed : {FALSE}]
    \cup
    [N : {0, 1}, S : {1}, M : {1}, D : {1}, L : {1}, Q : {1}, P : {1}, step : {1},
     backward : BOOLEAN, malformed : BOOLEAN]

=============================================================================
