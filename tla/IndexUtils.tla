----------------------------- MODULE IndexUtils -----------------------------
(***************************************************************************)
(* ms_deform_attn::cuda_blocks of cuda/index_utils.h: the number of blocks *)
(* of a launch, shared by the host-side planning and the kernels' grids.   *)
(***************************************************************************)
EXTENDS Naturals

(* Mutant: a capped grid, the usual form of GET_BLOCKS. *)
cuda_blocks_capped(work, threads) == 1

(* Mutant: the last, partial block is forgotten. *)
cuda_blocks_floor(work, threads) == work \div threads

(* Division first avoids the overflow of rounding up with work + threads.  *)
cuda_blocks(work, threads) == (work - 1) \div threads + 1

=============================================================================
