------------------------ MODULE GradientAccumulation ------------------------
(***************************************************************************)
(* What every backward implementation of ms_deform_attn promises about the *)
(* gradients it returns, whatever its schedule.                            *)
(*                                                                         *)
(* A gradient cell is a floating point sum.  The sum is abstracted to the  *)
(* set of its addends: `due` says which contributions the mathematics of   *)
(* the operator owes to each cell, `acc` which ones have been added so     *)
(* far.  Implementations start from zero-filled tensors and may add        *)
(* contributions in any order and in any grouping, but may never           *)
(*   - add a contribution a cell is not owed (another point's, another     *)
(*     channel's, one of a stale scratch cell),                            *)
(*   - lose one that is there (overwrite a partial sum),                   *)
(*   - add one twice (Twice, in Sums, is owed to no cell).                 *)
(***************************************************************************)
VARIABLES
    due,    \* [cell -> set of contributions owed to it], constant
    acc     \* [cell -> set of contributions added to it so far]

vars == <<due, acc>>

-----------------------------------------------------------------------------
Init == acc = [cell \in DOMAIN due |-> {}]

(***************************************************************************)
(* Some cells receive contributions that are due to them.                  *)
(***************************************************************************)
Grows(before, after, bound) ==
    /\ DOMAIN after = DOMAIN bound
    /\ \A cell \in DOMAIN bound :
        before[cell] \subseteq after[cell] /\ after[cell] \subseteq bound[cell]

Accumulate == Grows(acc, acc', due) /\ UNCHANGED due

Next == Accumulate

Spec == Init /\ [][Next]_vars

(***************************************************************************)
(* Every cell ends up with everything it is owed, and stays so.            *)
(***************************************************************************)
Complete == <>[](acc = due)

=============================================================================
