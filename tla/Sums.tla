-------------------------------- MODULE Sums --------------------------------
(***************************************************************************)
(* Floating point sums, abstracted to the set of their addends.            *)
(*                                                                         *)
(* The properties of the backward implementations are about which addends  *)
(* reach which gradient cell, not about rounding, so the order and the     *)
(* grouping of a sum do not matter here.  Adding the same addend twice     *)
(* does: such a sum is marked with Twice, which no cell is ever owed.      *)
(* An addend is a triple <<index, point, component>>.                      *)
(***************************************************************************)
LOCAL INSTANCE Naturals

Twice == <<0, 0, "twice">>       \* some addend was counted twice
Garbage == <<0, 0, "garbage">>   \* memory nobody has written yet

Addends == Nat \X Nat \X {"w", "h", "a", "v", "twice", "garbage"}

Plus(a, b) == a \cup b \cup (IF a \cap b = {} THEN {} ELSE {Twice})

(* The sum of the cells of f with the given indices. *)
SumOver(f, cells) ==
    (UNION {f[i] : i \in cells})
        \cup (IF \E i, j \in cells : i # j /\ f[i] \cap f[j] # {} THEN {Twice} ELSE {})

=============================================================================
