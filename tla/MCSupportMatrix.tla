--------------------------- MODULE MCSupportMatrix ---------------------------
EXTENDS SupportMatrix

(* Two Python versions of one PyTorch, a pair of the other toolkit, and    *)
(* one outside the range of its PyTorch.                                   *)
Pairs == {[torch |-> 5, python |-> 12], [torch |-> 5, python |-> 13],
          [torch |-> 5, python |-> 14], [torch |-> 3, python |-> 12]}

=============================================================================
