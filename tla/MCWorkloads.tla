------------------------------ MODULE MCWorkloads ------------------------------
EXTENDS Workloads, TLC

Symmetry == Permutations(ReleaseRuns) \cup Permutations(Shas)

Base == [f \in Files |-> IF f = "added" THEN 0 ELSE 1]

(* A first revision; one that changes the implementation, one that adds to *)
(* it, and one that changes the harness only.                              *)
FourRevisions ==
    {Base, [Base EXCEPT !["csrc"] = 2], [Base EXCEPT !["added"] = 1], [Base EXCEPT !["e2e"] = 2]}

(* Two Python versions of one PyTorch, a pair of the other toolkit, and    *)
(* one outside the range of its PyTorch.                                   *)
Pairs == {[torch |-> 5, python |-> 12], [torch |-> 5, python |-> 13],
          [torch |-> 5, python |-> 14], [torch |-> 3, python |-> 12]}

=============================================================================
