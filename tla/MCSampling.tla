----------------------------- MODULE MCSampling -----------------------------
(* Every small level with every location around it, and two levels with    *)
(* metadata on all sides of the limits: int is 4 bits wide, long 8.        *)
EXTENDS Sampling

Directions == {"cuda", "cpu", "mps"} \X BOOLEAN

L(h, w, start) == [h |-> h, w |-> w, start |-> start]
Constant(n, v) == [l \in 1 .. n |-> [p \in 1 .. Points |-> v]]

Call(d, check, levels, loc, weight) ==
    [device |-> d[1], backward |-> d[2], check_cuda_metadata |-> check,
     levels |-> levels, loc |-> loc, weight |-> weight]

(* Normalized -1/2 to 3/2 for both points, which differ and are weighted   *)
(* differently.                                                            *)
Places == {[x |-> x, y |-> y] : x \in -1 .. 3, y \in -1 .. 3}

OneLevel ==
    {Call(d, FALSE, <<lv>>, <<<<place, [x |-> place.y, y |-> 1]>>>>, <<<<2, 3>>>>) :
        d \in Directions, place \in Places,
        lv \in {L(1, 1, 0), L(1, 2, 4), L(2, 1, 1), L(2, 2, 2), L(1, 3, 3), L(3, 2, 0), L(2, 3, 0)}}

(* 17 and -15 are 1 in the low half, -128 and 127 the ends of long.        *)
Sizes == {-128, -15, -1, 0, 1, 2, 3, 7, 17, 127}
Starts == {-128, -1, 0, 1, 5, 6, 127}

TwoLevels ==
    {Call(d, TRUE, levels, Constant(2, [x |-> 1, y |-> 2]), Constant(2, 1)) :
        d \in Directions,
        levels \in {<<L(1, 2, 4), L(h, w, start)>> : h \in Sizes, w \in Sizes, start \in Starts}
                   \cup {<<L(h, 2, start), L(2, 2, 1)>> : h \in Sizes, start \in Starts}}

CallsAtTheLimits == OneLevel \cup TwoLevels

=============================================================================
