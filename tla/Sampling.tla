------------------------------ MODULE Sampling ------------------------------
(***************************************************************************)
(* What one sample reads and what it is worth.  A call's output element,   *)
(* or its share of the gradients, is computed level by level and point by  *)
(* point: the CUDA kernels of ms_deform_im2col_cuda.cuh, the loop body of  *)
(* the CPU kernel and the Metal kernels do it with three different texts.  *)
(*                                                                         *)
(* Values are symbolic: a sum is the function from the rows of the value   *)
(* tensor (one batch, head and channel) to the coefficients they got, so   *)
(* that a property of sums holds for all values.  Coordinates are exact,   *)
(* in units of 1/Unit of a pixel; int64 metadata keep their width where    *)
(* the code looks at it.                                                   *)
(***************************************************************************)
EXTENDS Integers, Sequences, Functions

CONSTANTS
    S,            \* value.size(1), rows of the value tensor
    Grain,        \* locations are multiples of 1/Grain of a level
    Points,       \* points per level
    IntRange,     \* 2^32
    LongRange,    \* 2^64
    Calls         \* the calls considered, see CallType

Unit == 2 * Grain      \* a location times a size less one half is in 1/Unit pixels
Rows == 0 .. S - 1
Long == -(LongRange \div 2) .. LongRange \div 2 - 1

LevelType == [h : Long, w : Long, start : Long]
LocationType == [x : Int, y : Int]

ASSUME SamplingAssumption ==
    /\ S \in Nat \ {0} /\ Grain \in Nat \ {0} /\ Points \in Nat \ {0}
    /\ IntRange \in Nat \ {0} /\ LongRange = IntRange * IntRange
    /\ S <= IntRange \div 2 - 1
    /\ \A c \in Calls :
          /\ c.device \in {"cuda", "cpu", "mps"}
          /\ c.backward \in BOOLEAN
          /\ c.check_cuda_metadata \in BOOLEAN
          /\ c.levels \in Seq(LevelType)
          /\ c.loc \in [1 .. Len(c.levels) -> [1 .. Points -> LocationType]]
          /\ c.weight \in [1 .. Len(c.levels) -> [1 .. Points -> Int]]

VARIABLES
    call,       \* the call
    phase,      \* "called", "running", "refused" or "returned"
    level,      \* loop variable over levels
    point,      \* loop variable over points, 0 on entering a level
    col,        \* forward: the output element
    gradValue,  \* backward, for an output gradient of one
    gradWeight, \* [level -> [point -> sum]]
    gradLoc,    \* [level -> [point -> sums x and y]]
    reads       \* rows of the value tensor accessed so far

vars == <<call, phase, level, point, col, gradValue, gradWeight, gradLoc, reads>>

-----------------------------------------------------------------------------
(* Metadata.                                                               *)

Fits(l) == l.h > 0 /\ l.w > 0 /\ l.start >= 0 /\ l.start + l.h * l.w <= S

(* static_cast<uint64_t>, and of that to uint32_t *)
Unsigned(x) == x % LongRange
Low32(x) == Unsigned(x) % IntRange

(* Mutant: sizes are narrowed before they are compared. *)
valid_spatial_level_narrowed(l) ==
    /\ (Low32(l.h) - 1) % LongRange < S
    /\ (Low32(l.w) - 1) % LongRange < S
    /\ Unsigned(l.start) < S
    /\ Low32(l.h) * Low32(l.w) <= S - Unsigned(l.start)

valid_spatial_level(l) ==
    /\ (Unsigned(l.h) - 1) % LongRange < S
    /\ (Unsigned(l.w) - 1) % LongRange < S
    /\ Unsigned(l.start) < S
    /\ Low32(l.h) * Low32(l.w) <= S - Unsigned(l.start)

(* check_inputs of the CPU and validate of MPS; both divide. *)
HostAccepts(l) ==
    /\ l.h > 0 /\ l.w > 0 /\ l.start >= 0 /\ l.start <= S
    /\ l.h <= (S - l.start) \div l.w

-----------------------------------------------------------------------------
(* A sample: the pixel up and left of it, the distances from that pixel,   *)
(* and the four corners (dy, dx) around it.                                *)

Corners == {0, 1} \X {0, 1}

Centered(loc, size) == 2 * loc * size - Grain

InSupport(l, y, x) == y > -Unit /\ x > -Unit /\ y < l.h * Unit /\ x < l.w * Unit

Floor(x) == x \div Unit
Fraction(x) == x % Unit

(* Mutant: the far edges are one pixel too far. *)
EdgeTestsOneTooFar(l, y0, x0) ==
    {c \in Corners : /\ IF c[1] = 0 THEN y0 >= 0 ELSE y0 + 1 <= l.h
                     /\ IF c[2] = 0 THEN x0 >= 0 ELSE x0 + 1 <= l.w}

(* CUDA and CPU: the near corners are tested against zero, the far ones    *)
(* against the size.                                                       *)
EdgeTests(l, y0, x0) ==
    {c \in Corners : /\ IF c[1] = 0 THEN y0 >= 0 ELSE y0 + 1 < l.h
                     /\ IF c[2] = 0 THEN x0 >= 0 ELSE x0 + 1 < l.w}

(* Metal's pixel() and scatter() test every corner against both.           *)
PixelTests(l, y0, x0) ==
    {c \in Corners : y0 + c[1] \in 0 .. l.h - 1 /\ x0 + c[2] \in 0 .. l.w - 1}

Touched(l, y0, x0) ==
    IF call.device = "mps" THEN PixelTests(l, y0, x0) ELSE EdgeTests(l, y0, x0)

Row(l, y0, x0, c) == l.start + (y0 + c[1]) * l.w + (x0 + c[2])

(* Mutant: the two sides change places. *)
SideSwapped(fraction, d) == IF d = 0 THEN fraction ELSE Unit - fraction

(* hh or lh, hw or lw: the weight of one side of the sample.               *)
Side(fraction, d) == IF d = 0 THEN Unit - fraction ELSE fraction
Sign(d) == IF d = 0 THEN -1 ELSE 1

(* Mutant: the weights of the two sides are taken from the same axis. *)
CoefficientOfOneAxis(fy, fx, c) == Side(fy, c[1]) * Side(fy, c[2])

(* w1 to w4, and their derivatives along y and x.                          *)
Coefficient(fy, fx, c) == Side(fy, c[1]) * Side(fx, c[2])

(* Mutant: the derivative along y is weighted by its own axis. *)
SlopeYOfOwnAxis(fy, fx, c) == Sign(c[1]) * Side(fy, c[2])

SlopeY(fy, fx, c) == Sign(c[1]) * Side(fx, c[2])
SlopeX(fy, fx, c) == Sign(c[2]) * Side(fy, c[1])

-----------------------------------------------------------------------------
(* Symbolic sums.                                                          *)

Zero == [r \in Rows |-> 0]
Plus(f, g) == [r \in Rows |-> f[r] + g[r]]
Times(k, f) == [r \in Rows |-> k * f[r]]

PerPoint(v) == [l \in 1 .. Len(call.levels) |-> [p \in 1 .. Points |-> v]]

Level == call.levels[level]
Y == Centered(call.loc[level][point].y, Level.h)
X == Centered(call.loc[level][point].x, Level.w)
Weight == call.weight[level][point]
Active == InSupport(Level, Y, X)

TouchedCorners == IF Active THEN Touched(Level, Floor(Y), Floor(X)) ELSE {}
RowOf(c) == Row(Level, Floor(Y), Floor(X), c)

(* w1 * v1 + w2 * v2 + w3 * v3 + w4 * v4: the value at each touched corner *)
(* times K(fy, fx, c).                                                     *)
Share(K(_, _, _), c, r) ==
    IF c \in TouchedCorners /\ RowOf(c) = r THEN K(Fraction(Y), Fraction(X), c) ELSE 0

Gather(K(_, _, _)) ==
    [r \in Rows |-> Share(K, <<0, 0>>, r) + Share(K, <<0, 1>>, r)
                      + Share(K, <<1, 0>>, r) + Share(K, <<1, 1>>, r)]

-----------------------------------------------------------------------------
(* Checked or on a host that checks: nothing is known of the metadata;     *)
(* otherwise they are the caller's word.                                   *)
Trusted(c) == c.device = "cuda" /\ ~c.check_cuda_metadata

Init ==
    /\ call \in Calls
    /\ Trusted(call) => \A i \in DOMAIN call.levels : Fits(call.levels[i])
    /\ phase = "called"
    /\ level = 1
    /\ point = 0
    /\ col = Zero
    /\ gradValue = Zero
    /\ gradWeight = PerPoint(Zero)
    /\ gradLoc = PerPoint([x |-> Zero, y |-> Zero])
    /\ reads = {}

sums == <<col, gradValue, gradWeight, gradLoc, reads>>

(* CPU and MPS look at all levels first, and raise; CUDA launches.         *)
Begin ==
    /\ phase = "called"
    /\ phase' = IF call.device # "cuda" /\ \E i \in DOMAIN call.levels : ~HostAccepts(call.levels[i])
                THEN "refused" ELSE "running"
    /\ UNCHANGED <<call, level, point, sums>>

Running == phase = "running" /\ level <= Len(call.levels)

(* A CUDA thread looks at a level as it comes to it, if it was asked to,   *)
(* and returns (the device assertion being compiled out).                  *)
Checked == call.device = "cuda" /\ call.check_cuda_metadata

EnterLevel ==
    /\ Running
    /\ point = 0
    /\ Checked => valid_spatial_level(Level)
    /\ point' = 1
    /\ UNCHANGED <<call, phase, level, sums>>

RefuseLevel ==
    /\ Running
    /\ point = 0
    /\ Checked
    /\ ~valid_spatial_level(Level)
    /\ phase' = "refused"
    /\ UNCHANGED <<call, level, point, sums>>

Advance ==
    IF point < Points THEN point' = point + 1 /\ level' = level
                      ELSE point' = 0 /\ level' = level + 1

SampleForward ==
    /\ Running
    /\ point > 0
    /\ ~call.backward
    /\ col' = Plus(col, Times(Weight, Gather(Coefficient)))
    /\ reads' = reads \cup {RowOf(c) : c \in TouchedCorners}
    /\ Advance
    /\ UNCHANGED <<call, phase, gradValue, gradWeight, gradLoc>>

(* The gradients of the coordinates are scaled by the level's size, as the *)
(* coordinates were.                                                       *)
SampleBackward ==
    /\ Running
    /\ point > 0
    /\ call.backward
    /\ gradValue' = Plus(gradValue, Times(Weight, Gather(Coefficient)))
    /\ gradWeight' = [gradWeight EXCEPT ![level][point] = Gather(Coefficient)]
    /\ gradLoc' = [gradLoc EXCEPT ![level][point] =
                      [x |-> Times(Level.w * Weight, Gather(SlopeX)),
                       y |-> Times(Level.h * Weight, Gather(SlopeY))]]
    /\ reads' = reads \cup {RowOf(c) : c \in TouchedCorners}
    /\ Advance
    /\ UNCHANGED <<call, phase, col>>

Return ==
    /\ phase = "running"
    /\ level > Len(call.levels)
    /\ phase' = "returned"
    /\ UNCHANGED <<call, level, point, sums>>

Next == Begin \/ EnterLevel \/ RefuseLevel \/ SampleForward \/ SampleBackward \/ Return

Spec == Init /\ [][Next]_vars

-----------------------------------------------------------------------------
(* Properties.                                                             *)

(* The three devices agree on the metadata they refuse, although one       *)
(* computes in unsigned 64 and 32 bits, the others divide: a call returns  *)
(* only if all its levels lie within the value tensor and is refused only  *)
(* if one does not, whatever int64 values they hold (valid_spatial_level,  *)
(* check_inputs, validate).                                                *)
RefusedIffUnfit ==
    /\ phase = "returned" => \A i \in DOMAIN call.levels : Fits(call.levels[i])
    /\ phase = "refused" => \E i \in DOMAIN call.levels : ~Fits(call.levels[i])

LevelRows(l) == l.start .. l.start + l.h * l.w - 1

(* No sample reads a value, or adds to a gradient, outside the rows of the *)
(* levels entered so far, hence none outside the tensor.                   *)
ReadsWithinLevels ==
    \A r \in reads :
        /\ r \in Rows
        /\ \E i \in 1 .. level : i <= Len(call.levels) /\ r \in LevelRows(call.levels[i])

(* grid_sample's bilinear kernel with zero padding, the documented meaning *)
(* of a sample: a row counts by the product of its distances' tents.       *)
Tent(d) == IF d < 0 THEN (IF d > -Unit THEN Unit + d ELSE 0)
                    ELSE (IF d < Unit THEN Unit - d ELSE 0)

(* The row's share of a level's interpolation at (y, x).                   *)
Interpolation(l, y, x) ==
    [r \in Rows |-> IF r \notin LevelRows(l) THEN 0
                    ELSE LET at == r - l.start
                         IN  Tent(y - (at \div l.w) * Unit) * Tent(x - (at % l.w) * Unit)]

Samples == (1 .. Len(call.levels)) \X (1 .. Points)
YOf(s) == Centered(call.loc[s[1]][s[2]].y, call.levels[s[1]].h)
XOf(s) == Centered(call.loc[s[1]][s[2]].x, call.levels[s[1]].w)
LevelOf(s) == call.levels[s[1]]
WeightOf(s) == call.weight[s[1]][s[2]]
Interpolated(s) == Interpolation(LevelOf(s), YOf(s), XOf(s))

(* ms_deform_attn_core_pytorch, by rows: what the levels' samples are      *)
(* worth, each times its weight.                                           *)
Attention ==
    [r \in Rows |-> SumFunction([s \in Samples |-> WeightOf(s) * Interpolated(s)[r]])]

(* The output element is the weighted sum of its samples' interpolations,  *)
(* on every device and for all values; and the backward pass is the        *)
(* transpose of that: each row's gradient is its share of the output, and  *)
(* the gradient of a weight is the sample it weighs.                       *)
ComputesAttention ==
    phase = "returned" =>
        IF call.backward
        THEN /\ gradValue = Attention
             /\ \A s \in Samples : gradWeight[s[1]][s[2]] = Interpolated(s)
        ELSE col = Attention

(* The difference of f between the two ends of the cell of pixels around a *)
(* sample is its slope there, interpolation being linear within a cell.    *)
SlopeAcross(f(_), x) == [r \in Rows |-> f((Floor(x) + 1) * Unit)[r] - f(Floor(x) * Unit)[r]]

(* The gradient of a coordinate is the slope of the output along it, per   *)
(* unit of the normalized location, in the cell of pixels around the       *)
(* sample; it is zero outside the support.                                 *)
GradientsAreSlopes ==
    phase = "returned" /\ call.backward =>
        \A s \in Samples :
            LET l == LevelOf(s)
                AlongX(x) == Interpolation(l, YOf(s), x)
                AlongY(y) == Interpolation(l, y, XOf(s))
                g == gradLoc[s[1]][s[2]]
            IN  IF InSupport(l, YOf(s), XOf(s))
                THEN /\ Times(Unit, g.x) = Times(l.w * WeightOf(s), SlopeAcross(AlongX, XOf(s)))
                     /\ Times(Unit, g.y) = Times(l.h * WeightOf(s), SlopeAcross(AlongY, YOf(s)))
                ELSE g = [x |-> Zero, y |-> Zero]

=============================================================================
