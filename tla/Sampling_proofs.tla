-------------------------- MODULE Sampling_proofs --------------------------
(***************************************************************************)
(* The metadata checks of the three devices are exact, no sample touches a *)
(* row outside its level, outputs are the weighted interpolations of their *)
(* samples and gradients their transpose and slopes, for every width of    *)
(* the integers, size of the value tensor, level, location and weight.     *)
(***************************************************************************)
EXTENDS Sampling, FiniteSetTheorems, TLAPS

-----------------------------------------------------------------------------
(* Integer arithmetic.                                                     *)

(* Euclidean division of any integer. *)
LEMMA Division ==
    ASSUME NEW a \in Int, NEW b \in Nat \ {0}
    PROVE  /\ a \div b \in Int /\ a % b \in 0 .. b - 1
           /\ a = b * (a \div b) + (a % b)
OBVIOUS

(* Multiplication is monotone. *)
LEMMA Monotone ==
    ASSUME NEW a \in Int, NEW b \in Int, NEW c \in Nat, a <= b
    PROVE  a * c <= b * c
OBVIOUS

(* A quotient is known from its bounds. *)
LEMMA Quotient ==
    ASSUME NEW a \in Int, NEW b \in Nat \ {0}, NEW q \in Int, NEW r \in 0 .. b - 1,
           a = b * q + r
    PROVE  a \div b = q /\ a % b = r
<1> DEFINE p == a \div b
<1>1. p \in Int /\ a % b \in 0 .. b - 1 /\ a = b * p + (a % b)
  BY Division
<1>2. ~(p < q)
  <2> SUFFICES ASSUME p + 1 <= q PROVE FALSE
    BY <1>1
  <2>1. (p + 1) * b <= q * b
    BY <1>1, Monotone
  <2>2. (p + 1) * b = b * p + b /\ q * b = b * q
    BY <1>1
  <2> QED
    BY <2>1, <2>2, <1>1
<1>3. ~(q < p)
  <2> SUFFICES ASSUME q + 1 <= p PROVE FALSE
    BY <1>1
  <2>1. (q + 1) * b <= p * b
    BY <1>1, Monotone
  <2>2. (q + 1) * b = b * q + b /\ p * b = b * p
    BY <1>1
  <2> QED
    BY <2>1, <2>2, <1>1
<1>4. p = q
  BY <1>1, <1>2, <1>3
<1> QED
  BY <1>1, <1>4

(* Reduction leaves what is in range alone and wraps what is just below.   *)
LEMMA Wrap ==
    ASSUME NEW a \in Int, NEW b \in Nat \ {0}
    PROVE  /\ 0 <= a /\ a < b => a % b = a
           /\ -b <= a /\ a < 0 => a % b = a + b
<1>1. ASSUME 0 <= a, a < b PROVE a % b = a
  <2>1. a = b * 0 + a /\ a \in 0 .. b - 1
    BY <1>1
  <2> QED
    BY <2>1, Quotient
<1>2. ASSUME -b <= a, a < 0 PROVE a % b = a + b
  <2>1. a = b * (-1) + (a + b) /\ a + b \in 0 .. b - 1
    BY <1>2
  <2> QED
    BY <2>1, Quotient
<1> QED
  BY <1>1, <1>2

(* Comparing with a quotient is comparing a product. *)
LEMMA AtMostQuotient ==
    ASSUME NEW a \in Int, NEW b \in Nat \ {0}, NEW c \in Int
    PROVE  c <= a \div b <=> c * b <= a
<1> DEFINE q == a \div b
<1>1. q \in Int /\ a % b \in 0 .. b - 1 /\ a = b * q + (a % b)
  BY Division
<1> HIDE DEF q
<1>2. ASSUME c <= q PROVE c * b <= a
  <2>1. c * b <= q * b
    BY <1>1, <1>2, Monotone
  <2>2. q * b = b * q
    BY <1>1
  <2> QED
    BY <1>1, <2>1, <2>2
<1>3. ASSUME c * b <= a, q + 1 <= c PROVE FALSE
  <2>1. (q + 1) * b <= c * b
    BY <1>1, <1>3, Monotone
  <2>2. (q + 1) * b = b * q + b
    BY <1>1
  <2> QED
    BY <1>1, <1>3, <2>1, <2>2
<1> QED
  BY <1>1, <1>2, <1>3 DEF q

-----------------------------------------------------------------------------
(* The metadata.                                                           *)

(* The value tensor's size is far below the range of long. *)
LEMMA Widths ==
    /\ S \in Nat \ {0} /\ IntRange \in Nat \ {0} /\ LongRange \in Nat \ {0}
    /\ S < IntRange
    /\ \A x \in Long : -LongRange <= x /\ x < LongRange
    /\ \A x \in Long : x < 0 => x + LongRange > S + 1
<1>1. S \in Nat \ {0} /\ IntRange \in Nat \ {0} /\ LongRange = IntRange * IntRange
      /\ S <= IntRange \div 2 - 1
  BY SamplingAssumption
<1>2. IntRange \div 2 \in Int /\ IntRange = 2 * (IntRange \div 2) + (IntRange % 2) /\ IntRange % 2 \in 0 .. 1
  BY <1>1, Division
<1>3. IntRange >= 2 * S + 2
  BY <1>1, <1>2
<1>4. 4 * IntRange <= IntRange * IntRange
  BY <1>1, <1>3, Monotone
<1>5. LongRange \in Nat /\ LongRange >= 8 * S + 8
  BY <1>1, <1>3, <1>4
<1>6. LongRange \div 2 \in Int /\ LongRange = 2 * (LongRange \div 2) + (LongRange % 2) /\ LongRange % 2 \in 0 .. 1
  BY <1>5, Division
<1> QED
  BY <1>1, <1>3, <1>5, <1>6 DEF Long

(* A size passes the unsigned comparison if and only if it is one to S. *)
LEMMA SizeCheck ==
    ASSUME NEW x \in Long
    PROVE  /\ (Unsigned(x) - 1) % LongRange < S <=> x \in 1 .. S
           /\ x \in 1 .. S => Low32(x) = x
<1> USE Widths
<1>0. x \in Int
  BY DEF Long
<1>1. CASE x >= 1
  <2>1. Unsigned(x) = x
    BY <1>0, <1>1, Wrap DEF Unsigned
  <2>2. (x - 1) % LongRange = x - 1
    BY <1>0, <1>1, Wrap
  <2>3. x \in 1 .. S => x % IntRange = x
    BY <1>0, Wrap
  <2> QED
    BY <1>0, <1>1, <2>1, <2>2, <2>3 DEF Low32
<1>2. CASE x = 0
  <2>1. Unsigned(x) = 0
    BY <1>2, Wrap DEF Unsigned
  <2>2. (0 - 1) % LongRange = LongRange - 1
    BY Wrap
  <2>3. LongRange - 1 >= S
    <3>1. IntRange <= LongRange
      BY SamplingAssumption, Monotone
    <3> QED
      BY <3>1
  <2> QED
    BY <1>2, <2>1, <2>2, <2>3
<1>3. CASE x < 0
  <2>1. Unsigned(x) = x + LongRange
    BY <1>0, <1>3, Wrap DEF Unsigned
  <2>2. (x + LongRange - 1) % LongRange = x + LongRange - 1
    <3>1. x + LongRange - 1 \in Int /\ 0 <= x + LongRange - 1 /\ x + LongRange - 1 < LongRange
      BY <1>0, <1>3
    <3>2. LongRange \in Nat \ {0}
      OBVIOUS
    <3> HIDE Widths
    <3> QED
      BY <3>1, <3>2, Wrap
  <2> QED
    BY <1>0, <1>3, <2>1, <2>2
<1> QED
  BY <1>0, <1>1, <1>2, <1>3

(* So does a start, from zero to S - 1. *)
LEMMA StartCheck ==
    ASSUME NEW x \in Long
    PROVE  /\ Unsigned(x) < S <=> x \in 0 .. S - 1
           /\ x \in 0 .. S - 1 => Unsigned(x) = x
<1> USE Widths
<1>0. x \in Int
  BY DEF Long
<1>1. CASE x >= 0
  BY <1>0, <1>1, Wrap DEF Unsigned
<1>2. CASE x < 0
  <2>1. Unsigned(x) = x + LongRange
    BY <1>0, <1>2, Wrap DEF Unsigned
  <2> QED
    BY <1>0, <1>2, <2>1
<1> QED
  BY <1>0, <1>1, <1>2

(* A level that fits has sizes and a start that fit. *)
LEMMA FitsBounds ==
    ASSUME NEW l \in LevelType, Fits(l)
    PROVE  l.h \in 1 .. S /\ l.w \in 1 .. S /\ l.start \in 0 .. S - 1
<1>1. l.h \in Int /\ l.w \in Int /\ l.start \in Int
  BY DEF LevelType, Long
<1>2. l.h > 0 /\ l.w > 0 /\ l.start >= 0 /\ l.start + l.h * l.w <= S
  BY DEF Fits
<1>3. 1 * l.w <= l.h * l.w /\ 1 * l.h <= l.w * l.h
  BY <1>1, <1>2, Monotone
<1> QED
  BY <1>1, <1>2, <1>3, Widths

(* The unsigned comparisons of valid_spatial_level accept exactly the      *)
(* levels that lie within the value tensor, for every int64 metadata.      *)
THEOREM DeviceCheckExact == \A l \in LevelType : valid_spatial_level(l) <=> Fits(l)
<1> SUFFICES ASSUME NEW l \in LevelType PROVE valid_spatial_level(l) <=> Fits(l)
  OBVIOUS
<1>1. l.h \in Long /\ l.w \in Long /\ l.start \in Long
  BY DEF LevelType
<1>2. l.h \in Int /\ l.w \in Int /\ l.start \in Int
  BY <1>1 DEF Long
<1>3. valid_spatial_level(l) <=>
        /\ l.h \in 1 .. S /\ l.w \in 1 .. S /\ l.start \in 0 .. S - 1
        /\ l.h * l.w <= S - l.start
  BY <1>1, SizeCheck, StartCheck DEF valid_spatial_level
<1>4. ASSUME Fits(l) PROVE l.h \in 1 .. S /\ l.w \in 1 .. S /\ l.start \in 0 .. S - 1
  BY <1>4, FitsBounds
<1>5. l.h * l.w \in Int
  BY <1>2
<1> QED
  BY <1>2, <1>3, <1>4, <1>5, Widths DEF Fits

(* So do the divisions of check_inputs and validate. *)
THEOREM HostCheckExact == \A l \in LevelType : HostAccepts(l) <=> Fits(l)
<1> SUFFICES ASSUME NEW l \in LevelType PROVE HostAccepts(l) <=> Fits(l)
  OBVIOUS
<1>1. l.h \in Int /\ l.w \in Int /\ l.start \in Int /\ S \in Nat
  BY Widths DEF LevelType, Long
<1>2. CASE ~(l.w > 0)
  BY <1>2 DEF HostAccepts, Fits
<1>3. CASE l.w > 0
  <2>1. l.h <= (S - l.start) \div l.w <=> l.h * l.w <= S - l.start
    <3>1. S - l.start \in Int /\ l.w \in Nat \ {0}
      BY <1>1, <1>3
    <3> QED
      BY <1>1, <3>1, AtMostQuotient
  <2>2. Fits(l) => l.start <= S
    BY <1>1, FitsBounds
  <2>3. l.h * l.w \in Int
    BY <1>1
  <2> QED
    BY <1>1, <1>3, <2>1, <2>2, <2>3 DEF HostAccepts, Fits
<1> QED
  BY <1>2, <1>3

-----------------------------------------------------------------------------
(* A sample's corners.                                                     *)

(* A pixel of a level lies in the level's rows. *)
LEMMA PixelInLevel ==
    ASSUME NEW h \in Int, NEW w \in Int, NEW v \in 0 .. h - 1, NEW u \in 0 .. w - 1
    PROVE  v * w + u \in 0 .. h * w - 1
<1>1. w \in Nat /\ v \in Nat /\ u \in Nat
  OBVIOUS
<1>2. 0 * w <= v * w /\ (v + 1) * w <= h * w
  BY <1>1, Monotone
<1>3. (v + 1) * w = v * w + w /\ 0 * w = 0 /\ v * w \in Int /\ h * w \in Int
  BY <1>1
<1> QED
  BY <1>1, <1>2, <1>3

(* The pixel up and left of a sample in the support is at most one beyond  *)
(* the near edge, and within the far one.                                  *)
LEMMA FloorInSupport ==
    ASSUME NEW x \in Int, NEW n \in Int, x > -Unit, x < n * Unit
    PROVE  Floor(x) \in -1 .. n - 1
<1>1. Unit \in Nat \ {0}
  BY SamplingAssumption DEF Unit
<1> HIDE DEF Unit
<1>2. x \div Unit \in Int
  BY <1>1, Division
<1>3. ~(n <= x \div Unit)
  BY <1>1, AtMostQuotient
<1>4. (-1) * Unit <= x
  BY <1>1
<1>5. -1 <= x \div Unit
  BY <1>1, <1>4, AtMostQuotient
<1> QED
  BY <1>2, <1>3, <1>5 DEF Floor

(* Every corner of a sample in the support that passes the tests of its    *)
(* device is a row of its level.                                           *)
LEMMA CornerInLevel ==
    ASSUME NEW l \in LevelType, NEW y \in Int, NEW x \in Int,
           InSupport(l, y, x), NEW c \in Touched(l, Floor(y), Floor(x))
    PROVE  Row(l, Floor(y), Floor(x), c) \in LevelRows(l)
<1>1. l.h \in Int /\ l.w \in Int /\ l.start \in Int
  BY DEF LevelType, Long
<1>2. Floor(y) \in -1 .. l.h - 1 /\ Floor(x) \in -1 .. l.w - 1
  BY <1>1, FloorInSupport DEF InSupport
<1> DEFINE v == Floor(y) + c[1]
           u == Floor(x) + c[2]
<1>3. v \in 0 .. l.h - 1 /\ u \in 0 .. l.w - 1
  <2>1. CASE call.device = "mps"
    BY <1>1, <2>1 DEF Touched, PixelTests
  <2>2. CASE call.device # "mps"
    <3>1. c \in Corners /\ c \in EdgeTests(l, Floor(y), Floor(x))
      BY <2>2 DEF Touched, EdgeTests
    <3>2. c[1] \in {0, 1} /\ c[2] \in {0, 1}
      BY <3>1 DEF Corners
    <3> QED
      BY <1>1, <1>2, <3>1, <3>2 DEF EdgeTests
  <2> QED
    BY <2>1, <2>2
<1> HIDE DEF v, u
<1>4. v * l.w + u \in 0 .. l.h * l.w - 1
  BY <1>1, <1>3, PixelInLevel
<1>5. Row(l, Floor(y), Floor(x), c) = l.start + v * l.w + u
  BY DEF Row, v, u
<1>6. v * l.w \in Int /\ u \in Int /\ l.h * l.w \in Int
  BY <1>1, <1>3
<1> QED
  BY <1>1, <1>4, <1>5, <1>6 DEF LevelRows

(* The rows of a level that fits are rows of the value tensor. *)
LEMMA LevelRowsInTensor ==
    ASSUME NEW l \in LevelType, Fits(l), NEW r \in LevelRows(l)
    PROVE  r \in Rows
<1>1. l.h \in Int /\ l.w \in Int /\ l.start \in Int /\ S \in Nat
  BY Widths DEF LevelType, Long
<1>2. l.h * l.w \in Int
  BY <1>1
<1> QED
  BY <1>1, <1>2 DEF LevelRows, Rows, Fits

-----------------------------------------------------------------------------
(* The bilinear weights.                                                   *)

(* Along one axis, the side of a sample is the tent over the pixel there,  *)
(* and every other pixel lies outside the tent.                            *)
LEMMA SideIsTent ==
    ASSUME NEW x \in Int, NEW u \in Int
    PROVE  IF u - Floor(x) \in {0, 1}
           THEN Side(Fraction(x), u - Floor(x)) = Tent(x - u * Unit)
           ELSE Tent(x - u * Unit) = 0
<1> DEFINE x0 == Floor(x)
           f == Fraction(x)
<1>1. Unit \in Nat \ {0}
  BY SamplingAssumption DEF Unit
<1> HIDE DEF Unit
<1>2. x0 \in Int /\ f \in 0 .. Unit - 1 /\ x = Unit * x0 + f
  BY <1>1, Division DEF Floor, Fraction
<1> HIDE DEF x0, f
<1>3. CASE u = x0
  <2>1. x - u * Unit = f
    <3>1. u * Unit = Unit * x0
      BY <1>1, <1>2, <1>3
    <3>2. Unit * x0 \in Int
      BY <1>1, <1>2
    <3> QED
      BY <1>2, <3>1, <3>2
  <2>2. u - x0 = 0
    BY <1>2, <1>3
  <2> QED
    BY <1>1, <1>2, <2>1, <2>2 DEF Side, Tent, x0, f
<1>4. CASE u = x0 + 1
  <2>1. x - u * Unit = f - Unit
    <3>1. u * Unit = Unit * x0 + Unit
      BY <1>1, <1>2, <1>4
    <3>2. Unit * x0 \in Int
      BY <1>1, <1>2
    <3> QED
      BY <1>1, <1>2, <3>1, <3>2
  <2>2. u - x0 = 1
    BY <1>2, <1>4
  <2> QED
    BY <1>1, <1>2, <2>1, <2>2 DEF Side, Tent, x0, f
<1>5. CASE u < x0
  <2>1. (u + 1) * Unit <= x0 * Unit
    BY <1>1, <1>2, <1>5, Monotone
  <2>2. (u + 1) * Unit = u * Unit + Unit /\ x0 * Unit = Unit * x0
        /\ u * Unit \in Int /\ Unit * x0 \in Int
    BY <1>1, <1>2
  <2>3. x - u * Unit >= Unit
    BY <1>1, <1>2, <2>1, <2>2
  <2>4. u - x0 \notin {0, 1}
    BY <1>2, <1>5
  <2> QED
    BY <1>1, <1>2, <2>2, <2>3, <2>4 DEF Tent, x0
<1>6. CASE u > x0 + 1
  <2>1. (x0 + 2) * Unit <= u * Unit
    BY <1>1, <1>2, <1>6, Monotone
  <2>2. (x0 + 2) * Unit = Unit * x0 + Unit + Unit
        /\ u * Unit \in Int /\ Unit * x0 \in Int
    BY <1>1, <1>2
  <2>3. x - u * Unit < -Unit
    BY <1>1, <1>2, <2>1, <2>2
  <2>4. u - x0 \notin {0, 1}
    BY <1>2, <1>6
  <2> QED
    BY <1>1, <1>2, <2>2, <2>3, <2>4 DEF Tent, x0
<1> QED
  BY <1>2, <1>3, <1>4, <1>5, <1>6

(* The tents of a level's pixels end where the support check says. *)
LEMMA TentsWithinSupport ==
    ASSUME NEW x \in Int, NEW n \in Int, NEW u \in 0 .. n - 1,
           ~(x > -Unit /\ x < n * Unit)
    PROVE  Tent(x - u * Unit) = 0
<1>1. Unit \in Nat \ {0}
  BY SamplingAssumption DEF Unit
<1> HIDE DEF Unit
<1>2. 0 * Unit <= u * Unit /\ (u + 1) * Unit <= n * Unit
  BY <1>1, Monotone
<1>3. 0 * Unit = 0 /\ (u + 1) * Unit = u * Unit + Unit /\ u * Unit \in Int /\ n * Unit \in Int
  BY <1>1
<1>4. x - u * Unit <= -Unit \/ x - u * Unit >= Unit
  BY <1>1, <1>2, <1>3
<1> QED
  BY <1>1, <1>3, <1>4 DEF Tent

(* What a pixel counts for in a sample is the product of its two tents, as *)
(* in grid_sample with zero padding: its bilinear weight if it is a corner *)
(* the device touches, and nothing if it is not or the sample is skipped.  *)
(* For every size, location and device.                                    *)
THEOREM SamplesInterpolate ==
    ASSUME NEW l \in LevelType, NEW y \in Int, NEW x \in Int,
           NEW v \in 0 .. l.h - 1, NEW u \in 0 .. l.w - 1
    PROVE  LET c == <<v - Floor(y), u - Floor(x)>>
           IN  Tent(y - v * Unit) * Tent(x - u * Unit) =
                  IF InSupport(l, y, x) /\ c \in Touched(l, Floor(y), Floor(x))
                  THEN Coefficient(Fraction(y), Fraction(x), c)
                  ELSE 0
<1> DEFINE c == <<v - Floor(y), u - Floor(x)>>
           ty == Tent(y - v * Unit)
           tx == Tent(x - u * Unit)
<1>1. l.h \in Int /\ l.w \in Int
  BY DEF LevelType, Long
<1>2. Unit \in Nat \ {0}
  BY SamplingAssumption DEF Unit
<1>3. Floor(y) \in Int /\ Floor(x) \in Int
  BY <1>2, Division DEF Floor
<1>4. ty \in Int /\ tx \in Int
  <2>1. ASSUME NEW d \in Int PROVE Tent(d) \in Int
    BY <1>2 DEF Tent
  <2>2. y - v * Unit \in Int /\ x - u * Unit \in Int
    BY <1>2
  <2> QED
    BY <2>1, <2>2
<1>5. c[1] = v - Floor(y) /\ c[2] = u - Floor(x)
  OBVIOUS
<1>6. ASSUME InSupport(l, y, x)
      PROVE  c \in Touched(l, Floor(y), Floor(x)) <=> c[1] \in {0, 1} /\ c[2] \in {0, 1}
  <2>1. c \in Corners <=> c[1] \in {0, 1} /\ c[2] \in {0, 1}
    BY <1>5 DEF Corners
  <2>2. Floor(y) + c[1] = v /\ Floor(x) + c[2] = u
    BY <1>3, <1>5
  <2> HIDE DEF c
  <2>3. c \in Corners => c \in PixelTests(l, Floor(y), Floor(x))
    BY <2>2 DEF PixelTests
  <2>4. c \in Corners => c \in EdgeTests(l, Floor(y), Floor(x))
    BY <1>1, <1>3, <2>1, <2>2 DEF EdgeTests
  <2> QED
    BY <2>1, <2>3, <2>4 DEF Touched, PixelTests, EdgeTests
<1>7. CASE ~InSupport(l, y, x)
  <2>1. ty = 0 \/ tx = 0
    BY <1>1, <1>7, TentsWithinSupport DEF InSupport
  <2> HIDE DEF ty, tx
  <2>2. ty * tx = 0
    BY <1>4, <2>1
  <2> QED
    BY <1>7, <2>2 DEF ty, tx
<1>8. CASE InSupport(l, y, x) /\ c[1] \in {0, 1} /\ c[2] \in {0, 1}
  <2>1. ty = Side(Fraction(y), c[1]) /\ tx = Side(Fraction(x), c[2])
    BY <1>5, <1>8, SideIsTent
  <2> QED
    BY <1>6, <1>8, <2>1 DEF Coefficient
<1>9. CASE InSupport(l, y, x) /\ ~(c[1] \in {0, 1} /\ c[2] \in {0, 1})
  <2>1. ty = 0 \/ tx = 0
    BY <1>5, <1>9, SideIsTent
  <2> HIDE DEF ty, tx
  <2>2. ty * tx = 0
    BY <1>4, <2>1
  <2> QED
    BY <1>6, <1>9, <2>2 DEF ty, tx
<1> QED
  BY <1>7, <1>8, <1>9

-----------------------------------------------------------------------------
(* The inductive invariant.                                                *)

LoopTypes ==
    /\ call \in Calls
    /\ phase \in {"called", "running", "refused", "returned"}
    /\ level \in Nat \ {0}
    /\ point \in 0 .. Points
    /\ reads \subseteq Int
    /\ phase = "called" => level = 1 /\ point = 0 /\ reads = {}
    /\ phase = "returned" => level > Len(call.levels)

(* Before CUDA metadata are checked nothing is known of them; a host that  *)
(* let a call run has seen that all of them fit.                           *)
KnownToFit ==
    /\ Trusted(call) => \A i \in DOMAIN call.levels : Fits(call.levels[i])
    /\ call.device # "cuda" /\ phase \in {"running", "returned"} =>
          \A i \in DOMAIN call.levels : Fits(call.levels[i])
    /\ \A i \in DOMAIN call.levels :
          i < level \/ (i = level /\ point > 0) => Fits(call.levels[i])

RefusedUnfit == phase = "refused" => \E i \in DOMAIN call.levels : ~Fits(call.levels[i])

IInv == LoopTypes /\ KnownToFit /\ RefusedUnfit /\ ReadsWithinLevels

(* What the assumption says of one call. *)
LEMMA CallTypes ==
    ASSUME NEW c \in Calls
    PROVE  /\ c.device \in {"cuda", "cpu", "mps"}
           /\ c.check_cuda_metadata \in BOOLEAN
           /\ Len(c.levels) \in Nat /\ DOMAIN c.levels = 1 .. Len(c.levels)
           /\ \A i \in 1 .. Len(c.levels) :
                 /\ c.levels[i] \in LevelType
                 /\ \A p \in 1 .. Points : c.loc[i][p] \in LocationType
<1>1. c.levels \in Seq(LevelType)
  BY SamplingAssumption
<1>2. c.loc \in [1 .. Len(c.levels) -> [1 .. Points -> LocationType]]
  BY SamplingAssumption
<1>3. \A i \in 1 .. Len(c.levels) : \A p \in 1 .. Points : c.loc[i][p] \in LocationType
  BY <1>2
<1>4. c.device \in {"cuda", "cpu", "mps"} /\ c.check_cuda_metadata \in BOOLEAN
  BY SamplingAssumption
<1>5. /\ Len(c.levels) \in Nat /\ DOMAIN c.levels = 1 .. Len(c.levels)
      /\ \A i \in 1 .. Len(c.levels) : c.levels[i] \in LevelType
  BY <1>1
<1> QED
  BY <1>3, <1>4, <1>5

(* A sampled point leaves only rows of its own level in reads. *)
LEMMA SampleReads ==
    ASSUME LoopTypes, level <= Len(call.levels), point > 0, Fits(Level)
    PROVE  {RowOf(c) : c \in TouchedCorners} \subseteq Rows \cap LevelRows(Level)
<1>1. level \in 1 .. Len(call.levels) /\ point \in 1 .. Points /\ call \in Calls
  BY CallTypes, SamplingAssumption DEF LoopTypes
<1>2. Level \in LevelType /\ call.loc[level][point] \in LocationType
  BY <1>1, CallTypes DEF Level
<1>3. Y \in Int /\ X \in Int
  <2>1. Level.h \in Int /\ Level.w \in Int /\ Grain \in Int
    BY <1>2, SamplingAssumption DEF LevelType, Long
  <2>2. call.loc[level][point].y \in Int /\ call.loc[level][point].x \in Int
    BY <1>2 DEF LocationType
  <2>3. ASSUME NEW a \in Int, NEW b \in Int PROVE Centered(a, b) \in Int
    BY <2>1 DEF Centered
  <2> QED
    BY <2>1, <2>2, <2>3 DEF Y, X
<1> SUFFICES ASSUME NEW c \in TouchedCorners PROVE RowOf(c) \in Rows \cap LevelRows(Level)
  OBVIOUS
<1>4. InSupport(Level, Y, X) /\ c \in Touched(Level, Floor(Y), Floor(X))
  BY DEF TouchedCorners, Active
<1> HIDE DEF Level, Y, X
<1>5. RowOf(c) \in LevelRows(Level)
  BY <1>2, <1>3, <1>4, CornerInLevel DEF RowOf
<1> QED
  BY <1>2, <1>5, LevelRowsInTensor

(* A step of a sample keeps the invariant: its level fits, and so do the   *)
(* rows it reads.                                                          *)
LEMMA SampleStep ==
    ASSUME IInv, Running, point > 0, Advance,
           reads' = reads \cup {RowOf(c) : c \in TouchedCorners},
           UNCHANGED <<call, phase>>
    PROVE  IInv'
<1>1. level \in 1 .. Len(call.levels) /\ point \in 1 .. Points /\ call \in Calls
      /\ Len(call.levels) \in Nat /\ DOMAIN call.levels = 1 .. Len(call.levels)
      /\ Points \in Nat \ {0}
  BY CallTypes, SamplingAssumption DEF IInv, LoopTypes, Running
<1>2. Fits(Level)
  BY <1>1 DEF IInv, KnownToFit, Level
<1>3. {RowOf(c) : c \in TouchedCorners} \subseteq Rows \cap LevelRows(Level)
  BY <1>1, <1>2, SampleReads DEF IInv, Running
<1>4. LoopTypes'
  <2>1. reads' \subseteq Int
    <3>1. Rows \subseteq Int
      BY DEF Rows
    <3> QED
      BY <1>3, <3>1 DEF IInv, LoopTypes
  <2> QED
    BY <1>1, <2>1 DEF IInv, LoopTypes, Running, Advance
<1>5. KnownToFit'
  BY <1>1, <1>2 DEF IInv, KnownToFit, Advance, Trusted, Fits, Level
<1>6. RefusedUnfit'
  BY DEF IInv, RefusedUnfit, Fits
<1>7. ReadsWithinLevels'
  <2> SUFFICES ASSUME NEW r \in reads'
               PROVE  /\ r \in Rows
                      /\ \E i \in 1 .. level' : i <= Len(call.levels) /\ r \in LevelRows(call.levels[i])
    BY DEF ReadsWithinLevels, LevelRows, Rows
  <2>1. level' \in Nat /\ level' >= level
    BY <1>1 DEF Advance
  <2>2. CASE r \in reads
    BY <1>1, <2>1, <2>2 DEF IInv, ReadsWithinLevels
  <2>3. CASE r \in {RowOf(c) : c \in TouchedCorners}
    <3>1. r \in Rows /\ r \in LevelRows(call.levels[level])
      BY <1>3, <2>3 DEF Level
    <3> QED
      BY <1>1, <2>1, <3>1
  <2> QED
    BY <2>2, <2>3
<1> QED
  BY <1>4, <1>5, <1>6, <1>7 DEF IInv

(* Every step of the kernels keeps the invariant. *)
LEMMA NextInv == IInv /\ [Next]_vars => IInv'
<1> SUFFICES ASSUME IInv, [Next]_vars PROVE IInv'
  OBVIOUS
<1>0. call \in Calls /\ Len(call.levels) \in Nat /\ DOMAIN call.levels = 1 .. Len(call.levels)
      /\ \A i \in DOMAIN call.levels : call.levels[i] \in LevelType
      /\ Points \in Nat \ {0}
  BY CallTypes, SamplingAssumption DEF IInv, LoopTypes
<1>1. CASE Begin
  <2>1. call.device # "cuda" =>
          (phase' = "running" <=> \A i \in DOMAIN call.levels : Fits(call.levels[i]))
    BY <1>0, <1>1, HostCheckExact DEF Begin
  <2>2. call.device = "cuda" => phase' = "running"
    BY <1>1 DEF Begin
  <2>3. phase' \in {"running", "refused"} /\ UNCHANGED <<call, level, point, reads>>
    BY <1>1 DEF Begin, sums
  <2>4. LoopTypes'
    BY <2>3 DEF IInv, LoopTypes
  <2>5. KnownToFit'
    BY <2>1, <2>3 DEF IInv, KnownToFit, Trusted, Fits
  <2>6. RefusedUnfit'
    BY <2>1, <2>2, <2>3 DEF RefusedUnfit, Fits
  <2>7. ReadsWithinLevels'
    BY <2>3 DEF IInv, ReadsWithinLevels, LevelRows, Rows
  <2> QED
    BY <2>4, <2>5, <2>6, <2>7 DEF IInv
<1>2. CASE EnterLevel
  <2>1. level \in DOMAIN call.levels /\ UNCHANGED <<call, phase, level, reads>> /\ point' = 1
        /\ phase = "running"
    BY <1>0, <1>2 DEF EnterLevel, Running, IInv, LoopTypes, sums
  <2>2. Fits(call.levels[level])
    <3>1. CASE Checked
      BY <1>0, <1>2, <2>1, <3>1, DeviceCheckExact DEF EnterLevel, Level
    <3>2. CASE ~Checked
      BY <2>1, <3>2, <1>0, CallTypes DEF Checked, IInv, KnownToFit, Trusted
    <3> QED
      BY <3>1, <3>2
  <2>3. LoopTypes'
    BY <1>0, <2>1 DEF IInv, LoopTypes
  <2>4. KnownToFit'
    BY <2>1, <2>2, <1>0 DEF IInv, LoopTypes, KnownToFit, Trusted, Fits
  <2>5. RefusedUnfit'
    BY <2>1 DEF IInv, RefusedUnfit, Fits
  <2>6. ReadsWithinLevels'
    BY <2>1 DEF IInv, ReadsWithinLevels, LevelRows, Rows
  <2> QED
    BY <2>3, <2>4, <2>5, <2>6 DEF IInv
<1>3. CASE RefuseLevel
  <2>1. level \in DOMAIN call.levels /\ UNCHANGED <<call, level, point, reads>> /\ phase' = "refused"
    BY <1>0, <1>3 DEF RefuseLevel, Running, IInv, LoopTypes, sums
  <2>2. ~Fits(call.levels[level])
    BY <1>0, <1>3, <2>1, DeviceCheckExact DEF RefuseLevel, Level
  <2>3. LoopTypes'
    BY <2>1 DEF IInv, LoopTypes
  <2>4. KnownToFit'
    BY <2>1 DEF IInv, KnownToFit, Trusted, Fits
  <2>5. RefusedUnfit'
    BY <2>1, <2>2 DEF RefusedUnfit, Fits
  <2>6. ReadsWithinLevels'
    BY <2>1 DEF IInv, ReadsWithinLevels, LevelRows, Rows
  <2> QED
    BY <2>3, <2>4, <2>5, <2>6 DEF IInv
<1>4. CASE SampleForward
  BY <1>4, SampleStep DEF SampleForward
<1>5. CASE SampleBackward
  BY <1>5, SampleStep DEF SampleBackward
<1>6. CASE Return
  <2>1. UNCHANGED <<call, level, point, reads>> /\ phase = "running" /\ phase' = "returned"
        /\ level > Len(call.levels)
    BY <1>6 DEF Return, sums
  <2>2. LoopTypes' /\ KnownToFit' /\ RefusedUnfit' /\ ReadsWithinLevels'
    BY <2>1 DEF IInv, LoopTypes, KnownToFit, Trusted, Fits, RefusedUnfit,
                ReadsWithinLevels, LevelRows, Rows
  <2> QED
    BY <2>2 DEF IInv
<1>7. CASE UNCHANGED vars
  BY <1>7 DEF vars, IInv, LoopTypes, KnownToFit, Trusted, Fits, RefusedUnfit,
              ReadsWithinLevels, LevelRows, Rows
<1> QED
  BY <1>1, <1>2, <1>3, <1>4, <1>5, <1>6, <1>7 DEF Next

(* It holds in the beginning. *)
LEMMA InvInit == Init => IInv
<1> SUFFICES ASSUME Init PROVE IInv
  OBVIOUS
<1>1. LoopTypes /\ RefusedUnfit /\ ReadsWithinLevels
  BY SamplingAssumption DEF Init, LoopTypes, RefusedUnfit, ReadsWithinLevels
<1>2. KnownToFit
  <2>1. DOMAIN call.levels = 1 .. Len(call.levels) /\ Len(call.levels) \in Nat
    BY CallTypes DEF Init
  <2> QED
    BY <2>1 DEF Init, KnownToFit
<1> QED
  BY <1>1, <1>2 DEF IInv

(* The inductive invariant: what has been entered fits, and what has been  *)
(* read lies in what has been entered.                                     *)
THEOREM Inductive == Spec => []IInv
BY InvInit, NextInv, PTL DEF Spec

(* On every device, whatever the metadata hold: a call that returns had    *)
(* only levels within the tensor, one that is refused had another.         *)
THEOREM RefusalExact == Spec => []RefusedIffUnfit
<1>1. IInv => RefusedIffUnfit
  <2> SUFFICES ASSUME IInv PROVE RefusedIffUnfit
    OBVIOUS
  <2>1. DOMAIN call.levels = 1 .. Len(call.levels) /\ Len(call.levels) \in Nat
    BY CallTypes DEF IInv, LoopTypes
  <2>2. phase = "returned" => \A i \in DOMAIN call.levels : i < level
    BY <2>1 DEF IInv, LoopTypes
  <2> QED
    BY <2>2 DEF IInv, KnownToFit, RefusedUnfit, RefusedIffUnfit
<1> QED
  BY <1>1, Inductive, PTL

(* No sample, wherever it lies, reads or adds outside its own levels'      *)
(* rows, nor outside the value tensor.                                     *)
THEOREM ReadsSafe == Spec => []ReadsWithinLevels
<1>1. IInv => ReadsWithinLevels
  BY DEF IInv
<1> QED
  BY <1>1, Inductive, PTL

-----------------------------------------------------------------------------
(* Sums over finite sets.                                                  *)

(* A non-empty set of numbers has a least one. *)
LEMMA LeastOf ==
    ASSUME NEW T \in SUBSET Nat, T # {}
    PROVE  \E x \in T : \A y \in T : x <= y
<1> DEFINE R == {ss \in Nat \X Nat : ss[1] < ss[2]}
<1>0. IsWellFoundedOn(R, Nat)
  BY NatLessThanWellFounded DEF OpToRel
<1>2. \A x, y \in Nat : <<y, x>> \in R <=> y < x
  OBVIOUS
<1> HIDE DEF R
<1>1. PICK x \in T : \A y \in T : ~ (<<y, x>> \in R)
  BY <1>0, WFMin
<1>3. \A y \in T : y \in Nat /\ x \in Nat /\ ~(y < x)
  BY <1>1, <1>2
<1> QED
  BY <1>3

(* The sums of F over the subsets of T, in the order of CHOOSE. *)
First(T) == CHOOSE x \in T : TRUE

IsSums(g, F, T) ==
    g = [U \in SUBSET T |-> IF U = {} THEN 0
                            ELSE F[CHOOSE x \in U : TRUE] + g[U \ {CHOOSE x \in U : TRUE}]]

SumsOf(F, T) == CHOOSE g : IsSums(g, F, T)

(* The community modules' sum is the last of them. *)
LEMMA SumOfAll ==
    ASSUME NEW T, NEW F, DOMAIN F = T
    PROVE  SumFunction(F) = SumsOf(F, T)[T]
BY Zenon DEF SumFunction, SumFunctionOnSet, FoldFunctionOnSet, MapThenFoldSet, IsSums, SumsOf

(* The first element of a set is one of it. *)
LEMMA FirstOf ==
    ASSUME NEW T, T # {}
    PROVE  First(T) \in T
BY DEF First

(* The sums of the subsets of at most n elements. *)
Small(T, n) == {U \in SUBSET T : Cardinality(U) <= n}
SumsTo(g, F, T, n) ==
    /\ g \in [Small(T, n) -> Int]
    /\ \A U \in Small(T, n) : g[U] = IF U = {} THEN 0 ELSE F[First(U)] + g[U \ {First(U)}]

(* Without its first element a set has one less. *)
LEMMA WithoutFirst ==
    ASSUME NEW T, IsFiniteSet(T), NEW U \in SUBSET T, NEW x \in U
    PROVE  /\ U \ {x} \in SUBSET T
           /\ IsFiniteSet(U) /\ Cardinality(U) \in Nat \ {0}
           /\ Cardinality(U \ {x}) = Cardinality(U) - 1
<1>1. IsFiniteSet(U)
  BY FS_Subset
<1>2. Cardinality(U) \in Nat /\ Cardinality(U) # 0
  BY <1>1, FS_CardinalityType, FS_EmptySet
<1> QED
  BY <1>1, <1>2, FS_RemoveElement

(* Sums exist, up to any number of elements. *)
LEMMA SumsExistTo ==
    ASSUME NEW T, IsFiniteSet(T), NEW F \in [T -> Int], NEW m \in Nat
    PROVE  \E g : SumsTo(g, F, T, m)
<1> DEFINE Bad == {n \in Nat : ~ \E g : SumsTo(g, F, T, n)}
<1> SUFFICES ASSUME Bad # {} PROVE FALSE
  OBVIOUS
<1>1. PICK n \in Bad : \A k \in Bad : n <= k
  BY LeastOf
<1>2. \A U \in SUBSET T : IsFiniteSet(U) /\ Cardinality(U) \in Nat /\ (Cardinality(U) = 0 <=> U = {})
  BY FS_Subset, FS_CardinalityType, FS_EmptySet
<1>3. CASE n = 0
  <2> DEFINE g == [U \in Small(T, 0) |-> 0]
  <2>1. \A U \in Small(T, 0) : U = {}
    BY <1>2 DEF Small
  <2>2. SumsTo(g, F, T, 0)
    BY <2>1 DEF SumsTo
  <2> QED
    BY <1>3, <2>2
<1>4. CASE n # 0
  <2>1. n \in Nat \ {0} /\ n - 1 \in Nat /\ ~(n - 1 \in Bad)
    BY <1>1, <1>4
  <2>2. PICK g : SumsTo(g, F, T, n - 1)
    BY <2>1
  <2> DEFINE V(U) == IF U = {} THEN 0 ELSE F[First(U)] + g[U \ {First(U)}]
             h == [U \in Small(T, n) |-> V(U)]
  <2>3. ASSUME NEW U \in Small(T, n), U # {}
        PROVE  First(U) \in T /\ U \ {First(U)} \in Small(T, n - 1)
    <3>1. U \in SUBSET T /\ First(U) \in U /\ Cardinality(U) <= n
      BY <2>3, FirstOf DEF Small
    <3>2. U \ {First(U)} \in SUBSET T /\ Cardinality(U \ {First(U)}) = Cardinality(U) - 1
      BY <3>1, WithoutFirst
    <3> QED
      BY <1>2, <2>1, <3>1, <3>2 DEF Small
  <2>4. \A U \in Small(T, n) : V(U) \in Int
    BY <2>2, <2>3 DEF SumsTo
  <2>5. \A U \in Small(T, n - 1) : U \in Small(T, n) /\ g[U] = V(U)
    BY <1>2, <2>1, <2>2 DEF SumsTo, Small
  <2> HIDE DEF V
  <2>6. h \in [Small(T, n) -> Int]
    BY <2>4
  <2>7. \A U \in Small(T, n) : U # {} => g[U \ {First(U)}] = h[U \ {First(U)}]
    BY <2>3, <2>5
  <2>8. \A U \in Small(T, n) : h[U] = V(U)
    OBVIOUS
  <2> HIDE DEF h
  <2>9. SumsTo(h, F, T, n)
    BY <2>6, <2>7, <2>8 DEF SumsTo, V
  <2> QED
    BY <1>1, <2>9
<1> QED
  BY <1>3, <1>4

(* Sums over finite sets of integers exist. *)
LEMMA SumsExist ==
    ASSUME NEW T, IsFiniteSet(T), NEW F \in [T -> Int]
    PROVE  /\ SumsOf(F, T) \in [SUBSET T -> Int]
           /\ SumsOf(F, T)[{}] = 0
           /\ \A U \in SUBSET T :
                 U # {} => SumsOf(F, T)[U] = F[First(U)] + SumsOf(F, T)[U \ {First(U)}]
<1>1. PICK g : SumsTo(g, F, T, Cardinality(T))
  BY SumsExistTo, FS_CardinalityType
<1>2. Small(T, Cardinality(T)) = SUBSET T
  BY FS_Subset DEF Small
<1>3. IsSums(g, F, T)
  BY <1>1, <1>2 DEF SumsTo, IsSums, First
<1>4. IsSums(SumsOf(F, T), F, T)
  BY <1>3, Zenon DEF SumsOf
<1> DEFINE s == SumsOf(F, T)
<1>4a. s = [U \in SUBSET T |-> s[U]]
  BY <1>4 DEF IsSums
<1>5. /\ s[{}] = 0
      /\ \A U \in SUBSET T : U # {} => s[U] = F[First(U)] + s[U \ {First(U)}]
  BY <1>4 DEF IsSums, First
<1> HIDE DEF s
<1> DEFINE Bad == {n \in Nat : \E U \in SUBSET T : Cardinality(U) = n /\ s[U] \notin Int}
<1>6. Bad = {}
  <2> SUFFICES ASSUME Bad # {} PROVE FALSE
    OBVIOUS
  <2>1. PICK n \in Bad : \A k \in Bad : n <= k
    BY LeastOf
  <2>2. PICK U \in SUBSET T : Cardinality(U) = n /\ s[U] \notin Int
    OBVIOUS
  <2>3. U # {} /\ First(U) \in U /\ First(U) \in T
    <3>1. U # {}
      BY <1>5, <2>2
    <3> QED
      BY <3>1, FirstOf
  <2>4. /\ U \ {First(U)} \in SUBSET T
        /\ Cardinality(U \ {First(U)}) = n - 1 /\ n \in Nat \ {0}
    BY <2>2, <2>3, WithoutFirst
  <2>5. ~(n - 1 \in Bad)
    BY <2>1, <2>4
  <2>6. s[U \ {First(U)}] \in Int
    BY <2>4, <2>5
  <2> QED
    BY <1>5, <2>2, <2>3, <2>6
<1>7. \A U \in SUBSET T : s[U] \in Int
  BY <1>6, FS_Subset, FS_CardinalityType
<1>8. s \in [SUBSET T -> Int]
  BY <1>4a, <1>7
<1> QED
  BY <1>5, <1>8 DEF s

(* A sum does not depend on the order: any element may come last. *)
LEMMA SumWith ==
    ASSUME NEW T, IsFiniteSet(T), NEW F \in [T -> Int], NEW W \in SUBSET T, NEW e \in W
    PROVE  SumsOf(F, T)[W] = SumsOf(F, T)[W \ {e}] + F[e]
<1> DEFINE s == SumsOf(F, T)
<1>1. /\ s \in [SUBSET T -> Int]
      /\ \A U \in SUBSET T : U # {} => s[U] = F[First(U)] + s[U \ {First(U)}]
  BY SumsExist
<1> HIDE DEF s
<1> DEFINE Wrong(U) == \E x \in U : s[U] # s[U \ {x}] + F[x]
           Bad == {n \in Nat : \E U \in SUBSET T : Cardinality(U) = n /\ Wrong(U)}
<1>2. Bad = {}
  <2> SUFFICES ASSUME Bad # {} PROVE FALSE
    OBVIOUS
  <2>1. PICK n \in Bad : \A k \in Bad : n <= k
    BY LeastOf
  <2>2. PICK U \in SUBSET T : Cardinality(U) = n /\ Wrong(U)
    OBVIOUS
  <2>3. PICK x \in U : s[U] # s[U \ {x}] + F[x]
    BY <2>2
  <2> DEFINE c == First(U)
             B == U \ {c}
  <2>4. U # {} /\ c \in U /\ c \in T /\ x \in T
    BY FirstOf
  <2> HIDE DEF c
  <2>5. B \in SUBSET T /\ Cardinality(B) = n - 1 /\ n \in Nat \ {0} /\ U \ {x} \in SUBSET T
        /\ Cardinality(U \ {x}) = n - 1
    BY <2>2, <2>4, WithoutFirst
  <2>6. ~(n - 1 \in Bad)
    BY <2>1, <2>5
  <2>7. ~Wrong(B) /\ ~Wrong(U \ {x})
    <3> HIDE DEF Wrong, B
    <3> QED
      BY <2>5, <2>6
  <2>8. s[U] = F[c] + s[B]
    BY <1>1, <2>4 DEF c
  <2>9. x # c
    <3>1. s[B] \in Int /\ F[c] \in Int
      BY <1>1, <2>4, <2>5
    <3>2. x = c => s[U \ {x}] = s[B] /\ F[x] = F[c]
      OBVIOUS
    <3> HIDE DEF B
    <3>3. F[c] + s[B] = s[B] + F[c]
      BY <3>1
    <3> QED
      BY <2>3, <2>8, <3>2, <3>3
  <2>10. s[B] = s[B \ {x}] + F[x]
    BY <2>7, <2>9
  <2>11. s[U \ {x}] = s[(U \ {x}) \ {c}] + F[c]
    BY <2>4, <2>7, <2>9
  <2>12. (U \ {x}) \ {c} = B \ {x} /\ B \ {x} \in SUBSET T
    OBVIOUS
  <2>13. s[B \ {x}] \in Int /\ F[c] \in Int /\ F[x] \in Int
    BY <1>1, <2>4, <2>12
  <2>14. s[U] = F[c] + (s[B \ {x}] + F[x]) /\ s[U \ {x}] = s[B \ {x}] + F[c]
    BY <2>8, <2>10, <2>11, <2>12
  <2> QED
    BY <2>3, <2>13, <2>14
<1>3. Cardinality(W) \in Nat
  BY FS_Subset, FS_CardinalityType
<1>4. ~Wrong(W)
  BY <1>2, <1>3
<1> QED
  BY <1>4 DEF s

(* Nothing sums up to zero. *)
LEMMA SumOfNone ==
    ASSUME NEW T, IsFiniteSet(T), NEW F \in [T -> Int]
    PROVE  SumsOf(F, T)[{}] = 0
BY SumsExist

-----------------------------------------------------------------------------
(* What a sample gathers.                                                  *)

(* A row of a level that fits is a pixel of it. *)
LEMMA PixelOfRow ==
    ASSUME NEW l \in LevelType, Fits(l), NEW r \in LevelRows(l)
    PROVE  LET v == (r - l.start) \div l.w
               u == (r - l.start) % l.w
           IN  v \in 0 .. l.h - 1 /\ u \in 0 .. l.w - 1 /\ r = l.start + v * l.w + u
<1> DEFINE at == r - l.start
           v == at \div l.w
           u == at % l.w
<1>1. l.h \in Nat \ {0} /\ l.w \in Nat \ {0} /\ l.start \in Nat
  BY Widths, FitsBounds
<1>2. l.h * l.w \in Nat
  BY <1>1
<1>3. r \in Int /\ at \in Int /\ 0 <= at /\ at < l.h * l.w /\ r = l.start + at
  BY <1>1, <1>2 DEF LevelRows
<1> HIDE DEF at
<1>4. v \in Int /\ u \in 0 .. l.w - 1 /\ at = l.w * v + u
  BY <1>1, <1>3, Division
<1>5. 0 <= v
  BY <1>1, <1>3, AtMostQuotient
<1>6. ~(l.h <= v)
  BY <1>1, <1>3, AtMostQuotient
<1> HIDE DEF v, u
<1>7. l.w * v = v * l.w /\ v * l.w \in Int
  BY <1>1, <1>4
<1>8. v \in 0 .. l.h - 1
  BY <1>1, <1>4, <1>5, <1>6
<1>9. r = l.start + v * l.w + u
  BY <1>1, <1>3, <1>4, <1>7
<1> QED
  BY <1>4, <1>8, <1>9 DEF v, u, at

(* A touched corner is a pixel of its level. *)
LEMMA TouchedPixel ==
    ASSUME NEW l \in LevelType, NEW y \in Int, NEW x \in Int,
           InSupport(l, y, x), NEW c \in Touched(l, Floor(y), Floor(x))
    PROVE  /\ c \in Corners
           /\ Floor(y) + c[1] \in 0 .. l.h - 1 /\ Floor(x) + c[2] \in 0 .. l.w - 1
<1>1. l.h \in Int /\ l.w \in Int
  BY DEF LevelType, Long
<1>2. Floor(y) \in -1 .. l.h - 1 /\ Floor(x) \in -1 .. l.w - 1
  BY <1>1, FloorInSupport DEF InSupport
<1>3. CASE call.device = "mps"
  BY <1>1, <1>3 DEF Touched, PixelTests
<1>4. CASE call.device # "mps"
  <2>1. c \in Corners /\ c \in EdgeTests(l, Floor(y), Floor(x))
    BY <1>4 DEF Touched, EdgeTests
  <2>2. c[1] \in {0, 1} /\ c[2] \in {0, 1}
    BY <2>1 DEF Corners
  <2> QED
    BY <1>1, <1>2, <2>1, <2>2 DEF EdgeTests
<1> QED
  BY <1>3, <1>4

(* The corner of a sample that lies at a row, if any does. *)
CornerAt(r) == <<((r - Level.start) \div Level.w) - Floor(Y), ((r - Level.start) % Level.w) - Floor(X)>>

(* The sample the loops are at. *)
Here == <<level, point>>
AtSample == IInv /\ Running /\ point > 0

(* A call's samples have levels, coordinates and weights. *)
LEMMA SampleTypes ==
    ASSUME call \in Calls, NEW s \in Samples
    PROVE  /\ LevelOf(s) \in LevelType
           /\ YOf(s) \in Int /\ XOf(s) \in Int
           /\ WeightOf(s) \in Int
<1>1. s[1] \in 1 .. Len(call.levels) /\ s[2] \in 1 .. Points
  BY DEF Samples
<1>2. LevelOf(s) \in LevelType /\ call.loc[s[1]][s[2]] \in LocationType
  BY <1>1, CallTypes DEF LevelOf
<1>3. call.levels[s[1]].h \in Int /\ call.levels[s[1]].w \in Int
  BY <1>2 DEF LevelOf, LevelType, Long
<1>4. call.loc[s[1]][s[2]].y \in Int /\ call.loc[s[1]][s[2]].x \in Int
  BY <1>2 DEF LocationType
<1>5. ASSUME NEW a \in Int, NEW b \in Int PROVE Centered(a, b) \in Int
  BY SamplingAssumption DEF Centered
<1>6. WeightOf(s) \in Int
  <2>1. call.weight \in [1 .. Len(call.levels) -> [1 .. Points -> Int]]
    BY SamplingAssumption
  <2> QED
    BY <1>1, <2>1 DEF WeightOf
<1> QED
  BY <1>2, <1>3, <1>4, <1>5, <1>6 DEF YOf, XOf

(* What is known where the loops are. *)
LEMMA SampleHere ==
    ASSUME AtSample
    PROVE  /\ call \in Calls /\ Here \in Samples
           /\ level \in 1 .. Len(call.levels) /\ point \in 1 .. Points
           /\ Level = LevelOf(Here) /\ Y = YOf(Here) /\ X = XOf(Here) /\ Weight = WeightOf(Here)
           /\ Level \in LevelType /\ Fits(Level)
           /\ Y \in Int /\ X \in Int /\ Weight \in Int
<1>1. /\ call \in Calls
      /\ level \in 1 .. Len(call.levels) /\ point \in 1 .. Points
      /\ DOMAIN call.levels = 1 .. Len(call.levels)
  BY CallTypes, SamplingAssumption DEF AtSample, IInv, LoopTypes, Running
<1>2. Here \in Samples /\ Here[1] = level /\ Here[2] = point
  BY <1>1 DEF Here, Samples
<1>3. Level = LevelOf(Here) /\ Y = YOf(Here) /\ X = XOf(Here) /\ Weight = WeightOf(Here)
  BY <1>2 DEF Level, LevelOf, Y, YOf, X, XOf, Weight, WeightOf
<1>4. Fits(Level)
  BY <1>1 DEF AtSample, IInv, KnownToFit, Level
<1> QED
  BY <1>1, <1>2, <1>3, <1>4, SampleTypes

(* The touched corner at a row, if there is one, is CornerAt. *)
LEMMA CornerAtRow ==
    ASSUME AtSample, NEW c \in TouchedCorners, NEW r \in Rows
    PROVE  RowOf(c) = r <=> r \in LevelRows(Level) /\ c = CornerAt(r)
<1>1. Level \in LevelType /\ Fits(Level) /\ Y \in Int /\ X \in Int
  BY SampleHere
<1>2. InSupport(Level, Y, X) /\ c \in Touched(Level, Floor(Y), Floor(X))
  BY DEF TouchedCorners, Active
<1> DEFINE l == Level
           v == Floor(Y) + c[1]
           u == Floor(X) + c[2]
<1>3. c \in Corners /\ v \in 0 .. l.h - 1 /\ u \in 0 .. l.w - 1
  BY <1>1, <1>2, TouchedPixel
<1>4. l.start \in Int /\ l.w \in Nat \ {0} /\ Floor(Y) \in Int /\ Floor(X) \in Int
  <2>1. Unit \in Nat \ {0}
    BY SamplingAssumption DEF Unit
  <2>2. Floor(Y) \in Int /\ Floor(X) \in Int
    BY <1>1, <2>1, Division DEF Floor
  <2>3. l.start \in 0 .. S - 1 /\ l.w \in 1 .. S
    BY <1>1, FitsBounds
  <2> QED
    BY <2>2, <2>3, Widths
<1>5. c = <<c[1], c[2]>> /\ c[1] \in Int /\ c[2] \in Int
  BY <1>3 DEF Corners
<1>6. RowOf(c) = l.start + v * l.w + u
  BY DEF RowOf, Row
<1>7. RowOf(c) \in LevelRows(Level)
  BY <1>1, <1>2, CornerInLevel DEF RowOf
<1>8. ASSUME RowOf(c) = r
      PROVE  c = CornerAt(r)
  <2> DEFINE at == r - l.start
  <2>1. at \in Int /\ at = l.w * v + u
    BY <1>3, <1>4, <1>6, <1>8
  <2> HIDE DEF at, v, u, l
  <2>2. at \div l.w = v /\ at % l.w = u
    BY <1>3, <1>4, <2>1, Quotient
  <2>3. c[1] = v - Floor(Y) /\ c[2] = u - Floor(X)
    BY <1>4, <1>5 DEF v, u
  <2> QED
    BY <1>5, <2>2, <2>3 DEF CornerAt, at, l
<1>9. ASSUME r \in LevelRows(Level), c = CornerAt(r)
      PROVE  RowOf(c) = r
  <2> DEFINE p == (r - l.start) \div l.w
             q == (r - l.start) % l.w
  <2>1. c[1] = p - Floor(Y) /\ c[2] = q - Floor(X)
    BY <1>9 DEF CornerAt
  <2>2. p \in 0 .. l.h - 1 /\ q \in 0 .. l.w - 1 /\ r = l.start + p * l.w + q
    BY <1>1, <1>9, PixelOfRow
  <2> HIDE DEF p, q, l
  <2>3. v = p /\ u = q
    BY <1>4, <2>1, <2>2
  <2> HIDE DEF v, u
  <2> QED
    BY <1>6, <2>2, <2>3
<1> QED
  BY <1>7, <1>8, <1>9

(* The four terms for a row, by corner. *)
Terms(k, r) == [c \in Corners |-> IF c \in TouchedCorners /\ RowOf(c) = r THEN k[c] ELSE 0]

(* Of the four terms for a row at most one is not zero. *)
LEMMA FourTerms ==
    ASSUME AtSample, NEW r \in Rows, NEW k \in [Corners -> Int]
    PROVE  Terms(k, r)[<<0, 0>>] + Terms(k, r)[<<0, 1>>] + Terms(k, r)[<<1, 0>>] + Terms(k, r)[<<1, 1>>]
           = IF r \in LevelRows(Level) /\ CornerAt(r) \in TouchedCorners THEN k[CornerAt(r)] ELSE 0
<1> DEFINE d == CornerAt(r)
           t == Terms(k, r)
<1>1. TouchedCorners \subseteq Corners
  BY DEF TouchedCorners, Touched, PixelTests, EdgeTests
<1>2. \A c \in Corners : t[c] = IF c \in TouchedCorners /\ r \in LevelRows(Level) /\ c = d THEN k[c] ELSE 0
  BY CornerAtRow DEF Terms
<1> HIDE DEF d, t
<1>3. /\ <<0, 0>> \in Corners /\ <<0, 1>> \in Corners /\ <<1, 0>> \in Corners /\ <<1, 1>> \in Corners
      /\ \A c \in Corners : c = <<0, 0>> \/ c = <<0, 1>> \/ c = <<1, 0>> \/ c = <<1, 1>>
  BY DEF Corners
<1>4. CASE ~(r \in LevelRows(Level) /\ d \in TouchedCorners)
  <2>1. \A c \in Corners : t[c] = 0
    BY <1>2, <1>4
  <2> QED
    BY <1>3, <1>4, <2>1 DEF d, t
<1>5. CASE r \in LevelRows(Level) /\ d \in TouchedCorners
  <2>1. d \in Corners /\ k[d] \in Int
    BY <1>1, <1>5
  <2>2. \A c \in Corners : t[c] = IF c = d THEN k[d] ELSE 0
    BY <1>2, <1>5
  <2>3. t[<<0, 0>>] + t[<<0, 1>>] + t[<<1, 0>>] + t[<<1, 1>>] = k[d]
    <3>1. <<0, 0>> # <<0, 1>> /\ <<0, 0>> # <<1, 0>> /\ <<0, 0>> # <<1, 1>>
          /\ <<0, 1>> # <<1, 0>> /\ <<0, 1>> # <<1, 1>> /\ <<1, 0>> # <<1, 1>>
      OBVIOUS
    <3>2. CASE d = <<0, 0>>
      <4>1. t[<<0, 0>>] = k[d] /\ t[<<0, 1>>] = 0 /\ t[<<1, 0>>] = 0 /\ t[<<1, 1>>] = 0
        BY <1>3, <2>2, <3>1, <3>2
      <4> QED
        BY <2>1, <4>1
    <3>3. CASE d = <<0, 1>>
      <4>1. t[<<0, 0>>] = 0 /\ t[<<0, 1>>] = k[d] /\ t[<<1, 0>>] = 0 /\ t[<<1, 1>>] = 0
        BY <1>3, <2>2, <3>1, <3>3
      <4> QED
        BY <2>1, <4>1
    <3>4. CASE d = <<1, 0>>
      <4>1. t[<<0, 0>>] = 0 /\ t[<<0, 1>>] = 0 /\ t[<<1, 0>>] = k[d] /\ t[<<1, 1>>] = 0
        BY <1>3, <2>2, <3>1, <3>4
      <4> QED
        BY <2>1, <4>1
    <3>5. CASE d = <<1, 1>>
      <4>1. t[<<0, 0>>] = 0 /\ t[<<0, 1>>] = 0 /\ t[<<1, 0>>] = 0 /\ t[<<1, 1>>] = k[d]
        BY <1>3, <2>2, <3>1, <3>5
      <4> QED
        BY <2>1, <4>1
    <3> QED
      BY <1>3, <2>1, <3>2, <3>3, <3>4, <3>5
  <2> QED
    BY <1>5, <2>3 DEF d, t
<1> QED
  BY <1>4, <1>5

(* What Gather computes, by rows. *)
LEMMA GatherRow ==
    ASSUME AtSample, NEW r \in Rows
    PROVE  LET d == CornerAt(r)
               here == r \in LevelRows(Level) /\ d \in TouchedCorners
           IN  /\ Gather(Coefficient)[r] = IF here THEN Coefficient(Fraction(Y), Fraction(X), d) ELSE 0
               /\ Gather(SlopeX)[r] = IF here THEN SlopeX(Fraction(Y), Fraction(X), d) ELSE 0
               /\ Gather(SlopeY)[r] = IF here THEN SlopeY(Fraction(Y), Fraction(X), d) ELSE 0
<1> DEFINE fy == Fraction(Y)
           fx == Fraction(X)
           kw == [c \in Corners |-> Coefficient(fy, fx, c)]
           kx == [c \in Corners |-> SlopeX(fy, fx, c)]
           ky == [c \in Corners |-> SlopeY(fy, fx, c)]
<1>1. fy \in Int /\ fx \in Int /\ Unit \in Int
  <2>1. Unit \in Nat \ {0}
    BY SamplingAssumption DEF Unit
  <2>2. Y \in Int /\ X \in Int
    BY SampleHere
  <2>3. Y % Unit \in 0 .. Unit - 1 /\ X % Unit \in 0 .. Unit - 1
    BY <2>1, <2>2, Division
  <2> QED
    BY <2>1, <2>3 DEF Fraction
<1>2. /\ <<0, 0>> \in Corners /\ <<0, 1>> \in Corners /\ <<1, 0>> \in Corners /\ <<1, 1>> \in Corners
      /\ CornerAt(r) \in TouchedCorners => CornerAt(r) \in Corners
  BY DEF Corners, TouchedCorners, Touched, PixelTests, EdgeTests
<1>3. Gather(Coefficient)[r] =
        Terms(kw, r)[<<0, 0>>] + Terms(kw, r)[<<0, 1>>] + Terms(kw, r)[<<1, 0>>] + Terms(kw, r)[<<1, 1>>]
  BY <1>2 DEF Gather, Share, Terms
<1>4. Gather(SlopeX)[r] =
        Terms(kx, r)[<<0, 0>>] + Terms(kx, r)[<<0, 1>>] + Terms(kx, r)[<<1, 0>>] + Terms(kx, r)[<<1, 1>>]
  BY <1>2 DEF Gather, Share, Terms
<1>5. Gather(SlopeY)[r] =
        Terms(ky, r)[<<0, 0>>] + Terms(ky, r)[<<0, 1>>] + Terms(ky, r)[<<1, 0>>] + Terms(ky, r)[<<1, 1>>]
  BY <1>2 DEF Gather, Share, Terms
<1> HIDE DEF fy, fx
<1>6. \A d \in {0, 1} : Side(fy, d) \in Int /\ Side(fx, d) \in Int /\ Sign(d) \in Int
  BY <1>1 DEF Side, Sign
<1>7. kw \in [Corners -> Int] /\ kx \in [Corners -> Int] /\ ky \in [Corners -> Int]
  <2> SUFFICES ASSUME NEW c \in Corners
               PROVE  Coefficient(fy, fx, c) \in Int /\ SlopeX(fy, fx, c) \in Int /\ SlopeY(fy, fx, c) \in Int
    OBVIOUS
  <2>1. c[1] \in {0, 1} /\ c[2] \in {0, 1}
    BY DEF Corners
  <2> QED
    BY <1>6, <2>1 DEF Coefficient, SlopeX, SlopeY
<1>8. /\ \A c \in Corners : kw[c] = Coefficient(fy, fx, c)
      /\ \A c \in Corners : kx[c] = SlopeX(fy, fx, c)
      /\ \A c \in Corners : ky[c] = SlopeY(fy, fx, c)
  OBVIOUS
<1> HIDE DEF kw, kx, ky
<1>9. Gather(Coefficient)[r] =
        IF r \in LevelRows(Level) /\ CornerAt(r) \in TouchedCorners THEN kw[CornerAt(r)] ELSE 0
  BY <1>3, <1>7, FourTerms
<1>10. Gather(SlopeX)[r] =
        IF r \in LevelRows(Level) /\ CornerAt(r) \in TouchedCorners THEN kx[CornerAt(r)] ELSE 0
  BY <1>4, <1>7, FourTerms
<1>11. Gather(SlopeY)[r] =
        IF r \in LevelRows(Level) /\ CornerAt(r) \in TouchedCorners THEN ky[CornerAt(r)] ELSE 0
  BY <1>5, <1>7, FourTerms
<1> QED
  BY <1>2, <1>8, <1>9, <1>10, <1>11 DEF fy, fx

(* The interpolation at a row of a level that fits, by pixels. *)
LEMMA InterpolationAt ==
    ASSUME NEW l \in LevelType, Fits(l), NEW y \in Int, NEW x \in Int
    PROVE  /\ Interpolation(l, y, x) \in [Rows -> Int]
           /\ \A r \in Rows :
                 Interpolation(l, y, x)[r] =
                     IF r \in LevelRows(l)
                     THEN Tent(y - ((r - l.start) \div l.w) * Unit) * Tent(x - ((r - l.start) % l.w) * Unit)
                     ELSE 0
<1>1. \A r \in Rows :
          Interpolation(l, y, x)[r] =
              IF r \in LevelRows(l)
              THEN Tent(y - ((r - l.start) \div l.w) * Unit) * Tent(x - ((r - l.start) % l.w) * Unit)
              ELSE 0
  BY DEF Interpolation
<1>2. Unit \in Int
  BY SamplingAssumption DEF Unit
<1>3. \A a \in Int : Tent(a) \in Int
  BY <1>2 DEF Tent
<1>4. ASSUME NEW r \in Rows, r \in LevelRows(l)
      PROVE  Interpolation(l, y, x)[r] \in Int
  <2> DEFINE v == (r - l.start) \div l.w
             u == (r - l.start) % l.w
  <2>1. v \in 0 .. l.h - 1 /\ u \in 0 .. l.w - 1
    BY <1>4, PixelOfRow
  <2>2. v \in Int /\ u \in Int
    BY <2>1
  <2>3. Interpolation(l, y, x)[r] = Tent(y - v * Unit) * Tent(x - u * Unit)
    BY <1>1, <1>4
  <2> HIDE DEF v, u
  <2>4. y - v * Unit \in Int /\ x - u * Unit \in Int
    BY <1>2, <2>2
  <2>5. Tent(y - v * Unit) \in Int /\ Tent(x - u * Unit) \in Int
    BY <1>3, <2>4
  <2> QED
    BY <2>3, <2>5
<1>5. \A r \in Rows : Interpolation(l, y, x)[r] \in Int
  BY <1>1, <1>4
<1>6. Interpolation(l, y, x) = [r \in Rows |-> Interpolation(l, y, x)[r]]
  BY DEF Interpolation
<1> QED
  BY <1>1, <1>5, <1>6

(* A sample gathers its interpolation. *)
LEMMA GathersInterpolation ==
    ASSUME AtSample
    PROVE  Gather(Coefficient) = Interpolated(Here)
<1>1. /\ Level \in LevelType /\ Fits(Level) /\ Y \in Int /\ X \in Int
      /\ Interpolated(Here) = Interpolation(Level, Y, X)
  BY SampleHere DEF Interpolated
<1>2. ASSUME NEW r \in Rows
      PROVE  Gather(Coefficient)[r] = Interpolation(Level, Y, X)[r]
  <2>1. CASE r \notin LevelRows(Level)
    BY <1>1, <2>1, GatherRow, InterpolationAt
  <2>2. CASE r \in LevelRows(Level)
    <3> DEFINE v == (r - Level.start) \div Level.w
               u == (r - Level.start) % Level.w
    <3>1. v \in 0 .. Level.h - 1 /\ u \in 0 .. Level.w - 1
      BY <1>1, <2>2, PixelOfRow
    <3>2. Interpolation(Level, Y, X)[r] = Tent(Y - v * Unit) * Tent(X - u * Unit)
      BY <1>1, <2>2, InterpolationAt
    <3>3. CornerAt(r) = <<v - Floor(Y), u - Floor(X)>>
      BY DEF CornerAt
    <3> HIDE DEF v, u
    <3>4. Tent(Y - v * Unit) * Tent(X - u * Unit) =
            IF InSupport(Level, Y, X) /\ CornerAt(r) \in Touched(Level, Floor(Y), Floor(X))
            THEN Coefficient(Fraction(Y), Fraction(X), CornerAt(r)) ELSE 0
      BY <1>1, <3>1, <3>3, SamplesInterpolate
    <3>5. CornerAt(r) \in TouchedCorners <=>
            InSupport(Level, Y, X) /\ CornerAt(r) \in Touched(Level, Floor(Y), Floor(X))
      BY DEF TouchedCorners, Active
    <3> QED
      BY <2>2, <3>2, <3>4, <3>5, GatherRow
  <2> QED
    BY <2>1, <2>2
<1>3. Gather(Coefficient) = [r \in Rows |-> Gather(Coefficient)[r]]
  BY DEF Gather
<1>4. Interpolation(Level, Y, X) = [r \in Rows |-> Interpolation(Level, Y, X)[r]]
  BY <1>1, InterpolationAt
<1> HIDE DEF Gather, Interpolation
<1> QED
  BY <1>1, <1>2, <1>3, <1>4

(* The tent over a pixel is nothing at any other pixel. *)
LEMMA TentAtPixel ==
    ASSUME NEW a \in Int, NEW u \in Int
    PROVE  Tent(a * Unit - u * Unit) = IF u = a THEN Unit ELSE 0
<1>1. Unit \in Nat \ {0}
  BY SamplingAssumption DEF Unit
<1> HIDE DEF Unit
<1>2. a * Unit \in Int /\ u * Unit \in Int
  BY <1>1
<1>3. CASE u = a
  BY <1>1, <1>2, <1>3 DEF Tent
<1>4. CASE u < a
  <2>1. (u + 1) * Unit <= a * Unit /\ (u + 1) * Unit = u * Unit + Unit
    BY <1>1, <1>4, Monotone
  <2> QED
    BY <1>1, <1>2, <1>4, <2>1 DEF Tent
<1>5. CASE u > a
  <2>1. (a + 1) * Unit <= u * Unit /\ (a + 1) * Unit = a * Unit + Unit
    BY <1>1, <1>5, Monotone
  <2> QED
    BY <1>1, <1>2, <1>5, <2>1 DEF Tent
<1> QED
  BY <1>3, <1>4, <1>5

(* The slope of the interpolation across the cell of pixels around a       *)
(* sample, by rows.                                                        *)
LEMMA SlopeAt ==
    ASSUME NEW x \in Int, NEW u \in Int
    PROVE  Tent((Floor(x) + 1) * Unit - u * Unit) - Tent(Floor(x) * Unit - u * Unit)
           = IF u - Floor(x) \in {0, 1} THEN Unit * Sign(u - Floor(x)) ELSE 0
<1>1. Unit \in Nat \ {0}
  BY SamplingAssumption DEF Unit
<1>2. Floor(x) \in Int /\ Floor(x) + 1 \in Int
  BY <1>1, Division DEF Floor
<1>3. /\ Tent((Floor(x) + 1) * Unit - u * Unit) = IF u = Floor(x) + 1 THEN Unit ELSE 0
      /\ Tent(Floor(x) * Unit - u * Unit) = IF u = Floor(x) THEN Unit ELSE 0
  BY <1>2, TentAtPixel
<1> HIDE DEF Unit
<1> DEFINE p == Tent((Floor(x) + 1) * Unit - u * Unit)
           q == Tent(Floor(x) * Unit - u * Unit)
           k == Floor(x)
<1>4. k \in Int /\ p = (IF u = k + 1 THEN Unit ELSE 0) /\ q = (IF u = k THEN Unit ELSE 0)
  BY <1>2, <1>3
<1> HIDE DEF p, q, k
<1>5. p - q = IF u - k \in {0, 1} THEN Unit * (IF u - k = 0 THEN -1 ELSE 1) ELSE 0
  <2>1. CASE u = k
    BY <1>1, <1>4, <2>1
  <2>2. CASE u = k + 1
    BY <1>1, <1>4, <2>2
  <2>3. CASE u # k /\ u # k + 1
    BY <1>1, <1>4, <2>3
  <2> QED
    BY <2>1, <2>2, <2>3
<1> QED
  BY <1>5 DEF Sign, p, q, k

(* Products of integers may be regrouped. *)
LEMMA Regroup ==
    ASSUME NEW a \in Int, NEW b \in Int, NEW c \in Int
    PROVE  /\ a * (b * c) = b * (a * c)
           /\ a * b \in Int /\ a * b = b * a
           /\ 0 * a = 0 /\ a * 0 = 0
OBVIOUS

(* A difference of products with a common factor. *)
LEMMA Factored ==
    ASSUME NEW a \in Int, NEW b \in Int, NEW c \in Int
    PROVE  /\ a * b - a * c = a * (b - c)
           /\ b * a - c * a = (b - c) * a
OBVIOUS

(* What a sample in the support gathers for its coordinates is the slope   *)
(* of its interpolation along them.                                        *)
LEMMA GathersSlopes ==
    ASSUME AtSample, InSupport(Level, Y, X), NEW r \in Rows
    PROVE  /\ Gather(SlopeX)[r] \in Int /\ Gather(SlopeY)[r] \in Int
           /\ Unit * Gather(SlopeX)[r] = Interpolation(Level, Y, (Floor(X) + 1) * Unit)[r]
                                          - Interpolation(Level, Y, Floor(X) * Unit)[r]
           /\ Unit * Gather(SlopeY)[r] = Interpolation(Level, (Floor(Y) + 1) * Unit, X)[r]
                                          - Interpolation(Level, Floor(Y) * Unit, X)[r]
<1>1. Level \in LevelType /\ Fits(Level) /\ Y \in Int /\ X \in Int
  BY SampleHere
<1>2. Unit \in Nat \ {0}
  BY SamplingAssumption DEF Unit
<1>3. Floor(Y) \in Int /\ Floor(X) \in Int
      /\ Fraction(Y) \in 0 .. Unit - 1 /\ Fraction(X) \in 0 .. Unit - 1
  BY <1>1, <1>2, Division DEF Floor, Fraction
<1> HIDE DEF Unit
<1>4. /\ (Floor(X) + 1) * Unit \in Int /\ Floor(X) * Unit \in Int
      /\ (Floor(Y) + 1) * Unit \in Int /\ Floor(Y) * Unit \in Int
  BY <1>2, <1>3
<1>5. CASE r \notin LevelRows(Level)
  <2>1. Gather(SlopeX)[r] = 0 /\ Gather(SlopeY)[r] = 0
    BY <1>5, GatherRow
  <2>2. \A y, x \in Int : Interpolation(Level, y, x)[r] = 0
    BY <1>1, <1>5, InterpolationAt
  <2> QED
    BY <1>1, <1>2, <1>4, <2>1, <2>2
<1>6. CASE r \in LevelRows(Level)
  <2> DEFINE v == (r - Level.start) \div Level.w
             u == (r - Level.start) % Level.w
             c == v - Floor(Y)
             d == u - Floor(X)
  <2>1. v \in 0 .. Level.h - 1 /\ u \in 0 .. Level.w - 1
    BY <1>1, <1>6, PixelOfRow
  <2>2. \A y, x \in Int : Interpolation(Level, y, x)[r] = Tent(y - v * Unit) * Tent(x - u * Unit)
    BY <1>1, <1>6, InterpolationAt
  <2>3. CornerAt(r) = <<c, d>>
    BY DEF CornerAt
  <2>4. v \in Int /\ u \in Int
    BY <2>1
  <2> HIDE DEF v, u
  <2>5. c \in Int /\ d \in Int
    BY <1>3, <2>4
  <2>6. <<c, d>> \in TouchedCorners <=> c \in {0, 1} /\ d \in {0, 1}
    <3>1. <<c, d>> \in Corners <=> c \in {0, 1} /\ d \in {0, 1}
      BY DEF Corners
    <3>2. Floor(Y) + c = v /\ Floor(X) + d = u
      BY <1>3, <2>4
    <3> HIDE DEF c, d
    <3>3. <<c, d>> \in Corners => <<c, d>> \in PixelTests(Level, Floor(Y), Floor(X))
      BY <2>1, <3>2 DEF PixelTests
    <3>4. Level.h \in Int /\ Level.w \in Int
      BY <1>1 DEF LevelType, Long
    <3>5. <<c, d>> \in Corners => <<c, d>> \in EdgeTests(Level, Floor(Y), Floor(X))
      BY <1>3, <2>1, <3>1, <3>2, <3>4 DEF EdgeTests
    <3> QED
      BY <3>1, <3>3, <3>5 DEF TouchedCorners, Active, Touched, PixelTests, EdgeTests
  <2>7. /\ Gather(SlopeX)[r] = IF c \in {0, 1} /\ d \in {0, 1} THEN Sign(d) * Side(Fraction(Y), c) ELSE 0
        /\ Gather(SlopeY)[r] = IF c \in {0, 1} /\ d \in {0, 1} THEN Sign(c) * Side(Fraction(X), d) ELSE 0
    <3> HIDE DEF c, d
    <3>1. <<c, d>>[1] = c /\ <<c, d>>[2] = d
      OBVIOUS
    <3> QED
      BY <1>6, <2>3, <2>6, <3>1, GatherRow DEF SlopeX, SlopeY
  <2> DEFINE ty == Tent(Y - v * Unit)
             tx == Tent(X - u * Unit)
             dy == Tent((Floor(Y) + 1) * Unit - v * Unit) - Tent(Floor(Y) * Unit - v * Unit)
             dx == Tent((Floor(X) + 1) * Unit - u * Unit) - Tent(Floor(X) * Unit - u * Unit)
  <2>8. /\ ty = IF c \in {0, 1} THEN Side(Fraction(Y), c) ELSE 0
        /\ tx = IF d \in {0, 1} THEN Side(Fraction(X), d) ELSE 0
    BY <1>1, <2>4, SideIsTent
  <2>9. /\ dy = IF c \in {0, 1} THEN Unit * Sign(c) ELSE 0
        /\ dx = IF d \in {0, 1} THEN Unit * Sign(d) ELSE 0
    BY <1>1, <2>4, SlopeAt
  <2>10. \A a \in Int : Tent(a) \in Int
    BY <1>2 DEF Tent
  <2>11. v * Unit \in Int /\ u * Unit \in Int
    BY <1>2, <2>4
  <2>12. /\ ty \in Int /\ tx \in Int
         /\ Tent((Floor(Y) + 1) * Unit - v * Unit) \in Int /\ Tent(Floor(Y) * Unit - v * Unit) \in Int
         /\ Tent((Floor(X) + 1) * Unit - u * Unit) \in Int /\ Tent(Floor(X) * Unit - u * Unit) \in Int
    BY <1>1, <1>4, <2>10, <2>11
  <2>13. /\ Interpolation(Level, Y, (Floor(X) + 1) * Unit)[r] - Interpolation(Level, Y, Floor(X) * Unit)[r]
              = ty * dx
         /\ Interpolation(Level, (Floor(Y) + 1) * Unit, X)[r] - Interpolation(Level, Floor(Y) * Unit, X)[r]
              = dy * tx
    <3> DEFINE p == Tent((Floor(X) + 1) * Unit - u * Unit)
               q == Tent(Floor(X) * Unit - u * Unit)
               m == Tent((Floor(Y) + 1) * Unit - v * Unit)
               n == Tent(Floor(Y) * Unit - v * Unit)
    <3>1. /\ Interpolation(Level, Y, (Floor(X) + 1) * Unit)[r] = ty * p
          /\ Interpolation(Level, Y, Floor(X) * Unit)[r] = ty * q
          /\ Interpolation(Level, (Floor(Y) + 1) * Unit, X)[r] = m * tx
          /\ Interpolation(Level, Floor(Y) * Unit, X)[r] = n * tx
      BY <1>1, <1>4, <2>2
    <3>2. dx = p - q /\ dy = m - n
      OBVIOUS
    <3>3. p \in Int /\ q \in Int /\ m \in Int /\ n \in Int /\ ty \in Int /\ tx \in Int
      BY <2>12
    <3> HIDE DEF p, q, m, n, ty, tx, dx, dy
    <3>4. ty * p - ty * q = ty * (p - q) /\ m * tx - n * tx = (m - n) * tx
      BY <3>3, Factored
    <3> QED
      BY <3>1, <3>2, <3>4
  <2> HIDE DEF ty, tx, dy, dx, c, d
  <2>14. \A e \in {0, 1} : Side(Fraction(Y), e) \in Int /\ Side(Fraction(X), e) \in Int /\ Sign(e) \in Int
    BY <1>2, <1>3 DEF Side, Sign
  <2>15. CASE c \in {0, 1} /\ d \in {0, 1}
    <3> DEFINE sy == Side(Fraction(Y), c)
               sx == Side(Fraction(X), d)
               gc == Sign(c)
               gd == Sign(d)
    <3>1. sy \in Int /\ sx \in Int /\ gc \in Int /\ gd \in Int
      BY <2>14, <2>15
    <3>2. /\ ty = sy /\ tx = sx /\ dy = Unit * gc /\ dx = Unit * gd
          /\ Gather(SlopeX)[r] = gd * sy /\ Gather(SlopeY)[r] = gc * sx
      BY <2>7, <2>8, <2>9, <2>15
    <3> HIDE DEF sy, sx, gc, gd
    <3>3. Unit \in Int
      BY <1>2
    <3>4. Unit * (gd * sy) = sy * (Unit * gd) /\ Unit * (gc * sx) = (Unit * gc) * sx
          /\ gd * sy \in Int /\ gc * sx \in Int
      BY <3>1, <3>3
    <3> QED
      BY <2>13, <3>2, <3>4
  <2>16. CASE ~(c \in {0, 1} /\ d \in {0, 1})
    <3>1. Gather(SlopeX)[r] = 0 /\ Gather(SlopeY)[r] = 0
      BY <2>7, <2>16
    <3>2. dx \in Int /\ dy \in Int
      BY <1>2, <2>9, <2>14
    <3>3. (ty = 0 \/ dx = 0) /\ (dy = 0 \/ tx = 0)
      BY <2>8, <2>9, <2>16
    <3>4. ty * dx = 0 /\ dy * tx = 0
      BY <2>12, <3>2, <3>3
    <3> QED
      BY <1>2, <2>13, <3>1, <3>4
  <2> QED
    BY <2>15, <2>16
<1> QED
  BY <1>5, <1>6

-----------------------------------------------------------------------------
(* What the loops have summed up.                                          *)

(* The samples behind the loops. *)
Visited == {s \in Samples : s[1] < level \/ (s[1] = level /\ s[2] < point)}

(* What each sample is worth to a row; nothing if its level is unfit, for  *)
(* then it is never visited.                                               *)
Worth(r) == [s \in Samples |-> IF Fits(LevelOf(s)) THEN WeightOf(s) * Interpolated(s)[r] ELSE 0]
Gathered == [r \in Rows |-> SumsOf(Worth(r), Samples)[Visited]]

(* The gradients of a sample's coordinates are what GradientsAreSlopes     *)
(* says.                                                                   *)
SlopesAre(l, y, x, weight, g) ==
    LET AlongX(e) == Interpolation(l, y, e)
        AlongY(e) == Interpolation(l, e, x)
    IN  IF InSupport(l, y, x)
        THEN /\ Times(Unit, g.x) = Times(l.w * weight, SlopeAcross(AlongX, x))
             /\ Times(Unit, g.y) = Times(l.h * weight, SlopeAcross(AlongY, y))
        ELSE g = [x |-> Zero, y |-> Zero]
SlopesRight(s, g) == SlopesAre(LevelOf(s), YOf(s), XOf(s), WeightOf(s), g)

(* The tensors a call returns hold what the visited samples are worth.     *)
ForwardSums == ~call.backward => col = Gathered
BackwardSums ==
    call.backward =>
        /\ gradValue = Gathered
        /\ gradWeight \in [1 .. Len(call.levels) -> [1 .. Points -> [Rows -> Int]]]
        /\ gradLoc \in [1 .. Len(call.levels) -> [1 .. Points -> [x : [Rows -> Int], y : [Rows -> Int]]]]
        /\ \A s \in Visited : /\ gradWeight[s[1]][s[2]] = Interpolated(s)
                              /\ SlopesRight(s, gradLoc[s[1]][s[2]])

ExactInv == IInv /\ ForwardSums /\ BackwardSums

(* A call has finitely many samples. *)
LEMMA FiniteSamples ==
    ASSUME call \in Calls
    PROVE  IsFiniteSet(Samples)
<1>1. Len(call.levels) \in Int /\ Points \in Int
  BY CallTypes, SamplingAssumption
<1>2. IsFiniteSet(1 .. Len(call.levels)) /\ IsFiniteSet(1 .. Points)
  BY <1>1, FS_Interval
<1> QED
  BY <1>2, FS_Product DEF Samples

(* Samples are worth integers. *)
LEMMA WorthType ==
    ASSUME call \in Calls, NEW r \in Rows
    PROVE  Worth(r) \in [Samples -> Int]
<1> SUFFICES ASSUME NEW s \in Samples, Fits(LevelOf(s))
             PROVE  WeightOf(s) * Interpolated(s)[r] \in Int
  BY DEF Worth
<1>1. LevelOf(s) \in LevelType /\ YOf(s) \in Int /\ XOf(s) \in Int /\ WeightOf(s) \in Int
  BY SampleTypes
<1>2. Interpolated(s)[r] \in Int
  BY <1>1, InterpolationAt DEF Interpolated
<1> QED
  BY <1>1, <1>2

(* Nothing has been visited when the loops begin. *)
LEMMA GatheredNone ==
    ASSUME call \in Calls, Visited = {}
    PROVE  Gathered = Zero
BY FiniteSamples, WorthType, SumOfNone DEF Gathered, Zero

(* The loops visit the sample they are at. *)
LEMMA VisitedNext ==
    ASSUME AtSample, Advance, UNCHANGED call
    PROVE  /\ Samples' = Samples
           /\ Here \in Samples /\ Here \notin Visited
           /\ Visited' = Visited \cup {Here}
<1>1. /\ level \in Nat /\ point \in 1 .. Points /\ Here \in Samples
      /\ Here[1] = level /\ Here[2] = point /\ Points \in Nat
  BY SampleHere, CallTypes, SamplingAssumption DEF Here
<1>2. Samples' = Samples
  BY DEF Samples
<1>3. \A s \in Samples : /\ s[1] \in Nat /\ s[2] \in 1 .. Points
                         /\ s = Here <=> s[1] = level /\ s[2] = point
  BY <1>1, SampleHere, CallTypes DEF Samples, Here
<1>4. Here \notin Visited
  BY <1>1 DEF Visited
<1>5. ASSUME NEW s \in Samples
      PROVE  s[1] < level' \/ (s[1] = level' /\ s[2] < point')
             <=> s[1] < level \/ (s[1] = level /\ s[2] < point) \/ s = Here
  BY <1>1, <1>3, <1>5 DEF Advance
<1>6. Visited' = Visited \cup {Here}
  BY <1>1, <1>2, <1>5 DEF Visited
<1> QED
  BY <1>1, <1>2, <1>4, <1>6

(* Visiting a sample adds what it gathers, times its weight. *)
LEMMA GatheredNext ==
    ASSUME AtSample, Advance, UNCHANGED call
    PROVE  Gathered' = Plus(Gathered, Times(Weight, Gather(Coefficient)))
<1>1. /\ Samples' = Samples /\ Visited' = Visited \cup {Here}
      /\ Here \in Samples /\ Here \notin Visited
  BY VisitedNext
<1>2. call \in Calls /\ Fits(LevelOf(Here)) /\ Weight = WeightOf(Here)
  BY SampleHere
<1>3. Gather(Coefficient) = Interpolated(Here)
  BY GathersInterpolation
<1>4. ASSUME NEW r \in Rows
      PROVE  SumsOf(Worth(r), Samples)[Visited \cup {Here}]
             = SumsOf(Worth(r), Samples)[Visited] + Weight * Gather(Coefficient)[r]
  <2>1. IsFiniteSet(Samples) /\ Worth(r) \in [Samples -> Int]
    BY <1>2, FiniteSamples, WorthType
  <2>2. Visited \cup {Here} \in SUBSET Samples /\ (Visited \cup {Here}) \ {Here} = Visited
    BY <1>1 DEF Visited
  <2>3. SumsOf(Worth(r), Samples)[Visited \cup {Here}] = SumsOf(Worth(r), Samples)[Visited] + Worth(r)[Here]
    <3> DEFINE W == Visited \cup {Here}
    <3>1. SumsOf(Worth(r), Samples)[W] = SumsOf(Worth(r), Samples)[W \ {Here}] + Worth(r)[Here]
      BY <2>1, <2>2, SumWith
    <3> QED
      BY <2>2, <3>1
  <2>4. Worth(r)[Here] = Weight * Interpolated(Here)[r]
    BY <1>1, <1>2 DEF Worth
  <2> QED
    BY <1>3, <2>3, <2>4
<1>5. \A r : Worth(r)' = Worth(r)
  BY <1>1 DEF Worth, Fits, LevelOf, WeightOf, Interpolated, YOf, XOf
<1>6. Gathered' = [r \in Rows |-> SumsOf(Worth(r), Samples)[Visited \cup {Here}]]
  BY <1>1, <1>5 DEF Gathered, Rows
<1>7. \A r \in Rows : Plus(Gathered, Times(Weight, Gather(Coefficient)))[r] =
          SumsOf(Worth(r), Samples)[Visited] + Weight * Gather(Coefficient)[r]
  BY DEF Plus, Times, Gathered
<1>8. Plus(Gathered, Times(Weight, Gather(Coefficient))) =
        [r \in Rows |-> SumsOf(Worth(r), Samples)[Visited] + Weight * Gather(Coefficient)[r]]
  BY DEF Plus, Times, Gathered
<1> HIDE DEF Gathered, Gather, Plus, Times, Worth, Visited
<1> QED
  BY <1>4, <1>6, <1>8

(* The slopes of a sample are right, or right no more, with its call. *)
LEMMA SlopesStay ==
    ASSUME UNCHANGED call, NEW s, NEW g
    PROVE  SlopesRight(s, g)' <=> SlopesRight(s, g)
BY DEF SlopesRight, LevelOf, YOf, XOf, WeightOf

(* The backward pass writes the slopes of the sample it is at. *)
LEMMA SlopesWritten ==
    ASSUME AtSample
    PROVE  LET g == [x |-> Times(Level.w * Weight, Gather(SlopeX)),
                     y |-> Times(Level.h * Weight, Gather(SlopeY))]
           IN  g \in [x : [Rows -> Int], y : [Rows -> Int]] /\ SlopesRight(Here, g)
<1> DEFINE gx == Gather(SlopeX)
           gy == Gather(SlopeY)
           a == Level.w * Weight
           b == Level.h * Weight
           g == [x |-> Times(a, gx), y |-> Times(b, gy)]
<1>1. /\ Level = LevelOf(Here) /\ Y = YOf(Here) /\ X = XOf(Here) /\ Weight = WeightOf(Here)
      /\ Level \in LevelType /\ Weight \in Int /\ Y \in Int /\ X \in Int /\ Fits(Level)
  BY SampleHere
<1>2. a \in Int /\ b \in Int /\ Unit \in Int
  BY <1>1, SamplingAssumption DEF LevelType, Long, Unit
<1>3. gx = [r \in Rows |-> gx[r]] /\ gy = [r \in Rows |-> gy[r]]
  BY DEF Gather
<1>4. ~InSupport(Level, Y, X) => \A r \in Rows : gx[r] = 0 /\ gy[r] = 0
  BY GatherRow DEF TouchedCorners, Active
<1>5. InSupport(Level, Y, X) => \A r \in Rows : gx[r] \in Int /\ gy[r] \in Int
  BY GathersSlopes
<1>6. \A r \in Rows : gx[r] \in Int /\ gy[r] \in Int
  BY <1>4, <1>5
<1> HIDE DEF gx, gy, a, b
<1>7. \A r \in Rows : a * gx[r] \in Int /\ b * gy[r] \in Int
  BY <1>2, <1>6
<1>8. Times(a, gx) \in [Rows -> Int] /\ Times(b, gy) \in [Rows -> Int]
  BY <1>7 DEF Times
<1>9. CASE ~InSupport(Level, Y, X)
  <2>1. \A r \in Rows : a * gx[r] = 0 /\ b * gy[r] = 0
    BY <1>2, <1>4, <1>9
  <2>2. Times(a, gx) = Zero /\ Times(b, gy) = Zero
    BY <2>1 DEF Times, Zero
  <2>3. SlopesRight(Here, g)
    BY <1>1, <1>9, <2>2 DEF SlopesRight, SlopesAre
  <2> QED
    BY <1>8, <2>3 DEF a, b, gx, gy
<1>10. CASE InSupport(Level, Y, X)
  <2> DEFINE AlongX(x) == Interpolation(Level, Y, x)
             AlongY(y) == Interpolation(Level, y, X)
  <2>1. \A r \in Rows : Unit * gx[r] = AlongX((Floor(X) + 1) * Unit)[r] - AlongX(Floor(X) * Unit)[r]
    BY <1>10, GathersSlopes DEF gx
  <2>2. \A r \in Rows : Unit * gy[r] = AlongY((Floor(Y) + 1) * Unit)[r] - AlongY(Floor(Y) * Unit)[r]
    BY <1>10, GathersSlopes DEF gy
  <2>3. SlopeAcross(AlongX, X) = [r \in Rows |-> Unit * gx[r]]
    BY <2>1 DEF SlopeAcross
  <2>4. SlopeAcross(AlongY, Y) = [r \in Rows |-> Unit * gy[r]]
    BY <2>2 DEF SlopeAcross
  <2>5. \A r \in Rows : Unit * (a * gx[r]) = a * (Unit * gx[r]) /\ Unit * (b * gy[r]) = b * (Unit * gy[r])
    BY <1>2, <1>6, Regroup
  <2>6. Times(Unit, Times(a, gx)) = [r \in Rows |-> Unit * (a * gx[r])]
        /\ Times(Unit, Times(b, gy)) = [r \in Rows |-> Unit * (b * gy[r])]
    BY DEF Times
  <2>7. Times(a, SlopeAcross(AlongX, X)) = [r \in Rows |-> a * (Unit * gx[r])]
        /\ Times(b, SlopeAcross(AlongY, Y)) = [r \in Rows |-> b * (Unit * gy[r])]
    BY <2>3, <2>4 DEF Times
  <2>8. Times(Unit, Times(a, gx)) = Times(a, SlopeAcross(AlongX, X))
        /\ Times(Unit, Times(b, gy)) = Times(b, SlopeAcross(AlongY, Y))
    BY <2>5, <2>6, <2>7
  <2>9. SlopesRight(Here, g)
    BY <1>1, <1>10, <2>8 DEF SlopesRight, SlopesAre, a, b
  <2> QED
    BY <1>8, <2>9 DEF a, b, gx, gy
<1> QED
  BY <1>9, <1>10

(* A step that visits no sample and writes no tensor. *)
LEMMA SumsStand ==
    ASSUME ForwardSums, BackwardSums, UNCHANGED <<call, level, col, gradValue, gradWeight, gradLoc>>,
           point \in Nat, point' = point \/ (point = 0 /\ point' = 1)
    PROVE  ForwardSums' /\ BackwardSums'
<1>1. Samples' = Samples
  BY DEF Samples
<1>2. \A s \in Samples : s[2] \in 1 .. Points
  BY DEF Samples
<1>3. Visited' = Visited
  BY <1>1, <1>2, SamplingAssumption DEF Visited
<1>4. \A r : Worth(r)' = Worth(r)
  BY <1>1 DEF Worth, Fits, LevelOf, WeightOf, Interpolated, YOf, XOf
<1>5. Gathered' = Gathered
  BY <1>1, <1>3, <1>4 DEF Gathered
<1>6. \A s, g : SlopesRight(s, g)' <=> SlopesRight(s, g)
  BY SlopesStay
<1>7. \A s : Interpolated(s)' = Interpolated(s)
  BY DEF Interpolated, LevelOf, YOf, XOf
<1>8. ForwardSums'
  BY <1>5 DEF ForwardSums
<1>9. BackwardSums'
  BY <1>3, <1>5, <1>6, <1>7 DEF BackwardSums, Rows
<1> QED
  BY <1>8, <1>9

(* The forward pass adds what it visits. *)
LEMMA ForwardStep ==
    ASSUME ExactInv, SampleForward
    PROVE  ForwardSums' /\ BackwardSums'
<1>1. AtSample /\ Advance /\ UNCHANGED call /\ ~call.backward
  BY DEF ExactInv, AtSample, SampleForward
<1>2. col' = Plus(Gathered, Times(Weight, Gather(Coefficient)))
  BY <1>1 DEF ExactInv, ForwardSums, SampleForward
<1>3. Gathered' = Plus(Gathered, Times(Weight, Gather(Coefficient)))
  BY <1>1, GatheredNext
<1>4. ForwardSums'
  BY <1>2, <1>3 DEF ForwardSums
<1>5. BackwardSums'
  BY <1>1 DEF BackwardSums
<1> QED
  BY <1>4, <1>5

(* The backward pass adds the transpose, and writes the gradients of the   *)
(* sample it is at.                                                        *)
LEMMA BackwardStep ==
    ASSUME ExactInv, SampleBackward
    PROVE  ForwardSums' /\ BackwardSums'
<1>1. AtSample /\ Advance /\ UNCHANGED call /\ call.backward
  BY DEF ExactInv, AtSample, SampleBackward
<1>2. /\ Here \in Samples /\ Here[1] = level /\ Here[2] = point
      /\ level \in 1 .. Len(call.levels) /\ point \in 1 .. Points
      /\ Visited' = Visited \cup {Here}
  BY <1>1, SampleHere, VisitedNext DEF Here
<1>3. gradValue' = Gathered'
  <2>1. gradValue' = Plus(Gathered, Times(Weight, Gather(Coefficient)))
    BY <1>1 DEF ExactInv, BackwardSums, SampleBackward
  <2> QED
    BY <1>1, <2>1, GatheredNext
<1> DEFINE g == [x |-> Times(Level.w * Weight, Gather(SlopeX)),
                 y |-> Times(Level.h * Weight, Gather(SlopeY))]
           G == [x : [Rows -> Int], y : [Rows -> Int]]
           levels == 1 .. Len(call.levels)
           points == 1 .. Points
<1>4. g \in G /\ SlopesRight(Here, g)
  BY <1>1, SlopesWritten
<1>5. gradWeight' = [gradWeight EXCEPT ![level][point] = Interpolated(Here)]
      /\ Interpolated(Here) \in [Rows -> Int]
  <2>1. Gather(Coefficient) = Interpolated(Here)
    BY <1>1, GathersInterpolation
  <2>2. Interpolated(Here) \in [Rows -> Int]
    BY <1>1, SampleHere, InterpolationAt DEF Interpolated
  <2> QED
    BY <2>1, <2>2 DEF SampleBackward
<1>6. gradLoc' = [gradLoc EXCEPT ![level][point] = g]
  BY DEF SampleBackward
<1> HIDE DEF g, G, levels, points
<1>7. /\ gradWeight \in [levels -> [points -> [Rows -> Int]]]
      /\ gradLoc \in [levels -> [points -> G]]
  BY <1>1 DEF ExactInv, BackwardSums, levels, points, G
<1>8. level \in levels /\ point \in points
  BY <1>2 DEF levels, points
<1>9. /\ gradWeight' \in [levels -> [points -> [Rows -> Int]]]
      /\ \A l \in levels, p \in points :
            gradWeight'[l][p] = IF l = level /\ p = point THEN Interpolated(Here) ELSE gradWeight[l][p]
  BY <1>5, <1>7, <1>8
<1>10. /\ gradLoc' \in [levels -> [points -> G]]
       /\ \A l \in levels, p \in points :
            gradLoc'[l][p] = IF l = level /\ p = point THEN g ELSE gradLoc[l][p]
  BY <1>4, <1>6, <1>7, <1>8
<1>11. \A s, e : SlopesRight(s, e)' <=> SlopesRight(s, e)
  BY <1>1, SlopesStay
<1>12. \A s : Interpolated(s)' = Interpolated(s)
  BY <1>1 DEF Interpolated, LevelOf, YOf, XOf
<1>13. ASSUME NEW s \in Visited'
       PROVE  gradWeight'[s[1]][s[2]] = Interpolated(s) /\ SlopesRight(s, gradLoc'[s[1]][s[2]])
  <2>1. CASE s = Here
    BY <1>2, <1>4, <1>8, <1>9, <1>10, <2>1
  <2>2. CASE s \in Visited
    <3>1. s[1] \in levels /\ s[2] \in points
      BY <2>2 DEF Visited, Samples, levels, points
    <3>2. ~(s[1] = level /\ s[2] = point)
      BY <1>2, <2>2 DEF Visited
    <3>3. gradWeight'[s[1]][s[2]] = gradWeight[s[1]][s[2]] /\ gradLoc'[s[1]][s[2]] = gradLoc[s[1]][s[2]]
      BY <1>9, <1>10, <3>1, <3>2
    <3> QED
      BY <1>1, <2>2, <3>3 DEF ExactInv, BackwardSums
  <2> QED
    BY <1>2, <2>1, <2>2
<1>14. BackwardSums'
  BY <1>1, <1>3, <1>9, <1>10, <1>11, <1>12, <1>13 DEF BackwardSums, levels, points, G, Rows
<1>15. ForwardSums'
  BY <1>1 DEF ForwardSums
<1> QED
  BY <1>14, <1>15

(* Every step keeps the sums. *)
LEMMA ExactInvNext == ExactInv /\ [Next]_vars => ExactInv'
<1> SUFFICES ASSUME ExactInv, [Next]_vars PROVE ExactInv'
  OBVIOUS
<1>1. IInv'
  BY NextInv DEF ExactInv
<1>2. point \in Nat
  BY SamplingAssumption DEF ExactInv, IInv, LoopTypes
<1>3. CASE Begin \/ EnterLevel \/ RefuseLevel \/ Return \/ UNCHANGED vars
  <2>1. /\ UNCHANGED <<call, level, col, gradValue, gradWeight, gradLoc>>
        /\ point' = point \/ (point = 0 /\ point' = 1)
    BY <1>3 DEF Begin, EnterLevel, RefuseLevel, Return, vars, sums
  <2> QED
    BY <1>1, <1>2, <2>1, SumsStand DEF ExactInv
<1>4. CASE SampleForward
  BY <1>1, <1>4, ForwardStep DEF ExactInv
<1>5. CASE SampleBackward
  BY <1>1, <1>5, BackwardStep DEF ExactInv
<1> QED
  BY <1>3, <1>4, <1>5 DEF Next

(* The sums begin empty. *)
LEMMA ExactInvInit == Init => ExactInv
<1> SUFFICES ASSUME Init PROVE ExactInv
  OBVIOUS
<1>1. IInv /\ call \in Calls
  BY InvInit DEF Init
<1>2. Visited = {}
  <2>1. \A s \in Samples : s[1] >= 1 /\ s[2] >= 1 /\ s[1] \in Int /\ s[2] \in Int
    BY DEF Samples
  <2> QED
    BY <2>1 DEF Visited, Init
<1>3. Gathered = Zero
  BY <1>1, <1>2, GatheredNone
<1>4. Zero \in [Rows -> Int]
  BY DEF Zero
<1>5. ForwardSums
  BY <1>3 DEF Init, ForwardSums
<1>6. BackwardSums
  BY <1>2, <1>3, <1>4 DEF Init, BackwardSums, PerPoint
<1> QED
  BY <1>1, <1>5, <1>6 DEF ExactInv

(***************************************************************************)
(* The inductive invariant of the sums: what a call's tensors hold is what *)
(* the samples behind its loops are worth.                                 *)
(***************************************************************************)
THEOREM SumsInductive == Spec => []ExactInv
BY ExactInvInit, ExactInvNext, PTL DEF Spec

(* A call that returns has visited all its samples, whose levels fit. *)
LEMMA AllVisited ==
    ASSUME ExactInv, phase = "returned"
    PROVE  /\ call \in Calls /\ Visited = Samples
           /\ Gathered = Attention
<1>1. /\ call \in Calls /\ level > Len(call.levels) /\ level \in Nat
      /\ Len(call.levels) \in Nat /\ DOMAIN call.levels = 1 .. Len(call.levels)
  BY CallTypes DEF ExactInv, IInv, LoopTypes
<1>2. Visited = Samples
  BY <1>1 DEF Visited, Samples
<1>3. \A s \in Samples : Fits(LevelOf(s))
  BY <1>1 DEF ExactInv, IInv, KnownToFit, Samples, LevelOf
<1>4. \A r \in Rows : Worth(r) = [s \in Samples |-> WeightOf(s) * Interpolated(s)[r]]
  BY <1>3 DEF Worth
<1>5. \A r \in Rows : SumFunction(Worth(r)) = SumsOf(Worth(r), Samples)[Samples]
  <2>1. \A r : DOMAIN Worth(r) = Samples
    BY DEF Worth
  <2> QED
    BY <2>1, SumOfAll
<1>6. Gathered = [r \in Rows |-> SumFunction(Worth(r))]
  BY <1>2, <1>5 DEF Gathered
<1>7. Gathered = Attention
  BY <1>4, <1>6, Zenon DEF Attention
<1> QED
  BY <1>1, <1>2, <1>7

(***************************************************************************)
(* On every device, for all values, shapes, levels, locations and weights: *)
(* an output element that is returned is the weighted sum of the samples'  *)
(* bilinear interpolations, and the backward pass is its transpose.        *)
(***************************************************************************)
THEOREM AttentionComputed == Spec => []ComputesAttention
<1>1. ExactInv => ComputesAttention
  BY AllVisited DEF ExactInv, ForwardSums, BackwardSums, ComputesAttention
<1> QED
  BY <1>1, SumsInductive, PTL

(***************************************************************************)
(* On every device, for all values, shapes, levels and locations: the      *)
(* gradient a call returns for a coordinate is the slope of the output     *)
(* along it, and zero for a sample outside the support.                    *)
(***************************************************************************)
THEOREM SlopesComputed == Spec => []GradientsAreSlopes
<1>1. ASSUME ExactInv, phase = "returned", call.backward, NEW s \in Samples
      PROVE  SlopesRight(s, gradLoc[s[1]][s[2]])
  BY <1>1, AllVisited DEF ExactInv, BackwardSums
<1>2. ExactInv => GradientsAreSlopes
  BY <1>1 DEF GradientsAreSlopes, SlopesRight, SlopesAre
<1> QED
  BY <1>2, SumsInductive, PTL

=============================================================================
