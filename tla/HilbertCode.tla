----------------------------- MODULE HilbertCode -----------------------------
(***************************************************************************)
(* The arithmetic of src/dotnet/HilbertIndex: the Hilbert curve on a grid  *)
(* of n * n cells (n is _N, a power of two), and the ranges of the curve   *)
(* that cover a box of cells.  A box is (x, y, p, q): the lower left cell, *)
(* the height p and the width q, as in HilbertEnvelope.  Positions on the  *)
(* globe are left out: a projection is a monotone map from them to cells.  *)
(* A resolution is a constructor argument, so operators take n.            *)
(***************************************************************************)
EXTENDS Integers, Sequences, SequencesExt, FiniteSetsExt, TLC

CONSTANT
    ULong       \* the number of values of a ulong (2^64 in the code)

(* Differences of two curve numbers must fit, or underflow means nothing.  *)
ASSUME ULongAssumption == ULong \in Nat \ {0}

Lesser(a, b) == IF a <= b THEN a ELSE b
Greater(a, b) == IF a <= b THEN b ELSE a

Cell(x, y) == [x |-> x, y |-> y]

Points == [x : Int, y : Int]

(* Pairs in the order of the numbers they start with: each is put behind   *)
(* those that do not start after it.                                       *)
InsertOrdered(pairs, e) ==
    InsertAt(pairs, 1 + Max({0} \cup {j \in DOMAIN pairs : pairs[j][1] <= e[1]}), e)

OrderBy(pairs) == FoldLeft(InsertOrdered, << >>, pairs)

Grid(n) == {Cell(x, y) : x \in 0..(n - 1), y \in 0..(n - 1)}

(* 2^k: the sides of grids.                                                *)
TwoTo[k \in Nat] == IF k = 0 THEN 1 ELSE 2 * TwoTo[k - 1]

-----------------------------------------------------------------------------
(* The curve: Encode and DecodeToPoint.                                    *)

(* The bit of v that the power of two s selects.  Rotate makes coordinates *)
(* negative; \div rounds down, so this is also their two's complement bit. *)
Bit(v, s) == (v \div s) % 2

Reflect(s, c, rx) ==
    IF rx = 1 THEN Cell(s - 1 - c.x, s - 1 - c.y) ELSE c

\* Fault: a quarter is only transposed.
RotateUnreflected(s, c, rx, ry) == IF ry = 1 THEN c ELSE Cell(c.y, c.x)

Rotate(s, c, rx, ry) ==
    IF ry = 1 THEN c
    ELSE LET r == Reflect(s, c, rx) IN Cell(r.y, r.x)

(* (3 * rx) ^ ry                                                           *)
Quarter(rx, ry) == IF rx = 0 THEN ry ELSE 3 - ry

(* What Encode's loop adds to d from the iteration with s on down to the   *)
(* one with 1, for the point it has then.                                  *)
EncodeFrom[s \in Nat] ==
    [c \in Points |->
        IF s = 0 THEN 0
        ELSE LET rx == Bit(c.x, s)
                 ry == Bit(c.y, s)
             IN  s * s * Quarter(rx, ry)
                 + EncodeFrom[s \div 2][Rotate(s, c, rx, ry)]]

Encode(c, n) == EncodeFrom[n \div 2][c]

(* The point of DecodeToPoint's loop after the iteration with s: t was     *)
(* divided by 4 as often as s was doubled.                                 *)
DecodeUpTo[s \in Nat] ==
    [d \in Nat |->
        IF s = 0 THEN Cell(0, 0)
        ELSE LET t == d \div (s * s)
                 rx == (t \div 2) % 2
                 ry == (t + rx) % 2
                 c == Rotate(s, DecodeUpTo[s \div 2][d], rx, ry)
             IN  Cell(c.x + s * rx, c.y + s * ry)]

DecodeToPoint(n, d) == DecodeUpTo[n \div 2][d]

-----------------------------------------------------------------------------
(* Boxes.                                                                  *)

HilbertEnvelope(x, y, p, q) ==
    [x |-> x, y |-> y, p |-> Greater(1, p), q |-> Greater(1, q)]

MaxX(b) == b.x + b.q
MaxY(b) == b.y + b.p

(* The cells a box stands for, those outside the grid included.            *)
CellsOf(b) ==
    {Cell(x, y) : x \in b.x..(MaxX(b) - 1), y \in b.y..(MaxY(b) - 1)}

(* Math.Ceiling(Math.Sqrt(d))                                              *)
CeilRoot(d) ==
    CHOOSE h \in 0..d : h * h >= d /\ \A k \in 0..(h - 1) : k * k < d

Squared(a, b) == (a.x - b.x) * (a.x - b.x) + (a.y - b.y) * (a.y - b.y)

\* Fault: the cell of center itself is not counted.
CreateBox1DShort(center, other, n) ==
    LET c  == DecodeToPoint(n, center)
        hw == Lesser(CeilRoot(Squared(c, DecodeToPoint(n, other))), n - 1)
        size == Lesser(hw * 2, n - 1)
    IN  HilbertEnvelope(c.x - hw, c.y - hw, size, size)

(* The box around the cell of center that reaches the cell of other.       *)
CreateBox1D(center, other, n) ==
    LET c  == DecodeToPoint(n, center)
        hw == Lesser(CeilRoot(Squared(c, DecodeToPoint(n, other))), n - 1)
        size == Lesser(hw * 2 + 1, n - 1)
    IN  HilbertEnvelope(c.x - hw, c.y - hw, size, size)

(* The parts of a box that leaves the grid.  To the west and the east it   *)
(* is continued on the other side of the date line, at the poles it is     *)
(* cut (or, when nothing is left of it to the south, moved to the north).  *)
(* The edge is cell n - 1: a part ends before it.                          *)
WrapWest(b, n) ==
    IF b.x >= 0 THEN <<b>>
    ELSE (IF MaxX(b) > 0 THEN <<HilbertEnvelope(0, b.y, b.p, MaxX(b))>>
                         ELSE << >>)
         \o <<HilbertEnvelope(n - 1 + b.x, b.y, b.p, -b.x)>>

WrapSouth(b, n) ==
    IF b.y >= 0 THEN b
    ELSE IF MaxY(b) > 0 THEN HilbertEnvelope(b.x, 0, MaxY(b), b.q)
    ELSE HilbertEnvelope(b.x, n - 1 + b.y, -b.y, b.q)

WrapEast(b, n) ==
    IF MaxX(b) <= n - 1 THEN <<b>>
    ELSE <<HilbertEnvelope(b.x, b.y, b.p, n - 1 - b.x),
           HilbertEnvelope(0, b.y, b.p, MaxX(b) - (n - 1))>>

WrapNorth(b, n) ==
    IF MaxY(b) <= n - 1 THEN b ELSE HilbertEnvelope(b.x, b.y, n - 1 - b.y, b.q)

Inside(b, n) == b.x >= 0 /\ b.y >= 0 /\ MaxX(b) <= n - 1 /\ MaxY(b) <= n - 1

(* The parts of a box that is not inside, one step after the other.        *)
Wrapped(b, n) ==
    LET west  == WrapWest(b, n)
        south == [i \in DOMAIN west |-> WrapSouth(west[i], n)]
        east  == FlattenSeq([i \in DOMAIN south |-> WrapEast(south[i], n)])
    IN  [i \in DOMAIN east |-> WrapNorth(east[i], n)]

(* Boxes in the order of the numbers of their first cells.                 *)
ByFirst(boxes, n) ==
    LET First(b) == Encode(Cell(b.x, b.y), n)
        pairs == OrderBy([i \in DOMAIN boxes |-> <<First(boxes[i]), boxes[i]>>])
    IN  [i \in DOMAIN pairs |-> pairs[i][2]]

WrapOverlap(b, n) ==
    IF Inside(b, n) THEN <<b>> ELSE ByFirst(Wrapped(b, n), n)

-----------------------------------------------------------------------------
(* The ranges of the curve that fill a box: SplitQuad.                     *)

(* A square of the curve: its four quarters in the order the curve visits  *)
(* them, each with its place and its own rotation (SplitQuadA..D).         *)
West == 0
East == 1
South == 0
North == 1

Quarters == [A |-> << <<West, South, "B">>, <<West, North, "A">>,
                      <<East, North, "A">>, <<East, South, "D">> >>,
             B |-> << <<West, South, "A">>, <<East, South, "B">>,
                      <<East, North, "B">>, <<West, North, "C">> >>,
             C |-> << <<East, North, "D">>, <<East, South, "C">>,
                      <<West, South, "C">>, <<West, North, "B">> >>,
             D |-> << <<East, North, "C">>, <<West, North, "D">>,
                      <<West, South, "D">>, <<East, South, "A">> >>]

(* Along one axis, an interval of len cells from lo meets the near half,   *)
(* 0, or the far half, 1, of a square (GetQuadType), in an interval of it. *)
Meets(lo, len, half, side) == IF side = 1 THEN lo + len >= half ELSE lo < half

Start(lo, half, side) ==
    IF side = 0 THEN lo ELSE IF lo < half THEN 0 ELSE lo - half

Length(lo, len, half, side) ==
    IF ~(lo < half /\ lo + len >= half) THEN len
    ELSE IF side = 1 THEN lo + len - half ELSE half - lo

Squares == [rotation : {"A", "B", "C", "D"}, min : Nat,
            box : [x : Nat, y : Nat, p : Nat, q : Nat]]

RangeLists == Seq(Nat \X Nat)

AddRange(ranges, r) ==
    IF ranges # << >> /\ Last(ranges)[2] + 1 = r[1]
    THEN Front(ranges) \o << <<Last(ranges)[1], r[2]>> >>
    ELSE Append(ranges, r)

(* Does the box meet the k-th quarter the curve visits, of side half?      *)
Touches(square, half, k) ==
    LET quarter == Quarters[square.rotation][k]
        b == square.box
    IN  Meets(b.x, b.q, half, quarter[1]) /\ Meets(b.y, b.p, half, quarter[2])

(* That quarter, with the part of the box in it.                           *)
SubQuad(square, half, k) ==
    LET quarter == Quarters[square.rotation][k]
        side == quarter[1]      \* west or east
        level == quarter[2]     \* south or north
        b == square.box
    IN  [rotation |-> quarter[3],
         min |-> square.min + half * half * (k - 1),
         box |-> [x |-> Start(b.x, half, side),
                  y |-> Start(b.y, half, level),
                  p |-> Length(b.y, b.p, half, level),
                  q |-> Length(b.x, b.q, half, side)]]

(* What SplitQuad leaves in ranges for the part of a box in a square of    *)
(* side t whose first curve number is min.                                 *)
SplitQuad[t \in Nat \ {0}] ==
    [square \in Squares |-> [ranges \in RangeLists |->
        LET half == t \div 2
            Part(k, before) ==
              IF Touches(square, half, k)
              THEN SplitQuad[half][SubQuad(square, half, k)][before]
              ELSE before
        IN  IF t = square.box.p /\ t = square.box.q
            THEN AddRange(ranges, <<square.min, square.min + t * t - 1>>)
            ELSE IF t <= 1 THEN ranges
            ELSE Part(4, Part(3, Part(2, Part(1, ranges))))]]

(* A difference of two ulongs.                                             *)
Minus(a, b) == (a - b) % ULong

\* Fault: the joined range loses its start.
JoinLater(state, r, tolerance) ==
    LET last == Last(state.out)
        diff == Minus(r[1], last[2])
    IN  IF diff <= tolerance
        THEN [state EXCEPT !.out = Front(@) \o <<r>>]
        ELSE [out |-> Append(state.out, r), next |-> Lesser(diff, state.next)]

(* A range that starts at most tolerance after the end of the one before   *)
(* is joined to it; next is the smallest distance that was not joined.     *)
Join(state, r, tolerance) ==
    LET last == Last(state.out)
        diff == Minus(r[1], last[2])
    IN  IF diff <= tolerance
        THEN [state EXCEPT !.out = Front(@) \o << <<last[1], r[2]>> >>]
        ELSE [out |-> Append(state.out, r), next |-> Lesser(diff, state.next)]

(* One pass of CompactRanges.                                              *)
JoinNear(ranges, tolerance) ==
    LET UpTo[k \in 1..Len(ranges)] ==
          IF k = 1 THEN [out |-> <<ranges[1]>>, next |-> ULong - 1]
          ELSE Join(UpTo[k - 1], ranges[k], tolerance)
    IN  UpTo[Len(ranges)]

(* Every pass but the first joins at least two ranges, so as many passes   *)
(* as there are ranges are enough.                                         *)
CompactRanges(ranges, length) ==
    LET After[passes \in 0..Len(ranges)] ==
          IF passes = 0 THEN [out |-> ranges, next |-> 1]
          ELSE LET before == After[passes - 1]
               IN  IF Len(before.out) <= length THEN before
                   ELSE JoinNear(before.out, before.next)
    IN  After[Len(ranges)].out

(* The parts of a box, one after the other into one list.                  *)
SplitParts(parts, n) ==
    LET UpTo[k \in 0..Len(parts)] ==
          IF k = 0 THEN << >>
          ELSE SplitQuad[n][[rotation |-> "A", min |-> 0, box |-> parts[k]]][UpTo[k - 1]]
    IN  UpTo[Len(parts)]

GetRange(b, n, maxRanges) ==
    LET ranges == SplitParts(WrapOverlap(b, n), n)
    IN  IF maxRanges > 0 THEN CompactRanges(ranges, maxRanges) ELSE ranges
=============================================================================
