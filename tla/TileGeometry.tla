---------------------------- MODULE TileGeometry ----------------------------
(***************************************************************************)
(* The geometry of a vector tile (dotnet/MvtNet/Bson.MvtNet): LineClipper, *)
(* PolygonClipper, GeometryEncoder.Orient and the command stream of        *)
(* GeometryEncoder, with the decoder of the Mapbox specification as the    *)
(* reference.                                                              *)
(*                                                                         *)
(* A TileCoord is a pair of integers, as ProjectAll gives them.  A point   *)
(* being clipped is a pair of fractions: what the code computes in double  *)
(* is computed exactly.  Coordinates keep far below the width of an int,   *)
(* where ZigZag's shifts and CommandInteger's mask are plain arithmetic.   *)
(***************************************************************************)
EXTENDS Integers, SequencesExt

CONSTANTS
    Extent      \* the side of the tile

ASSUME ExtentAssumption == Extent \in Nat \ {0}

-----------------------------------------------------------------------------
(* Fractions <<n, d>>, reduced, d > 0 *)

Abs(i) == IF i < 0 THEN -i ELSE i

\* Euclid's algorithm.
Gcd[k \in Nat] == [m \in Nat |-> IF k = 0 THEN m ELSE Gcd[m % k][k]]

Fraction(n, d) ==
    LET g == Gcd[Abs(d)][Abs(n)]
        sign == IF d < 0 THEN -1 ELSE 1
    IN  <<(sign * n) \div g, (sign * d) \div g>>

Plus(p, q)  == Fraction(p[1] * q[2] + q[1] * p[2], p[2] * q[2])
Minus(p, q) == Fraction(p[1] * q[2] - q[1] * p[2], p[2] * q[2])
Times(p, q) == Fraction(p[1] * q[1], p[2] * q[2])
Over(p, q)  == Fraction(p[1] * q[2], p[2] * q[1])
Below(p, q) == p[1] * q[2] < q[1] * p[2]

\* Math.Round: to the nearest integer, a half to the even one.
Round(p) ==
    LET r == (2 * p[1] + p[2]) \div (2 * p[2])
    IN  IF (2 * p[1] + p[2]) % (2 * p[2]) = 0 /\ r % 2 = 1 THEN r - 1 ELSE r

Exact(c) == <<<<c[1], 1>>, <<c[2], 1>>>>
Rounded(p) == <<Round(p[1]), Round(p[2])>>

-----------------------------------------------------------------------------
(* Clipping *)

\* DefaultClipBufferFraction of the extent, around the tile.
ClipBuffer == Fraction(Extent, 20)
Least    == Minus(<<0, 1>>, ClipBuffer)
Greatest == Plus(<<Extent, 1>>, ClipBuffer)

\* The sides p lies outside of: ComputeCode, and Inside of each Edge.
Outside(p) ==
    (IF Below(p[1], Least) THEN {"left"} ELSE {})
      \cup (IF Below(Greatest, p[1]) THEN {"right"} ELSE {})
      \cup (IF Below(p[2], Least) THEN {"bottom"} ELSE {})
      \cup (IF Below(Greatest, p[2]) THEN {"top"} ELSE {})

\* Where the line through p and q meets a side.
Intersect(p, q, side) ==
    LET along == IF side \in {"left", "right"} THEN 1 ELSE 2
        bound == IF side \in {"left", "bottom"} THEN Least ELSE Greatest
        t == Over(Minus(bound, p[along]), Minus(q[along], p[along]))
    IN  [i \in {1, 2} |-> IF i = along THEN bound
                          ELSE Plus(p[i], Times(Minus(q[i], p[i]), t))]

FirstOf(sides) ==
    IF "top" \in sides THEN "top" ELSE IF "bottom" \in sides THEN "bottom"
    ELSE IF "right" \in sides THEN "right" ELSE "left"

\* An iteration of ClipSegmentCohenSutherland that goes on: an end moves to the
\* first of the sides it is outside of.
ClipEnd(segment) ==
    LET p == segment[1]
        q == segment[2]
        atP == Outside(p)
        atQ == Outside(q)
    IN  IF atP \cup atQ = {} \/ atP \cap atQ # {} THEN segment
        ELSE IF atP # {} THEN <<Intersect(p, q, FirstOf(atP)), q>>
        ELSE <<p, Intersect(p, q, FirstOf(atQ))>>

\* The ends of the visible part of a segment, or <<>>.  An iteration leaves both
\* ends on the inner side of one more of the four sides: there are at most four.
ClipSegment(p, q) ==
    LET clipped == ClipEnd(ClipEnd(ClipEnd(ClipEnd(<<p, q>>))))
    IN  IF Outside(clipped[1]) \cup Outside(clipped[2]) = {}
        THEN <<Rounded(clipped[1]), Rounded(clipped[2])>>
        ELSE << >>

\* EndRun: a run of fewer than two points is given up.
EndRun(acc) ==
    [segments |-> IF Len(acc.current) >= 2 THEN Append(acc.segments, acc.current)
                  ELSE acc.segments,
     current  |-> << >>]

\* One iteration of ClipToRect, for the clipped part of its segment.
ExtendRun(acc, part) ==
    IF part = << >> THEN EndRun(acc)
    ELSE LET continuesRun == acc.current # << >> /\ Last(acc.current) = part[1]
             run == IF continuesRun THEN acc
                    ELSE [EndRun(acc) EXCEPT !.current = <<part[1]>>]
         IN  IF part[2] = Last(run.current) THEN run
             ELSE [run EXCEPT !.current = Append(@, part[2])]

\* LineClipper.Clip
ClipLine(coords) ==
    LET parts == [i \in 1..(Len(coords) - 1) |->
                     ClipSegment(Exact(coords[i]), Exact(coords[i + 1]))]
        start == [segments |-> << >>, current |-> << >>]
    IN  EndRun(FoldLeft(ExtendRun, start, parts)).segments

Before(ring, i) == ring[IF i = 1 THEN Len(ring) ELSE i - 1]

ClipToEdge(ring, side) ==
    FlattenSeq([i \in 1..Len(ring) |->
        LET cur == ring[i]
            prev == Before(ring, i)
            curIn == side \notin Outside(cur)
        IN  (IF curIn # (side \notin Outside(prev))
             THEN <<Intersect(prev, cur, side)>> ELSE << >>)
              \o (IF curIn THEN <<cur>> ELSE << >>)])

AppendNew(path, p) == IF path # << >> /\ Last(path) = p THEN path ELSE Append(path, p)

\* Equal neighbours become one point, also over the end of the ring, which is
\* closed by no two equal points before it.
RoundOnce(points) ==
    LET ps == [i \in 1..Len(points) |-> Rounded(points[i])]
        steps == FoldLeft(AppendNew, << >>, ps)
        open == IF Len(steps) > 1 /\ Last(steps) = Head(steps) THEN Front(steps)
                ELSE steps
    IN  IF Len(open) < 3 THEN << >> ELSE open

\* PolygonClipper.Clip
ClipRing(ring) ==
    LET clipped == FoldLeft(ClipToEdge, [i \in 1..Len(ring) |-> Exact(ring[i])],
                            <<"left", "right", "bottom", "top">>)
    IN  IF Len(clipped) < 3 THEN << >> ELSE RoundOnce(clipped)

SignedArea(ring) ==
    FoldLeft(+, 0, [i \in 1..Len(ring) |->
        LET j == Before(ring, i) IN j[1] * ring[i][2] - ring[i][1] * j[2]])

\* Orient, and <<>> where it returns false.
Orient(ring, exterior) ==
    LET area == SignedArea(ring)
    IN  IF area = 0 THEN << >>
        ELSE IF exterior # (area > 0) THEN Reverse(ring) ELSE ring

-----------------------------------------------------------------------------
(* The command stream *)

MoveTo == 1
LineTo == 2
ClosePath == 7

CommandInteger(id, count) == id + 8 * count

ZigZag(i) == IF i < 0 THEN -2 * i - 1 ELSE 2 * i

\* A CommandWriter: the commands written and the cursor.
NewWriter == [commands |-> << >>, cursor |-> <<0, 0>>]

WriteCommand(w, id, count) ==
    [w EXCEPT !.commands = Append(@, CommandInteger(id, count))]

WritePoint(w, p) ==
    [commands |-> w.commands \o <<ZigZag(p[1] - w.cursor[1]), ZigZag(p[2] - w.cursor[2])>>,
     cursor   |-> p]

\* Fault: every path starts from the origin.
WritePathFromOrigin(w, path, closed) ==
    LET moved == WritePoint(WriteCommand([w EXCEPT !.cursor = <<0, 0>>], MoveTo, 1), path[1])
        drawn == FoldLeft(WritePoint, WriteCommand(moved, LineTo, Len(path) - 1),
                          Tail(path))
    IN  IF closed THEN WriteCommand(drawn, ClosePath, 1) ELSE drawn

WritePath(w, path, closed) ==
    LET moved == WritePoint(WriteCommand(w, MoveTo, 1), path[1])
        drawn == FoldLeft(WritePoint, WriteCommand(moved, LineTo, Len(path) - 1),
                          Tail(path))
    IN  IF closed THEN WriteCommand(drawn, ClosePath, 1) ELSE drawn

EncodePoint(p) == WritePoint(WriteCommand(NewWriter, MoveTo, 1), p).commands

\* EncodeLineString, EncodeMultiLineString and the EncodePolygons.
EncodePaths(paths, closed) ==
    FoldLeft(LAMBDA w, path : WritePath(w, path, closed), NewWriter, paths).commands

\* The length of the array EncodePaths' commands are written to.
PathSize(points, closed) == (1 + 2) + (1 + (points - 1) * 2) + (IF closed THEN 1 ELSE 0)

-----------------------------------------------------------------------------
(* The reader of the Mapbox specification *)

UnZigZag(u) == IF u % 2 = 0 THEN u \div 2 ELSE -(u \div 2) - 1

\* A reader of commands, integer by integer: how many parameters are left of the
\* current command, the cursor and the paths drawn so far.
NewReader == [left |-> 0, cursor |-> <<0, 0>>, paths |-> << >>]

ReadCommand(r, u) ==
    [r EXCEPT !.left = IF u % 8 = ClosePath THEN 0 ELSE 2 * (u \div 8),
              !.paths = IF u % 8 = MoveTo THEN Append(@, << >>) ELSE @]

ReadX(r, u) == [r EXCEPT !.left = @ - 1, !.cursor[1] = @ + UnZigZag(u)]

ReadY(r, u) ==
    LET p == <<r.cursor[1], r.cursor[2] + UnZigZag(u)>>
    IN  [left   |-> r.left - 1,
         cursor |-> p,
         paths  |-> Append(Front(r.paths), Append(Last(r.paths), p))]

ReadInteger(r, u) ==
    IF r.left = 0 THEN ReadCommand(r, u)
    ELSE IF r.left % 2 = 0 THEN ReadX(r, u) ELSE ReadY(r, u)

Decode(commands) == FoldLeft(ReadInteger, NewReader, commands).paths

=============================================================================
