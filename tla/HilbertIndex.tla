---------------------------- MODULE HilbertIndex ----------------------------
(***************************************************************************)
(* Searches of src/dotnet/HilbertIndex: the ranges of HilbertCode, walked  *)
(* through the list of items by the iterator of ExtractItems.  An item is  *)
(* its Hid; its place in the list (from 0, as in the code) is its          *)
(* identity.  Within's and NearestNeighbours' sort by distance, and        *)
(* Within's last test of the distance, come after the walk and are not     *)
(* modelled: found is what they are given.                                 *)
(***************************************************************************)
EXTENDS HilbertCode

CONSTANTS
    Index,       \* the indexes there may be: [n, hids], the hids sorted
    MaxRanges,   \* the maxRanges a caller of GetRanges may ask for
    DefaultRangeCompactation,
    NoSearch

(* HilbertCode.cs:46-50: the grid's side is a power of two, at most 2^30,  *)
(* with which the numbers of its curve fill less than half of the ulongs.  *)
(* HilbertCode.cs:44: the default is 128, so each of the at most two parts *)
(* of a wrapped box may keep a range.                                      *)
ASSUME IndexAssumption ==
    /\ \A i \in Index : i.n \in {TwoTo[k] : k \in 0..30} /\ 2 * (i.n * i.n) <= ULong
    /\ \A i \in Index : i.hids \in Seq(0..(i.n * i.n - 1))
    /\ MaxRanges \subseteq Nat \ {0}
    /\ DefaultRangeCompactation \in Nat \ {0, 1}

(* HilbertIndex.cs:9, "assumed to be sorted": the constructor does not sort. *)
ASSUME SortedAssumption ==
    \A i \in Index : \A j, k \in 1..Len(i.hids) : j <= k => i.hids[j] <= i.hids[k]

VARIABLES
    index,       \* the HilbertIndex: the grid's n and _items
    search,      \* what is searched for: a box, or the cell of a position
    segments,    \* the ranges still to be walked, the current one first
    position,    \* the iterator's index into the items
    startIndex,
    found,       \* the places of the items yielded so far
    at           \* where the iterator stands

vars == <<index, search, segments, position, startIndex, found, at>>

Count == Len(index.hids)
Hid(i) == index.hids[i + 1]

(* The boxes EnvelopeToHilbertEnvelope gives for envelopes of the globe.   *)
Boxes(n) ==
    {HilbertEnvelope(sw.x, sw.y, p, q) : sw \in Grid(n), p \in 1..n, q \in 1..n}

BoxesOnGrid(n) == {b \in Boxes(n) : MaxX(b) <= n /\ MaxY(b) <= n}

Asks(kind, box, center, max) ==
    [kind |-> kind, box |-> box, center |-> center, max |-> max]

-----------------------------------------------------------------------------
(* List<T>.BinarySearch from an index on: any match, or the complement of  *)
(* the place where the number would be inserted.                           *)
BinarySearch(from, hid) ==
    LET matches == {i \in from..(Count - 1) : Hid(i) = hid}
        smaller == {i \in from..(Count - 1) : Hid(i) < hid}
    IN  IF matches # {} THEN matches
        ELSE {-(from + Cardinality(smaller)) - 1}

Complement(i) == -i - 1

\* Fault: the walk starts at whichever item of the Hid was met.
ScanDownNever(i) == i

(* The first place of ExtractItems' walk after BinarySearch: for a match,  *)
(* "scan down".  When the item before has the same Hid, the scan stops     *)
(* before the first of them.                                               *)
ScanDown(i) ==
    LET stop == Max({k \in -1..(i - 1) : k = -1 \/ Hid(k) # Hid(i)})
    IN  IF stop = i - 1 THEN i ELSE stop

WalkFrom(i) ==
    LET j == IF i > -1 THEN ScanDown(i) ELSE i
    IN  IF j < 0 THEN Complement(j) ELSE j

(* The neighbour on the curve that NearestNeighbours measures its box by.  *)
Neighbour1D(search1D, i) ==
    IF i > -1 THEN Hid(i)
    ELSE IF Complement(i) >= Count - 1 THEN Hid(Count - 1)
    ELSE LET min == Hid(Complement(i))
             max == Hid(Complement(i) + 1)
         IN  IF Minus(search1D, max) < Minus(min, search1D) THEN max ELSE min

-----------------------------------------------------------------------------
Init ==
    /\ index \in Index
    /\ search = NoSearch
    /\ segments = << >>
    /\ position = 0 /\ startIndex = 0
    /\ found = << >>
    /\ at = "idle"

Walk(r) ==
    /\ segments' = OrderBy(r)
    /\ at' = "seek"
    /\ UNCHANGED <<index, position, startIndex, found>>

(* The covers of boxes, computed once; 0 asks for no compaction.           *)
CoverOf ==
    [n \in {i.n : i \in Index} |->
        [b \in BoxesOnGrid(n) |->
            [max \in MaxRanges \cup {0, DefaultRangeCompactation} |->
                GetRange(b, n, max)]]]

(* HilbertCode.GetRanges, for a caller that makes range queries of its own.*)
(* It reads no items: one index of each grid is enough to call it on.      *)
GetRanges ==
    /\ at = "idle"
    /\ Count = 0
    /\ \E b \in BoxesOnGrid(index.n), max \in MaxRanges :
        /\ search' = Asks("ranges", b, Cell(b.x, b.y), max)
        /\ segments' = CoverOf[index.n][b][max]
    /\ at' = "ranges"
    /\ UNCHANGED <<index, position, startIndex, found>>

Within ==
    /\ at = "idle"
    /\ \E b \in BoxesOnGrid(index.n) :
        /\ search' = Asks("within", b, Cell(b.x, b.y), DefaultRangeCompactation)
        /\ Walk(CoverOf[index.n][b][DefaultRangeCompactation])

NearestNeighbours ==
    /\ at = "idle"
    /\ Count > 0
    /\ \E c \in Grid(index.n) :
        LET search1D == Encode(c, index.n)
        IN  \E i \in BinarySearch(0, search1D) :
              LET b == CreateBox1D(search1D, Neighbour1D(search1D, i), index.n)
              IN  /\ search' = Asks("nearest", b, c, DefaultRangeCompactation)
                  /\ Walk(GetRange(b, index.n, DefaultRangeCompactation))

(* Nothing to search: Enumerable.Empty.                                    *)
NearestOfNone ==
    /\ at = "idle"
    /\ Count = 0
    /\ at' = "done"
    /\ UNCHANGED <<index, search, segments, position, startIndex, found>>

Seek ==
    /\ at = "seek"
    /\ segments # << >>
    /\ \E i \in BinarySearch(startIndex, Head(segments)[1]) :
        position' = WalkFrom(i)
    /\ at' = "take"
    /\ UNCHANGED <<index, search, segments, startIndex, found>>

InRange == position < Count /\ Hid(position) <= Head(segments)[2]

Take ==
    /\ at = "take"
    /\ InRange
    /\ found' = Append(found, position)
    /\ position' = position + 1
    /\ UNCHANGED <<index, search, segments, startIndex, at>>

NextRange ==
    /\ at = "take"
    /\ ~InRange
    /\ startIndex' = position
    /\ segments' = Tail(segments)
    /\ at' = "seek"
    /\ UNCHANGED <<index, search, position, found>>

Finish ==
    /\ at = "seek"
    /\ segments = << >>
    /\ at' = "done"
    /\ UNCHANGED <<index, search, segments, position, startIndex, found>>

Next ==
    \/ GetRanges \/ Within \/ NearestNeighbours \/ NearestOfNone
    \/ Seek \/ Take \/ NextRange \/ Finish

Spec == Init /\ [][Next]_vars

-----------------------------------------------------------------------------
(* Properties                                                              *)

(* The curve as a table, and its inverse.                                  *)
PointOf == [n \in {i.n : i \in Index} |->
               [d \in 0..(n * n - 1) |-> DecodeToPoint(n, d)]]

CodeOf == [n \in {i.n : i \in Index} |-> [c \in Grid(n) |-> Encode(c, n)]]

ItemCell(i) == PointOf[index.n][Hid(i)]

Yielded == {found[k] : k \in DOMAIN found}

Distinct == \A i, j \in 0..(Count - 1) : Hid(i) = Hid(j) => i = j

(* The cells a box stands for on the globe: cell n - 1 is the edge, east   *)
(* of which the grid starts again.                                         *)
OnGlobe(b) ==
    {Cell(c.x % (index.n - 1), c.y) :
        c \in {d \in CellsOf(b) : d.y \in 0..(index.n - 2)}}

InSomeRange(d) == \E k \in DOMAIN segments : d \in segments[k][1]..segments[k][2]

(* HilbertCode.cs:91, "Coordinate system has 0,0 in lower left corner":    *)
(* Decode inverts Encode, and the curve goes from cell to adjacent cell,   *)
(* which is what makes near numbers near places.                           *)
CurveIsContinuous ==
    at = "idle" =>
        LET n == index.n
            point == PointOf[n]
        IN  \A d \in 0..(n * n - 1) :
                /\ CodeOf[n][point[d]] = d
                /\ d > 0 => Squared(point[d], point[d - 1]) = 1

(* HilbertCode.cs:143, "ranges of hilbert indices covering the envelope",  *)
(* however few ranges are asked for, for a box that is not wrapped; :138,  *)
(* "max number of returned ranges"; and :139, "as many ranges required to  *)
(* cover the box": with as many as there are cells allowed, no other cell  *)
(* is covered and no two ranges could be one.                              *)
RangesCover ==
    at = "ranges" /\ Inside(search.box, index.n) =>
        LET cells == CellsOf(search.box)
        IN  /\ \A c \in cells : InSomeRange(CodeOf[index.n][c])
            /\ Len(segments) <= search.max
            /\ search.max >= Cardinality(cells) =>
                /\ \A d \in 0..(index.n * index.n - 1) :
                      InSomeRange(d) => PointOf[index.n][d] \in cells
                /\ \A k \in 2..Len(segments) :
                      segments[k - 1][2] + 1 < segments[k][1]

(* Within's walk gives every item of the box, several in one cell and      *)
(* boxes across the date line included, unless it is in the last row or    *)
(* column of the grid.  When no two items share a Hid it gives each item   *)
(* once and in the order of the list, also for a box that is wrapped onto  *)
(* itself, and nothing else, unless the ranges had to be compacted.        *)
FoundExactly ==
    at = "done" /\ search # NoSearch /\ search.kind = "within" =>
        /\ \A i \in 0..(Count - 1) :
              ItemCell(i) \in OnGlobe(search.box) => i \in Yielded
        /\ Distinct =>
            /\ \A j, k \in DOMAIN found : j < k => found[j] < found[k]
            /\ Len(CoverOf[index.n][search.box][0]) <= DefaultRangeCompactation =>
                  \A i \in Yielded : \E c \in CellsOf(search.box) :
                      ItemCell(i) \in {c, Cell(c.x % (index.n - 1), c.y)}

(* HilbertIndex.cs:67, "Find the nearest neighbors": the nearest item on   *)
(* the grid is found, although only the nearest on the curve is asked for, *)
(* as long as the box around both fits the grid.                           *)
NearestFound ==
    at = "done" /\ search # NoSearch /\ search.kind = "nearest" =>
        LET n == index.n
            Away(i) == Squared(search.center, ItemCell(i))
            hw == search.center.x - search.box.x
        IN  2 * hw + 1 <= n - 1 =>
              \A i \in 0..(Count - 1) :
                /\ ItemCell(i).x < n - 1 /\ ItemCell(i).y < n - 1
                /\ \A j \in 0..(Count - 1) : Away(i) <= Away(j)
                => i \in Yielded
=============================================================================
