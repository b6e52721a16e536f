----------------------------- MODULE MCHilbert ------------------------------
(* On the grid of four cells a side every list of up to two items, and     *)
(* three that share a cell; on the grid of eight, where the curve has      *)
(* three levels, lists of up to two items in five cells of both halves,    *)
(* the edges included.                                                     *)
EXTENDS HilbertIndex

Sorted(l) == \A k \in 2..Len(l) : l[k - 1] <= l[k]

Lists(hids, length) == {l \in [1..length -> hids] : Sorted(l)}

Spread ==
    {Encode(c, 8) :
        c \in {Cell(3, 3), Cell(4, 4), Cell(5, 2), Cell(0, 6), Cell(7, 4)}}

Indexes ==
    LET On(n, lists) == {[n |-> n, hids |-> l] : l \in lists}
    IN  On(4, UNION {Lists(0..15, k) : k \in 0..2})
        \cup On(4, {<<h, h, h>> : h \in 0..15})
        \cup On(8, UNION {Lists(Spread, k) : k \in 0..2})
=============================================================================
