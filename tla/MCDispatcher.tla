---------------------------- MODULE MCDispatcher ----------------------------
(* Small instances of Dispatcher, with partitions of capacity one. *)
EXTENDS Dispatcher

CONSTANTS i1, i2, i3, i4, i5, i6, i7

Keys == [i \in Item |-> IF i \in {i4, i6, i7} THEN 2 ELSE 1]

\* The first item of partition 1 enqueues one of partition 2.
OneChild == [i \in Item |-> IF i = i1 THEN i4 ELSE None]

\* An item of partition 1 enqueues one of its own, which its worker finds full when
\* another is queued, and one of each partition enqueues one of the other, so that
\* each of two workers may wait for room that only the other can make.
Children ==
    [i \in Item |-> CASE i = i2 -> i3 [] i = i4 -> i1 [] i = i5 -> i6 [] OTHER -> None]
=============================================================================
