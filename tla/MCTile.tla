------------------------------- MODULE MCTile -------------------------------
(* TileBuilder.tla on a tile of 16 pixels, whose clip buffer of 0.8 leaves  *)
(* fractions to round, with coordinates in tenths of a pixel: every shape   *)
(* added alone, and a point with attributes of all kinds by sequences of    *)
(* calls on two layers.                                                     *)
EXTENDS TileBuilder

Corners ==
    {<<30, 40>>, <<124, 90>>, <<-60, 55>>, <<220, 200>>, <<80, -90>>, <<167, 165>>, <<160, 0>>,
     <<-30, -34>>}

\* Points at the edge of the buffer, on either side.
EdgePoints == {<<168, -8>>, <<169, 80>>, <<-9, 5>>, <<4, 172>>, <<75, -5>>}

Shape(type, paths) == [type |-> type, paths |-> paths]

Triples == {<<a, b, c>> : a \in Corners, b \in Corners, c \in Corners}

\* A line in two parts of a step each.
Zigzag(n) == [i \in 1..n |-> <<20 + 10 * (i % 2), 30>>]

\* A square, a concave ring that leaves the tile twice, and holes: inside, over
\* the edge of the tile, beyond it, and of no area.
Square == <<<<10, 10>>, <<140, 10>>, <<140, 140>>, <<10, 140>>>>
Claw == <<<<-90, 20>>, <<250, 20>>, <<250, 140>>, <<100, 80>>, <<-90, 140>>>>
InnerHole == <<<<40, 40>>, <<40, 90>>, <<90, 40>>>>
EdgeHole == <<<<120, 40>>, <<220, 40>>, <<220, 80>>, <<120, 70>>>>
FarHole == <<<<200, 40>>, <<220, 40>>, <<220, 80>>>>
FlatHole == <<<<30, 30>>, <<50, 50>>, <<70, 70>>>>

\* Rings that cross themselves: with equal halves, with one of them beyond the edge,
\* and with unequal ones.
BowTie == <<<<20, 20>>, <<120, 120>>, <<120, 20>>, <<20, 120>>>>
CutBowTie == <<<<-80, 20>>, <<100, 120>>, <<100, 20>>, <<-80, 120>>>>
UnevenBowTie == <<<<20, 20>>, <<140, 140>>, <<140, 20>>, <<20, 60>>>>

Shapes ==
    {Shape("Point", <<<<p>>>>) : p \in Corners \cup EdgePoints}
      \cup {Shape("LineString", <<t>>) : t \in Triples}
      \cup {Shape("LineString", <<Zigzag(n)>>) : n \in 0..3}
      \cup {Shape("Polygon", <<t>>) : t \in Triples}
      \cup {Shape("Polygon", <<Square, InnerHole, FlatHole>>),
            Shape("Polygon", <<Claw, InnerHole, EdgeHole, FarHole>>),
            Shape("Polygon", <<Reverse(Claw), Reverse(EdgeHole), InnerHole>>),
            Shape("Polygon", <<BowTie>>), Shape("Polygon", <<CutBowTie>>),
            Shape("Polygon", <<UnevenBowTie>>), Shape("Polygon", <<Square, BowTie>>)}

ByteCounts == [s \in {"k", "l", "x"} |-> 1] @@ [s \in {"v126", "t128"} |-> IF s = "v126" THEN 126 ELSE 128]

Attributes ==
    {<< >>,
     <<<<"k", <<"string", "x">>>>>>,
     <<<<"l", <<"char", "x">>>>, <<"k", <<"int", 64>>>>>>,
     <<<<"k", <<"ulong", 64>>>>>>,
     <<<<"k", Null>>, <<"l", <<"double", 64>>>>>>,
     <<<<"l", <<"bool", 1>>>>, <<"t128", Unsupported>>>>,
     <<<<"k", <<"string", "v126">>>>>>}

\* Features of 125 to 132 bytes: a line of 59, 2 for each of m tags, and the rest.
Long(m) ==
    [names |-> {"x"}, shapes |-> {Shape("LineString", <<Zigzag(30)>>)},
     attributes |-> {[i \in 1..m |-> <<"k", <<"int", 64>>>>]}, ids |-> {Null, 128}, calls |-> 1]

Sources ==
    {[names |-> {"x"}, shapes |-> {s}, attributes |-> {<< >>}, ids |-> {Null},
      calls |-> 1] : s \in Shapes}
      \cup {Long(m) : m \in 27..30}
      \cup {[names |-> {"x", "v126"}, shapes |-> {Shape("Point", <<<<<<30, 44>>>>>>)},
             attributes |-> Attributes, ids |-> {Null, 128}, calls |-> 3]}
=============================================================================
