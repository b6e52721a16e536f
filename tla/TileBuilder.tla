----------------------------- MODULE TileBuilder ----------------------------
(***************************************************************************)
(* TileBuilder, LayerBuilder, TagEncoder and ProtoBuffer                   *)
(* (dotnet/MvtNet/Bson.MvtNet): features added to the layers of a tile,    *)
(* each call a step, and the sizes that Build declares and writes.         *)
(*                                                                         *)
(* Abstractions.  Callers give a coordinate as ProjectUnrounded projects   *)
(* it, in multiples of 1/Grain of a pixel.  A value of an attribute is its *)
(* .NET type and a value of the protobuf type it is stored as, in the      *)
(* sense of that type's dictionary, to which 0.0 and -0.0 are one.  A      *)
(* buffer is the sequence of the fields written to it; of a field's bytes  *)
(* only the number matters.                                                *)
(***************************************************************************)
EXTENDS TileGeometry

CONSTANTS
    Grain,          \* how many of a caller's units make a pixel
    ByteCount,      \* ByteCount[s]: the UTF-8 bytes of the string s
    Null,           \* no value, no id
    Unsupported,    \* a value of a type GetOrAddValue has no case for
    Source          \* what callers may add: the names of layers, shapes,
                    \* attributes and ids, in so many calls (a bound)

ASSUME GrainAssumption == Grain \in Nat \ {0}

Strings == DOMAIN ByteCount

VARIABLES
    source,     \* what this tile's callers add
    layers,     \* layers[name]: the LayerBuilder, in _layers
    layerOrder, \* _layerOrder
    calls       \* history: the calls that add features, and what became of them

vars == <<source, layers, layerOrder, calls>>

-----------------------------------------------------------------------------
(* ProtoBuffer *)

\* The bytes WriteVarint writes: one, and one more for each shift by 7 while
\* the value is 0x80 or more.  (Values below 128^4.)
WriteVarint(value) == 1 + Cardinality({k \in 1..3 : value \div 128 ^ (k - 1) >= 128})

\* Fault: 128 is taken for a value of one byte.
VarintSizeShort(value) == 1 + Cardinality({k \in 1..3 : value \div 128 ^ (k - 1) > 128})

VarintSize(value) == 1 + Cardinality({k \in 1..3 : value \div 128 ^ (k - 1) >= 128})

Total(sizes) == FoldLeft(+, 0, sizes)

PackedSize(values) == Total([i \in 1..Len(values) |-> VarintSize(values[i])])

\* What WriteString and WritePacked write.
WriteString(s) == WriteVarint(ByteCount[s]) + ByteCount[s]
WritePacked(values) ==
    WriteVarint(PackedSize(values)) + Total([i \in 1..Len(values) |-> WriteVarint(values[i])])

-----------------------------------------------------------------------------
(* TagEncoder *)

Stored == {"string", "int", "double", "float", "bool", "uint"}

AsString == {"string", "Enum", "char", "Guid", "DateTime", "DateTimeOffset"}
AsInt == {"int", "long", "short", "byte", "sbyte", "ushort", "uint"}

\* The switch of GetOrAddValue.
StoredAs(type) ==
    CASE type \in AsString -> "string"
      [] type \in AsInt -> "int"
      [] type \in {"double", "decimal"} -> "double"
      [] type \in {"float", "bool"} -> type
      [] type = "ulong" -> "uint"

\* The pairs of attributes: of a key, and a type and value.
Pairs ==
    Strings \X ({Null, Unsupported}
                  \cup AsString \X Strings \cup {"ulong"} \X Nat
                  \cup (AsInt \cup {"double", "decimal", "float", "bool"}) \X Int)

\* keys and values are EncodedKeys and EncodedValues.
NewTags ==
    [keyIndex   |-> << >>, keyCount   |-> 0, keys   |-> << >>,
     valueIndex |-> [type \in Stored |-> << >>], valueCount |-> 0, values |-> << >>]

\* Dictionary.Add
MapAdd(map, key, value) ==
    [k \in DOMAIN map \cup {key} |-> IF k = key THEN value ELSE map[k]]

\* GetOrAddKey, with GetOrAddIndex: a new key takes the next index of all keys.
AddKey(tags, key) ==
    IF key \in DOMAIN tags.keyIndex THEN tags
    ELSE [tags EXCEPT !.keyIndex = MapAdd(@, key, tags.keyCount),
                      !.keyCount = @ + 1,
                      !.keys = Append(@, key)]

\* GetOrAddStringValue and the others: each type has a dictionary, and all
\* share one count.
AddValue(tags, type, v) ==
    IF v \in DOMAIN tags.valueIndex[type] THEN tags
    ELSE [tags EXCEPT !.valueIndex[type] = MapAdd(@, v, tags.valueCount),
                      !.valueCount = @ + 1,
                      !.values = Append(@, <<type, v>>)]

\* One pair of WriteTags, onto what the pairs before it left: the tags, the
\* scratch buffer, and whether an exception has ended the loop.
WritePair(acc, pair) ==
    LET value == pair[2]
        keyed == AddKey(acc.tags, pair[1])
        withKey == Append(acc.scratch, keyed.keyIndex[pair[1]])
    IN  IF acc.threw \/ value = Null THEN acc
        ELSE IF value = Unsupported
             THEN [tags |-> keyed, scratch |-> withKey, threw |-> TRUE]
             ELSE LET type == StoredAs(value[1])
                      tags == AddValue(keyed, type, value[2])
                  IN  [tags |-> tags,
                       scratch |-> Append(withKey, tags.valueIndex[type][value[2]]),
                       threw |-> FALSE]

\* Fault: the buffer still holds what a call that threw left in it.
WriteTagsAfterOthers(layer, attributes) ==
    FoldLeft(WritePair, [tags |-> layer.tags, scratch |-> layer.tagScratch, threw |-> FALSE],
             attributes)

\* _tagScratch.Clear() and WriteTags.
WriteTags(layer, attributes) ==
    FoldLeft(WritePair, [tags |-> layer.tags, scratch |-> << >>, threw |-> FALSE],
             attributes)

-----------------------------------------------------------------------------
(* LayerBuilder *)

NewLayer(name) ==
    [name |-> name, tags |-> NewTags, features |-> << >>, tagScratch |-> << >>, nextId |-> 1]

\* The bytes of _tagScratch.
TagBytes(tags) == Total([i \in 1..Len(tags) |-> WriteVarint(tags[i])])

\* The length AddFeature declares for a feature.
FeatureBody(id, tags, geometry) ==
    LET tagBytes == TagBytes(tags)
        geometryBytes == PackedSize(geometry)
    IN  1 + VarintSize(id) + 1 + 1 + 1 + VarintSize(geometryBytes) + geometryBytes
          + (IF tagBytes > 0 THEN 1 + VarintSize(tagBytes) + tagBytes ELSE 0)

\* The layer after AddFeature, which threw when WriteTags does.
AddFeature(layer, type, id, geometry, attributes) ==
    LET written == WriteTags(layer, attributes)
        tagged == [layer EXCEPT !.tags = written.tags, !.tagScratch = written.scratch]
        featureId == IF id = Null THEN layer.nextId ELSE id
        feature == [id |-> featureId, type |-> type, tags |-> written.scratch,
                    geometry |-> geometry,
                    body |-> FeatureBody(featureId, written.scratch, geometry)]
    IN  IF written.threw THEN tagged
        ELSE [tagged EXCEPT !.features = Append(@, feature),
                            !.nextId = IF id = Null THEN @ + 1 ELSE @]

\* ProjectUnrounded, and ProjectAll, which rounds.
Unrounded(c) == <<Fraction(c[1], Grain), Fraction(c[2], Grain)>>

ProjectAll(coords) == [i \in 1..Len(coords) |-> Rounded(Unrounded(coords[i]))]

\* OverlapsTile: the bounding box, unrounded, meets the tile and its buffer.
OverlapsTile(coords) ==
    LET Apart(side) == \A i \in DOMAIN coords : side \in Outside(Unrounded(coords[i]))
    IN  ~\E side \in {"left", "right", "bottom", "top"} : Apart(side)

\* A ring of AddPolygon as it is encoded, <<>> when it is dropped.
Ring(ring, exterior) ==
    IF Len(ring) < 3 THEN << >>
    ELSE LET clipped == ClipRing(ProjectAll(ring))
         IN  IF Len(clipped) < 3 THEN << >> ELSE Orient(clipped, exterior)

AppendNonEmpty(paths, path) == IF path = << >> THEN paths ELSE Append(paths, path)

NonEmpty(paths) == FoldLeft(AppendNonEmpty, << >>, paths)

\* The geometries the Add methods hand to AddFeature, <<>> when they skip.
PointGeometry(p) ==
    IF Outside(Unrounded(p)) = {} THEN EncodePoint(Rounded(Unrounded(p))) ELSE << >>

LineGeometry(coords) ==
    LET segments == ClipLine(ProjectAll(coords))
    IN  IF Len(coords) < 2 \/ ~OverlapsTile(coords) \/ segments = << >> THEN << >>
        ELSE EncodePaths(segments, FALSE)

PolygonGeometry(rings) ==
    LET outer == IF OverlapsTile(rings[1]) THEN Ring(rings[1], TRUE) ELSE << >>
        holes == [i \in 1..(Len(rings) - 1) |-> Ring(rings[i + 1], FALSE)]
    IN  IF outer = << >> THEN << >>
        ELSE EncodePaths(<<outer>> \o NonEmpty(holes), TRUE)

-----------------------------------------------------------------------------
Init ==
    /\ source \in Source
    /\ layers = << >>
    /\ layerOrder = << >>
    /\ calls = << >>

\* TileBuilder.Layer, for a name it has not seen.
Layer(name) ==
    /\ name \notin DOMAIN layers
    /\ layers' = MapAdd(layers, name, NewLayer(name))
    /\ layerOrder' = Append(layerOrder, name)
    /\ UNCHANGED <<source, calls>>

\* A call of an Add method of a layer with the geometry it comes to.
Add(name, shape, geometry, attributes, id) ==
    LET layer == AddFeature(layers[name], shape.type, id, geometry, attributes)
        outcome == IF geometry = << >> THEN "skipped"
                   ELSE IF layer.features = layers[name].features THEN "threw" ELSE "added"
    IN  /\ layers' = IF geometry = << >> THEN layers ELSE [layers EXCEPT ![name] = layer]
        /\ calls' = Append(calls, [name |-> name, shape |-> shape, attributes |-> attributes,
                                   id |-> id, outcome |-> outcome])
        /\ UNCHANGED <<source, layerOrder>>

AddPoint(name, shape, attributes, id) ==
    /\ shape.type = "Point"
    /\ Add(name, shape, PointGeometry(shape.paths[1][1]), attributes, id)

AddLineString(name, shape, attributes, id) ==
    /\ shape.type = "LineString"
    /\ Add(name, shape, LineGeometry(shape.paths[1]), attributes, id)

AddPolygon(name, shape, attributes, id) ==
    /\ shape.type = "Polygon"
    /\ Add(name, shape, PolygonGeometry(shape.paths), attributes, id)

Next ==
    \/ \E name \in source.names : Layer(name)
    \/ /\ Len(calls) < source.calls
       /\ \E name \in DOMAIN layers, shape \in source.shapes,
             attributes \in source.attributes, id \in source.ids :
             \/ AddPoint(name, shape, attributes, id)
             \/ AddLineString(name, shape, attributes, id)
             \/ AddPolygon(name, shape, attributes, id)

Spec == Init /\ [][Next]_vars

\* What callers add is of the types of the Add methods' parameters.
ASSUME SourceAssumption ==
    /\ ByteCount \in [Strings -> Nat]
    /\ \A s \in Source :
        /\ s.names \subseteq Strings
        /\ s.ids \subseteq Nat \cup {Null}
        /\ s.attributes \subseteq Seq(Pairs)
        /\ \A shape \in s.shapes :
            /\ shape.paths \in Seq(Seq(Int \X Int)) /\ shape.paths # << >>
            /\ shape.type = "Point" => shape.paths[1] # << >>

-----------------------------------------------------------------------------
(* Build *)

\* LayerBuilder.BodySize and FramedSize, of EncodedKeys and the other buffers
\* as they were written.
KeySize(key) == 1 + WriteString(key)

ValueBody(type, v) ==
    CASE type = "string" -> 1 + VarintSize(ByteCount[v]) + ByteCount[v]
      [] type = "float"  -> 1 + 4
      [] type = "double" -> 1 + 8
      [] type = "int"    -> 1 + VarintSize(ZigZag(v))
      [] type = "uint"   -> 1 + VarintSize(v)
      [] type = "bool"   -> 1 + 1

\* What is written after a value's header.
ValueWritten(type, v) ==
    CASE type = "string" -> 1 + WriteString(v)
      [] type = "float"  -> 1 + 4
      [] type = "double" -> 1 + 8
      [] type = "int"    -> 1 + WriteVarint(ZigZag(v))
      [] type = "uint"   -> 1 + WriteVarint(v)
      [] type = "bool"   -> 1 + 1

\* What AddFeature writes after a feature's length.
FeatureWritten(f) ==
    1 + WriteVarint(f.id)
      + (IF f.tags = << >> THEN 0 ELSE 1 + WriteVarint(TagBytes(f.tags)) + TagBytes(f.tags))
      + 1 + 1 + 1 + WritePacked(f.geometry)

\* The bytes of _features, EncodedKeys and EncodedValues.
FeaturesCount(layer) ==
    Total([i \in 1..Len(layer.features) |->
              1 + WriteVarint(layer.features[i].body) + FeatureWritten(layer.features[i])])

KeysCount(layer) == Total([i \in 1..Len(layer.tags.keys) |-> KeySize(layer.tags.keys[i])])

ValuesCount(layer) ==
    Total([i \in 1..Len(layer.tags.values) |->
              LET value == layer.tags.values[i]
              IN  1 + WriteVarint(ValueBody(value[1], value[2]))
                    + ValueWritten(value[1], value[2])])

BodySize(layer) ==
    1 + VarintSize(ByteCount[layer.name]) + ByteCount[layer.name]
      + FeaturesCount(layer) + KeysCount(layer) + ValuesCount(layer)
      + 1 + VarintSize(Extent) + 1 + 1

FramedSize(layer) == 1 + VarintSize(BodySize(layer)) + BodySize(layer)

\* What WriteTo writes after the layer's length.
LayerWritten(layer) ==
    1 + WriteString(layer.name)
      + FeaturesCount(layer) + KeysCount(layer) + ValuesCount(layer)
      + 1 + WriteVarint(Extent) + 1 + 1

-----------------------------------------------------------------------------
(* Properties *)

\* The calls that added a feature to a layer, and the pairs that WriteTags keeps.
AppendAdded(added, name, c) ==
    IF c.name = name /\ c.outcome = "added" THEN Append(added, c) ELSE added

AddedOf(name, cs) == FoldLeft(LAMBDA added, c : AppendAdded(added, name, c), << >>, cs)

Added(name) == AddedOf(name, calls)

AppendGiven(given, pair) == IF pair[2] = Null THEN given ELSE Append(given, pair)

Given(attributes) == FoldLeft(AppendGiven, << >>, attributes)

\* LayerBuilder's remarks, "Pairs with a null value are dropped" and "ids are
\* assigned 1, 2, 3, ... per layer": the tags of every feature, read with the
\* layer's keys and values of now, are the attributes it was added with, and its
\* id the given or the next one, whatever other calls interned, also calls that
\* threw half way.
TagsDecode ==
    \A name \in DOMAIN layers :
        LET layer == layers[name]
            added == Added(name)
        IN  /\ Len(layer.features) = Len(added)
            /\ \A i \in DOMAIN added :
                  LET feature == layer.features[i]
                      given == Given(added[i].attributes)
                      before == {j \in 1..i : added[j].id = Null}
                  IN  /\ Len(feature.tags) = 2 * Len(given)
                      /\ \A k \in DOMAIN given :
                            LET value == given[k][2]
                            IN  /\ layer.tags.keys[feature.tags[2 * k - 1] + 1] = given[k][1]
                                /\ layer.tags.values[feature.tags[2 * k] + 1]
                                       = <<StoredAs(value[1]), value[2]>>
                      /\ feature.id = IF added[i].id = Null THEN Cardinality(before)
                                      ELSE added[i].id

(* What a reader of a geometry draws, on the pixels of the tile.           *)
Inner == (1..(Extent - 1)) \X (1..(Extent - 1))

Cross(g, a, b) == (b[1] - a[1]) * (g[2] - a[2]) - (b[2] - a[2]) * (g[1] - a[1])

Spans(g, a, b, margin) ==
    \A i \in {1, 2} : g[i] \in (Min({a[i], b[i]}) - margin)..(Max({a[i], b[i]}) + margin)

OnStep(g, a, b) == Cross(g, a, b) = 0 /\ Spans(g, a, b, 0)

\* Within a pixel of the step, which is how far rounding its ends moves it.
NearStep(g, a, b) ==
    /\ Abs(Cross(g, a, b)) <= Max({Abs(b[1] - a[1]), Abs(b[2] - a[2])})
    /\ Spans(g, a, b, 1)

Steps(path) == {<<path[i], path[i + 1]>> : i \in 1..(Len(path) - 1)}
Sides(ring) == {<<Before(ring, i), ring[i]>> : i \in 1..Len(ring)}

InBuffer(path) ==
    \A i \in DOMAIN path : \A k \in {1, 2} : path[i][k] \in Round(Least)..Round(Greatest)

ShowsLine(paths, coords) ==
    /\ \A path \in ToSet(paths) :
          /\ Len(path) >= 2 /\ InBuffer(path)
          /\ \A step \in Steps(path) : step[1] # step[2]
          /\ \A p \in ToSet(path) : \E s \in Steps(coords) : NearStep(p, s[1], s[2])
    /\ \A s \in Steps(coords) : s[1] # s[2] =>
          \A g \in Inner : OnStep(g, s[1], s[2]) =>
              \E path \in ToSet(paths) : \E d \in Steps(path) : NearStep(g, d[1], d[2])

\* Whether the rings, the outer and its holes, surround g: the sides that a ray
\* from g to the right crosses are odd in number.
Surround(rings, g) ==
    LET Crossed(s) ==
          /\ (s[1][2] <= g[2]) # (s[2][2] <= g[2])
          /\ (Cross(g, s[1], s[2]) > 0) = (s[2][2] > s[1][2])
    IN  Total([i \in 1..Len(rings) |-> Cardinality({s \in Sides(rings[i]) : Crossed(s)})]) % 2 = 1

\* A ring that covers, in the tile, as much to its left as to its right: a bow tie, and
\* a flat one, which covers nothing.
Cancels(ring) ==
    LET clipped == ClipRing(ring) IN Len(clipped) >= 3 /\ SignedArea(clipped) = 0

\* The rings of a polygon that Orient does not drop: with the outer one, all.
Kept(rings) ==
    IF Cancels(rings[1]) THEN << >> ELSE SelectSeq(rings, LAMBDA ring : ~Cancels(ring))

ShowsPolygon(paths, rings) ==
    /\ \A i \in DOMAIN paths :
          /\ Len(paths[i]) >= 3 /\ InBuffer(paths[i])
          /\ \A s \in Sides(paths[i]) : s[1] # s[2]
          /\ IF i = 1 THEN SignedArea(paths[i]) > 0 ELSE SignedArea(paths[i]) < 0
    /\ LET kept == Kept(rings)
       IN  \A g \in Inner :
             (\A i \in DOMAIN rings : \A s \in Sides(rings[i]) : ~NearStep(g, s[1], s[2]))
                 => Surround(paths, g) = Surround(kept, g)

\* A point that is not further out than a twentieth of the tile is drawn half a
\* pixel from where it is, or nearer, which may be outside of that margin.
ShowsPoint(paths, p) ==
    IF \A i \in {1, 2} : 20 * p[i] \in (-Grain * Extent)..(21 * Grain * Extent)
    THEN \E path \in ToSet(paths) : \E q \in ToSet(path) :
            /\ paths = <<<<q>>>>
            /\ \A i \in {1, 2} : 2 * Abs(Grain * q[i] - p[i]) <= Grain
    ELSE paths = << >>

Shows(type, paths, shape) ==
    LET rounded == [i \in DOMAIN shape |-> ProjectAll(shape[i])]
    IN  CASE type = "Point" -> ShowsPoint(paths, shape[1][1])
          [] type = "LineString" -> ShowsLine(paths, rounded[1])
          [] type = "Polygon" -> ShowsPolygon(paths, rounded)

\* AddPoint's "points inside the tile or its small buffer margin are kept",
\* AddLineString's "only the visible portion is encoded", AddPolygon's "clipped to
\* the tile plus a small buffer" and the orientation of its rings: what the commands
\* draw is, to a pixel, what the tile shows of the shape on its pixels, and a shape
\* that was skipped has nothing to show.  Not so of a ring that covers as much to its
\* left as to its right, such as a bow tie: it is dropped, and with the outer one the
\* polygon.
GeometryShown ==
    /\ \A k \in DOMAIN calls : calls[k].outcome = "skipped" =>
          Shows(calls[k].shape.type, << >>, calls[k].shape.paths)
    /\ \A name \in DOMAIN layers : \A i \in DOMAIN layers[name].features :
          LET shape == Added(name)[i].shape
          IN  Shows(shape.type, Decode(layers[name].features[i].geometry), shape.paths)

\* WireFormatTests.cs:82, "ByteForByte": every length that is written before the
\* bytes it counts, and every array allocated for them, has their number.
SizesExact ==
    \A name \in DOMAIN layers :
        LET layer == layers[name]
        IN  /\ \A i \in DOMAIN layer.features :
                  LET f == layer.features[i]
                      paths == Decode(f.geometry)
                  IN  /\ f.body = FeatureWritten(f)
                      /\ f.type # "Point" =>
                           Len(f.geometry) = Total([k \in 1..Len(paths) |->
                               PathSize(Len(paths[k]), f.type = "Polygon")])
            /\ \A i \in DOMAIN layer.tags.values :
                  LET value == layer.tags.values[i]
                  IN  ValueBody(value[1], value[2]) = ValueWritten(value[1], value[2])
            /\ BodySize(layer) = LayerWritten(layer)
            /\ FramedSize(layer) = 1 + WriteVarint(BodySize(layer)) + LayerWritten(layer)

=============================================================================
